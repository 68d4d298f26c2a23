----------------------------- MODULE MCReputation -----------------------------
(***************************************************************************)
(* Three users next to the tier thresholds, pools that fill up, and at     *)
(* most MaxCalls calls.                                                    *)
(***************************************************************************)
EXTENDS JuryRecord, TLC

CONSTANTS a1, a2, a3, MaxCalls

VARIABLE calls     \* how many calls have been made: the bound of the run

MCAccounts == {a1, a2, a3}
MCLockIds == {0}
MCProjectIds == {0}
MCMaxPool == <<2, 1, 1>>
MCInitialFree == [a \in MCAccounts |-> 5]
\* a1 is new, a2 one project short of Silver and a3 of Gold; a2 has lost one
\* dispute, so that two more outcomes can disqualify it.
MCInitialUsers ==
    (a1 :> NoStats) @@
    (a2 :> [NoStats EXCEPT !.registered = TRUE, !.projects_completed = 19, !.total_earned = 9600,
                           !.disputes_lost = 1]) @@
    (a3 :> [NoStats EXCEPT !.registered = TRUE, !.projects_completed = 49, !.total_earned = 49600])
MCInitialJurors == [t \in 1..3 |-> CASE t = 1 -> <<a2>> [] t = 2 -> <<a3>> [] t = 3 -> << >>]

MCInit == JuryInit /\ calls = 0
MCNext == calls < MaxCalls /\ calls' = calls + 1 /\ JuryNext
MCSpec == MCInit /\ [][MCNext]_<<juryVars, calls>>
===============================================================================
