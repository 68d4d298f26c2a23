------------------------------- MODULE MCScores -------------------------------
(***************************************************************************)
(* Users at the edges of the scores' brackets, and at most MaxCalls steps. *)
(***************************************************************************)
EXTENDS Scores, Genesis

CONSTANT MaxCalls

VARIABLE calls     \* how many steps have been taken: the bound of the run

\* dave and eve are those of the genesis.  alice is new; bob is at the end of the
\* second bracket of projects; charlie is close to the largest earnings that
\* raise a score, and has won and lost disputes.
MCAccounts == {alice, bob, charlie, dave, eve}
MCLockIds == {0}
MCProjectIds == {0}
MCInitialFree == [a \in MCAccounts |-> 5]
MCInitialUsers ==
    [GenesisUsers EXCEPT ![alice] = NoStats,
       ![bob] = [Record(20, 9900, 1, 0, 4200, 12) EXCEPT !.projects_posted = 3, !.total_spent = 49900],
       ![charlie] = [Record(5, 99900, 2, 2, 4000, 5) EXCEPT !.disputes_lost = 1]]
MCInitialJurors == GenesisPools(<<dave, eve>>, MCInitialUsers)
MCJumps == {9999, 10000, 40000}
MCWeightings ==
    {[completion_weight |-> 100, dispute_penalty |-> 50, time_decay_rate |-> 0],
     [completion_weight |-> 130, dispute_penalty |-> 400, time_decay_rate |-> 999999]}

MCInit == ScoreInit /\ calls = 0
MCNext == calls < MaxCalls /\ calls' = calls + 1 /\ ScoreNext
MCSpec == MCInit /\ [][MCNext]_<<scoreVars, calls>>
===============================================================================
