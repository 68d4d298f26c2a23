------------------------------ MODULE JuryRecord ------------------------------
(***************************************************************************)
(* The reputation pallet under arbitrary callers, with a history of the    *)
(* votes behind each juror's accuracy.                                     *)
(***************************************************************************)
EXTENDS ReputationCalls

VARIABLE agreed    \* history: the votes of each juror that were with the majority

juryVars == <<ledger, rep, agreed>>

\* Every genesis of the repository lists users without votes.
ASSUME NoVotesAssumption ==
    \A a \in Accounts : /\ InitialUsers[a].jury_participation = 0
                        /\ InitialUsers[a].jury_accuracy = 0

JuryInit == RepInit /\ agreed = [a \in Accounts |-> 0]

\* on_jury_vote, counted in the history if it is counted on the chain
JuryVote(a, withMajority) ==
    /\ IgnoredJuryVote(a, withMajority)
    /\ agreed' = IF withMajority /\ Registered(Chain, a) THEN [agreed EXCEPT ![a] = @ + 1] ELSE agreed

JuryNext ==
    \/ OtherCall /\ UNCHANGED agreed
    \/ \E a \in Accounts, withMajority \in BOOLEAN : JuryVote(a, withMajority)

JurySpec == JuryInit /\ [][JuryNext]_juryVars

-------------------------------------------------------------------------------
(* Properties *)

\* The accuracy on record is about the votes really cast.  It never claims more
\* than the share of votes with the majority; and while the weighted sum of
\* internal_jury_vote fits in 32 bits (beyond that a perfect juror's accuracy
\* falls with every vote), truncation has cost it at most one part per million
\* for each vote.
AccuracyTracksVotes ==
    \A a \in Accounts :
      LET st    == rep.ReputationStats[a]
          n     == st.jury_participation
          exact == 1000000 * agreed[a]
      IN  /\ st.jury_accuracy * n <= exact
          /\ n * 1000000 <= U32Max => exact - st.jury_accuracy * n <= n * n
===============================================================================
