----------------------------- MODULE RulingRecord -----------------------------
(***************************************************************************)
(* The runtime with a history of when each dispute got its last ruling.    *)
(***************************************************************************)
EXTENDS Arbitration

VARIABLE ruledAt    \* history: the block of the last ruling, by project

recordVars == <<vars, ruledAt>>

\* The oracle or a round of votes gives p a ruling in this step.
RulingGiven(p) ==
    /\ disputes[p] # None
    /\ disputes[p].ruling = None
    /\ disputes'[p].ruling # None

RecordInit == ArbInit /\ ruledAt = [p \in ProjectIds |-> 0]

RecordNext ==
    /\ ArbNext
    /\ ruledAt' = [p \in ProjectIds |-> IF RulingGiven(p) THEN block ELSE ruledAt[p]]

RecordSpec == RecordInit /\ [][RecordNext]_recordVars

-------------------------------------------------------------------------------
(* Properties *)

\* Whoever lost has the whole appeal period after the ruling to appeal, and then no
\* longer: an appeal comes before its end and an enforcement not before it, counted
\* from the block of the ruling itself, whether the oracle gave it or a jury, and
\* however long that took.  So no ruling can be appealed and enforced in one block,
\* where the order of the two calls would decide (appeal_ruling and
\* enforce_final_ruling share start_block, which submit_ruling and finalize_round
\* set again).
AppealWindowKept ==
    [][\A p \in ProjectIds : disputes[p] # None =>
         /\ disputes'[p].round > disputes[p].round => block < ruledAt[p] + AppealPeriod
         /\ disputes[p].status # "Finalized" /\ disputes'[p].status = "Finalized" =>
              block >= ruledAt[p] + AppealPeriod
      ]_disputes
===============================================================================
