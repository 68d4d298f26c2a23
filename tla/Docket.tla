-------------------------------- MODULE Docket --------------------------------
(***************************************************************************)
(* The disputes as the oracle sees them: a project gets a dispute, the     *)
(* dispute awaits one ruling of the oracle, and once it has been ruled on  *)
(* it never waits for the oracle again, whatever the parties and juries    *)
(* do.  Arbitration implements this specification, and AiOracle is built   *)
(* on it: the services need to know no more of the chain.                  *)
(***************************************************************************)
EXTENDS Naturals

CONSTANT Cases      \* the projects that may be disputed

VARIABLE docket     \* the state of each project's dispute

DocketInit == docket = [p \in Cases |-> "None"]

\* create_dispute
Open(p) ==
    /\ docket[p] = "None"
    /\ docket' = [docket EXCEPT ![p] = "Awaited"]

\* submit_ruling
Rule(p) ==
    /\ docket[p] = "Awaited"
    /\ docket' = [docket EXCEPT ![p] = "Ruled"]

DocketNext == \E p \in Cases : Open(p) \/ Rule(p)

DocketSpec == DocketInit /\ [][DocketNext]_docket
===============================================================================
