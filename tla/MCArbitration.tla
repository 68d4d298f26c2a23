----------------------------- MODULE MCArbitration -----------------------------
(***************************************************************************)
(* One client and one freelancer in dispute, jurors of the three tiers:    *)
(* the users of the genesis.                                               *)
(***************************************************************************)
EXTENDS Arbitration, Genesis

CONSTANTS
    pot,              \* the pallet's account
    ClientFree,       \* what the client owns
    FreelancerFree    \* what the freelancer owns

MCAccounts == {alice, bob, charlie, dave, eve, pot}
MCProjectIds == 0..(MaxProjects - 1)
MCLockIds == {GenerateLockId(p) : p \in MCProjectIds}
MCMaxPool == <<2, 2, 2>>
MCInitialFree == (alice :> ClientFree) @@ (bob :> FreelancerFree) @@ (pot :> 0) @@
                 [a \in {charlie, dave, eve} |-> 100]
MCInitialUsers == (pot :> NoStats) @@ GenesisUsers
\* A client and juror one project short of Silver, whose pool is full
MCUsersAtThreshold == [MCInitialUsers EXCEPT ![charlie] = Record(19, 10000, 0, 0, 4000, 5)]
MCFullSilverPool == <<2, 1, 2>>
===============================================================================
