------------------------------- MODULE Genesis -------------------------------
(***************************************************************************)
(* The genesis of the development and test networks, and the values the    *)
(* runtime gives to the pallets' configuration.  The node's chain_spec.rs  *)
(* repeats the same users.                                                 *)
(***************************************************************************)
EXTENDS Reputation, TLC

CONSTANTS alice, bob, charlie, dave, eve

\* A record of the genesis: freelance work done, its value, work failed, disputes
\* won, and the ratings received.
Record(completed, earned, failed, won, average, ratings) ==
    [NoStats EXCEPT !.registered = TRUE, !.projects_completed = completed,
                    !.total_earned = earned, !.projects_failed = failed, !.disputes_won = won,
                    !.avg_rating_received = average, !.total_ratings_received = ratings]

\* initial_users: a client, a freelancer, and a juror of each tier
GenesisUsers ==
    (alice   :> [Record(0, 0, 0, 0, 4500, 8) EXCEPT !.projects_posted = 10, !.total_spent = 50000]) @@
    (bob     :> Record(15, 25000, 1, 1, 4200, 12)) @@
    (charlie :> Record(5, 1500, 0, 0, 4000, 5)) @@
    (dave    :> Record(25, 15000, 1, 2, 4300, 20)) @@
    (eve     :> Record(60, 75000, 2, 5, 4600, 50))

\* The pools build makes of a list of initial jurors: each juror joins the pool of
\* the tier its record earns.
GenesisPools(jurors, users) ==
    [t \in PoolTiers |-> SelectSeq(jurors, LAMBDA a : CalculateTier(users[a]) = t)]

\* initial_jurors
GenesisJurors == GenesisPools(<<charlie, dave, eve>>, GenesisUsers)

\* Config of pallet_reputation, pallet_projects and pallet_arbitration
RuntimeMaxPool       == <<200, 200, 100>>
RuntimeSlashPercent  == 10
RuntimeMaxApplicants == 100
RuntimeMinJurors     == 3
===============================================================================
