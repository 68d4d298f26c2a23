------------------------------ MODULE MCProjects ------------------------------
(***************************************************************************)
(* Two users who both post and do projects, for each other and for         *)
(* themselves, with balances too small for two budgets.                    *)
(***************************************************************************)
EXTENDS Projects, TLC

CONSTANTS alice, bob

MCAccounts == {alice, bob}
MCProjectIds == 0..(MaxProjects - 1)
MCLockIds == {GenerateLockId(p) : p \in MCProjectIds}
MCMaxPool == <<1, 1, 1>>
MCInitialFree == (alice :> 7) @@ (bob :> 6)
\* alice has no statistics yet; bob is one project short of a higher tier.
MCInitialUsers ==
    (alice :> NoStats) @@
    (bob :> [NoStats EXCEPT !.registered = TRUE, !.projects_completed = 19, !.total_earned = 9996])
MCInitialJurors == [t \in 1..3 |-> IF t = 1 THEN <<bob>> ELSE << >>]
===============================================================================
