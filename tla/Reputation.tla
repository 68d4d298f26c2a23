------------------------------ MODULE Reputation ------------------------------
(***************************************************************************)
(* pallets/reputation: users' statistics, the tiers they earn, the pools   *)
(* of opted-in jurors, their stakes, and the round-robin jury selection.   *)
(*                                                                         *)
(* The pallet is called by users (extrinsics) and, through the trait       *)
(* ReputationInterface, by the projects and arbitration pallets inside     *)
(* their own extrinsics.  The trait's functions are transformers of the    *)
(* chain state (see Balances), so that a caller can thread them through    *)
(* one atomic step; ReputationCalls takes each of them as a step of an     *)
(* arbitrary caller.                                                       *)
(***************************************************************************)
EXTENDS Balances, Sequences, FiniteSets

CONSTANTS
    None,            \* the absent value of an Option
    ProjectIds,      \* the projects attestations are about
    U32Max,          \* the largest u32: every counter of the statistics saturates there
    JurorStake,      \* genesis: the stake a juror reserves
    MaxPool,         \* MaxGoldJurors, MaxSilverJurors, MaxBronzeJurors by tier
    SlashPercent,    \* Config::SlashRatio
    InitialFree,     \* genesis: free balances before jurors stake
    InitialUsers,    \* genesis: statistics of every account
    InitialJurors    \* genesis: the initial jurors, by tier, in the listed order

VARIABLES
    ledger,          \* pallet_balances' storage
    rep              \* this pallet's storage

repVars == <<ledger, rep>>

-------------------------------------------------------------------------------
(* Types *)

Ineligible == 0
Bronze     == 1
Silver     == 2
Gold       == 3
Tiers      == Ineligible..Gold
PoolTiers  == Bronze..Gold

U32     == 0..U32Max
Permill == {x \in Nat : x <= 1000000}

\* registered stands for registration_block > 0.  Earnings and spending are u128.
ReputationData ==
    [registered             : BOOLEAN,
     projects_completed     : U32,
     projects_failed        : U32,
     total_earned           : Nat,
     projects_posted        : U32,
     total_spent            : Nat,
     disputes_won           : U32,
     disputes_lost          : U32,
     avg_rating_received    : U32,
     total_ratings_received : U32,
     jury_participation     : U32,
     jury_accuracy          : Permill]

\* ValueQuery: the statistics of an account that has none.
NoStats ==
    [registered |-> FALSE, projects_completed |-> 0, projects_failed |-> 0,
     total_earned |-> 0, projects_posted |-> 0, total_spent |-> 0,
     disputes_won |-> 0, disputes_lost |-> 0, avg_rating_received |-> 0,
     total_ratings_received |-> 0, jury_participation |-> 0, jury_accuracy |-> 0]

RepStorage ==
    [ReputationStats : [Accounts -> ReputationData],
     Attestations    : SUBSET (Accounts \X ProjectIds),
     JurorTiers      : [Accounts -> Tiers],
     JurorRegistry   : SUBSET Accounts,
     Jurors          : [PoolTiers -> Seq(Accounts)],
     NextJurorIndex  : [PoolTiers -> Nat],
     StakeOf         : [Accounts -> Nat \cup {None}],
     JurorBusy       : SUBSET Accounts]

ASSUME RepAssumption ==
    /\ IsFiniteSet(Accounts)       \* an account is 32 bytes
    /\ U32Max \in Nat \ {0}
    /\ JurorStake \in Nat
    /\ SlashPercent \in 0..100
    /\ None \notin Nat
    /\ MaxPool \in [PoolTiers -> Nat]
    /\ InitialFree \in [Accounts -> Nat]
    /\ InitialUsers \in [Accounts -> ReputationData]
    /\ InitialJurors \in [PoolTiers -> Seq(Accounts)]

\* Whoever has statistics at genesis is registered, so that to have statistics
\* (which register_user asks) and to be registered (which every other call
\* asks) are the same.
ASSUME UsersAssumption ==
    \A a \in Accounts : InitialUsers[a].registered \/ InitialUsers[a] = NoStats

-------------------------------------------------------------------------------
(* Tiers and pools *)

\* saturating_add and saturating_mul of u32; earnings and spending are u128 and
\* cannot reach their limit.
Sat(x) == IF x > U32Max THEN U32Max ELSE x

\* calculate_tier_from_stats
CalculateTier(st) ==
    LET disputes == Sat(st.disputes_won + st.disputes_lost)
        Reaches(projects, earned) == /\ st.projects_completed >= projects
                                     /\ st.total_earned >= earned
        tooManyLost == disputes > 2 /\ Sat(st.disputes_lost * 1000) \div disputes > 500
    IN  IF      tooManyLost        THEN Ineligible
        ELSE IF Reaches(50, 50000) THEN Gold
        ELSE IF Reaches(20, 10000) THEN Silver
        ELSE IF Reaches(5, 1000)   THEN Bronze
        ELSE Ineligible

\* Vec::swap_remove of the first occurrence of a, if there is one.
SwapRemove(pool, a) ==
    IF \E i \in 1..Len(pool) : pool[i] = a
    THEN LET i == CHOOSE i \in 1..Len(pool) :
                    pool[i] = a /\ \A j \in 1..(i - 1) : pool[j] # a
         IN  [j \in 1..(Len(pool) - 1) |-> IF j = i THEN pool[Len(pool)] ELSE pool[j]]
    ELSE pool

\* Mutant: the juror stays in its old pool.
RemoveFromTierList_Forgotten(s, a, tier) == s

RemoveFromTierList(s, a, tier) ==
    IF tier = Ineligible THEN s
    ELSE [s EXCEPT !.rep.Jurors[tier] = SwapRemove(@, a)]

\* A full pool is the error JurorPoolFull.
AddToTierList(s, a, tier) ==
    IF tier = Ineligible THEN s
    ELSE IF Len(s.rep.Jurors[tier]) < MaxPool[tier]
    THEN [s EXCEPT !.rep.Jurors[tier] = Append(@, a)]
    ELSE [s EXCEPT !.ok = FALSE]

SetStake(s, a, v) == [s EXCEPT !.rep.StakeOf[a] = v]

\* Mutant: the stake is struck off the books and stays reserved.
ReleaseStake_KeepsReserve(s, a) == SetStake(s, a, None)

\* A juror that leaves takes its stake, if it has one, back.
ReleaseStake(s, a) ==
    IF s.rep.StakeOf[a] = None THEN s
    ELSE SetStake(Unreserve(s, a, s.rep.StakeOf[a]), a, None)

\* Opting in, with a tier, and out.
JoinRegistry(s, a, tier) ==
    [s EXCEPT !.rep.JurorRegistry = @ \cup {a}, !.rep.JurorTiers[a] = tier]
LeaveRegistry(s, a) ==
    [s EXCEPT !.rep.JurorRegistry = @ \ {a}, !.rep.JurorTiers[a] = Ineligible]

\* update_juror_tier.  The removal from the old pool is written before the
\* insertion into the new one can fail: a caller that ignores the error keeps it.
UpdateJurorTier(s, a) ==
    LET old     == s.rep.JurorTiers[a]
        new     == CalculateTier(s.rep.ReputationStats[a])
        removed == RemoveFromTierList(s, a, old)
        added   == AddToTierList(removed, a, new)
    IN  IF a \notin s.rep.JurorRegistry \/ old = new THEN s
        ELSE IF new = Ineligible THEN LeaveRegistry(ReleaseStake(removed, a), a)
        ELSE IF added.ok THEN [added EXCEPT !.rep.JurorTiers[a] = new]
        ELSE added

-------------------------------------------------------------------------------
(* ReputationInterface: what the other pallets call *)

Stats(s, a)        == s.rep.ReputationStats[a]
SetStats(s, a, st) == [s EXCEPT !.rep.ReputationStats[a] = st]
Registered(s, a)   == Stats(s, a).registered

\* ensure!
Require(s, condition) == [s EXCEPT !.ok = @ /\ condition]

\* Mutant: divides by the number of values before the new one.
Averaged_ByOldCount(mean, n, x) == (mean * n + x) \div (IF n = 0 THEN 1 ELSE n)

\* The running mean of n values, one more value x, in integer division.
Averaged(mean, n, x) == Sat(Sat(mean * n) + x) \div Sat(n + 1)

\* create_attestation: one per user and project, overwritten by the next.
CreateAttestation(s, a, p) == [s EXCEPT !.rep.Attestations = @ \cup {<<a, p>>}]

\* internal_project_completed
OnProjectCompleted(s, freelancer, value, rating, p) ==
    LET st      == Stats(s, freelancer)
        counted == SetStats(Require(s, rating <= 5000 /\ Registered(s, freelancer)), freelancer,
                     [st EXCEPT !.projects_completed = Sat(@ + 1),
                                !.total_earned = @ + value,
                                !.avg_rating_received =
                                   Averaged(@, st.total_ratings_received, rating),
                                !.total_ratings_received = Sat(@ + 1)])
    IN  CreateAttestation(UpdateJurorTier(counted, freelancer), freelancer, p)

\* Mutant: the lost project is taken off the loser's completed ones, unsaturated.
OnDisputeOutcome_Uncounts(s, winner, loser) ==
    [s EXCEPT !.rep.ReputationStats[winner].disputes_won = @ + 1,
              !.rep.ReputationStats[loser].disputes_lost = @ + 1,
              !.rep.ReputationStats[loser].projects_completed = @ - 1]

\* Mutant: only the winner's tier is looked at again.
OnDisputeOutcome_WinnerOnly(s, winner, loser) ==
    LET won  == SetStats(Require(s, Registered(s, winner) /\ Registered(s, loser)), winner,
                         [Stats(s, winner) EXCEPT !.disputes_won = Sat(@ + 1)])
        lost == SetStats(won, loser, [Stats(won, loser) EXCEPT !.disputes_lost = Sat(@ + 1),
                                                               !.projects_failed = Sat(@ + 1)])
    IN  UpdateJurorTier(lost, winner)

\* internal_dispute_outcome
OnDisputeOutcome(s, winner, loser) ==
    LET won  == SetStats(Require(s, Registered(s, winner) /\ Registered(s, loser)), winner,
                         [Stats(s, winner) EXCEPT !.disputes_won = Sat(@ + 1)])
        lost == SetStats(won, loser, [Stats(won, loser) EXCEPT !.disputes_lost = Sat(@ + 1),
                                                               !.projects_failed = Sat(@ + 1)])
    IN  UpdateJurorTier(UpdateJurorTier(lost, winner), loser)

\* Mutant: the old accuracy is weighted with the vote that is being counted.
OnJuryVote_WeighsNew(s, juror, withMajority) ==
    LET st    == Stats(s, juror)
        total == Sat(st.jury_participation + 1)
        score == IF withMajority THEN 1000000 ELSE 0
    IN  IF st.registered
        THEN SetStats(s, juror, [st EXCEPT !.jury_participation = total,
                                           !.jury_accuracy = Sat(Sat(@ * total) + score) \div total])
        ELSE [s EXCEPT !.ok = FALSE]

\* internal_jury_vote.  Its caller ignores the error, so what is written before
\* the error is part of the outcome.
OnJuryVote(s, juror, withMajority) ==
    LET st    == Stats(s, juror)
        total == Sat(st.jury_participation + 1)
        score == IF withMajority THEN 1000000 ELSE 0
        voted == [st EXCEPT !.jury_participation = total,
                            !.jury_accuracy = Averaged(@, total - 1, score)]
    IN  IF st.registered THEN UpdateJurorTier(SetStats(s, juror, voted), juror)
        ELSE [s EXCEPT !.ok = FALSE]

\* internal_on_project_created
OnProjectCreated(s, client, budget) ==
    SetStats(Require(s, Registered(s, client)), client,
             [Stats(s, client) EXCEPT !.projects_posted = Sat(@ + 1), !.total_spent = @ + budget])

\* internal_on_project_cancelled
OnProjectCancelled(s, client) ==
    SetStats(Require(s, Registered(s, client)), client,
             [Stats(s, client) EXCEPT !.projects_failed = Sat(@ + 1)])

\* internal_on_work_accepted: counts, and leaves the cached tier alone.
OnWorkAccepted(s, client) ==
    SetStats(Require(s, Registered(s, client)), client,
             [Stats(s, client) EXCEPT !.projects_completed = Sat(@ + 1)])

\* internal_slash_juror, with remove_juror_from_juror_registry.  Permill
\* multiplication rounds to the nearest, a half down.
SlashJuror(s, juror) ==
    LET stake   == s.rep.StakeOf[juror]
        slash   == (SlashPercent * stake + 49) \div 100
        slashed == Require(SlashReserved(s, juror, slash), juror \in s.rep.JurorRegistry)
    IN  IF stake = None THEN [s EXCEPT !.ok = FALSE]
        ELSE IF stake - slash = 0
        THEN LeaveRegistry(
               RemoveFromTierList(SetStake(slashed, juror, None),
                                  juror, s.rep.JurorTiers[juror]), juror)
        ELSE SetStake(slashed, juror, stake - slash)

\* Mutant: the last member of the round is never looked at.
SelectFromPool_StopsShort(s, sel, tier, exclude, count) ==
    LET pool     == s.rep.Jurors[tier]
        n        == Len(pool)
        round    == [i \in 1..n |-> pool[((sel.next[tier] + i - 1) % n) + 1]]
        Taken(k) == sel.jurors \cup
                      {a \in Accounts \ exclude : \E i \in 1..k : round[i] = a}
        stops    == {k \in 0..(n - 1) : Cardinality(Taken(k)) = count} \cup {n - 1}
        attempts == CHOOSE k \in stops : \A j \in stops : k <= j
    IN  IF Cardinality(sel.jurors) >= count \/ n = 0 THEN sel
        ELSE [jurors |-> Taken(attempts),
              next   |-> [sel.next EXCEPT ![tier] = (@ + attempts) % n]]

\* One pool of internal_get_eligible_jurors: go round the pool from the stored
\* index, take whoever is neither excluded nor taken, stop when count are taken
\* or everyone has been looked at, store where the round stopped.  sel holds
\* the jurors taken so far and the indices.  The code collects them in a list of
\* MaxJurors places and would panic beyond; its callers ask for no more than that
\* (ArbAssumption), and a caller that does is left out.
SelectFromPool(s, sel, tier, exclude, count) ==
    LET pool     == s.rep.Jurors[tier]
        n        == Len(pool)
        round    == [i \in 1..n |-> pool[((sel.next[tier] + i - 1) % n) + 1]]
        Taken(k) == sel.jurors \cup
                      {a \in Accounts \ exclude : \E i \in 1..k : round[i] = a}
        stops    == {k \in 0..n : Cardinality(Taken(k)) = count} \cup {n}
        attempts == CHOOSE k \in stops : \A j \in stops : k <= j
    IN  IF Cardinality(sel.jurors) >= count \/ n = 0 THEN sel
        ELSE [jurors |-> Taken(attempts),
              next   |-> [sel.next EXCEPT ![tier] = (@ + attempts) % n]]

\* internal_get_eligible_jurors: the best tiers first, down to minTier.
GetEligibleJurors(s, minTier, exclude, count) ==
    LET Pool(sel, tier) == IF minTier <= tier
                           THEN SelectFromPool(s, sel, tier, exclude, count)
                           ELSE sel
        none == [jurors |-> {}, next |-> s.rep.NextJurorIndex]
    IN  Pool(Pool(Pool(none, Gold), Silver), Bronze)

-------------------------------------------------------------------------------
(* Genesis and extrinsics *)

Chain == [ok |-> TRUE, ledger |-> ledger, rep |-> rep]

\* The end of a dispatched call: an error rolls everything back.
Commit(s) == s.ok /\ ledger' = s.ledger /\ rep' = s.rep

InPool(pools, t, a) == \E i \in 1..Len(pools[t]) : pools[t][i] = a

StakedAtGenesis == {a \in Accounts : \E t \in PoolTiers : InPool(InitialJurors, t, a)}

\* The initial jurors of the configuration.  build asserts that each has statistics
\* and can pay the stake and that its pool is not full (otherwise the chain does not
\* start).  It does not look at the rest, which every genesis in the repository
\* satisfies: that nobody is listed twice, and that nobody is ineligible (build would
\* register such a juror, take its stake and put it in no pool).
ASSUME GenesisAssumption ==
    \A t \in PoolTiers :
      /\ Len(InitialJurors[t]) <= MaxPool[t]
      /\ \A i \in 1..Len(InitialJurors[t]) :
           LET a == InitialJurors[t][i]
           IN  /\ CalculateTier(InitialUsers[a]) = t
               /\ InitialUsers[a].registered
               /\ InitialFree[a] >= JurorStake + ExistentialDeposit
               /\ \A j \in 1..Len(InitialJurors[t]) : InitialJurors[t][j] = a => j = i

\* build of the GenesisConfig
RepInit ==
    /\ ledger = [free     |-> [a \in Accounts |-> IF a \in StakedAtGenesis
                                 THEN InitialFree[a] - JurorStake ELSE InitialFree[a]],
                 reserved |-> [a \in Accounts |-> IF a \in StakedAtGenesis THEN JurorStake ELSE 0],
                 locks    |-> [a \in Accounts |-> [id \in LockIds |-> 0]]]
    /\ rep = [ReputationStats |-> InitialUsers,
              Attestations    |-> {},
              JurorTiers      |-> [a \in Accounts |-> IF a \in StakedAtGenesis
                                    THEN CalculateTier(InitialUsers[a]) ELSE Ineligible],
              JurorRegistry   |-> StakedAtGenesis,
              Jurors          |-> InitialJurors,
              NextJurorIndex  |-> [t \in PoolTiers |-> 0],
              StakeOf         |-> [a \in Accounts |-> IF a \in StakedAtGenesis
                                    THEN JurorStake ELSE None],
              JurorBusy       |-> {}]

\* register_user
RegisterUser(a) ==
    /\ CanSign(ledger, a)
    /\ ~ rep.ReputationStats[a].registered
    /\ Commit(SetStats(Chain, a, [NoStats EXCEPT !.registered = TRUE]))

\* register_as_juror
RegisterAsJuror(a) ==
    LET tier   == CalculateTier(rep.ReputationStats[a])
        staked == SetStake(Reserve(Chain, a, JurorStake), a, JurorStake)
    IN  /\ CanSign(ledger, a)
        /\ a \notin rep.JurorRegistry
        /\ tier >= Bronze
        /\ Commit(AddToTierList(JoinRegistry(staked, a, tier), a, tier))

\* deregister_as_juror
DeregisterAsJuror(a) ==
    /\ CanSign(ledger, a)
    /\ a \in rep.JurorRegistry
    /\ a \notin rep.JurorBusy
    /\ rep.StakeOf[a] # None
    /\ Commit(LeaveRegistry(RemoveFromTierList(ReleaseStake(Chain, a), a, rep.JurorTiers[a]), a))

-------------------------------------------------------------------------------
(* Properties *)

\* Every storage item of the two pallets stays in its type: balances never go
\* below zero, pools hold accounts, tiers are tiers.
RepTypeOK == ledger \in Ledger /\ rep \in RepStorage

\* The pools are what the selection believes they are.  However tiers change,
\* and whichever error a caller ignored, an account in the pool of a tier is
\* opted in, is cached with that tier, is there once, and no pool exceeds its
\* bound.
PoolsSound ==
    \A t \in PoolTiers :
      /\ Len(rep.Jurors[t]) <= MaxPool[t]
      /\ \A i \in 1..Len(rep.Jurors[t]) :
           /\ rep.Jurors[t][i] \in rep.JurorRegistry
           /\ rep.JurorTiers[rep.Jurors[t][i]] = t
           /\ \A j \in 1..Len(rep.Jurors[t]) : rep.Jurors[t][j] = rep.Jurors[t][i] => j = i

\* The anonymous reserve of an account is exactly the stake the pallet has on
\* record for it, and there is a stake on record exactly while the account is
\* opted in: no path (leaving, automatic removal, slashing) strands a stake or
\* pays one out twice.  It holds while only this pallet reserves.
StakesBacked ==
    \A a \in Accounts :
      /\ (a \in rep.JurorRegistry) <=> (rep.StakeOf[a] # None)
      /\ ledger.reserved[a] = IF rep.StakeOf[a] = None THEN 0 ELSE rep.StakeOf[a]

\* The mean of some ratings, on the scale of avg_rating_received (0 to 5000): never
\* above five stars, and not below one while their sum fits in 32 bits.
RatingInRange(st) ==
    /\ st.avg_rating_received <= 5000
    /\ st.total_ratings_received \in 1..(U32Max \div 5000) => st.avg_rating_received >= 1000
    /\ st.total_ratings_received = 0 => st.avg_rating_received = 0

\* Truncating and saturating arithmetic keeps the running means inside the range of
\* what was averaged, whatever the order of the ratings and votes; the lower end of
\* the ratings' range as long as their sum fits in 32 bits.
MeansInRange ==
    \A a \in Accounts : /\ RatingInRange(rep.ReputationStats[a])
                        /\ rep.ReputationStats[a].jury_accuracy \in Permill

\* Whom a selection may take: the pools down to minTier, without the excluded.
EligibleIn(tier, exclude) == {a \in Accounts \ exclude : InPool(rep.Jurors, tier, a)}

\* What get_eligible_jurors promises, in any state of the pools and indices: it
\* takes eligible accounts only, as many as asked for if there are that many,
\* nobody of a lower tier while one of a higher tier is left, and it stores
\* indices that stay inside the pools.
SelectionCorrect ==
    \A minTier \in PoolTiers, exclude \in SUBSET Accounts, count \in 1..Cardinality(Accounts) :
      LET sel      == GetEligibleJurors(Chain, minTier, exclude, count)
          eligible == UNION {EligibleIn(t, exclude) : t \in minTier..Gold}
      IN  /\ sel.jurors \subseteq eligible
          /\ Cardinality(sel.jurors) =
               IF Cardinality(eligible) < count THEN Cardinality(eligible) ELSE count
          /\ \A t \in minTier..Gold, u \in minTier..Gold :
               t < u /\ sel.jurors \cap EligibleIn(t, exclude) # {}
                 => EligibleIn(u, exclude) \subseteq sel.jurors
          /\ \A t \in PoolTiers : sel.next[t] # rep.NextJurorIndex[t]
                                   => sel.next[t] < Len(rep.Jurors[t])

\* No juror is kept in a tier its record no longer justifies: the call that makes
\* a record too bad, at most half of the disputes may be lost, also takes the juror
\* out of its pool and the registry, whatever calls went before, ignored errors
\* included.  The cached tier may be too low: internal_work_accepted counts a
\* completed project of the client and does not look at its tier.
TierNotOverstated ==
    \A a \in rep.JurorRegistry : rep.JurorTiers[a] <= CalculateTier(rep.ReputationStats[a])

\* Storage calls each pool "the active, opted-in pool" of its tier's jurors:
\* every opted-in juror is in the pool of the tier it is cached with.
OptedInJurorsPooled ==
    \A a \in rep.JurorRegistry : InPool(rep.Jurors, rep.JurorTiers[a], a)
===============================================================================
