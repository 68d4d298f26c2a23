--------------------------- MODULE ReputationProofs ---------------------------
(***************************************************************************)
(* The theorems about the reputation pallet under arbitrary callers        *)
(* (ReputationCalls).  ReputationLemmas says what each transformer of the  *)
(* chain state does; here a step commits the outcome of one, and the       *)
(* inductive invariant RepInv is shown to survive it.                      *)
(***************************************************************************)
EXTENDS ReputationCalls, ReputationLemmas

\* The inductive invariant.  The pools need the types; the stakes need the pools'
\* registry; a tier is justified because register_user, the one call that rewrites
\* statistics without looking at the tier, finds none (Newcomers).
RepInv == /\ RepTypeOK /\ PoolsSound /\ StakesBacked /\ TierNotOverstated
          /\ MeansInRange /\ Newcomers

\* MeansInRange and Newcomers of the statistics of one account.
SoundStats(st) == RatingInRange(st) /\ (st.registered \/ st = NoStats)

-------------------------------------------------------------------------------
(* Means *)

\* Statistics with the same ratings have a mean in the same range.
LEMMA SameRatings ==
  ASSUME NEW st, NEW st2, RatingInRange(st),
         st2.total_ratings_received = st.total_ratings_received,
         st2.avg_rating_received = st.avg_rating_received
  PROVE  RatingInRange(st2)
  BY DEF RatingInRange

\* The calls that do not rate keep the mean and the registration.
LEMMA OtherCountersSound ==
  ASSUME NEW st \in ReputationData, RatingInRange(st), st.registered, NEW v \in Nat
  PROVE  /\ SoundStats(WithWin(st)) /\ SoundStats(WithLoss(st)) /\ SoundStats(WithFailure(st))
         /\ SoundStats(WithWork(st)) /\ SoundStats(WithPosting(st, v))
<1>1. /\ WithWin(st).total_ratings_received = st.total_ratings_received
      /\ WithWin(st).avg_rating_received = st.avg_rating_received /\ WithWin(st).registered
  BY DEF WithWin, ReputationData
<1>2. /\ WithLoss(st).total_ratings_received = st.total_ratings_received
      /\ WithLoss(st).avg_rating_received = st.avg_rating_received /\ WithLoss(st).registered
  BY DEF WithLoss, ReputationData
<1>3. /\ WithFailure(st).total_ratings_received = st.total_ratings_received
      /\ WithFailure(st).avg_rating_received = st.avg_rating_received /\ WithFailure(st).registered
  BY DEF WithFailure, ReputationData
<1>4. /\ WithWork(st).total_ratings_received = st.total_ratings_received
      /\ WithWork(st).avg_rating_received = st.avg_rating_received /\ WithWork(st).registered
  BY DEF WithWork, ReputationData
<1>5. /\ WithPosting(st, v).total_ratings_received = st.total_ratings_received
      /\ WithPosting(st, v).avg_rating_received = st.avg_rating_received /\ WithPosting(st, v).registered
  BY DEF WithPosting, ReputationData
<1> QED BY <1>1, <1>2, <1>3, <1>4, <1>5, SameRatings DEF SoundStats

\* A vote keeps the mean of the ratings and the registration.
LEMMA VoteSound ==
  ASSUME NEW st \in ReputationData, RatingInRange(st), st.registered, NEW score
  PROVE  SoundStats(WithVote(st, score))
<1>1. /\ WithVote(st, score).total_ratings_received = st.total_ratings_received
      /\ WithVote(st, score).avg_rating_received = st.avg_rating_received
      /\ WithVote(st, score).registered
  BY DEF WithVote, ReputationData
<1> QED BY <1>1, SameRatings DEF SoundStats

\* One star to five, scaled by 1000.
Stars == {x \in Nat : 1000 <= x /\ x <= 5000}

\* Averaged, without saturation.
Mean(m, n, x) == (m * n + x) \div (n + 1)

\* The mean of n ratings and one more lies between one star and five: the truncating
\* division loses less than the distance to one star.
LEMMA MeanBetween ==
  ASSUME NEW n \in Nat, NEW m \in Nat, NEW x \in Stars,
         n = 0 => m = 0, n > 0 => m \in Stars
  PROVE  Mean(m, n, x) \in Stars
<1> USE DEF Stars
<1> DEFINE u == m * n + x
           k == n + 1
<1>1. 1000 * n <= m * n /\ m * n <= 5000 * n /\ m * n \in Nat
  <2>1. CASE n = 0
    BY <2>1
  <2>2. CASE n > 0
    <3>1. m - 1000 \in Nat /\ 5000 - m \in Nat
      BY <2>2
    <3>2. (m - 1000) * n \in Nat /\ (5000 - m) * n \in Nat
      BY <3>1
    <3> QED BY <3>2
  <2> QED BY <2>1, <2>2
<1>2. u \in Nat /\ k \in Nat \ {0} /\ 1000 * k <= u /\ u <= 5000 * k
  <2> DEFINE y == m * n
  <2>1. y \in Nat /\ 1000 * n <= y /\ y <= 5000 * n /\ u = y + x
    BY <1>1
  <2> HIDE DEF y, u
  <2> QED BY <2>1
<1> HIDE DEF u, k
<1>3. u \div k \in Stars
  <2> DEFINE q == u \div k
  <2>1. q \in Nat /\ k * q <= u /\ u < k * (q + 1)
    BY <1>2
  <2> HIDE DEF q
  <2>2. q >= 1000
    <3> SUFFICES ASSUME q <= 999 PROVE FALSE
      BY <2>1
    <3>1. k * (q + 1) <= k * 1000
      <4>1. 1000 - (q + 1) \in Nat
        BY <2>1
      <4>2. k * (1000 - (q + 1)) \in Nat
        BY <1>2, <4>1
      <4> QED BY <1>2, <2>1, <4>2
    <3> QED BY <1>2, <2>1, <3>1
  <2>3. q <= 5000
    <3> SUFFICES ASSUME q >= 5001 PROVE FALSE
      BY <2>1
    <3>1. k * q >= k * 5001
      <4>1. q - 5001 \in Nat
        BY <2>1
      <4>2. k * (q - 5001) \in Nat
        BY <1>2, <4>1
      <4> QED BY <1>2, <2>1, <4>2
    <3> QED BY <1>2, <2>1, <3>1
  <2>4. q \in Stars
    BY <2>1, <2>2, <2>3
  <2> QED BY <2>4 DEF q
<1> QED BY <1>3 DEF u, k, Mean

\* The running mean of values that are at most b is at most b: saturation only
\* lowers the sum, and once the count saturates the quotient is at most one.
LEMMA AveragedAtMost ==
  ASSUME NEW b \in Nat \ {0}, NEW n \in U32, NEW m \in Nat, NEW x \in Nat, m <= b, x <= b
  PROVE  Averaged(m, n, x) <= b
<1> DEFINE y == m * n
           top == Sat(Sat(y) + x)
           k == Sat(n + 1)
           q == top \div k
<1>1. n \in Nat /\ n <= U32Max /\ U32Max \in Nat \ {0}
  BY RepAssumption DEF U32
<1>2. y \in Nat /\ y <= b * n
  <2>1. (b - m) * n \in Nat /\ m * n \in Nat
    BY <1>1
  <2> QED BY <1>1, <2>1
<1>3. b * (n + 1) = b * n + b /\ b * n \in Nat
  BY <1>1
<1> HIDE DEF y
<1>4. top \in Nat /\ top <= b * (n + 1) /\ top <= U32Max
  <2>1. Sat(y) \in Nat /\ Sat(y) <= y
    BY <1>2, SatType
  <2>2. Sat(y) + x \in Nat
    BY <2>1
  <2>3. top \in Nat /\ top <= Sat(y) + x /\ top <= U32Max
    BY <1>1, <2>2, SatType DEF U32
  <2> HIDE DEF top
  <2> QED BY <1>2, <1>3, <2>1, <2>3
<1>5. k \in Nat \ {0} /\ (k = n + 1 \/ k = U32Max)
  BY <1>1 DEF Sat
<1> HIDE DEF top, k
<1>6. top <= b * k
  <2>1. CASE k = n + 1
    BY <1>4, <2>1
  <2>2. CASE k = U32Max
    <3>1. (b - 1) * k \in Nat /\ b * k = (b - 1) * k + k
      BY <1>5
    <3> QED BY <1>4, <1>5, <2>2, <3>1
  <2> QED BY <1>5, <2>1, <2>2
<1>7. q \in Nat /\ k * q <= top
  BY <1>4, <1>5
<1> HIDE DEF q
<1>8. q <= b
  <2> SUFFICES ASSUME q >= b + 1 PROVE FALSE
    BY <1>7
  <2>1. k * (q - (b + 1)) \in Nat
    BY <1>5, <1>7
  <2>2. k * q >= k * b + k
    BY <1>5, <1>7, <2>1
  <2>3. k * b = b * k /\ k * b \in Nat /\ k * q \in Nat
    BY <1>5, <1>7
  <2> QED BY <1>4, <1>5, <1>6, <1>7, <2>2, <2>3
<1> QED BY <1>8 DEF Averaged, y, top, k, q

\* on_project_completed keeps the mean in range: at most five stars always, and while
\* the sum of the ratings fits in 32 bits nothing saturates.
LEMMA CompletionSound ==
  ASSUME NEW st \in ReputationData, RatingInRange(st), st.registered,
         NEW v \in Nat, NEW x \in Stars
  PROVE  SoundStats(WithCompletion(st, v, x))
<1> DEFINE n == st.total_ratings_received
           m == st.avg_rating_received
           st2 == WithCompletion(st, v, x)
           most == U32Max \div 5000
<1>1. /\ st2.total_ratings_received = Sat(n + 1)
      /\ st2.avg_rating_received = Averaged(m, n, x) /\ st2.registered
  BY DEF WithCompletion, ReputationData
<1>2. n \in Nat /\ m \in Nat /\ n <= U32Max /\ U32Max \in Nat \ {0}
  BY StatFields, RepAssumption DEF U32
<1>3. /\ n \in 1..most => m \in Stars
      /\ n = 0 => m = 0
  BY StatFields DEF RatingInRange, Stars
<1>4. most \in Nat /\ 5000 * most <= U32Max
  BY <1>2
<1> HIDE DEF n, m, st2, most
<1>5. Sat(n + 1) \in 1..most => Averaged(m, n, x) \in Stars
  <2> SUFFICES ASSUME Sat(n + 1) \in 1..most PROVE Averaged(m, n, x) \in Stars
    OBVIOUS
  <2>1. n + 1 <= most /\ n + 1 <= U32Max
    BY <1>2, <1>4 DEF Sat
  <2>2. n > 0 => m \in Stars
    BY <1>2, <1>3, <1>4, <2>1
  <2>3. m * n \in Nat /\ m * n <= 5000 * n
    <3>1. 5000 - m \in Nat
      BY <1>2, <1>3, <2>2 DEF Stars
    <3>2. (5000 - m) * n \in Nat
      BY <1>2, <3>1
    <3> QED BY <1>2, <3>2
  <2>4. 5000 * (n + 1) <= U32Max
    BY <1>2, <1>4, <2>1
  <2>5. Sat(m * n) = m * n
    BY <1>2, <2>3, <2>4 DEF Sat
  <2>6. m * n + x \in Nat /\ m * n + x <= U32Max
    BY <1>2, <2>3, <2>4 DEF Stars
  <2>7. Sat(m * n + x) = m * n + x /\ Sat(n + 1) = n + 1
    BY <1>2, <2>1, <2>6 DEF Sat
  <2>8. Mean(m, n, x) \in Stars
    BY <1>2, <1>3, <2>2, MeanBetween
  <2>9. Averaged(m, n, x) = Mean(m, n, x)
    BY <2>5, <2>7 DEF Averaged, Mean
  <2> QED BY <2>8, <2>9
<1>6. Sat(n + 1) # 0
  BY <1>2 DEF Sat
<1>7. Averaged(m, n, x) <= 5000
  <2>1. n \in U32 /\ m <= 5000 /\ x \in Nat /\ x <= 5000
    BY StatFields DEF RatingInRange, Stars, n, m
  <2> QED BY <1>2, <2>1, AveragedAtMost
<1>8. RatingInRange(st2)
  BY <1>1, <1>5, <1>6, <1>7 DEF RatingInRange, most, Stars
<1> QED BY <1>1, <1>8 DEF SoundStats, st2

-------------------------------------------------------------------------------
(* The inductive invariant *)

\* The parts of the invariant about jurors survive what keeps types and pools, moves
\* reserve and stake together and leaves tiers justified.
LEMMA CommitKeeps ==
  ASSUME RepInv, NEW t, Keeps(Chain, t), StakesMove(Chain, t), Commit(t),
         TiersBut(rep, {}) => TiersBut(t.rep, {})
  PROVE  RepTypeOK' /\ PoolsSound' /\ StakesBacked' /\ TierNotOverstated'
<1>1. Chain \in ChainState /\ Chain.rep = rep /\ Chain.ledger = ledger
  BY ChainType DEF RepInv
<1>2. t.ledger \in Ledger /\ PoolsOf(t.rep) /\ t \in ChainState
  BY ChainType DEF RepInv, Keeps, Commit
<1>3. t.rep \in RepStorage
  BY <1>2, LedgerFields
<1>4. ledger' = t.ledger /\ rep' = t.rep
  BY DEF Commit
<1>5. RepTypeOK' /\ PoolsSound'
  BY <1>2, <1>3, <1>4 DEF RepTypeOK, PoolsSound, PoolsOf
<1>6. TierNotOverstated'
  <2>1. TiersBut(t.rep, {})
    BY DEF RepInv, TierNotOverstated, TiersBut
  <2> QED BY <1>4, <2>1 DEF TierNotOverstated, TiersBut
<1>7. ASSUME NEW a \in Accounts
      PROVE  StakedIff(t.rep, a) /\ t.ledger.reserved[a] = StakeFrom(t.rep, a)
  <2>1. StakedIff(rep, a) /\ ledger.reserved[a] = StakeFrom(rep, a)
    BY DEF RepInv, StakesBacked, StakedIff, StakeFrom
  <2>2. /\ StakeFrom(rep, a) \in Nat /\ StakeFrom(t.rep, a) \in Nat
        /\ t.ledger.reserved[a] \in Int
    BY <1>1, <1>2, StakeFromType
  <2>3. /\ ledger.reserved[a] >= StakeFrom(rep, a) =>
             t.ledger.reserved[a] - StakeFrom(t.rep, a) = ledger.reserved[a] - StakeFrom(rep, a)
        /\ StakedIff(rep, a) => StakedIff(t.rep, a)
    BY <1>1 DEF StakesMove
  <2> QED BY <2>1, <2>2, <2>3
<1>8. StakesBacked'
  BY <1>4, <1>7 DEF StakesBacked, StakedIff, StakeFrom
<1> QED BY <1>5, <1>6, <1>8

\* The parts about statistics are about the new statistics of each account.
LEMMA StatsKept ==
  ASSUME RepTypeOK', \A a \in Accounts : SoundStats(rep'.ReputationStats[a])
  PROVE  MeansInRange' /\ Newcomers'
<1>1. \A a \in Accounts : rep'.ReputationStats[a].jury_accuracy \in Permill
  <2>1. rep'.ReputationStats \in [Accounts -> ReputationData]
    BY DEF RepTypeOK, RepStorage
  <2> QED BY <2>1, StatFields
<1>3. MeansInRange'
  BY <1>1, Zenon DEF MeansInRange, SoundStats
<1>4. Newcomers'
  BY DEF Newcomers, SoundStats
<1> QED BY <1>3, <1>4

\* The statistics of every account satisfy both before the step.
LEMMA StatsSound ==
  ASSUME RepInv, NEW a \in Accounts
  PROVE  SoundStats(rep.ReputationStats[a]) /\ Stats(Chain, a) = rep.ReputationStats[a]
         /\ Stats(Chain, a) \in ReputationData
<1>1. Stats(Chain, a) = rep.ReputationStats[a]
  BY ChainType DEF Stats, RepInv
<1>2. Stats(Chain, a) \in ReputationData
  BY ChainType, StatsType DEF RepInv
<1> QED BY <1>1, <1>2 DEF RepInv, MeansInRange, Newcomers, SoundStats

\* A call of ReputationInterface keeps the invariant if the statistics it writes are
\* sound.
LEMMA CommitRecords ==
  ASSUME RepInv, NEW t, NEW stats, NEW attested, Recorded(Chain, t, stats, attested), Commit(t),
         \A a \in Accounts : SoundStats(stats[a])
  PROVE  RepInv'
<1>1. Keeps(Chain, t) /\ Undisturbed(Chain, t)
  BY DEF Recorded, Reports
<1>2. StakesMove(Chain, t)
  BY <1>1 DEF Undisturbed, StakesMove
<1>3. TiersBut(rep, {}) => TiersBut(t.rep, {})
  BY ChainType DEF Recorded, Commit, RepInv
<1>4. RepTypeOK' /\ PoolsSound' /\ StakesBacked' /\ TierNotOverstated'
  BY <1>1, <1>2, <1>3, CommitKeeps
<1>5. rep'.ReputationStats = stats
  BY DEF Recorded, Commit
<1>6. MeansInRange' /\ Newcomers'
  BY <1>4, <1>5, StatsKept
<1> QED BY <1>4, <1>6 DEF RepInv

\* A step that leaves the statistics alone keeps the parts about them.
LEMMA SameStatsKept ==
  ASSUME RepInv, RepTypeOK', rep'.ReputationStats = rep.ReputationStats
  PROVE  MeansInRange' /\ Newcomers'
  BY StatsSound, StatsKept

\* The genesis build establishes the invariant.
LEMMA InitInv == RepInit => RepInv
<1> SUFFICES ASSUME RepInit
             PROVE  RepInv
  OBVIOUS
<1>1. RepTypeOK /\ PoolsSound /\ StakesBacked /\ TierNotOverstated /\ Newcomers
  BY GenesisSound
<1>2. MeansInRange
  <2>1. \A a \in Accounts : rep.ReputationStats[a].jury_accuracy \in Permill
    <3>1. rep.ReputationStats \in [Accounts -> ReputationData]
      BY <1>1 DEF RepTypeOK, RepStorage
    <3> QED BY <3>1, StatFields
  <2>2. rep.ReputationStats = InitialUsers
    BY DEF RepInit
  <2>3. \A a \in Accounts : RatingInRange(rep.ReputationStats[a])
    <3>1. \A a \in Accounts : RatingInRange(InitialUsers[a])
      BY RepInputAssumption, Zenon
    <3> QED BY ONLY <2>2, <3>1, Zenon
  <2> QED BY ONLY <2>1, <2>3, Zenon DEF MeansInRange
<1> QED BY <1>1, <1>2 DEF RepInv

\* register_user keeps the invariant: a newcomer is in no tier.
LEMMA RegisterUserInv ==
  ASSUME RepInv, NEW a \in Accounts, RegisterUser(a)
  PROVE  RepInv'
<1> DEFINE st == [NoStats EXCEPT !.registered = TRUE]
           t == SetStats(Chain, a, st)
<1>1. st \in ReputationData /\ NoStats \in ReputationData
  <2>1. 0 \in U32 /\ 0 \in Permill
    BY RepAssumption DEF U32, Permill
  <2> QED BY <2>1 DEF NoStats, ReputationData
<1>2. Commit(t) /\ ~ rep.ReputationStats[a].registered
  BY DEF RegisterUser
<1>3. Chain \in ChainState /\ Chain.rep = rep /\ Chain.ok
  BY ChainType DEF RepInv
<1>4. /\ st.total_ratings_received = 0 /\ st.avg_rating_received = 0 /\ st.registered
      /\ st.projects_completed = NoStats.projects_completed /\ st.total_earned = NoStats.total_earned
      /\ st.disputes_won = NoStats.disputes_won /\ st.disputes_lost = NoStats.disputes_lost
  BY DEF NoStats
<1> HIDE DEF st
<1>5. SoundStats(st)
  BY <1>4 DEF SoundStats, RatingInRange
<1>6. CalculateTier(st) = CalculateTier(rep.ReputationStats[a])
  <2>1. rep.ReputationStats[a] = NoStats
    BY <1>2 DEF RepInv, Newcomers
  <2> QED BY <1>1, <1>4, <2>1, SameTier
<1>7. /\ Reports(Chain, t) /\ t.ok = Chain.ok
      /\ t.rep.ReputationStats = [rep.ReputationStats EXCEPT ![a] = st]
      /\ t.rep.JurorTiers = rep.JurorTiers
      /\ t.rep.JurorRegistry = rep.JurorRegistry
      /\ t.rep.Attestations = rep.Attestations
  <2> DEFINE c == Chain
  <2>1. c \in ChainState /\ c.rep = rep
    BY <1>3
  <2> HIDE DEF c
  <2>2. /\ Reports(c, SetStats(c, a, st)) /\ SetStats(c, a, st).ok = c.ok
        /\ SetStats(c, a, st).rep.ReputationStats = [c.rep.ReputationStats EXCEPT ![a] = st]
        /\ SetStats(c, a, st).rep.JurorTiers = c.rep.JurorTiers
        /\ SetStats(c, a, st).rep.JurorRegistry = c.rep.JurorRegistry
        /\ SetStats(c, a, st).rep.Attestations = c.rep.Attestations
    BY ONLY <1>1, <2>1, SetStatsReports
  <2> QED BY ONLY <2>1, <2>2 DEF c
<1> HIDE DEF t
<1>8. rep.ReputationStats \in [Accounts -> ReputationData] /\ rep.JurorRegistry \subseteq Accounts
  BY <1>3, RepFields
<1>9. TiersBut(rep, {}) => TiersBut(t.rep, {})
  BY <1>6, <1>7, <1>8 DEF TiersBut
<1>10. Recorded(Chain, t, [rep.ReputationStats EXCEPT ![a] = st], rep.Attestations)
  BY <1>3, <1>7, <1>9 DEF Recorded
<1>11. \A b \in Accounts : SoundStats([rep.ReputationStats EXCEPT ![a] = st][b])
  BY <1>5, <1>8, StatsSound
<1> QED BY <1>2, <1>10, <1>11, CommitRecords

\* register_as_juror keeps the invariant: reserve and stake appear together.
LEMMA RegisterAsJurorInv ==
  ASSUME RepInv, NEW a \in Accounts, RegisterAsJuror(a)
  PROVE  RepInv'
<1>1. PICK t : Commit(t) /\ Joined(Chain, t, a)
  BY RegisterAsJurorEffect DEF RepInv
<1>2. Chain \in ChainState /\ Chain.rep = rep /\ Chain.ledger = ledger /\ Chain.ok
  BY ChainType DEF RepInv
<1>3. Keeps(Chain, t)
  BY <1>1, <1>2 DEF Keeps, Joined
<1>4. StakesMove(Chain, t)
  <2> SUFFICES ASSUME NEW b \in Accounts
               PROVE  /\ ledger.reserved[b] >= StakeFrom(rep, b) =>
                           t.ledger.reserved[b] - StakeFrom(t.rep, b)
                             = ledger.reserved[b] - StakeFrom(rep, b)
                      /\ StakedIff(rep, b) => StakedIff(t.rep, b)
    BY <1>2 DEF StakesMove
  <2>1. CASE b # a
    <3>1. SameHoldings(Chain, t, b)
      BY <1>1, <2>1 DEF Joined
    <3> QED BY <1>2, <3>1 DEF SameHoldings, StakeFrom, StakedIff
  <2>2. CASE b = a
    <3>1. StakeFrom(rep, a) = 0
      BY <1>1, <1>2 DEF RepInv, StakesBacked, StakeFrom, Joined
    <3>2. JurorStake \in Nat /\ JurorStake # None
      BY RepAssumption
    <3>3. StakeFrom(t.rep, a) = JurorStake /\ StakedIff(t.rep, a)
      BY <1>1, <3>2 DEF StakeFrom, StakedIff, Joined
    <3>4. t.ledger.reserved[a] = ledger.reserved[a] + JurorStake
      BY <1>1, <1>2 DEF Joined
    <3>5. ledger.reserved[a] \in Int
      BY <1>2, StakeFromType
    <3> QED BY <2>2, <3>1, <3>2, <3>3, <3>4, <3>5
  <2> QED BY <2>1, <2>2
<1>5. TiersBut(rep, {}) => TiersBut(t.rep, {})
  <2> SUFFICES ASSUME TiersBut(rep, {}), NEW b \in t.rep.JurorRegistry
               PROVE  t.rep.JurorTiers[b] <= CalculateTier(t.rep.ReputationStats[b])
    BY DEF TiersBut
  <2>1. t \in ChainState /\ b \in Accounts
    BY <1>1, RepFields DEF Joined
  <2>2. CASE b = a
    <3>1. t.rep.JurorTiers[a] = CalculateTier(t.rep.ReputationStats[a])
      BY <1>1 DEF Joined
    <3>2. CalculateTier(t.rep.ReputationStats[a]) \in Int
      BY <2>1, RepFields, CalculateTierType DEF Tiers, Ineligible, Gold
    <3> QED BY <2>2, <3>1, <3>2
  <2>3. CASE b # a
    <3>1. SameHoldings(Chain, t, b) /\ t.rep.JurorTiers[b] = rep.JurorTiers[b]
          /\ t.rep.ReputationStats = rep.ReputationStats
      BY <1>1, <1>2, <2>1, <2>3 DEF Joined
    <3>2. b \in rep.JurorRegistry
      BY <1>2, <3>1 DEF SameHoldings
    <3> QED BY <3>1, <3>2 DEF TiersBut
  <2> QED BY <2>2, <2>3
<1>6. RepTypeOK' /\ PoolsSound' /\ StakesBacked' /\ TierNotOverstated'
  BY <1>1, <1>3, <1>4, <1>5, CommitKeeps
<1>7. rep'.ReputationStats = rep.ReputationStats
  BY <1>1, <1>2 DEF Commit, Joined
<1> QED BY <1>6, <1>7, SameStatsKept DEF RepInv

\* deregister_as_juror keeps the invariant: reserve and stake disappear together.
LEMMA DeregisterAsJurorInv ==
  ASSUME RepInv, NEW a \in Accounts, DeregisterAsJuror(a)
  PROVE  RepInv'
<1>1. PICK t : Commit(t) /\ Rehomed(Chain, t, a) /\ t.ok
  BY DeregisterAsJurorEffect DEF RepInv
<1>2. Chain \in ChainState /\ Chain.rep = rep /\ Chain.ledger = ledger /\ Chain.ok
  BY ChainType DEF RepInv
<1>3. Keeps(Chain, t) /\ Undisturbed(Chain, t)
  BY <1>1, <1>2, RehomedUndisturbed DEF Reports
<1>4. StakesMove(Chain, t)
  BY <1>3 DEF Undisturbed, StakesMove
<1>5. TiersBut(rep, {}) => TiersBut(t.rep, {})
  <2> SUFFICES ASSUME TiersBut(rep, {}), NEW b \in t.rep.JurorRegistry
               PROVE  t.rep.JurorTiers[b] <= CalculateTier(t.rep.ReputationStats[b])
    BY DEF TiersBut
  <2>1. t \in ChainState /\ b \in Accounts
    BY <1>1, RepFields DEF Rehomed
  <2>2. CASE b = a
    <3>1. t.rep.JurorTiers[a] = CalculateTier(t.rep.ReputationStats[a])
      BY <1>1, <2>2 DEF Rehomed, Departed, Placed
    <3>2. CalculateTier(t.rep.ReputationStats[a]) \in Int
      BY <2>1, RepFields, CalculateTierType DEF Tiers, Ineligible, Gold
    <3> QED BY <2>2, <3>1, <3>2
  <2>3. CASE b # a
    <3>1. SameHoldings(Chain, t, b) /\ t.rep.JurorTiers[b] = rep.JurorTiers[b]
          /\ t.rep.ReputationStats = rep.ReputationStats
      BY <1>1, <1>2, <2>1, <2>3 DEF Rehomed
    <3>2. b \in rep.JurorRegistry
      BY <1>2, <3>1 DEF SameHoldings
    <3> QED BY <3>1, <3>2 DEF TiersBut
  <2> QED BY <2>2, <2>3
<1>6. RepTypeOK' /\ PoolsSound' /\ StakesBacked' /\ TierNotOverstated'
  BY <1>1, <1>3, <1>4, <1>5, CommitKeeps
<1>7. rep'.ReputationStats = rep.ReputationStats
  BY <1>1, <1>2 DEF Commit, Rehomed
<1> QED BY <1>6, <1>7, SameStatsKept DEF RepInv

\* Every call of ReputationInterface whose error is propagated keeps the invariant.
LEMMA InterfaceCallInv ==
  ASSUME RepInv, NEW a \in Accounts, NEW b \in Accounts, InterfaceCall(a, b)
  PROVE  RepInv'
<1> DEFINE stats == rep.ReputationStats
           st == Stats(Chain, a)
<1>1. Chain \in ChainState /\ Chain.rep = rep /\ Chain.ok
  BY ChainType DEF RepInv
<1>2. /\ stats \in [Accounts -> ReputationData] /\ \A c \in Accounts : SoundStats(stats[c])
      /\ st = stats[a] /\ st \in ReputationData /\ RatingInRange(st)
      /\ Registered(Chain, a) = st.registered
  BY <1>1, RepFields, StatsSound DEF SoundStats, Registered
<1>3. ASSUME NEW st2, SoundStats(st2)
      PROVE  \A c \in Accounts : SoundStats([stats EXCEPT ![a] = st2][c])
  BY <1>2, <1>3
<1> HIDE DEF stats, st
<1>4. ASSUME NEW v \in Values, NEW r \in Ratings, NEW p \in ProjectIds,
             Commit(OnProjectCompleted(Chain, a, v, r, p))
      PROVE  RepInv'
  <2> DEFINE t == OnProjectCompleted(Chain, a, v, r, p)
             st2 == WithCompletion(st, v, r)
             new == [stats EXCEPT ![a] = st2]
             attested == rep.Attestations \cup {<<a, p>>}
  <2>1. v \in Nat /\ r \in Nat /\ r >= 1000
    BY RepInputAssumption
  <2>2. /\ Recorded(Chain, t, new, attested)
        /\ t.ok => Chain.ok /\ r <= 5000 /\ Registered(Chain, a)
    BY <1>1, <2>1, OnProjectCompletedRecords DEF stats, st
  <2>3. t.ok
    BY <1>4 DEF Commit
  <2>4. r \in Stars /\ st.registered
    BY <1>2, <2>1, <2>2, <2>3 DEF Stars
  <2>5. SoundStats(st2)
    BY <1>2, <2>1, <2>4, CompletionSound
  <2> HIDE DEF t, st2
  <2>6. \A c \in Accounts : SoundStats(new[c])
    BY <1>3, <2>5
  <2> HIDE DEF new, attested
  <2> QED BY <1>4, <2>2, <2>6, CommitRecords DEF t
<1>5. CASE Commit(OnDisputeOutcome(Chain, a, b))
  <2> DEFINE t == OnDisputeOutcome(Chain, a, b)
             won == [stats EXCEPT ![a] = WithWin(stats[a])]
             lost == [won EXCEPT ![b] = WithLoss(won[b])]
  <2>1. /\ Recorded(Chain, t, lost, rep.Attestations)
        /\ t.ok => Chain.ok /\ Registered(Chain, a) /\ Registered(Chain, b)
    BY <1>1, OnDisputeOutcomeRecords DEF stats, Decided
  <2>2. stats[a].registered /\ stats[b].registered
    BY <1>1, <1>5, <2>1 DEF Commit, Registered, Stats, stats
  <2>3. SoundStats(WithWin(stats[a])) /\ WithWin(stats[a]) \in ReputationData
        /\ WithWin(stats[a]).registered
    <3>1. stats[a] \in ReputationData /\ RatingInRange(stats[a])
      BY <1>2 DEF SoundStats
    <3>2. 0 \in Nat
      OBVIOUS
    <3>3. WithWin(stats[a]).registered
      BY <2>2, <3>1 DEF WithWin, ReputationData
    <3> QED BY <2>2, <3>1, <3>2, <3>3, OtherCountersSound, CountedType
  <2>4. won \in [Accounts -> ReputationData] /\ (\A c \in Accounts : SoundStats(won[c])) /\ won[b].registered
    <3> HIDE DEF stats
    <3> QED BY <1>2, <2>2, <2>3
  <2> HIDE DEF won
  <2>5. SoundStats(WithLoss(won[b]))
    <3>1. won[b] \in ReputationData /\ RatingInRange(won[b]) /\ 0 \in Nat
      BY <2>4 DEF SoundStats
    <3> QED BY <2>4, <3>1, OtherCountersSound
  <2>6. \A c \in Accounts : SoundStats(lost[c])
    BY <2>4, <2>5
  <2> HIDE DEF t, lost
  <2> QED BY <1>5, <2>1, <2>6, CommitRecords DEF t
<1>6. ASSUME NEW v \in Values, Commit(OnProjectCreated(Chain, a, v))
      PROVE  RepInv'
  <2> DEFINE t == OnProjectCreated(Chain, a, v)
             st2 == WithPosting(st, v)
  <2>1. v \in Nat
    BY RepInputAssumption
  <2>2. /\ Recorded(Chain, t, [stats EXCEPT ![a] = st2], rep.Attestations)
        /\ t.ok <=> Chain.ok /\ Registered(Chain, a)
    BY <1>1, <2>1, OnProjectCreatedRecords DEF stats, st
  <2>3. SoundStats(st2)
    BY <1>2, <1>6, <2>1, <2>2, OtherCountersSound DEF Commit
  <2> HIDE DEF t, st2
  <2> QED BY <1>3, <1>6, <2>2, <2>3, CommitRecords DEF t
<1>7. CASE Commit(OnProjectCancelled(Chain, a))
  <2> DEFINE t == OnProjectCancelled(Chain, a)
             st2 == WithFailure(st)
  <2>2. /\ Recorded(Chain, t, [stats EXCEPT ![a] = st2], rep.Attestations)
        /\ t.ok <=> Chain.ok /\ Registered(Chain, a)
    BY <1>1, OnProjectCancelledRecords DEF stats, st
  <2>3. SoundStats(st2)
    <3>1. st.registered /\ 0 \in Nat
      BY <1>2, <1>7, <2>2 DEF Commit
    <3> QED BY <1>2, <3>1, OtherCountersSound
  <2> HIDE DEF t, st2
  <2> QED BY <1>3, <1>7, <2>2, <2>3, CommitRecords DEF t
<1>8. CASE Commit(OnWorkAccepted(Chain, a))
  <2> DEFINE t == OnWorkAccepted(Chain, a)
             st2 == WithWork(st)
  <2>2. /\ Recorded(Chain, t, [stats EXCEPT ![a] = st2], rep.Attestations)
        /\ t.ok <=> Chain.ok /\ Registered(Chain, a)
    BY <1>1, OnWorkAcceptedRecords DEF stats, st
  <2>3. SoundStats(st2)
    <3>1. st.registered /\ 0 \in Nat
      BY <1>2, <1>8, <2>2 DEF Commit
    <3> QED BY <1>2, <3>1, OtherCountersSound
  <2> HIDE DEF t, st2
  <2> QED BY <1>3, <1>8, <2>2, <2>3, CommitRecords DEF t
<1>9. CASE Commit(SlashJuror(Chain, a))
  <2> DEFINE t == SlashJuror(Chain, a)
  <2>1. t.ok
    BY <1>9 DEF Commit
  <2>2. /\ Keeps(Chain, t) /\ StakesMove(Chain, t)
        /\ t.rep.ReputationStats = rep.ReputationStats
        /\ TiersBut(rep, {}) => TiersBut(t.rep, {})
    BY <1>1, <2>1, SlashJurorEffect
  <2> HIDE DEF t
  <2>3. Commit(t)
    BY <1>9 DEF t
  <2>4. RepTypeOK' /\ PoolsSound' /\ StakesBacked' /\ TierNotOverstated'
    BY <2>2, <2>3, CommitKeeps
  <2>5. rep'.ReputationStats = rep.ReputationStats
    BY <2>2, <2>3 DEF Commit
  <2> QED BY <2>4, <2>5, SameStatsKept DEF RepInv
<1> QED BY <1>4, <1>5, <1>6, <1>7, <1>8, <1>9 DEF InterfaceCall

\* on_jury_vote keeps the invariant although its error is ignored.
LEMMA IgnoredJuryVoteInv ==
  ASSUME RepInv, NEW a \in Accounts, NEW w \in BOOLEAN, IgnoredJuryVote(a, w)
  PROVE  RepInv'
<1> DEFINE stats == rep.ReputationStats
           st == Stats(Chain, a)
           score == IF w THEN 1000000 ELSE 0
           st2 == WithVote(st, score)
           t == [OnJuryVote(Chain, a, w) EXCEPT !.ok = TRUE]
           new == IF Registered(Chain, a) THEN [stats EXCEPT ![a] = st2] ELSE stats
<1>1. Chain \in ChainState /\ Chain.rep = rep /\ Chain.ok
  BY ChainType DEF RepInv
<1>2. /\ stats \in [Accounts -> ReputationData] /\ \A c \in Accounts : SoundStats(stats[c])
      /\ st = stats[a] /\ st \in ReputationData /\ RatingInRange(st)
      /\ Registered(Chain, a) = st.registered
  <2> HIDE DEF score
  <2> QED BY <1>1, RepFields, StatsSound DEF SoundStats, Registered
<1>3. Commit(t)
  BY DEF IgnoredJuryVote
<1>4. Recorded(Chain, t, new, rep.Attestations)
  BY <1>1, IgnoredVoteRecords
<1> HIDE DEF score, t
<1>5. st.registered => SoundStats(st2)
  <2> HIDE DEF st
  <2> QED BY <1>2, VoteSound
<1>6. \A c \in Accounts : SoundStats(new[c])
  <2> HIDE DEF st2, stats, st
  <2> QED BY <1>2, <1>5
<1> HIDE DEF new
<1> QED BY <1>3, <1>4, <1>6, CommitRecords

\* Selecting a jury keeps the invariant: it writes the indices only.
LEMMA SelectJuryInv ==
  ASSUME RepInv, NEW minTier, NEW exclude, NEW count, SelectJury(minTier, exclude, count)
  PROVE  RepInv'
<1> DEFINE x == GetEligibleJurors(Chain, minTier, exclude, count).next
           r == [rep EXCEPT !.NextJurorIndex = x]
           t == [Chain EXCEPT !.rep = r]
<1>1. /\ Chain \in ChainState /\ Chain.ok /\ Chain.rep = rep /\ Chain.ledger = ledger
      /\ Chain.ledger \in Ledger /\ PoolsOf(rep)
  BY ChainType DEF RepInv
<1>2. x \in [PoolTiers -> Nat]
  BY <1>1, GetEligibleJurorsType
<1>3. Commit([Chain EXCEPT !.rep.NextJurorIndex = x])
  BY DEF SelectJury
<1> HIDE DEF x
<1>4. [Chain EXCEPT !.rep.NextJurorIndex = x] = t
  BY <1>1
<1>5. /\ r \in RepStorage /\ r.Jurors = rep.Jurors /\ r.JurorRegistry = rep.JurorRegistry
      /\ r.JurorTiers = rep.JurorTiers /\ r.StakeOf = rep.StakeOf
      /\ r.ReputationStats = rep.ReputationStats
  BY <1>1, <1>2 DEF ChainState, RepStorage
<1>6. PoolsOf(r)
  BY <1>1, <1>5 DEF PoolsOf
<1> HIDE DEF r
<1>7. t \in ChainState /\ t.ok = Chain.ok /\ t.ledger = ledger /\ t.rep = r
  BY <1>1, <1>5 DEF ChainState
<1> HIDE DEF t
<1>8. Keeps(Chain, t)
  BY <1>1, <1>6, <1>7 DEF Keeps
<1>9. StakesMove(Chain, t)
  BY <1>1, <1>5, <1>7 DEF StakesMove, StakeFrom, StakedIff
<1>10. TiersBut(rep, {}) => TiersBut(t.rep, {})
  BY <1>5, <1>7 DEF TiersBut
<1>11. Commit(t)
  BY <1>3, <1>4
<1>12. RepTypeOK' /\ PoolsSound' /\ StakesBacked' /\ TierNotOverstated'
  BY <1>8, <1>9, <1>10, <1>11, CommitKeeps
<1>13. rep'.ReputationStats = rep.ReputationStats
  BY <1>5, <1>7, <1>11 DEF Commit
<1> QED BY <1>12, <1>13, SameStatsKept DEF RepInv

\* Every step keeps the invariant.
LEMMA NextInv == RepInv /\ [RepNext]_repVars => RepInv'
<1> SUFFICES ASSUME RepInv, [RepNext]_repVars
             PROVE  RepInv'
  OBVIOUS
<1>1. ASSUME NEW a \in Accounts, RegisterUser(a) \/ RegisterAsJuror(a) \/ DeregisterAsJuror(a)
      PROVE  RepInv'
  BY <1>1, RegisterUserInv, RegisterAsJurorInv, DeregisterAsJurorInv
<1>2. ASSUME NEW a \in Accounts, NEW b \in Accounts, InterfaceCall(a, b)
      PROVE  RepInv'
  BY <1>2, InterfaceCallInv
<1>3. ASSUME NEW a \in Accounts, NEW w \in BOOLEAN, IgnoredJuryVote(a, w)
      PROVE  RepInv'
  BY <1>3, IgnoredJuryVoteInv
<1>4. ASSUME NEW minTier \in PoolTiers, NEW exclude \in SUBSET Accounts,
             NEW count \in 1..Cardinality(Accounts), SelectJury(minTier, exclude, count)
      PROVE  RepInv'
  BY <1>4, SelectJuryInv
<1>5. CASE UNCHANGED repVars
  <2>1. ledger' = ledger /\ rep' = rep
    BY <1>5 DEF repVars
  <2> QED BY <2>1 DEF RepInv, RepTypeOK, PoolsSound, StakesBacked, TierNotOverstated,
                      MeansInRange, Newcomers
<1> QED BY <1>1, <1>2, <1>3, <1>4, <1>5 DEF RepNext, OtherCall

\* For every genesis that build accepts and every sequence of calls, the storage of
\* the reputation pallet keeps its types: no balance, stake or statistic ever
\* becomes negative.
THEOREM ReputationTypeCorrect == RepSpec => []RepTypeOK
<1>1. RepInv => RepTypeOK
  BY DEF RepInv
<1> QED BY <1>1, InitInv, NextInv, PTL DEF RepSpec

\* For every genesis that build accepts and every sequence of calls, ignored errors
\* included, an account in the pool of a tier is opted in, cached with that tier
\* and there once, and no pool exceeds its bound.
THEOREM ReputationPoolsSound == RepSpec => []PoolsSound
<1>1. RepInv => PoolsSound
  BY DEF RepInv
<1> QED BY <1>1, InitInv, NextInv, PTL DEF RepSpec

\* For every genesis that build accepts and every sequence of calls of users and other
\* pallets, slashes and automatic removals included, what an account has reserved is
\* exactly the stake on record for it, and there is one exactly while it is opted in.
THEOREM ReputationStakesBacked == RepSpec => []StakesBacked
<1>1. RepInv => StakesBacked
  BY DEF RepInv
<1> QED BY <1>1, InitInv, NextInv, PTL DEF RepSpec

\* Whatever calls went before, votes whose tier update failed included, no juror is
\* kept in a tier that its statistics no longer justify.
THEOREM ReputationTierNotOverstated == RepSpec => []TierNotOverstated
<1>1. RepInv => TierNotOverstated
  BY DEF RepInv
<1> QED BY <1>1, InitInv, NextInv, PTL DEF RepSpec

\* The truncated and saturated running means never leave the range of what was
\* averaged, whatever the order of ratings and votes: mean ratings never exceed five
\* stars, nor fall below one while their sum fits in 32 bits, and accuracies stay
\* within a million.
THEOREM ReputationMeansInRange == RepSpec => []MeansInRange
<1>1. RepInv => MeansInRange
  BY DEF RepInv
<1> QED BY <1>1, InitInv, NextInv, PTL DEF RepSpec

\* In every state that any sequence of calls reaches, get_eligible_jurors takes eligible
\* accounts only, exactly as many as asked for if there are that many, nobody of a
\* lower tier while one of a higher tier is left out, and the round-robin indices it
\* stores stay inside the pools.
THEOREM ReputationSelectionCorrect == RepSpec => []SelectionCorrect
<1>1. RepInv => SelectionCorrect
  BY SelectionHolds DEF RepInv
<1> QED BY <1>1, InitInv, NextInv, PTL DEF RepSpec
================================================================================
