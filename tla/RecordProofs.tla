----------------------------- MODULE RecordProofs -----------------------------
(***************************************************************************)
(* The theorems about what the chain says of a user: the accuracy of a     *)
(* juror against the votes behind it (JuryRecord), and the scores (Scores).*)
(* Each rests on what a single call writes into one account's statistics.  *)
(***************************************************************************)
EXTENDS JuryRecord, Scores, ReputationProofs

-------------------------------------------------------------------------------
(* What a call writes into the statistics *)

\* on_project_completed is committed for a registered freelancer and a legal rating
\* and writes the freelancer's statistics only.
LEMMA CompletionWrites ==
  ASSUME RepInv, NEW a \in Accounts, NEW v \in Values, NEW r \in Ratings, NEW p \in ProjectIds,
         Commit(OnProjectCompleted(Chain, a, v, r, p))
  PROVE  LET stats == rep.ReputationStats
         IN  /\ rep'.ReputationStats = [stats EXCEPT ![a] = WithCompletion(stats[a], v, r)]
             /\ stats[a].registered /\ v \in Nat /\ r \in Stars
<1> DEFINE t == OnProjectCompleted(Chain, a, v, r, p)
<1>1. v \in Nat /\ r \in Nat /\ r >= 1000
  BY RepInputAssumption
<1>2. Chain \in ChainState /\ Chain.rep = rep /\ Stats(Chain, a) = rep.ReputationStats[a]
  BY ChainType, StatsSound DEF RepInv
<1>3. /\ Recorded(Chain, t, [rep.ReputationStats EXCEPT ![a] = WithCompletion(Stats(Chain, a), v, r)],
                            rep.Attestations \cup {<<a, p>>})
      /\ t.ok => Chain.ok /\ r <= 5000 /\ Registered(Chain, a)
  BY <1>1, <1>2, OnProjectCompletedRecords
<1> HIDE DEF t
<1>4. t.ok /\ rep' = t.rep
  BY DEF Commit, t
<1> QED BY <1>1, <1>2, <1>3, <1>4 DEF Recorded, Registered, Stars

\* on_dispute_outcome is committed for two registered users and writes their
\* statistics, the winner's first.
LEMMA OutcomeWrites ==
  ASSUME RepInv, NEW a \in Accounts, NEW b \in Accounts, Commit(OnDisputeOutcome(Chain, a, b))
  PROVE  LET stats == rep.ReputationStats
         IN  /\ rep'.ReputationStats = Decided(stats, a, b)
             /\ stats[a].registered /\ stats[b].registered
<1> DEFINE t == OnDisputeOutcome(Chain, a, b)
<1>1. /\ Chain \in ChainState /\ Chain.rep = rep
      /\ Stats(Chain, a) = rep.ReputationStats[a] /\ Stats(Chain, b) = rep.ReputationStats[b]
  BY ChainType, StatsSound DEF RepInv
<1>2. /\ Recorded(Chain, t, Decided(rep.ReputationStats, a, b), rep.Attestations)
      /\ t.ok => Chain.ok /\ Registered(Chain, a) /\ Registered(Chain, b)
  BY <1>1, OnDisputeOutcomeRecords
<1> HIDE DEF t
<1>3. t.ok /\ rep' = t.rep
  BY DEF Commit, t
<1> QED BY <1>1, <1>2, <1>3 DEF Recorded, Registered

\* The client's calls are committed for a registered client and write its statistics
\* only.
LEMMA ClientCallWrites ==
  ASSUME RepInv, NEW a \in Accounts
  PROVE  LET stats == rep.ReputationStats
         IN  /\ \A v \in Values : Commit(OnProjectCreated(Chain, a, v)) =>
                  /\ rep'.ReputationStats = [stats EXCEPT ![a] = WithPosting(stats[a], v)]
                  /\ stats[a].registered /\ v \in Nat
             /\ Commit(OnProjectCancelled(Chain, a)) =>
                  /\ rep'.ReputationStats = [stats EXCEPT ![a] = WithFailure(stats[a])]
                  /\ stats[a].registered
             /\ Commit(OnWorkAccepted(Chain, a)) =>
                  /\ rep'.ReputationStats = [stats EXCEPT ![a] = WithWork(stats[a])]
                  /\ stats[a].registered
<1>1. Chain \in ChainState /\ Chain.rep = rep /\ Stats(Chain, a) = rep.ReputationStats[a]
  BY ChainType, StatsSound DEF RepInv
<1>2. ASSUME NEW v \in Values, Commit(OnProjectCreated(Chain, a, v))
      PROVE  /\ rep'.ReputationStats =
                  [rep.ReputationStats EXCEPT ![a] = WithPosting(rep.ReputationStats[a], v)]
             /\ rep.ReputationStats[a].registered /\ v \in Nat
  <2> DEFINE t == OnProjectCreated(Chain, a, v)
  <2>1. v \in Nat
    BY RepInputAssumption
  <2>2. /\ Recorded(Chain, t, [rep.ReputationStats EXCEPT ![a] = WithPosting(Stats(Chain, a), v)],
                              rep.Attestations)
        /\ t.ok <=> Chain.ok /\ Registered(Chain, a)
    BY <1>1, <2>1, OnProjectCreatedRecords
  <2> HIDE DEF t
  <2>3. t.ok /\ rep' = t.rep
    BY <1>2 DEF Commit, t
  <2> QED BY <1>1, <2>1, <2>2, <2>3 DEF Recorded, Registered
<1>3. ASSUME Commit(OnProjectCancelled(Chain, a))
      PROVE  /\ rep'.ReputationStats =
                  [rep.ReputationStats EXCEPT ![a] = WithFailure(rep.ReputationStats[a])]
             /\ rep.ReputationStats[a].registered
  <2> DEFINE t == OnProjectCancelled(Chain, a)
  <2>1. /\ Recorded(Chain, t, [rep.ReputationStats EXCEPT ![a] = WithFailure(Stats(Chain, a))],
                              rep.Attestations)
        /\ t.ok <=> Chain.ok /\ Registered(Chain, a)
    BY <1>1, OnProjectCancelledRecords
  <2> HIDE DEF t
  <2>2. t.ok /\ rep' = t.rep
    BY <1>3 DEF Commit, t
  <2> QED BY <1>1, <2>1, <2>2 DEF Recorded, Registered
<1>4. ASSUME Commit(OnWorkAccepted(Chain, a))
      PROVE  /\ rep'.ReputationStats =
                  [rep.ReputationStats EXCEPT ![a] = WithWork(rep.ReputationStats[a])]
             /\ rep.ReputationStats[a].registered
  <2> DEFINE t == OnWorkAccepted(Chain, a)
  <2>1. /\ Recorded(Chain, t, [rep.ReputationStats EXCEPT ![a] = WithWork(Stats(Chain, a))],
                              rep.Attestations)
        /\ t.ok <=> Chain.ok /\ Registered(Chain, a)
    BY <1>1, OnWorkAcceptedRecords
  <2> HIDE DEF t
  <2>2. t.ok /\ rep' = t.rep
    BY <1>4 DEF Commit, t
  <2> QED BY <1>1, <2>1, <2>2 DEF Recorded, Registered
<1> QED BY <1>2, <1>3, <1>4

\* on_jury_vote writes the statistics of a registered juror, and nothing for others.
LEMMA VoteWrites ==
  ASSUME RepInv, NEW a \in Accounts, NEW w \in BOOLEAN, IgnoredJuryVote(a, w),
         NEW score, score = IF w THEN 1000000 ELSE 0
  PROVE  LET stats == rep.ReputationStats
         IN  rep'.ReputationStats = IF stats[a].registered
                                    THEN [stats EXCEPT ![a] = WithVote(stats[a], score)]
                                    ELSE stats
<1> DEFINE t == [OnJuryVote(Chain, a, w) EXCEPT !.ok = TRUE]
           x == IF w THEN 1000000 ELSE 0
<1>1. /\ Chain \in ChainState /\ Chain.rep = rep /\ Chain.ok
      /\ Stats(Chain, a) = rep.ReputationStats[a]
  BY ChainType, StatsSound DEF RepInv
<1>2. Recorded(Chain, t, IF Registered(Chain, a)
                         THEN [rep.ReputationStats EXCEPT ![a] = WithVote(Stats(Chain, a), x)]
                         ELSE rep.ReputationStats, rep.Attestations)
  BY <1>1, IgnoredVoteRecords
<1>3. Commit(t)
  BY DEF IgnoredJuryVote
<1>4. x = score
  OBVIOUS
<1> HIDE DEF t, x
<1>5. rep' = t.rep
  BY <1>3 DEF Commit
<1> QED BY <1>1, <1>2, <1>4, <1>5 DEF Recorded, Registered

\* What a call that is not a vote makes of the statistics of a user it is about.  Who
\* wins a dispute against itself is counted twice.
Counts(st, st2) ==
    \/ \E v \in Nat, r \in Stars : st2 = WithCompletion(st, v, r)
    \/ \E v \in Nat : st2 = WithPosting(st, v)
    \/ st2 = WithFailure(st) \/ st2 = WithWork(st)
    \/ st2 = WithWin(st) \/ st2 = WithLoss(st) \/ st2 = WithLoss(WithWin(st))

\* A step leaves the statistics of c alone unless c is one of the users it is about.
Told(c, users) ==
    \/ rep'.ReputationStats[c] = rep.ReputationStats[c]
    \/ /\ c \in users /\ rep.ReputationStats[c].registered
       /\ Counts(rep.ReputationStats[c], rep'.ReputationStats[c])

\* Every call of ReputationInterface that counts something counts one thing, and for
\* the users it is about.
LEMMA CallCounts ==
  ASSUME RepInv, NEW a \in Accounts, NEW b \in Accounts, NEW c \in Accounts
  PROVE  /\ \A v \in Values, r \in Ratings, p \in ProjectIds :
              Commit(OnProjectCompleted(Chain, a, v, r, p)) => Told(c, {a})
         /\ Commit(OnDisputeOutcome(Chain, a, b)) => Told(c, {a, b})
         /\ \A v \in Values : Commit(OnProjectCreated(Chain, a, v)) => Told(c, {a})
         /\ Commit(OnProjectCancelled(Chain, a)) => Told(c, {a})
         /\ Commit(OnWorkAccepted(Chain, a)) => Told(c, {a})
<1> DEFINE stats == rep.ReputationStats
<1>1. stats \in [Accounts -> ReputationData]
  BY DEF RepInv, RepTypeOK, RepStorage
<1>2. ASSUME NEW x, rep'.ReputationStats = [stats EXCEPT ![a] = x], stats[a].registered,
             Counts(stats[a], x)
      PROVE  Told(c, {a})
  BY <1>1, <1>2 DEF Told
<1>3. ASSUME NEW v \in Values, NEW r \in Ratings, NEW p \in ProjectIds,
             Commit(OnProjectCompleted(Chain, a, v, r, p))
      PROVE  Told(c, {a})
  <2>1. /\ rep'.ReputationStats = [stats EXCEPT ![a] = WithCompletion(stats[a], v, r)]
        /\ stats[a].registered /\ v \in Nat /\ r \in Stars
    BY <1>3, CompletionWrites
  <2>2. Counts(stats[a], WithCompletion(stats[a], v, r))
    BY <2>1 DEF Counts
  <2> QED BY <1>2, <2>1, <2>2
<1>4. ASSUME NEW v \in Values, Commit(OnProjectCreated(Chain, a, v))
      PROVE  Told(c, {a})
  <2>1. /\ rep'.ReputationStats = [stats EXCEPT ![a] = WithPosting(stats[a], v)]
        /\ stats[a].registered /\ v \in Nat
    BY <1>4, ClientCallWrites
  <2>2. Counts(stats[a], WithPosting(stats[a], v))
    BY <2>1 DEF Counts
  <2> QED BY <1>2, <2>1, <2>2
<1>5. ASSUME Commit(OnProjectCancelled(Chain, a))
      PROVE  Told(c, {a})
  <2>1. rep'.ReputationStats = [stats EXCEPT ![a] = WithFailure(stats[a])] /\ stats[a].registered
    BY <1>5, ClientCallWrites
  <2>2. Counts(stats[a], WithFailure(stats[a]))
    BY DEF Counts
  <2> QED BY <1>2, <2>1, <2>2
<1>6. ASSUME Commit(OnWorkAccepted(Chain, a))
      PROVE  Told(c, {a})
  <2>1. rep'.ReputationStats = [stats EXCEPT ![a] = WithWork(stats[a])] /\ stats[a].registered
    BY <1>6, ClientCallWrites
  <2>2. Counts(stats[a], WithWork(stats[a]))
    BY DEF Counts
  <2> QED BY <1>2, <2>1, <2>2
<1>7. ASSUME Commit(OnDisputeOutcome(Chain, a, b))
      PROVE  Told(c, {a, b})
  <2> DEFINE won == [stats EXCEPT ![a] = WithWin(stats[a])]
  <2>1. /\ rep'.ReputationStats = [won EXCEPT ![b] = WithLoss(won[b])]
        /\ stats[a].registered /\ stats[b].registered
    BY <1>7, OutcomeWrites DEF Decided
  <2>2. \/ rep'.ReputationStats[c] = stats[c]
        \/ c = a /\ rep'.ReputationStats[c] = WithWin(stats[c])
        \/ c = b /\ rep'.ReputationStats[c] = WithLoss(stats[c])
        \/ c = b /\ rep'.ReputationStats[c] = WithLoss(WithWin(stats[c]))
    BY <1>1, <2>1
  <2> QED BY <2>1, <2>2 DEF Told, Counts
<1> QED BY <1>3, <1>4, <1>5, <1>6, <1>7

-------------------------------------------------------------------------------
(* The accuracy of a juror *)

\* The statistics say the same of the votes of an account.
SameVotes(st, st2) ==
    st2.jury_participation = st.jury_participation /\ st2.jury_accuracy = st.jury_accuracy

\* What is not a vote counts no vote.
LEMMA CountsNoVote ==
  ASSUME NEW st \in ReputationData, NEW st2, Counts(st, st2)
  PROVE  SameVotes(st, st2)
<1>1. ASSUME NEW v \in Nat, NEW r \in Stars
      PROVE  SameVotes(st, WithCompletion(st, v, r))
  BY DEF SameVotes, WithCompletion, ReputationData
<1>2. ASSUME NEW v \in Nat
      PROVE  SameVotes(st, WithPosting(st, v))
  BY DEF SameVotes, WithPosting, ReputationData
<1>3. SameVotes(st, WithFailure(st)) /\ SameVotes(st, WithWork(st))
  BY DEF SameVotes, WithFailure, WithWork, ReputationData
<1>4. ASSUME NEW x \in ReputationData
      PROVE  SameVotes(x, WithWin(x)) /\ SameVotes(x, WithLoss(x)) /\ WithWin(x) \in ReputationData
  <2>1. WithWin(x) \in ReputationData
    <3>1. 0 \in Nat
      OBVIOUS
    <3> QED BY <3>1, CountedType
  <2> QED BY <2>1 DEF SameVotes, WithWin, WithLoss, ReputationData
<1>5. SameVotes(st, WithLoss(WithWin(st)))
  <2>1. SameVotes(st, WithWin(st)) /\ SameVotes(WithWin(st), WithLoss(WithWin(st)))
    BY <1>4
  <2> QED BY <2>1 DEF SameVotes
<1> QED BY <1>1, <1>2, <1>3, <1>4, <1>5 DEF Counts

\* Joining and leaving the pools, slashes and selections leave all statistics alone.
LEMMA PoolCallWrites ==
  ASSUME RepInv, NEW a \in Accounts, NEW minTier, NEW exclude, NEW count,
         \/ RegisterAsJuror(a) \/ DeregisterAsJuror(a) \/ Commit(SlashJuror(Chain, a))
         \/ SelectJury(minTier, exclude, count)
  PROVE  rep'.ReputationStats = rep.ReputationStats
<1>1. RepTypeOK /\ PoolsSound /\ Chain \in ChainState /\ Chain.rep = rep
  BY ChainType DEF RepInv
<1>2. CASE RegisterAsJuror(a)
  <2>1. PICK t : Commit(t) /\ Joined(Chain, t, a)
    BY <1>1, <1>2, RegisterAsJurorEffect
  <2> QED BY <1>1, <2>1 DEF Commit, Joined
<1>3. CASE DeregisterAsJuror(a)
  <2>1. PICK t : Commit(t) /\ Rehomed(Chain, t, a)
    BY <1>1, <1>3, DeregisterAsJurorEffect
  <2> QED BY <1>1, <2>1 DEF Commit, Rehomed
<1>4. CASE Commit(SlashJuror(Chain, a))
  <2> DEFINE t == SlashJuror(Chain, a)
  <2>1. t.ok /\ rep' = t.rep
    BY <1>4 DEF Commit
  <2>2. t.rep.ReputationStats = rep.ReputationStats
    BY <1>1, <2>1, SlashJurorEffect
  <2> QED BY <2>1, <2>2
<1>5. CASE SelectJury(minTier, exclude, count)
  <2> DEFINE x == GetEligibleJurors(Chain, minTier, exclude, count).next
  <2>1. rep' = [Chain EXCEPT !.rep.NextJurorIndex = x].rep
    BY <1>5 DEF SelectJury, Commit
  <2> HIDE DEF x
  <2>2. rep' = [rep EXCEPT !.NextJurorIndex = x]
    BY <1>1, <2>1 DEF ChainState
  <2> QED BY <1>1, <2>2 DEF ChainState, RepStorage
<1> QED BY <1>2, <1>3, <1>4, <1>5

\* register_user writes the empty statistics of a newcomer over none.
LEMMA RegistrationWrites ==
  ASSUME RepInv, NEW a \in Accounts, RegisterUser(a)
  PROVE  /\ rep'.ReputationStats =
              [rep.ReputationStats EXCEPT ![a] = [NoStats EXCEPT !.registered = TRUE]]
         /\ ~ rep.ReputationStats[a].registered /\ rep.ReputationStats[a] = NoStats
<1> DEFINE st == [NoStats EXCEPT !.registered = TRUE]
           t == SetStats(Chain, a, st)
<1>1. st \in ReputationData
  <2>1. 0 \in U32 /\ 0 \in Permill
    BY RepAssumption DEF U32, Permill
  <2> QED BY <2>1 DEF NoStats, ReputationData
<1>2. Commit(t) /\ ~ rep.ReputationStats[a].registered
  BY DEF RegisterUser
<1>3. Chain \in ChainState /\ Chain.rep = rep
  BY ChainType DEF RepInv
<1> HIDE DEF st
<1>4. t.rep.ReputationStats = [rep.ReputationStats EXCEPT ![a] = st]
  BY <1>1, <1>3, SetStatsReports
<1> HIDE DEF t
<1>5. rep.ReputationStats[a] = NoStats
  BY <1>2 DEF RepInv, Newcomers
<1> QED BY <1>2, <1>4, <1>5 DEF Commit, st

\* No step but a vote changes what the statistics say of votes.
LEMMA OtherCallKeepsVotes ==
  ASSUME RepInv, OtherCall, NEW c \in Accounts
  PROVE  SameVotes(rep.ReputationStats[c], rep'.ReputationStats[c])
<1>1. /\ rep.ReputationStats \in [Accounts -> ReputationData]
      /\ rep.ReputationStats[c] \in ReputationData
  BY DEF RepInv, RepTypeOK, RepStorage
<1>2. ASSUME rep'.ReputationStats = rep.ReputationStats
      PROVE  SameVotes(rep.ReputationStats[c], rep'.ReputationStats[c])
  BY <1>2 DEF SameVotes
<1>3. ASSUME NEW users, Told(c, users)
      PROVE  SameVotes(rep.ReputationStats[c], rep'.ReputationStats[c])
  BY <1>1, <1>3, CountsNoVote DEF Told, SameVotes
<1>4. ASSUME NEW a \in Accounts, RegisterUser(a) \/ RegisterAsJuror(a) \/ DeregisterAsJuror(a)
      PROVE  SameVotes(rep.ReputationStats[c], rep'.ReputationStats[c])
  <2>1. CASE RegisterUser(a)
    <3> DEFINE st == [NoStats EXCEPT !.registered = TRUE]
    <3>1. rep'.ReputationStats = [rep.ReputationStats EXCEPT ![a] = st] /\ rep.ReputationStats[a] = NoStats
      BY <2>1, RegistrationWrites
    <3>2. SameVotes(NoStats, st)
      BY DEF SameVotes, NoStats
    <3> HIDE DEF st
    <3> QED BY <1>1, <3>1, <3>2 DEF SameVotes
  <2>2. CASE RegisterAsJuror(a) \/ DeregisterAsJuror(a)
    BY <1>2, <2>2, PoolCallWrites
  <2> QED BY <1>4, <2>1, <2>2
<1>5. ASSUME NEW a \in Accounts, NEW b \in Accounts, InterfaceCall(a, b)
      PROVE  SameVotes(rep.ReputationStats[c], rep'.ReputationStats[c])
  <2>1. CASE Commit(SlashJuror(Chain, a))
    BY <1>2, <2>1, PoolCallWrites
  <2> QED BY <1>3, <1>5, <2>1, CallCounts DEF InterfaceCall
<1>6. ASSUME NEW minTier, NEW exclude, NEW count, SelectJury(minTier, exclude, count)
      PROVE  SameVotes(rep.ReputationStats[c], rep'.ReputationStats[c])
  BY <1>2, <1>6, PoolCallWrites
<1> QED BY <1>4, <1>5, <1>6 DEF OtherCall

\* An accuracy acc of n votes, in parts of m, against the g votes with the majority.
Tracks(m, acc, n, g) ==
    /\ acc * n <= m * g
    /\ n * m <= U32Max => m * g - acc * n <= n * n

\* One more vote.  The truncating division loses less than one part for each of the
\* n + 1 votes, and saturation only ever lowers the accuracy.
LEMMA VoteTracks ==
  ASSUME NEW m \in Nat, m >= 2, NEW acc \in Nat, acc <= m, NEW n \in U32, NEW g \in Nat,
         NEW w \in {0, 1}, Tracks(m, acc, n, g)
  PROVE  Tracks(m, Averaged(acc, Sat(n + 1) - 1, m * w), Sat(n + 1), g + w)
<1> DEFINE k == Sat(n + 1)
           j == k - 1
           y == acc * j
           z == acc * n
           e == m * g
           x == m * w
           top == Sat(Sat(y) + x)
           q == top \div k
           r == q * k
<1>1. n \in Nat /\ n <= U32Max /\ U32Max \in Nat \ {0}
  BY RepAssumption DEF U32
<1>2. /\ k \in Nat \ {0} /\ k <= U32Max /\ j \in Nat /\ j <= n
      /\ Sat(j + 1) = k /\ (n < U32Max => k = n + 1) /\ (n = U32Max => k = n)
  BY <1>1 DEF Sat
<1> HIDE DEF k
<1>3. y \in Nat /\ z \in Nat /\ y <= z /\ x \in Nat /\ e \in Nat
  <2>1. acc * (n - j) \in Nat /\ acc * j \in Nat /\ acc * n \in Nat
    BY <1>1, <1>2
  <2>2. acc * (n - j) = acc * n - acc * j
    BY <1>1, <1>2
  <2>3. m * w \in Nat /\ m * g \in Nat
    OBVIOUS
  <2> HIDE DEF j
  <2> QED BY <2>1, <2>2, <2>3
<1>4. m * (g + w) = e + x
  OBVIOUS
<1>5. z <= e /\ (n * m <= U32Max => e - z <= n * n)
  BY DEF Tracks
<1>6. Averaged(acc, j, x) = q
  BY <1>2 DEF Averaged
<1> HIDE DEF j, y, z, e, x
<1>7. Sat(y) \in Nat /\ Sat(y) <= y /\ (y <= U32Max => Sat(y) = y)
  BY <1>3, SatType
<1>8. /\ top \in Nat /\ top <= Sat(y) + x
      /\ Sat(y) + x <= U32Max => top = Sat(y) + x
  BY <1>3, <1>7, SatType
<1> HIDE DEF top
<1>9. q \in Nat /\ r \in Nat /\ r <= top /\ top < r + k
  <2>1. q \in Nat /\ k * q <= top /\ top < k * q + k
    BY <1>2, <1>8
  <2> HIDE DEF q
  <2>2. k * q = r /\ r \in Nat
    BY <1>2, <2>1
  <2> QED BY <2>1, <2>2
<1> HIDE DEF q, r
<1>10. r <= e + x
  BY <1>3, <1>5, <1>7, <1>8, <1>9
<1>11. ASSUME k * m <= U32Max
       PROVE  (e + x) - r <= k * k
  <2>1. n < U32Max /\ k = n + 1
    <3> SUFFICES ASSUME n = U32Max PROVE FALSE
      BY <1>1, <1>2
    <3>1. k * (m - 2) \in Nat
      BY <1>2
    <3> QED BY <1>1, <1>2, <1>11, <3>1
  <2>2. y = z
    BY <1>1, <2>1 DEF y, z, j
  <2>3. n * m + m <= U32Max /\ n * m \in Nat
    BY <1>1, <1>11, <2>1
  <2>4. z + x <= U32Max
    <3>1. z <= n * m
      <4>1. (m - acc) * n \in Nat
        BY <1>1
      <4> QED BY <1>1, <4>1 DEF z
    <3>2. x <= m
      BY DEF x
    <3> DEFINE u == n * m
    <3>3. u + m <= U32Max /\ u \in Nat /\ z <= u
      BY <2>3, <3>1
    <3> HIDE DEF u
    <3> QED BY <1>1, <1>3, <3>2, <3>3
  <2>5. top = z + x
    BY <1>1, <1>3, <1>7, <1>8, <2>2, <2>4
  <2>6. e - z <= n * n
    BY <1>1, <1>5, <2>3
  <2>7. (e + x) - r <= n * n + n
    <3>1. n * n \in Nat
      BY <1>1
    <3> QED BY <1>1, <1>3, <1>9, <2>1, <2>5, <2>6, <3>1
  <2>8. n * n + n <= k * k
    BY <1>1, <2>1
  <2>9. n * n \in Nat /\ k * k \in Nat
    BY <1>1, <1>2
  <2> QED BY <1>1, <1>3, <1>9, <2>7, <2>8, <2>9
<1>12. /\ q * k <= m * (g + w)
       /\ k * m <= U32Max => m * (g + w) - q * k <= k * k
  BY <1>4, <1>10, <1>11 DEF r
<1>13. Averaged(acc, k - 1, m * w) = q
  BY <1>6 DEF j, x
<1>14. Tracks(m, q, k, g + w)
  BY <1>12 DEF Tracks
<1> QED BY <1>13, <1>14 DEF k

\* The inductive invariant: the pallet's own, which keeps accuracies within a million
\* and newcomers without votes.
JuryInv == RepInv /\ agreed \in [Accounts -> Nat] /\ AccuracyTracksVotes

\* AccuracyTracksVotes, account by account.
LEMMA TracksEach ==
  AccuracyTracksVotes <=>
    \A a \in Accounts : Tracks(1000000, rep.ReputationStats[a].jury_accuracy,
                               rep.ReputationStats[a].jury_participation, agreed[a])
  BY DEF AccuracyTracksVotes, Tracks

\* A genesis without votes establishes the invariant.
LEMMA JuryInitInv == JuryInit => JuryInv
<1> SUFFICES ASSUME JuryInit PROVE JuryInv
  OBVIOUS
<1>1. RepInv /\ agreed = [a \in Accounts |-> 0] /\ rep.ReputationStats = InitialUsers
  BY InitInv DEF JuryInit, RepInit
<1>2. ASSUME NEW m \in Nat, NEW a \in Accounts
      PROVE  Tracks(m, rep.ReputationStats[a].jury_accuracy,
                    rep.ReputationStats[a].jury_participation, agreed[a])
  <2>1. /\ rep.ReputationStats[a].jury_accuracy = 0 /\ rep.ReputationStats[a].jury_participation = 0
        /\ agreed[a] = 0
    BY <1>1, NoVotesAssumption
  <2>2. 0 * 0 = 0 /\ m * 0 = 0
    OBVIOUS
  <2> QED BY <2>1, <2>2 DEF Tracks
<1>3. AccuracyTracksVotes
  BY <1>2, TracksEach
<1> QED BY <1>1, <1>3 DEF JuryInv

\* A vote keeps the accuracy of the juror, and of everybody else.
LEMMA JuryVoteInv ==
  ASSUME JuryInv, NEW a \in Accounts, NEW withMajority \in BOOLEAN, JuryVote(a, withMajority)
  PROVE  JuryInv'
<1> DEFINE stats == rep.ReputationStats
           m == 1000000
           w == IF withMajority THEN 1 ELSE 0
           score == IF withMajority THEN 1000000 ELSE 0
           On(st, g) == Tracks(m, st.jury_accuracy, st.jury_participation, g)
<1>1. /\ RepInv /\ RepInv' /\ IgnoredJuryVote(a, withMajority)
      /\ agreed \in [Accounts -> Nat] /\ stats \in [Accounts -> ReputationData]
  BY IgnoredJuryVoteInv DEF JuryInv, JuryVote, RepInv, RepTypeOK, RepStorage
<1>2. rep'.ReputationStats = IF stats[a].registered
                             THEN [stats EXCEPT ![a] = WithVote(stats[a], score)] ELSE stats
  BY <1>1, VoteWrites
<1>3. agreed' = IF withMajority /\ stats[a].registered THEN [agreed EXCEPT ![a] = @ + 1] ELSE agreed
  <2>1. Registered(Chain, a) = stats[a].registered
    BY <1>1, StatsSound DEF Registered
  <2> QED BY <2>1 DEF JuryVote
<1>4. \A c \in Accounts : On(stats[c], agreed[c])
  BY TracksEach DEF JuryInv
<1>5. m \in Nat /\ m >= 2 /\ w \in {0, 1} /\ score = m * w
  OBVIOUS
<1>6. stats[a].jury_accuracy \in Nat /\ stats[a].jury_accuracy <= m /\ stats[a].jury_participation \in U32
  BY <1>1, StatFields DEF Permill
<1>7. On(WithVote(stats[a], score), agreed[a] + w)
  <2> HIDE DEF m, w, score
  <2> DEFINE st == stats[a]
             k == Sat(st.jury_participation + 1)
  <2>1. Tracks(m, Averaged(st.jury_accuracy, k - 1, m * w), k, agreed[a] + w)
    <3>1. agreed[a] \in Nat /\ On(st, agreed[a])
      BY <1>1, <1>4
    <3> HIDE DEF st
    <3> QED BY <1>5, <1>6, <3>1, VoteTracks DEF st
  <2>2. /\ WithVote(st, score).jury_participation = k
        /\ WithVote(st, score).jury_accuracy = Averaged(st.jury_accuracy, k - 1, score)
    <3>1. st \in ReputationData
      BY <1>1
    <3> HIDE DEF st
    <3> QED BY <3>1 DEF WithVote, ReputationData
  <2> HIDE DEF st, k
  <2>3. On(WithVote(st, score), agreed[a] + w)
    BY <1>5, <2>1, <2>2
  <2> QED BY <2>3 DEF st
<1>8. agreed' \in [Accounts -> Nat] /\ \A c \in Accounts :
        agreed'[c] = IF c = a /\ stats[a].registered THEN agreed[a] + w ELSE agreed[c]
  <2> HIDE DEF score, m
  <2> QED BY <1>1, <1>3
<1> HIDE DEF score, w, m
<1>9. \A c \in Accounts : rep'.ReputationStats[c] =
        IF c = a /\ stats[a].registered THEN WithVote(stats[a], score) ELSE stats[c]
  BY <1>1, <1>2
<1>10. \A c \in Accounts : On(rep'.ReputationStats[c], agreed'[c])
  <2> SUFFICES ASSUME NEW c \in Accounts PROVE On(rep'.ReputationStats[c], agreed'[c])
    OBVIOUS
  <2>1. CASE c = a /\ stats[a].registered
    BY <1>7, <1>8, <1>9, <2>1
  <2>2. CASE ~ (c = a /\ stats[a].registered)
    BY <1>4, <1>8, <1>9, <2>2
  <2> QED BY <2>1, <2>2
<1>11. AccuracyTracksVotes'
  <2>1. \A c \in Accounts : Tracks(1000000, rep'.ReputationStats[c].jury_accuracy,
                                   rep'.ReputationStats[c].jury_participation, agreed'[c])
    BY <1>10 DEF m
  <2> QED BY <2>1, SMT DEF AccuracyTracksVotes, Tracks
<1> QED BY <1>1, <1>8, <1>11 DEF JuryInv

\* Every step keeps the invariant.
LEMMA JuryNextInv == JuryInv /\ [JuryNext]_juryVars => JuryInv'
<1> SUFFICES ASSUME JuryInv, [JuryNext]_juryVars PROVE JuryInv'
  OBVIOUS
<1>1. ASSUME RepInv', UNCHANGED agreed,
             \A c \in Accounts : SameVotes(rep.ReputationStats[c], rep'.ReputationStats[c])
      PROVE  JuryInv'
  <2>1. \A c \in Accounts : Tracks(1000000, rep.ReputationStats[c].jury_accuracy,
                                   rep.ReputationStats[c].jury_participation, agreed[c])
    BY TracksEach DEF JuryInv
  <2>2. \A c \in Accounts : Tracks(1000000, rep'.ReputationStats[c].jury_accuracy,
                                   rep'.ReputationStats[c].jury_participation, agreed'[c])
    BY <1>1, <2>1 DEF SameVotes
  <2>3. AccuracyTracksVotes'
    BY <2>2, SMT DEF AccuracyTracksVotes, Tracks
  <2> QED BY <1>1, <2>3 DEF JuryInv
<1>2. CASE OtherCall /\ UNCHANGED agreed
  <2>1. RepInv /\ RepInv'
    BY <1>2, NextInv DEF RepNext, JuryInv
  <2> QED BY <1>1, <1>2, <2>1, OtherCallKeepsVotes
<1>3. ASSUME NEW a \in Accounts, NEW withMajority \in BOOLEAN, JuryVote(a, withMajority)
      PROVE  JuryInv'
  BY <1>3, JuryVoteInv
<1>4. CASE UNCHANGED juryVars
  <2>1. UNCHANGED repVars /\ UNCHANGED agreed /\ rep' = rep
    BY <1>4 DEF juryVars, repVars
  <2>2. RepInv'
    BY <2>1, NextInv DEF JuryInv
  <2> QED BY <1>1, <2>1, <2>2 DEF SameVotes
<1> QED BY <1>2, <1>3, <1>4 DEF JuryNext

\* However many votes a juror casts and whatever else happens in between, the accuracy
\* internal_jury_vote has on record never claims more than the votes with the majority,
\* and while the weighted sum fits in 32 bits truncation has cost it at most one part
\* per million for each vote.
THEOREM JuryAccuracyTracksVotes == JurySpec => []AccuracyTracksVotes
<1>1. JuryInv => AccuracyTracksVotes
  BY DEF JuryInv
<1> QED BY <1>1, JuryInitInv, JuryNextInv, PTL DEF JurySpec

-------------------------------------------------------------------------------
(* The arithmetic of scores *)

\* A quotient is at least whatever fits into the dividend that often.
LEMMA QuotientAtLeast ==
  ASSUME NEW u \in Nat, NEW k \in Nat \ {0}, NEW q \in Nat, q * k <= u
  PROVE  u \div k \in Nat /\ q <= u \div k
<1> DEFINE p == u \div k
<1>1. p \in Nat /\ k * p <= u /\ u < k * p + k
  OBVIOUS
<1> HIDE DEF p
<1>2. q <= p
  <2> SUFFICES ASSUME q >= p + 1 PROVE FALSE
    BY <1>1
  <2>1. k * (q - (p + 1)) \in Nat
    BY <1>1
  <2>2. k * q >= k * p + k
    BY <1>1, <2>1
  <2>3. k * q = q * k /\ k * q \in Nat /\ k * p \in Nat
    BY <1>1
  <2> QED BY <1>1, <2>2, <2>3
<1> QED BY <1>1, <1>2 DEF p

\* A quotient grows with the dividend and falls with the divisor.
LEMMA QuotientMonotone ==
  ASSUME NEW u \in Nat, NEW v \in Nat, u <= v, NEW k \in Nat \ {0}, NEW l \in Nat \ {0}, l <= k
  PROVE  u \div k \in Nat /\ v \div l \in Nat /\ u \div k <= v \div l
<1> DEFINE q == u \div k
<1>1. q \in Nat /\ k * q <= u
  OBVIOUS
<1> HIDE DEF q
<1>2. q * l <= v
  <2>1. q * (k - l) \in Nat
    BY <1>1
  <2>2. q * l <= k * q /\ q * l \in Nat /\ k * q \in Nat
    BY <1>1, <2>1
  <2> QED BY <1>1, <2>2
<1>3. v \div l \in Nat /\ q <= v \div l
  BY <1>1, <1>2, QuotientAtLeast
<1> QED BY <1>1, <1>3 DEF q

\* A quotient is at most b if the dividend is at most b times the divisor.
LEMMA QuotientAtMost ==
  ASSUME NEW u \in Nat, NEW k \in Nat \ {0}, NEW b \in Nat, u <= b * k
  PROVE  u \div k \in Nat /\ u \div k <= b
<1> DEFINE q == u \div k
<1>1. q \in Nat /\ k * q <= u
  OBVIOUS
<1> HIDE DEF q
<1>2. q <= b
  <2> SUFFICES ASSUME q >= b + 1 PROVE FALSE
    BY <1>1
  <2>1. k * (q - (b + 1)) \in Nat
    BY <1>1
  <2>2. k * q >= k * b + k
    BY <1>1, <2>1
  <2>3. k * b = b * k /\ k * b \in Nat /\ k * q \in Nat
    BY <1>1
  <2> QED BY <1>1, <2>2, <2>3
<1> QED BY <1>1, <1>2 DEF q

\* Saturation and the caps are monotone, and so is what is left after a deduction.
LEMMA CapsMonotone ==
  ASSUME NEW x \in Nat, NEW y \in Nat, x <= y, NEW b \in Nat
  PROVE  /\ Sat(x) \in Nat /\ Sat(y) \in Nat /\ Sat(x) <= Sat(y)
         /\ AtMost(x, b) \in Nat /\ AtMost(y, b) \in Nat /\ AtMost(x, b) <= AtMost(y, b)
         /\ FloorSub(x, b) \in Nat /\ FloorSub(y, b) \in Nat /\ FloorSub(x, b) <= FloorSub(y, b)
         /\ FloorSub(b, x) \in Nat /\ FloorSub(b, y) \in Nat /\ FloorSub(b, y) <= FloorSub(b, x)
  BY RepAssumption DEF Sat, AtMost, FloorSub

\* The share of n in a total it is part of is at most a hundred percent.
LEMMA PercentBound ==
  ASSUME NEW n \in Nat, NEW total \in Nat \ {0}
  PROVE  PercentOf(n, total) \in Nat /\ (n <= total => PercentOf(n, total) <= 100)
<1>1. n * 100 \in Nat
  OBVIOUS
<1>2. Sat(n * 100) \in Nat /\ Sat(n * 100) <= n * 100
  BY <1>1, SatType
<1>3. PercentOf(n, total) \in Nat
  BY <1>2, QuotientType DEF PercentOf
<1>4. ASSUME n <= total PROVE PercentOf(n, total) <= 100
  <2>1. Sat(n * 100) <= 100 * total
    BY <1>2, <1>4
  <2> QED BY <1>2, <2>1, QuotientAtMost DEF PercentOf
<1> QED BY <1>3, <1>4

\* The share falls when the total grows.
LEMMA PercentFalls ==
  ASSUME NEW n \in Nat, NEW total \in Nat \ {0}, NEW total2 \in Nat, total <= total2
  PROVE  PercentOf(n, total2) <= PercentOf(n, total)
<1>1. n * 100 \in Nat
  OBVIOUS
<1>2. Sat(n * 100) \in Nat /\ total2 \in Nat \ {0}
  BY <1>1, SatType
<1> QED BY <1>2, QuotientMonotone DEF PercentOf

\* One more of n in one more of total does not lower the share, while a hundred times
\* n fits in 32 bits.
LEMMA PercentRises ==
  ASSUME NEW n \in Nat, NEW total \in Nat \ {0}, n <= total, NEW total2 \in Nat \ {0},
         total2 <= total + 1, (n + 1) * 100 <= U32Max
  PROVE  PercentOf(n, total) <= PercentOf(n + 1, total2)
<1> DEFINE q == PercentOf(n, total)
<1>1. U32Max \in Nat
  BY RepAssumption
<1>2. n * 100 \in Nat /\ (n + 1) * 100 \in Nat /\ n * 100 <= U32Max
  BY <1>1
<1>3. Sat(n * 100) = n * 100 /\ Sat((n + 1) * 100) = (n + 1) * 100
  BY <1>1, <1>2 DEF Sat
<1>4. q \in Nat /\ q <= 100
  BY PercentBound
<1>5. q * total <= n * 100
  <2> DEFINE u == n * 100
             p == u \div total
  <2>1. u \in Nat
    BY <1>2
  <2> HIDE DEF u
  <2>2. p \in Nat /\ total * p <= u
    BY <2>1
  <2> HIDE DEF p
  <2>3. p * total <= u
    BY <2>2
  <2> QED BY <1>3, <2>3 DEF p, u, PercentOf
<1> HIDE DEF q
<1>6. q * total2 <= (n + 1) * 100
  <2>1. q * ((total + 1) - total2) \in Nat
    BY <1>4
  <2>2. q * total2 <= q * total + q /\ q * total \in Nat /\ q * total2 \in Nat
    BY <1>4, <2>1
  <2> QED BY <1>2, <1>4, <1>5, <2>2
<1>7. q <= ((n + 1) * 100) \div total2
  BY <1>2, <1>4, <1>6, QuotientAtLeast
<1> QED BY <1>3, <1>7 DEF PercentOf, q

-------------------------------------------------------------------------------
(* The parts of a score *)

\* What completion_weight makes of the percentage of completed projects.
Graded(percent, weight) == Sat(Sat(percent * 25) * weight) \div 100

\* It grows with the percentage, and stays in its range for a weight of at most 100.
LEMMA GradedMonotone ==
  ASSUME NEW p \in Nat, NEW p2 \in Nat, p <= p2, NEW weight \in Nat
  PROVE  /\ Graded(p, weight) \in Nat /\ Graded(p2, weight) \in Nat
         /\ Graded(p, weight) <= Graded(p2, weight)
         /\ p <= 100 /\ weight <= 100 => Graded(p, weight) <= 2500
<1> DEFINE x == Sat(p * 25)
           x2 == Sat(p2 * 25)
           y == x * weight
           y2 == x2 * weight
<1>1. p * 25 \in Nat /\ p2 * 25 \in Nat /\ p * 25 <= p2 * 25
  OBVIOUS
<1>2. x \in Nat /\ x2 \in Nat /\ x <= x2 /\ x <= p * 25
  BY <1>1, CapsMonotone, SatType
<1> HIDE DEF x, x2
<1>3. y \in Nat /\ y2 \in Nat /\ y <= y2
  <2>1. (x2 - x) * weight \in Nat
    BY <1>2
  <2> QED BY <1>2, <2>1
<1>4. p <= 100 /\ weight <= 100 => y <= 2500 * 100
  <2> SUFFICES ASSUME p <= 100, weight <= 100 PROVE y <= 2500 * 100
    OBVIOUS
  <2>1. x <= 2500
    BY <1>2
  <2>2. (2500 - x) * weight \in Nat /\ 2500 * weight <= 2500 * 100
    BY <1>2, <2>1
  <2> QED BY <1>2, <2>2
<1> HIDE DEF y, y2
<1>5. Sat(y) \in Nat /\ Sat(y2) \in Nat /\ Sat(y) <= Sat(y2) /\ Sat(y) <= y
  BY <1>3, CapsMonotone, SatType
<1>6. Sat(y) \div 100 \in Nat /\ Sat(y2) \div 100 \in Nat /\ Sat(y) \div 100 <= Sat(y2) \div 100
  BY <1>5, QuotientMonotone
<1>7. p <= 100 /\ weight <= 100 => Sat(y) \div 100 <= 2500
  BY <1>3, <1>4, <1>5, QuotientAtMost
<1> QED BY <1>6, <1>7 DEF Graded, x, x2, y, y2

\* The completed projects are part of the total, which grows by one at most.
LEMMA TotalOf ==
  ASSUME NEW n \in U32, NEW m \in U32
  PROVE  /\ Sat(n + m) \in Nat /\ n \in Nat /\ m \in Nat /\ n <= Sat(n + m) /\ m <= Sat(n + m)
         /\ Sat((n + 1) + m) \in Nat /\ Sat((n + 1) + m) <= Sat(n + m) + 1
         /\ \A l \in U32 : m <= l => Sat(n + l) \in Nat /\ Sat(n + m) <= Sat(n + l)
  BY RepAssumption DEF Sat, U32

\* calculate_completion_score stays in its range.
LEMMA CompletionScoreBound ==
  ASSUME NEW st \in ReputationData, NEW weight \in Nat
  PROVE  /\ CompletionScore(st, weight) \in Nat
         /\ weight <= 100 => CompletionScore(st, weight) <= 2500
<1> DEFINE c == st.projects_completed
           total == Sat(c + st.projects_failed)
<1>1. total \in Nat /\ c \in Nat /\ c <= total
  BY StatFields, TotalOf
<1>2. CompletionScore(st, weight) = IF total = 0 THEN 0 ELSE Graded(PercentOf(c, total), weight)
  BY DEF CompletionScore, Graded
<1> HIDE DEF c, total
<1>3. CASE total = 0
  BY <1>2, <1>3
<1>4. CASE total # 0
  <2> DEFINE p == PercentOf(c, total)
  <2>1. p \in Nat /\ p <= 100 /\ p <= p
    BY <1>1, <1>4, PercentBound
  <2> HIDE DEF p
  <2>2. Graded(p, weight) \in Nat /\ (weight <= 100 => Graded(p, weight) <= 2500)
    BY <2>1, GradedMonotone
  <2> QED BY <1>2, <1>4, <2>2 DEF p
<1> QED BY <1>3, <1>4

\* It rises with a completed project and falls with a failed one.
LEMMA CompletionScoreMoves ==
  ASSUME NEW st \in ReputationData, NEW st2 \in ReputationData, NEW weight \in Nat
  PROVE  /\ /\ st2.projects_completed = st.projects_completed + 1
            /\ st2.projects_failed = st.projects_failed
            /\ (st.projects_completed + 1) * 100 <= U32Max
            => CompletionScore(st, weight) <= CompletionScore(st2, weight)
         /\ /\ st2.projects_completed = st.projects_completed
            /\ st.projects_failed <= st2.projects_failed
            => CompletionScore(st2, weight) <= CompletionScore(st, weight)
<1> DEFINE c == st.projects_completed
           f == st.projects_failed
           f2 == st2.projects_failed
           total == Sat(c + f)
           total2 == Sat(st2.projects_completed + f2)
<1>1. /\ CompletionScore(st, weight) = IF total = 0 THEN 0 ELSE Graded(PercentOf(c, total), weight)
      /\ CompletionScore(st2, weight) =
           IF total2 = 0 THEN 0 ELSE Graded(PercentOf(st2.projects_completed, total2), weight)
  BY DEF CompletionScore, Graded
<1>2. /\ CompletionScore(st, weight) \in Nat /\ CompletionScore(st2, weight) \in Nat
      /\ c \in U32 /\ f \in U32 /\ f2 \in U32 /\ st2.projects_completed \in U32
  BY StatFields, CompletionScoreBound
<1>3. total \in Nat /\ c \in Nat /\ c <= total
  BY <1>2, TotalOf
<1>4. ASSUME st2.projects_completed = c + 1, f2 = f, (c + 1) * 100 <= U32Max
      PROVE  CompletionScore(st, weight) <= CompletionScore(st2, weight)
  <2>1. total2 \in Nat /\ total2 <= total + 1 /\ c + 1 <= total2
    BY <1>2, <1>4, TotalOf
  <2> HIDE DEF total, total2, c, f, f2
  <2>2. CASE total = 0
    BY <1>1, <1>2, <2>2
  <2>3. CASE total # 0
    <3>1. total \in Nat \ {0} /\ total2 \in Nat \ {0}
      BY <1>3, <2>1, <2>3
    <3>2. PercentOf(c, total) <= PercentOf(c + 1, total2)
      BY <1>3, <1>4, <2>1, <3>1, PercentRises
    <3>3. PercentOf(c, total) \in Nat /\ PercentOf(c + 1, total2) \in Nat
      BY <1>3, <3>1, PercentBound
    <3>4. Graded(PercentOf(c, total), weight) <= Graded(PercentOf(c + 1, total2), weight)
      BY <3>2, <3>3, GradedMonotone
    <3> QED BY <1>1, <1>4, <3>1, <3>4
  <2> QED BY <2>2, <2>3
<1>5. ASSUME st2.projects_completed = c, f <= f2
      PROVE  CompletionScore(st2, weight) <= CompletionScore(st, weight)
  <2>1. total2 \in Nat /\ total <= total2
    BY <1>2, <1>5, TotalOf
  <2> HIDE DEF total, total2, f, f2
  <2>2. CASE total = 0
    <3>1. c = 0
      BY <1>3, <2>2
    <3>2. CASE total2 = 0
      BY <1>1, <1>2, <3>2
    <3>3. CASE total2 # 0
      <4>1. PercentOf(0, total2) = 0
        <5>1. Sat(0) = 0 /\ 0 * 100 = 0
          BY RepAssumption DEF Sat
        <5>2. 0 \div total2 = 0
          BY <2>1, <3>3
        <5> QED BY <5>1, <5>2 DEF PercentOf
      <4>2. Graded(0, weight) = 0
        <5>1. Sat(0) = 0 /\ 0 * 25 = 0 /\ 0 * weight = 0 /\ 0 \div 100 = 0
          BY RepAssumption DEF Sat
        <5> QED BY <5>1 DEF Graded
      <4> QED BY <1>1, <1>2, <1>5, <3>1, <3>3, <4>1, <4>2
    <3> QED BY <3>2, <3>3
  <2>3. CASE total # 0
    <3>1. total \in Nat \ {0} /\ total2 \in Nat \ {0}
      BY <1>3, <2>1, <2>3
    <3>2. PercentOf(c, total2) <= PercentOf(c, total)
      BY <1>3, <2>1, <3>1, PercentFalls
    <3>3. PercentOf(c, total) \in Nat /\ PercentOf(c, total2) \in Nat
      BY <1>3, <3>1, PercentBound
    <3>4. Graded(PercentOf(c, total2), weight) <= Graded(PercentOf(c, total), weight)
      BY <3>2, <3>3, GradedMonotone
    <3> QED BY <1>1, <1>5, <3>1, <3>4
  <2> QED BY <2>2, <2>3
<1> QED BY <1>4, <1>5

\* Each bracket of the projects' half of the volume score ends where the next begins.
LEMMA ProjectScoreMoves ==
  ASSUME NEW n \in Nat
  PROVE  /\ ProjectScore(n) \in Nat /\ ProjectScore(n) <= 1000
         /\ ProjectScore(n) <= ProjectScore(n + 1)
<1>1. ProjectScore(n) \in Nat /\ ProjectScore(n) <= 1000
  BY SMT DEF ProjectScore
<1>2. ProjectScore(n) <= ProjectScore(n + 1)
  BY SMT DEF ProjectScore
<1> QED BY <1>1, <1>2

\* The brackets of the values' half.
LEMMA ValueScoreBrackets ==
  ASSUME NEW x \in Nat
  PROVE  /\ ValueScore(0) = 0
         /\ x > 0 /\ x <= 10000 => ValueScore(x) = x \div 10
         /\ x > 10000 /\ x <= 100000 => ValueScore(x) = 1000 + (x - 10000) \div 100
         /\ x > 100000 => ValueScore(x) = 1000
<1>1. ValueScore(0) = 0
  BY SMT DEF ValueScore
<1>2. x > 0 /\ x <= 10000 => ValueScore(x) = x \div 10
  BY SMT DEF ValueScore
<1>3. x > 10000 /\ x <= 100000 => ValueScore(x) = 1000 + (x - 10000) \div 100
  BY SMT DEF ValueScore
<1>4. x > 100000 => ValueScore(x) = 1000
  BY SMT DEF ValueScore
<1> QED BY <1>1, <1>2, <1>3, <1>4, SMT

\* The values' half is a natural number.
LEMMA ValueScoreType ==
  ASSUME NEW x \in Nat
  PROVE  ValueScore(x) \in Nat
<1>1. CASE x = 0 \/ x > 100000
  BY <1>1, ValueScoreBrackets, SMT
<1>2. CASE x > 0 /\ x <= 10000
  <2>1. x \div 10 \in Nat
    BY SMT, QuotientType
  <2> QED BY <1>2, <2>1, ValueScoreBrackets, SMT
<1>3. CASE x > 10000 /\ x <= 100000
  <2>1. x - 10000 \in Nat
    BY <1>3, SMT
  <2>2. (x - 10000) \div 100 \in Nat
    BY <2>1, QuotientType, SMT
  <2> QED BY <1>3, <2>2, ValueScoreBrackets, SMT
<1> QED BY <1>1, <1>2, <1>3, SMT

\* It grows with the earnings up to the last bracket.
LEMMA ValueScoreMoves ==
  ASSUME NEW x \in Nat, NEW y \in Nat, x <= y, y <= 100000
  PROVE  ValueScore(x) <= ValueScore(y)
<1>1. CASE x = 0
  BY <1>1, ValueScoreBrackets, ValueScoreType, SMT
<1>2. CASE x > 0 /\ y <= 10000
  <2>1. ValueScore(x) = x \div 10 /\ ValueScore(y) = y \div 10
    BY <1>2, ValueScoreBrackets, SMT
  <2>2. x \div 10 <= y \div 10
    BY QuotientMonotone, SMT
  <2> QED BY <2>1, <2>2, SMT
<1>3. CASE x > 0 /\ x <= 10000 /\ y > 10000
  <2>1. ValueScore(x) = x \div 10 /\ ValueScore(y) = 1000 + (y - 10000) \div 100
    BY <1>3, ValueScoreBrackets, SMT
  <2>2. x \div 10 \in Nat /\ x \div 10 <= 1000
    BY <1>3, QuotientAtMost, SMT
  <2>3. y - 10000 \in Nat
    BY <1>3, SMT
  <2>4. (y - 10000) \div 100 \in Nat
    BY <2>3, QuotientType, SMT
  <2> QED BY <2>1, <2>2, <2>4, SMT
<1>4. CASE x > 10000
  <2> DEFINE u == x - 10000
             v == y - 10000
  <2>1. ValueScore(x) = 1000 + u \div 100 /\ ValueScore(y) = 1000 + v \div 100
    BY <1>4, ValueScoreBrackets, SMT
  <2>2. u \in Nat /\ v \in Nat /\ u <= v
    BY <1>4, SMT
  <2> HIDE DEF u, v
  <2>3. u \div 100 \in Nat /\ v \div 100 \in Nat /\ u \div 100 <= v \div 100
    BY <2>2, QuotientMonotone, SMT
  <2> QED BY <2>1, <2>3, SMT
<1> QED BY <1>1, <1>2, <1>3, <1>4, SMT

\* calculate_volume_score stays in its range, and rises with a project and earnings of
\* at most 100000.
LEMMA VolumeScoreMoves ==
  ASSUME NEW st \in ReputationData
  PROVE  /\ VolumeScore(st) \in Nat /\ VolumeScore(st) <= 2000
         /\ \A st2 \in ReputationData :
              /\ st2.projects_completed = st.projects_completed + 1
              /\ st.total_earned <= st2.total_earned /\ st2.total_earned <= 100000
              => VolumeScore(st) <= VolumeScore(st2)
<1> DEFINE P(s) == ProjectScore(s.projects_completed)
           V(s) == ValueScore(s.total_earned)
<1>1. ASSUME NEW s \in ReputationData
      PROVE  P(s) \in Nat /\ V(s) \in Nat
  <2>1. s.projects_completed \in Nat /\ s.total_earned \in Nat
    BY StatFields
  <2> QED BY <2>1, ProjectScoreMoves, ValueScoreType
<1>2. ASSUME NEW st2 \in ReputationData,
             st2.projects_completed = st.projects_completed + 1,
             st.total_earned <= st2.total_earned, st2.total_earned <= 100000
      PROVE  P(st) <= P(st2) /\ V(st) <= V(st2)
  <2>1. st.projects_completed \in Nat /\ st.total_earned \in Nat /\ st2.total_earned \in Nat
    BY StatFields
  <2>2. P(st) <= P(st2)
    BY <1>2, <2>1, ProjectScoreMoves, SMT
  <2>3. V(st) <= V(st2)
    BY <1>2, <2>1, ValueScoreMoves, SMT
  <2> QED BY <2>2, <2>3
<1>3. \A s : VolumeScore(s) = AtMost(P(s) + V(s), 2000)
  BY DEF VolumeScore
<1> HIDE DEF P, V
<1>4. ASSUME NEW st2 \in ReputationData,
             st2.projects_completed = st.projects_completed + 1,
             st.total_earned <= st2.total_earned, st2.total_earned <= 100000
      PROVE  VolumeScore(st) <= VolumeScore(st2)
  <2>1. P(st) + V(st) \in Nat /\ P(st2) + V(st2) \in Nat /\ P(st) + V(st) <= P(st2) + V(st2)
    BY <1>1, <1>2, <1>4
  <2> QED BY <1>3, <2>1, CapsMonotone
<1>5. VolumeScore(st) \in Nat /\ VolumeScore(st) <= 2000
  <2>1. P(st) + V(st) \in Nat
    BY <1>1
  <2> QED BY <1>3, <2>1 DEF AtMost
<1> QED BY <1>4, <1>5

\* calculate_rating_score is half of the mean.
LEMMA RatingScoreMoves ==
  ASSUME NEW st \in ReputationData, RatingInRange(st)
  PROVE  /\ RatingScore(st) \in Nat /\ RatingScore(st) <= 2500
         /\ \A st2 \in ReputationData :
              /\ st.avg_rating_received <= st2.avg_rating_received
              /\ st2.total_ratings_received # 0
              => RatingScore(st) <= RatingScore(st2)
<1> DEFINE half(s) == s.avg_rating_received \div 2
<1>1. ASSUME NEW s \in ReputationData
      PROVE  s.avg_rating_received \in Nat /\ half(s) \in Nat
  <2>1. s.avg_rating_received \in Nat
    BY StatFields
  <2> QED BY <2>1, QuotientType
<1>2. half(st) <= 2500
  <2>1. st.avg_rating_received <= 2500 * 2
    BY DEF RatingInRange
  <2> QED BY <1>1, <2>1, QuotientAtMost
<1>3. ASSUME NEW st2 \in ReputationData, st.avg_rating_received <= st2.avg_rating_received
      PROVE  half(st) <= half(st2)
  <2> DEFINE x == st.avg_rating_received
             y == st2.avg_rating_received
  <2>1. x \in Nat /\ y \in Nat /\ x <= y
    BY <1>1, <1>3
  <2> HIDE DEF x, y
  <2>2. x \div 2 <= y \div 2
    BY <2>1, QuotientMonotone
  <2> QED BY <2>2 DEF x, y
<1>4. \A s : RatingScore(s) = IF s.total_ratings_received = 0 THEN 0 ELSE half(s)
  BY DEF RatingScore
<1> HIDE DEF half
<1> QED BY <1>1, <1>2, <1>3, <1>4

\* What the decay leaves of the raw activity grows with it.
LEMMA DecayMonotone ==
  ASSUME NEW x \in Nat, NEW y \in Nat, x <= y, NEW m \in Nat \ {0}, NEW c \in Nat, NEW b \in Nat
  PROVE  /\ AtMost((x * c) \div m, b) \in Nat /\ AtMost((x * c) \div m, b) <= b
         /\ AtMost((y * c) \div m, b) \in Nat
         /\ AtMost((x * c) \div m, b) <= AtMost((y * c) \div m, b)
<1> DEFINE u == x * c
           v == y * c
<1>1. u \in Nat /\ v \in Nat /\ u <= v
  <2>1. (y - x) * c \in Nat
    OBVIOUS
  <2> QED BY <2>1
<1> HIDE DEF u, v
<1>2. u \div m \in Nat /\ v \div m \in Nat /\ u \div m <= v \div m
  BY <1>1, QuotientMonotone
<1>3. AtMost(u \div m, b) <= b
  BY <1>2 DEF AtMost
<1>4. AtMost(u \div m, b) \in Nat /\ AtMost(v \div m, b) \in Nat /\ AtMost(u \div m, b) <= AtMost(v \div m, b)
  BY <1>2, CapsMonotone
<1> QED BY <1>3, <1>4 DEF u, v

\* calculate_activity_score stays in its range, and is best for whoever is active now.
LEMMA ActivityScoreMoves ==
  ASSUME NEW age \in Nat, NEW idle \in Nat, NEW decay \in Permill
  PROVE  /\ ActivityScore(age, idle, decay) \in Nat /\ ActivityScore(age, idle, decay) <= 1500
         /\ ActivityScore(age, 0, decay) \in Nat
         /\ ActivityScore(age, idle, decay) <= ActivityScore(age, 0, decay)
<1> DEFINE m == 1000000
           c == m - decay
           x == AgeScore(age) + RecencyScore(idle)
           y == AgeScore(age) + RecencyScore(0)
           b == 1500
<1>1. m \in Nat \ {0} /\ c \in Nat
  BY SMT DEF Permill
<1>2. AgeScore(age) \in Nat
  BY SMT DEF AgeScore
<1>3. RecencyScore(idle) \in Nat /\ RecencyScore(idle) <= 750
  BY SMT DEF RecencyScore
<1>4. RecencyScore(0) = 750
  BY SMT DEF RecencyScore
<1>5. x \in Nat /\ y \in Nat /\ x <= y
  BY <1>2, <1>3, <1>4, SMT
<1>6. /\ ActivityScore(age, idle, decay) = AtMost((x * c) \div m, b)
      /\ ActivityScore(age, 0, decay) = AtMost((y * c) \div m, b)
  BY SMT DEF ActivityScore
<1>7. b \in Nat
  BY SMT
<1> HIDE DEF m, c, x, y, b
<1>8. /\ AtMost((x * c) \div m, b) \in Nat /\ AtMost((x * c) \div m, b) <= b
      /\ AtMost((y * c) \div m, b) \in Nat
      /\ AtMost((x * c) \div m, b) <= AtMost((y * c) \div m, b)
  BY <1>1, <1>5, <1>7, DecayMonotone, Zenon
<1> QED BY <1>6, <1>8, SMT DEF b

\* What calculate_dispute_score deducts for lost disputes.
Judged(percent, lost, penalty) == FloorSub(AtMost(percent * 15, 1500), Sat(lost * penalty))

\* It grows with the percentage of won disputes and falls with the lost ones.
LEMMA JudgedMonotone ==
  ASSUME NEW p \in Nat, NEW p2 \in Nat, p2 <= p, NEW n \in Nat, NEW n2 \in Nat, n <= n2,
         NEW penalty \in Nat
  PROVE  /\ Judged(p, n, penalty) \in Nat /\ Judged(p2, n2, penalty) \in Nat
         /\ Judged(p2, n2, penalty) <= Judged(p, n, penalty)
         /\ Judged(p, n, penalty) <= 1500
<1> DEFINE x == AtMost(p * 15, 1500)
           x2 == AtMost(p2 * 15, 1500)
           y == Sat(n * penalty)
           y2 == Sat(n2 * penalty)
<1>1. p * 15 \in Nat /\ p2 * 15 \in Nat /\ p2 * 15 <= p * 15
  OBVIOUS
<1>2. x \in Nat /\ x2 \in Nat /\ x2 <= x /\ x <= 1500
  <2>1. x <= 1500
    BY <1>1 DEF AtMost
  <2> DEFINE u == p * 15
             u2 == p2 * 15
             b == 1500
  <2>2. u \in Nat /\ u2 \in Nat /\ u2 <= u /\ b \in Nat
    BY <1>1
  <2> HIDE DEF u, u2, b
  <2>3. AtMost(u2, b) \in Nat /\ AtMost(u, b) \in Nat /\ AtMost(u2, b) <= AtMost(u, b)
    BY <2>2, CapsMonotone
  <2> QED BY <2>1, <2>3 DEF u, u2, b
<1>3. y \in Nat /\ y2 \in Nat /\ y <= y2
  <2>1. (n2 - n) * penalty \in Nat /\ n * penalty \in Nat /\ n2 * penalty \in Nat
    OBVIOUS
  <2>2. n * penalty <= n2 * penalty
    BY <2>1
  <2> QED BY <2>1, <2>2, CapsMonotone
<1> HIDE DEF x, x2, y, y2
<1>4. /\ FloorSub(x, y) \in Nat /\ FloorSub(x2, y2) \in Nat
      /\ FloorSub(x2, y2) <= FloorSub(x, y) /\ FloorSub(x, y) <= 1500
  BY <1>2, <1>3 DEF FloorSub
<1> QED BY <1>4 DEF Judged, x, x2, y, y2

\* calculate_dispute_score stays in its range.
LEMMA DisputeScoreBound ==
  ASSUME NEW st \in ReputationData, NEW penalty \in Nat
  PROVE  DisputeScore(st, penalty) \in Nat /\ DisputeScore(st, penalty) <= 1500
<1> DEFINE w == st.disputes_won
           l == st.disputes_lost
           total == Sat(w + l)
<1>1. total \in Nat /\ w \in Nat /\ l \in Nat
  BY StatFields, TotalOf
<1>2. DisputeScore(st, penalty) = IF total = 0 THEN 1500 ELSE Judged(PercentOf(w, total), l, penalty)
  BY DEF DisputeScore, Judged
<1> HIDE DEF w, l, total
<1>3. CASE total = 0
  BY <1>2, <1>3
<1>4. CASE total # 0
  <2> DEFINE p == PercentOf(w, total)
  <2>1. p \in Nat /\ p <= p /\ l <= l
    BY <1>1, <1>4, PercentBound
  <2> HIDE DEF p
  <2>2. Judged(p, l, penalty) \in Nat /\ Judged(p, l, penalty) <= 1500
    BY <1>1, <2>1, JudgedMonotone
  <2> QED BY <1>2, <1>4, <2>2 DEF p
<1> QED BY <1>3, <1>4

\* It does not fall with a dispute won, while a hundred times those fits in 32 bits,
\* nor rise with one lost.
LEMMA DisputeScoreMoves ==
  ASSUME NEW st \in ReputationData, NEW st2 \in ReputationData, NEW penalty \in Nat
  PROVE  /\ /\ st2.disputes_won = st.disputes_won + 1
            /\ st2.disputes_lost = st.disputes_lost
            /\ (st.disputes_won + 1) * 100 <= U32Max
            => DisputeScore(st, penalty) <= DisputeScore(st2, penalty)
         /\ /\ st2.disputes_won = st.disputes_won
            /\ st.disputes_lost <= st2.disputes_lost
            => DisputeScore(st2, penalty) <= DisputeScore(st, penalty)
<1> DEFINE w == st.disputes_won
           l == st.disputes_lost
           l2 == st2.disputes_lost
           total == Sat(w + l)
           total2 == Sat(st2.disputes_won + l2)
<1>1. /\ DisputeScore(st, penalty) =
           IF total = 0 THEN 1500 ELSE Judged(PercentOf(w, total), l, penalty)
      /\ DisputeScore(st2, penalty) =
           IF total2 = 0 THEN 1500 ELSE Judged(PercentOf(st2.disputes_won, total2), l2, penalty)
  BY DEF DisputeScore, Judged
<1>2. /\ DisputeScore(st, penalty) \in Nat /\ DisputeScore(st2, penalty) \in Nat
      /\ DisputeScore(st2, penalty) <= 1500
      /\ w \in U32 /\ l \in U32 /\ l2 \in U32 /\ st2.disputes_won \in U32
  BY StatFields, DisputeScoreBound
<1>3. total \in Nat /\ w \in Nat /\ l \in Nat /\ l2 \in Nat /\ w <= total /\ l <= total
  BY <1>2, TotalOf
<1>4. ASSUME st2.disputes_won = w + 1, l2 = l, (w + 1) * 100 <= U32Max
      PROVE  DisputeScore(st, penalty) <= DisputeScore(st2, penalty)
  <2>1. total2 \in Nat /\ total2 <= total + 1 /\ w + 1 <= total2
    BY <1>2, <1>4, TotalOf
  <2>2. total # 0 => PercentOf(w, total) <= PercentOf(w + 1, total2)
    <3> HIDE DEF total, total2, w, l, l2
    <3> QED BY <1>3, <1>4, <2>1, PercentRises
  <2> HIDE DEF total, total2, w, l, l2
  <2>3. CASE total = 0
    \* A first dispute, and a won one: a hundred percent.
    <3>1. total2 = 1 /\ w = 0 /\ l = 0
      BY <1>3, <2>1, <2>3
    <3>2. PercentOf(1, 1) = 100
      <4>1. 1 * 100 = 100 /\ Sat(100) = 100 /\ 100 \div 1 = 100
        BY <1>4, <3>1, RepAssumption DEF Sat
      <4> QED BY <4>1 DEF PercentOf
    <3>3. Judged(100, 0, penalty) = 1500
      <4>1. 0 * penalty = 0 /\ Sat(0) = 0
        BY RepAssumption DEF Sat
      <4>2. AtMost(100 * 15, 1500) = 1500 /\ FloorSub(1500, 0) = 1500
        BY DEF AtMost, FloorSub
      <4> QED BY <4>1, <4>2 DEF Judged
    <3>4. DisputeScore(st2, penalty) = 1500
      BY <1>1, <1>4, <3>1, <3>2, <3>3
    <3>5. DisputeScore(st, penalty) = 1500
      BY <1>1, <2>3
    <3> QED BY <3>4, <3>5
  <2>4. CASE total # 0
    <3>1. total \in Nat \ {0} /\ total2 \in Nat \ {0}
      BY <1>3, <2>1, <2>4
    <3>2. PercentOf(w, total) \in Nat /\ PercentOf(w + 1, total2) \in Nat
      BY <1>3, <3>1, PercentBound
    <3>3. Judged(PercentOf(w, total), l, penalty) <= Judged(PercentOf(w + 1, total2), l, penalty)
      <4> DEFINE p == PercentOf(w + 1, total2)
                 p2 == PercentOf(w, total)
      <4>1. p \in Nat /\ p2 \in Nat /\ p2 <= p /\ l <= l
        BY <1>3, <2>2, <2>4, <3>2
      <4> HIDE DEF p, p2
      <4>2. Judged(p2, l, penalty) <= Judged(p, l, penalty)
        BY <1>3, <4>1, JudgedMonotone
      <4> QED BY <4>2 DEF p, p2
    <3> QED BY <1>1, <1>4, <3>1, <3>3
  <2> QED BY <2>3, <2>4
<1>5. ASSUME st2.disputes_won = w, l <= l2
      PROVE  DisputeScore(st2, penalty) <= DisputeScore(st, penalty)
  <2>1. total2 \in Nat /\ total <= total2
    BY <1>2, <1>5, TotalOf
  <2> HIDE DEF total, total2, l, l2
  <2>2. CASE total = 0
    BY <1>1, <1>2, <2>2
  <2>3. CASE total # 0
    <3>1. total \in Nat \ {0} /\ total2 \in Nat \ {0}
      BY <1>3, <2>1, <2>3
    <3>2. PercentOf(w, total2) <= PercentOf(w, total)
      BY <1>3, <2>1, <3>1, PercentFalls
    <3>3. PercentOf(w, total) \in Nat /\ PercentOf(w, total2) \in Nat
      BY <1>3, <3>1, PercentBound
    <3>4. Judged(PercentOf(w, total2), l2, penalty) <= Judged(PercentOf(w, total), l, penalty)
      <4> DEFINE q  == PercentOf(w, total)
                 q2 == PercentOf(w, total2)
      <4>1. q \in Nat /\ q2 \in Nat /\ q2 <= q
        BY <3>2, <3>3
      <4> HIDE DEF q, q2
      <4>2. Judged(q2, l2, penalty) <= Judged(q, l, penalty)
        BY ONLY <1>3, <1>5, <4>1, JudgedMonotone
      <4> QED BY <4>2 DEF q, q2
    <3> QED BY <1>1, <1>5, <3>1, <3>4
  <2> QED BY <2>2, <2>3
<1> QED BY <1>4, <1>5

\* calculate_client_reputation as a function of the statistics: disputes_initiated is
\* always zero.
PostingScore(st) ==
    IF st.projects_posted = 0 THEN 0
    ELSE Sat(PercentOf(st.projects_completed, st.projects_posted) * 30)
ClientScore(st) ==
    AtMost(Sat(PostingScore(st) + PaymentScore(st.total_spent) + CancellationScore(st) + 2000), 10000)

\* The part for cancellations falls with the failed projects...
LEMMA CancellationScoreMoves ==
  ASSUME NEW st \in ReputationData, NEW st2 \in ReputationData,
         st2.projects_posted = st.projects_posted, st.projects_failed <= st2.projects_failed
  PROVE  /\ CancellationScore(st) \in Nat /\ CancellationScore(st2) \in Nat
         /\ CancellationScore(st2) <= CancellationScore(st)
<1> DEFINE n == st.projects_failed
           n2 == st2.projects_failed
           total == st.projects_posted
           b == 2000
           p == PercentOf(n, total)
           p2 == PercentOf(n2, total)
<1>1. n \in Nat /\ n2 \in Nat /\ total \in Nat /\ b \in Nat /\ n <= n2
  BY StatFields
<1>2. /\ CancellationScore(st) = IF total = 0 THEN b ELSE FloorSub(b, Sat(p * 20))
      /\ CancellationScore(st2) = IF total = 0 THEN b ELSE FloorSub(b, Sat(p2 * 20))
  BY DEF CancellationScore
<1> HIDE DEF n, n2, total, b
<1>3. CASE total = 0
  BY <1>1, <1>2, <1>3
<1>4. CASE total # 0
  <2>1. total \in Nat \ {0}
    BY <1>1, <1>4
  <2>2. p \in Nat /\ p2 \in Nat /\ p <= p2
    <3> DEFINE u == n * 100
               v == n2 * 100
    <3>1. u \in Nat /\ v \in Nat /\ u <= v
      BY <1>1
    <3> HIDE DEF u, v
    <3>2. Sat(u) \in Nat /\ Sat(v) \in Nat /\ Sat(u) <= Sat(v)
      BY <1>1, <3>1, CapsMonotone
    <3>3. /\ Sat(u) \div total \in Nat /\ Sat(v) \div total \in Nat
          /\ Sat(u) \div total <= Sat(v) \div total
      BY <2>1, <3>2, QuotientMonotone
    <3> QED BY <3>3 DEF PercentOf, u, v
  <2> HIDE DEF p, p2
  <2> DEFINE x == p * 20
             x2 == p2 * 20
  <2>3. x \in Nat /\ x2 \in Nat /\ x <= x2
    BY <2>2
  <2> HIDE DEF x, x2
  <2>4. Sat(x) \in Nat /\ Sat(x2) \in Nat /\ Sat(x) <= Sat(x2)
    BY <1>1, <2>3, CapsMonotone
  <2>5. /\ FloorSub(b, Sat(x)) \in Nat /\ FloorSub(b, Sat(x2)) \in Nat
        /\ FloorSub(b, Sat(x2)) <= FloorSub(b, Sat(x))
    BY <1>1, <2>4, CapsMonotone
  <2> QED BY <1>2, <1>4, <2>5 DEF x, x2
<1> QED BY <1>3, <1>4

\* ... and with it the client's score, if nothing else changes.
LEMMA ClientScoreMoves ==
  ASSUME NEW st \in ReputationData, NEW st2 \in ReputationData,
         st2.projects_posted = st.projects_posted, st.projects_failed <= st2.projects_failed,
         st2.projects_completed = st.projects_completed, st2.total_spent = st.total_spent
  PROVE  ClientScore(st2) <= ClientScore(st)
<1> DEFINE g == PostingScore(st)
           y == PaymentScore(st.total_spent)
           c == CancellationScore(st)
           c2 == CancellationScore(st2)
           b == 10000
           k == 2000
<1>1. g \in Nat
  <2>1. st.projects_completed \in Nat /\ st.projects_posted \in Nat
    BY StatFields
  <2>2. CASE st.projects_posted = 0
    BY <2>2 DEF PostingScore
  <2>3. CASE st.projects_posted # 0
    <3> DEFINE p == PercentOf(st.projects_completed, st.projects_posted)
    <3>1. p \in Nat
      BY <2>1, <2>3, PercentBound
    <3> HIDE DEF p
    <3>2. p * 30 \in Nat
      BY <3>1
    <3>3. Sat(p * 30) \in Nat
      BY <3>2, SatType
    <3> QED BY <2>3, <3>3 DEF PostingScore, p
  <2> QED BY <2>2, <2>3
<1>2. y \in Nat
  <2> DEFINE s == st.total_spent
  <2>1. s \in Nat
    BY StatFields
  <2> HIDE DEF s
  <2>2. PaymentScore(s) \in Nat
    BY <2>1, SMT DEF PaymentScore
  <2> QED BY <2>2 DEF s
<1>3. c \in Nat /\ c2 \in Nat /\ c2 <= c
  BY CancellationScoreMoves
<1>4. b \in Nat /\ k \in Nat
  BY SMT
<1>5. PostingScore(st2) = g /\ PaymentScore(st2.total_spent) = y
  BY SMT DEF PostingScore
<1>6. /\ ClientScore(st) = AtMost(Sat(g + y + c + k), b)
      /\ ClientScore(st2) = AtMost(Sat(g + y + c2 + k), b)
  BY <1>5, SMT DEF ClientScore
<1> HIDE DEF g, y, c, c2, b, k
<1> DEFINE u == g + y + c + k
           u2 == g + y + c2 + k
<1>7. u \in Nat /\ u2 \in Nat /\ u2 <= u
  BY <1>1, <1>2, <1>3, <1>4
<1> HIDE DEF u, u2
<1>8. Sat(u) \in Nat /\ Sat(u2) \in Nat /\ Sat(u2) <= Sat(u)
  BY <1>4, <1>7, CapsMonotone
<1>9. AtMost(Sat(u2), b) <= AtMost(Sat(u), b)
  BY <1>4, <1>8, CapsMonotone
<1> QED BY <1>6, <1>9 DEF u, u2

-------------------------------------------------------------------------------
(* Deeds *)

\* What a call may have counted, by what a score makes of it: a rated project, ...
Rated(st, st2) ==
    /\ st2.projects_completed = Sat(st.projects_completed + 1)
    /\ st2.projects_failed = st.projects_failed /\ st.total_earned <= st2.total_earned
    /\ st2.disputes_won = st.disputes_won /\ st2.disputes_lost = st.disputes_lost
\* ... something that no property of the scores asks about, ...
Unscored(st, st2) ==
    /\ st2.total_ratings_received = st.total_ratings_received
    /\ st2.projects_failed = st.projects_failed
    /\ st2.disputes_won = st.disputes_won /\ st2.disputes_lost = st.disputes_lost
\* ... a failed project or a lost dispute (perhaps with oneself), ...
Hurt(st, st2) ==
    /\ st2.total_ratings_received = st.total_ratings_received
    /\ st2.avg_rating_received = st.avg_rating_received
    /\ st2.projects_completed = st.projects_completed /\ st2.total_earned = st.total_earned
    /\ st2.projects_posted = st.projects_posted /\ st2.total_spent = st.total_spent
    /\ st.projects_failed <= st2.projects_failed /\ st.disputes_lost <= st2.disputes_lost
    /\ st2.disputes_won = st.disputes_won \/ st2.disputes_won = Sat(st.disputes_won + 1)
\* ... or a dispute won.
Won(st, st2) ==
    /\ st2.total_ratings_received = st.total_ratings_received
    /\ st2.projects_failed = st.projects_failed
    /\ st2.disputes_won = Sat(st.disputes_won + 1) /\ st2.disputes_lost = st.disputes_lost

\* A counter that saturates never falls.
LEMMA SatUp ==
  ASSUME NEW n \in U32
  PROVE  n \in Nat /\ Sat(n + 1) \in U32 /\ n <= Sat(n + 1) /\ Sat(n + 1) <= n + 1
  BY RepAssumption DEF Sat, U32

\* Every call counts one of the four.
LEMMA CountsOne ==
  ASSUME NEW st \in ReputationData, NEW st2, Counts(st, st2)
  PROVE  Rated(st, st2) \/ Unscored(st, st2) \/ Hurt(st, st2) \/ Won(st, st2)
<1>1. /\ st.total_earned \in Nat
      /\ st.projects_failed <= Sat(st.projects_failed + 1)
      /\ st.disputes_lost <= Sat(st.disputes_lost + 1)
      /\ st.disputes_lost \in Nat /\ st.disputes_lost <= st.disputes_lost
  BY StatFields, SatUp
<1>2. ASSUME NEW v \in Nat, NEW r \in Stars, st2 = WithCompletion(st, v, r)
      PROVE  Rated(st, st2)
  BY <1>1, <1>2 DEF Rated, WithCompletion, ReputationData
<1>3. ASSUME NEW v \in Nat, st2 = WithPosting(st, v)
      PROVE  Unscored(st, st2)
  BY <1>3 DEF Unscored, WithPosting, ReputationData
<1>4. ASSUME st2 = WithWork(st)
      PROVE  Unscored(st, st2)
  BY <1>4 DEF Unscored, WithWork, ReputationData
<1>5. ASSUME st2 = WithFailure(st)
      PROVE  Hurt(st, st2)
  BY <1>1, <1>5 DEF Hurt, WithFailure, ReputationData
<1>6. ASSUME st2 = WithLoss(st)
      PROVE  Hurt(st, st2)
  BY <1>1, <1>6 DEF Hurt, WithLoss, ReputationData
<1>7. ASSUME st2 = WithWin(st)
      PROVE  Won(st, st2)
  BY <1>7 DEF Won, WithWin, ReputationData
<1>8. ASSUME st2 = WithLoss(WithWin(st))
      PROVE  Hurt(st, st2)
  BY <1>1, <1>8 DEF Hurt, WithLoss, WithWin, ReputationData
<1> QED BY <1>2, <1>3, <1>4, <1>5, <1>6, <1>7, <1>8 DEF Counts

\* A vote is none that a score looks at.
LEMMA VoteUnscored ==
  ASSUME NEW st \in ReputationData, NEW score
  PROVE  Unscored(st, WithVote(st, score))
  BY DEF Unscored, WithVote, ReputationData

-------------------------------------------------------------------------------
(* Steps and scores *)

\* The inductive invariant: the pallet's own, in particular the range of the mean
\* ratings, and the types of the weights and the dates.
ScoreInv ==
    /\ RepInv
    /\ ReputationWeights \in WeightConfig
    /\ now \in Nat /\ registered_at \in [Accounts -> Nat] /\ active_at \in [Accounts -> Nat]

\* The genesis establishes it.
LEMMA ScoreInitInv == ScoreInit => ScoreInv
<1> SUFFICES ASSUME ScoreInit PROVE ScoreInv
  OBVIOUS
<1>1. RepInv
  BY InitInv DEF ScoreInit
<1>2. ReputationWeights \in WeightConfig
  <2>1. 0 \in Permill
    BY SMT DEF Permill
  <2>2. ReputationWeights = NoWeights
    BY DEF ScoreInit
  <2> QED BY <2>1, <2>2 DEF NoWeights, WeightConfig
<1>3. registered_at \in [Accounts -> Nat] /\ active_at \in [Accounts -> Nat] /\ now \in Nat
  <2>1. /\ registered_at = [a \in Accounts |-> IF InitialUsers[a].registered THEN 1 ELSE 0]
        /\ active_at = registered_at /\ now = 1
    BY DEF ScoreInit
  <2> QED BY <2>1
<1> QED BY <1>1, <1>2, <1>3 DEF ScoreInv

\* A call that counts something is a call of an arbitrary caller.
LEMMA CountedCallIsCall ==
  ASSUME CountedCall
  PROVE  RepNext /\ UNCHANGED registered_at /\ \E users : Active(users)
<1>1. RepNext
  BY DEF CountedCall, RepNext, OtherCall, InterfaceCall
<1>2. \E users : Active(users)
  BY DEF CountedCall
<1> QED BY <1>1, <1>2 DEF CountedCall

\* Every step keeps the invariant.
LEMMA ScoreNextInv == ScoreInv /\ [ScoreNext]_scoreVars => ScoreInv'
<1> SUFFICES ASSUME ScoreInv, [ScoreNext]_scoreVars PROVE ScoreInv'
  OBVIOUS
<1>1. ASSUME NEW users, Active(users)
      PROVE  /\ active_at' \in [Accounts -> Nat] /\ now' \in Nat
             /\ ReputationWeights' \in WeightConfig
  BY <1>1 DEF Active, ScoreInv
<1>2. ASSUME NEW a \in Accounts, Register(a)
      PROVE  ScoreInv'
  <2>1. RepInv'
    BY <1>2, RegisterUserInv DEF Register, ScoreInv
  <2>2. registered_at' \in [Accounts -> Nat]
    BY <1>2 DEF Register, ScoreInv
  <2> QED BY <1>1, <1>2, <2>1, <2>2 DEF Register, ScoreInv
<1>3. CASE CountedCall
  <2>1. RepInv'
    BY <1>3, CountedCallIsCall, NextInv DEF ScoreInv
  <2> QED BY <1>1, <1>3, <2>1, CountedCallIsCall DEF ScoreInv
<1>4. ASSUME UNCHANGED repVars
      PROVE  RepInv'
  BY <1>4, NextInv DEF ScoreInv
<1>5. ASSUME NEW w \in Weightings, UpdateWeights(w)
      PROVE  ScoreInv'
  <2>1. w \in WeightConfig
    BY ScoreAssumption
  <2> QED BY <1>4, <1>5, <2>1 DEF UpdateWeights, ScoreInv
<1>6. ASSUME NEW n \in Jumps, Advance(n)
      PROVE  ScoreInv'
  <2>1. n \in Nat
    BY ScoreAssumption
  <2>2. now' \in Nat
    BY <1>6, <2>1 DEF Advance, ScoreInv
  <2> QED BY <1>4, <1>6, <2>2 DEF Advance, ScoreInv
<1>7. CASE UNCHANGED scoreVars
  BY <1>4, <1>7 DEF scoreVars, ScoreInv
<1> QED BY <1>2, <1>3, <1>5, <1>6, <1>7 DEF ScoreNext

\* A deed is counted for a user that is active now, under the weights there are.
Dated(a) ==
    /\ ReputationWeights' = ReputationWeights /\ now' = now
    /\ registered_at' = registered_at /\ active_at'[a] = now

\* What a step makes of the record of a registered user.
LEMMA StepCounts ==
  ASSUME ScoreInv, [ScoreNext]_scoreVars, NEW c \in Accounts, rep.ReputationStats[c].registered
  PROVE  LET st  == rep.ReputationStats[c]
             st2 == rep'.ReputationStats[c]
         IN  \/ Unscored(st, st2)
             \/ (Rated(st, st2) \/ Hurt(st, st2) \/ Won(st, st2)) /\ Dated(c)
<1> DEFINE st  == rep.ReputationStats[c]
           st2 == rep'.ReputationStats[c]
           Deed == \/ Unscored(st, st2)
                   \/ (Rated(st, st2) \/ Hurt(st, st2) \/ Won(st, st2)) /\ Dated(c)
<1>1. RepInv /\ rep.ReputationStats \in [Accounts -> ReputationData] /\ st \in ReputationData
  BY DEF ScoreInv, RepInv, RepTypeOK, RepStorage
<1>2. ASSUME st2 = st
      PROVE  Deed
  BY <1>2 DEF Unscored
<1>3. ASSUME NEW users, c \in users, Active(users), UNCHANGED registered_at
      PROVE  Dated(c)
  BY <1>3 DEF Active, Dated
<1>4. ASSUME NEW users, Told(c, users), Active(users), UNCHANGED registered_at
      PROVE  Deed
  <2>1. CASE st2 = st
    BY <1>2, <2>1
  <2>2. CASE c \in users /\ Counts(st, st2)
    <3>1. Dated(c)
      BY <1>3, <1>4, <2>2
    <3>2. Rated(st, st2) \/ Unscored(st, st2) \/ Hurt(st, st2) \/ Won(st, st2)
      <4> HIDE DEF st, st2
      <4> QED BY <1>1, <2>2, CountsOne
    <3> QED BY <3>1, <3>2
  <2> QED BY <1>4, <2>1, <2>2 DEF Told
<1>5. ASSUME NEW a \in Accounts, NEW w \in BOOLEAN, IgnoredJuryVote(a, w)
      PROVE  Deed
  <2> DEFINE score == IF w THEN 1000000 ELSE 0
  <2>1. rep'.ReputationStats = IF rep.ReputationStats[a].registered
                               THEN [rep.ReputationStats EXCEPT ![a] = WithVote(rep.ReputationStats[a], score)]
                               ELSE rep.ReputationStats
    BY <1>1, <1>5, VoteWrites
  <2> HIDE DEF score
  <2>2. st2 = st \/ st2 = WithVote(st, score)
    BY <1>1, <2>1
  <2>3. CASE st2 = WithVote(st, score)
    <3>1. Unscored(st, WithVote(st, score))
      <4> HIDE DEF st
      <4> QED BY <1>1, VoteUnscored
    <3> QED BY <2>3, <3>1
  <2> QED BY <1>2, <2>2, <2>3
<1>6. ASSUME NEW a \in Accounts, Register(a)
      PROVE  Deed
  <2>1. /\ rep'.ReputationStats =
             [rep.ReputationStats EXCEPT ![a] = [NoStats EXCEPT !.registered = TRUE]]
        /\ ~ rep.ReputationStats[a].registered
    BY <1>1, <1>6, RegistrationWrites DEF Register
  <2> DEFINE new == [NoStats EXCEPT !.registered = TRUE]
  <2> HIDE DEF new
  <2>2. rep'.ReputationStats = [rep.ReputationStats EXCEPT ![a] = new] /\ a # c
    BY <2>1 DEF new
  <2>3. st2 = st
    BY <1>1, <2>2
  <2> QED BY <1>2, <2>3
<1> HIDE DEF st, st2, Deed
<1>7. ASSUME CountedCall
      PROVE  Deed
  <2>1. UNCHANGED registered_at
    BY <1>7 DEF CountedCall
  <2>2. ASSUME NEW a \in Accounts, NEW v \in Values, NEW r \in Ratings, NEW p \in ProjectIds,
               Commit(OnProjectCompleted(Chain, a, v, r, p)), Active({a})
        PROVE  Deed
    BY <1>1, <1>4, <2>1, <2>2, CallCounts
  <2>3. ASSUME NEW a \in Accounts, NEW b \in Accounts, Commit(OnDisputeOutcome(Chain, a, b)),
               Active({a, b})
        PROVE  Deed
    BY <1>1, <1>4, <2>1, <2>3, CallCounts
  <2>4. ASSUME NEW a \in Accounts, NEW v \in Values, Commit(OnProjectCreated(Chain, a, v)), Active({a})
        PROVE  Deed
    BY <1>1, <1>4, <2>1, <2>4, CallCounts
  <2>5. ASSUME NEW a \in Accounts, Commit(OnProjectCancelled(Chain, a)), Active({a})
        PROVE  Deed
    BY <1>1, <1>4, <2>1, <2>5, CallCounts
  <2>6. ASSUME NEW a \in Accounts, Commit(OnWorkAccepted(Chain, a)), Active({a})
        PROVE  Deed
    BY <1>1, <1>4, <2>1, <2>6, CallCounts
  <2> QED BY <1>5, <1>7, <2>2, <2>3, <2>4, <2>5, <2>6 DEF CountedCall
<1>8. ASSUME rep' = rep
      PROVE  Deed
  BY <1>2, <1>8 DEF st, st2
<1>9. ASSUME NEW w \in Weightings, UpdateWeights(w)
      PROVE  Deed
  BY <1>8, <1>9 DEF UpdateWeights, repVars
<1>10. ASSUME NEW n \in Jumps, Advance(n)
       PROVE  Deed
  BY <1>8, <1>10 DEF Advance, repVars
<1>11. ASSUME UNCHANGED scoreVars
       PROVE  Deed
  <2>1. UNCHANGED repVars
    BY <1>11 DEF scoreVars
  <2>2. rep' = rep
    BY <2>1 DEF repVars
  <2> QED BY <1>8, <2>2
<1>12. ASSUME ScoreNext
       PROVE  Deed
  BY <1>6, <1>7, <1>9, <1>10, <1>12 DEF ScoreNext
<1>13. ScoreNext \/ UNCHANGED scoreVars
  OBVIOUS
<1>14. Deed
  BY <1>11, <1>12, <1>13, Zenon
<1> QED BY <1>14 DEF Deed, st, st2

-------------------------------------------------------------------------------
(* The scores of a user *)

\* calculate_reputation_score without the activity, as a function of the statistics.
Points(st, w) ==
    CompletionScore(st, w.completion_weight) + RatingScore(st) + VolumeScore(st)
    + DisputeScore(st, w.dispute_penalty)

\* Its parts stay in their ranges.
LEMMA PointsBound ==
  ASSUME NEW st \in ReputationData, RatingInRange(st), NEW w \in WeightConfig
  PROVE  /\ CompletionScore(st, w.completion_weight) \in Nat
         /\ w.completion_weight <= 100 => CompletionScore(st, w.completion_weight) <= 2500
         /\ RatingScore(st) \in Nat /\ RatingScore(st) <= 2500
         /\ VolumeScore(st) \in Nat /\ VolumeScore(st) <= 2000
         /\ DisputeScore(st, w.dispute_penalty) \in Nat /\ DisputeScore(st, w.dispute_penalty) <= 1500
         /\ Points(st, w) \in Nat
<1> DEFINE u == w.completion_weight
           v == w.dispute_penalty
<1>1. u \in Nat /\ v \in Nat
  BY DEF WeightConfig
<1> HIDE DEF u, v
<1>2. CompletionScore(st, u) \in Nat /\ (u <= 100 => CompletionScore(st, u) <= 2500)
  BY <1>1, CompletionScoreBound
<1>3. RatingScore(st) \in Nat /\ RatingScore(st) <= 2500
  BY RatingScoreMoves
<1>4. VolumeScore(st) \in Nat /\ VolumeScore(st) <= 2000
  BY VolumeScoreMoves
<1>5. DisputeScore(st, v) \in Nat /\ DisputeScore(st, v) <= 1500
  BY <1>1, DisputeScoreBound
<1>6. CompletionScore(st, u) + RatingScore(st) + VolumeScore(st) + DisputeScore(st, v) \in Nat
  BY <1>2, <1>3, <1>4, <1>5
<1> QED BY <1>2, <1>3, <1>4, <1>5, <1>6 DEF Points, u, v

\* They rise with a project that is rated no worse than the earlier ones...
LEMMA PointsRise ==
  ASSUME NEW st \in ReputationData, NEW st2 \in ReputationData, NEW w \in WeightConfig,
         RatingInRange(st), RatingInRange(st2), Rated(st, st2),
         st.total_ratings_received < st2.total_ratings_received,
         st.avg_rating_received <= st2.avg_rating_received,
         st2.total_earned <= 100000, st2.projects_completed * 100 <= U32Max
  PROVE  Points(st, w) <= Points(st2, w)
<1> DEFINE u == w.completion_weight
           v == w.dispute_penalty
<1>1. u \in Nat /\ v \in Nat
  BY DEF WeightConfig
<1>2. /\ st.projects_completed \in Nat /\ st2.projects_completed \in Nat
      /\ st.total_ratings_received \in Nat /\ st2.total_ratings_received \in Nat
  BY StatFields
<1>3. st2.projects_completed = st.projects_completed + 1
  <2> DEFINE n == st.projects_completed
             n2 == st2.projects_completed
  <2>1. n \in Nat /\ n2 \in Nat /\ n2 = Sat(n + 1) /\ n2 * 100 <= U32Max
    BY <1>2 DEF Rated
  <2> HIDE DEF n, n2
  <2>2. n2 < U32Max
    BY <2>1, ScoreAssumption, RepAssumption
  <2>3. n2 = n + 1
    BY <2>1, <2>2, RepAssumption DEF Sat
  <2> QED BY <2>3 DEF n, n2
<1> HIDE DEF u, v
<1>4. CompletionScore(st, u) <= CompletionScore(st2, u)
  BY <1>1, <1>3, CompletionScoreMoves DEF Rated
<1>5. RatingScore(st) <= RatingScore(st2)
  <2>1. st2.total_ratings_received # 0
    BY <1>2
  <2> QED BY <2>1, RatingScoreMoves
<1>6. VolumeScore(st) <= VolumeScore(st2)
  BY <1>3, VolumeScoreMoves, SMT DEF Rated
<1>7. DisputeScore(st2, v) = DisputeScore(st, v)
  BY SMT DEF DisputeScore, Rated
<1>8. /\ CompletionScore(st, u) \in Nat /\ RatingScore(st) \in Nat /\ VolumeScore(st) \in Nat
      /\ DisputeScore(st, v) \in Nat
  BY PointsBound DEF u, v
<1>9. CompletionScore(st2, u) \in Nat /\ RatingScore(st2) \in Nat /\ VolumeScore(st2) \in Nat
  BY PointsBound DEF u, v
<1> DEFINE c == CompletionScore(st, u)
           c2 == CompletionScore(st2, u)
           r == RatingScore(st)
           r2 == RatingScore(st2)
           o == VolumeScore(st)
           o2 == VolumeScore(st2)
           d == DisputeScore(st, v)
<1>10. Points(st, w) = c + r + o + d /\ Points(st2, w) = c2 + r2 + o2 + d
  BY <1>7 DEF Points, u, v
<1> HIDE DEF c, c2, r, r2, o, o2, d
<1>11. c \in Nat /\ c2 \in Nat /\ r \in Nat /\ r2 \in Nat /\ o \in Nat /\ o2 \in Nat /\ d \in Nat
  BY <1>8, <1>9 DEF c, c2, r, r2, o, o2, d
<1>12. c <= c2 /\ r <= r2 /\ o <= o2
  BY <1>4, <1>5, <1>6 DEF c, c2, r, r2, o, o2
<1> QED BY <1>10, <1>11, <1>12

\* ... and fall with a failed one and with a lost dispute.
LEMMA PointsFall ==
  ASSUME NEW st \in ReputationData, NEW st2 \in ReputationData, NEW w \in WeightConfig,
         RatingInRange(st), RatingInRange(st2), Hurt(st, st2), st2.disputes_won = st.disputes_won
  PROVE  Points(st2, w) <= Points(st, w)
<1> DEFINE u == w.completion_weight
           v == w.dispute_penalty
<1>1. u \in Nat /\ v \in Nat
  BY DEF WeightConfig
<1> HIDE DEF u, v
<1>2. CompletionScore(st2, u) <= CompletionScore(st, u)
  BY <1>1, CompletionScoreMoves DEF Hurt
<1>3. DisputeScore(st2, v) <= DisputeScore(st, v)
  BY <1>1, DisputeScoreMoves DEF Hurt
<1>4. RatingScore(st2) = RatingScore(st) /\ VolumeScore(st2) = VolumeScore(st)
  BY SMT DEF RatingScore, VolumeScore, Hurt
<1>5. /\ CompletionScore(st, u) \in Nat /\ RatingScore(st) \in Nat /\ VolumeScore(st) \in Nat
      /\ DisputeScore(st, v) \in Nat
  BY PointsBound DEF u, v
<1>6. CompletionScore(st2, u) \in Nat /\ DisputeScore(st2, v) \in Nat
  BY PointsBound DEF u, v
<1> DEFINE c == CompletionScore(st, u)
           c2 == CompletionScore(st2, u)
           r == RatingScore(st)
           o == VolumeScore(st)
           d == DisputeScore(st, v)
           d2 == DisputeScore(st2, v)
<1>7. Points(st, w) = c + r + o + d /\ Points(st2, w) = c2 + r + o + d2
  BY <1>4 DEF Points, u, v
<1> HIDE DEF c, c2, r, o, d, d2
<1>8. c \in Nat /\ c2 \in Nat /\ r \in Nat /\ o \in Nat /\ d \in Nat /\ d2 \in Nat
  BY <1>5, <1>6 DEF c, c2, r, o, d, d2
<1>9. c2 <= c /\ d2 <= d
  BY <1>2, <1>3 DEF c, c2, d, d2
<1> QED BY <1>7, <1>8, <1>9

\* The invariant, of one user.
LEMMA UserSound ==
  ASSUME ScoreInv, NEW a \in Accounts
  PROVE  /\ StatsOf(a) = rep.ReputationStats[a] /\ rep.ReputationStats[a] \in ReputationData
         /\ RatingInRange(rep.ReputationStats[a])
         /\ a \in Registrants <=> rep.ReputationStats[a].registered
         /\ FloorSub(now, registered_at[a]) \in Nat /\ FloorSub(now, active_at[a]) \in Nat
         /\ ReputationWeights \in WeightConfig
<1>1. /\ RepInv /\ ReputationWeights \in WeightConfig
      /\ now \in Nat /\ registered_at[a] \in Nat /\ active_at[a] \in Nat
  BY DEF ScoreInv
<1>2. /\ rep.ReputationStats[a] \in ReputationData /\ RatingInRange(rep.ReputationStats[a])
      /\ Stats(Chain, a) = rep.ReputationStats[a]
  BY <1>1, StatsSound DEF SoundStats
<1>3. FloorSub(now, registered_at[a]) \in Nat /\ FloorSub(now, active_at[a]) \in Nat
  BY <1>1 DEF FloorSub
<1> QED BY <1>1, <1>2, <1>3 DEF StatsOf, Registrants, Registered

\* The invariant bounds the parts of every score.
LEMMA ScoreInvInRange == ScoreInv => ScoresInRange
<1> SUFFICES ASSUME ScoreInv, ReputationWeights.completion_weight <= 100, NEW a \in Registrants
             PROVE  /\ CompletionScore(StatsOf(a), ReputationWeights.completion_weight) <= 2500
                    /\ RatingScore(StatsOf(a)) <= 2500
                    /\ VolumeScore(StatsOf(a)) <= 2000
                    /\ DisputeScoreOf(a) <= 1500
                    /\ Activity(a) <= 1500
                    /\ Merits(a) + Activity(a) = ReputationScore(a)
  BY DEF ScoresInRange
<1> DEFINE st == StatsOf(a)
           w == ReputationWeights
           age == FloorSub(now, registered_at[a])
           idle == FloorSub(now, active_at[a])
           decay == w.time_decay_rate
<1>1. /\ st \in ReputationData /\ RatingInRange(st) /\ w \in WeightConfig
      /\ age \in Nat /\ idle \in Nat
  BY UserSound DEF Registrants
<1>2. Merits(a) = Points(st, w) /\ Activity(a) = ActivityScore(age, idle, decay)
  BY DEF Merits, Points, DisputeScoreOf, Activity
<1>3. decay \in Permill
  BY <1>1 DEF WeightConfig
<1>4. w.completion_weight <= 100
  OBVIOUS
<1>5. /\ CompletionScore(st, w.completion_weight) \in Nat
      /\ w.completion_weight <= 100 => CompletionScore(st, w.completion_weight) <= 2500
      /\ RatingScore(st) \in Nat /\ RatingScore(st) <= 2500
      /\ VolumeScore(st) \in Nat /\ VolumeScore(st) <= 2000
      /\ DisputeScore(st, w.dispute_penalty) \in Nat /\ DisputeScore(st, w.dispute_penalty) <= 1500
      /\ Points(st, w) \in Nat
  <2> HIDE DEF st, w
  <2> QED BY <1>1, PointsBound
<1>6. Activity(a) \in Nat /\ Activity(a) <= 1500
  <2> HIDE DEF age, idle, decay
  <2> QED BY <1>1, <1>2, <1>3, ActivityScoreMoves
<1> HIDE DEF st, w
<1>7. Points(st, w) <= 8500
  <2> DEFINE c == CompletionScore(st, w.completion_weight)
             r == RatingScore(st)
             o == VolumeScore(st)
             d == DisputeScore(st, w.dispute_penalty)
  <2>1. c \in Nat /\ r \in Nat /\ o \in Nat /\ d \in Nat /\ Points(st, w) = c + r + o + d
    BY <1>5 DEF Points
  <2>2. c <= 2500 /\ r <= 2500 /\ o <= 2000 /\ d <= 1500
    BY <1>4, <1>5
  <2> HIDE DEF c, r, o, d
  <2> QED BY <2>1, <2>2, SMT
<1>8. ReputationScore(a) = Points(st, w) + Activity(a)
  <2> DEFINE x == Points(st, w) + Activity(a)
  <2>1. x \in Nat /\ x <= 10000 /\ x <= U32Max
    BY <1>5, <1>6, <1>7, ScoreAssumption, RepAssumption, SMT
  <2>2. ReputationScore(a) = AtMost(Sat(x), 10000)
    BY <1>2, SMT DEF ReputationScore
  <2> HIDE DEF x
  <2>3. Sat(x) = x
    BY <2>1, SatType
  <2>4. AtMost(Sat(x), 10000) = x
    BY <2>1, <2>3, SMT DEF AtMost
  <2> QED BY <2>2, <2>4, SMT DEF x
<1>9. CompletionScore(st, w.completion_weight) <= 2500
  BY <1>4, <1>5
<1>10. DisputeScoreOf(a) <= 1500
  BY <1>5 DEF st, w, DisputeScoreOf
<1> QED BY <1>2, <1>5, <1>6, <1>8, <1>9, <1>10, SMT DEF st, w

\* Whatever users do and governance sets, every part of calculate_reputation_score stays
\* in the range its comment gives it as long as the completion weight is a percentage,
\* so that neither the saturation of the sum nor the cap of 10000 ever takes effect.
THEOREM ScoresStayInRange == ScoreSpec => []ScoresInRange
BY ScoreInvInRange, ScoreInitInv, ScoreNextInv, PTL DEF ScoreSpec

\* A rated project does not cost points.
LEMMA StepPays ==
  ASSUME ScoreInv, [ScoreNext]_scoreVars, NEW a \in Registrants
  PROVE  CompletionPays(a)
<1> DEFINE st == rep.ReputationStats[a]
           st2 == rep'.ReputationStats[a]
           w == ReputationWeights
           age == FloorSub(now, registered_at[a])
           idle == FloorSub(now, active_at[a])
           decay == w.time_decay_rate
<1>1. /\ a \in Accounts /\ StatsOf(a) = st /\ st \in ReputationData /\ st.registered
      /\ RatingInRange(st) /\ w \in WeightConfig /\ age \in Nat /\ idle \in Nat
  BY UserSound DEF Registrants
<1>2. st2 \in ReputationData /\ RatingInRange(st2) /\ StatsOf(a)' = st2
  <2>1. ScoreInv'
    BY ScoreNextInv
  <2> QED BY <1>1, <2>1 DEF ScoreInv, RepInv, RepTypeOK, RepStorage, MeansInRange, StatsOf
<1> SUFFICES ASSUME st2.total_ratings_received > st.total_ratings_received,
                    st2.avg_rating_received >= st.avg_rating_received,
                    st2.total_earned <= 100000,
                    st2.projects_completed * 100 <= U32Max
             PROVE  ReputationScore(a)' >= ReputationScore(a)
  BY <1>1, <1>2, SMT DEF CompletionPays
<1>3. \/ Unscored(st, st2)
      \/ (Rated(st, st2) \/ Hurt(st, st2) \/ Won(st, st2)) /\ Dated(a)
  BY <1>1, StepCounts
<1>4. /\ st.total_ratings_received \in Nat /\ st2.total_ratings_received \in Nat
      /\ st.avg_rating_received \in Nat /\ st2.avg_rating_received \in Nat
  <2> HIDE DEF st, st2
  <2> QED BY <1>1, <1>2, StatFields
<1>5. Rated(st, st2) /\ Dated(a)
  <2> HIDE DEF st, st2
  <2>1. st2.total_ratings_received # st.total_ratings_received
    BY <1>4, SMT
  <2> QED BY <1>3, <2>1, SMT DEF Unscored, Hurt, Won
<1>6. Points(st, w) \in Nat /\ Points(st2, w) \in Nat /\ Points(st, w) <= Points(st2, w)
  <2> HIDE DEF st, st2, w
  <2>1. st.total_ratings_received < st2.total_ratings_received
    BY <1>4, SMT
  <2>2. st.avg_rating_received <= st2.avg_rating_received
    BY <1>4, SMT
  <2> QED BY <1>1, <1>2, <1>5, <2>1, <2>2, PointsBound, PointsRise, SMT
<1>7. /\ ActivityScore(age, idle, decay) \in Nat /\ ActivityScore(age, 0, decay) \in Nat
      /\ ActivityScore(age, idle, decay) <= ActivityScore(age, 0, decay)
  <2>1. decay \in Permill
    BY <1>1, SMT DEF WeightConfig
  <2> HIDE DEF age, idle, decay
  <2> QED BY <1>1, <2>1, ActivityScoreMoves, SMT
<1> DEFINE x == Points(st, w) + ActivityScore(age, idle, decay)
           x2 == Points(st2, w) + ActivityScore(age, 0, decay)
           b == 10000
<1>8. ReputationScore(a) = AtMost(Sat(x), b)
  BY <1>1, SMT DEF ReputationScore, Merits, Points, DisputeScoreOf, Activity
<1>9. ReputationScore(a)' = AtMost(Sat(x2), b)
  <2>1. FloorSub(now', active_at'[a]) = 0
    <3>1. now \in Nat /\ now' = now /\ active_at'[a] = now
      BY <1>5, SMT DEF ScoreInv, Dated
    <3> QED BY <3>1, SMT DEF FloorSub
  <2>2. FloorSub(now', registered_at'[a]) = age /\ ReputationWeights' = w
    BY <1>5, SMT DEF Dated
  <2>3. Merits(a)' = Points(st2, w)
    BY <1>2, <2>2, SMT DEF Merits, Points, DisputeScoreOf
  <2>4. Activity(a)' = ActivityScore(age, 0, decay)
    BY <2>1, <2>2, SMT DEF Activity
  <2> QED BY <2>3, <2>4, SMT DEF ReputationScore
<1>10. x \in Nat /\ x2 \in Nat /\ x <= x2 /\ b \in Nat
  <2> HIDE DEF st, st2, w, age, idle, decay
  <2> QED BY <1>6, <1>7, SMT
<1> HIDE DEF x, x2, b
<1>11. AtMost(Sat(x), b) <= AtMost(Sat(x2), b)
  BY <1>10, RepAssumption, SMT DEF Sat, AtMost
<1>12. AtMost(Sat(x), b) \in Nat /\ AtMost(Sat(x2), b) \in Nat
  BY <1>10, RepAssumption, SMT DEF Sat, AtMost
<1> QED BY <1>8, <1>9, <1>11, <1>12, SMT

\* A dispute won does not lower the dispute score, and one lost does not raise it.
LEMMA StepIsFair ==
  ASSUME ScoreInv, [ScoreNext]_scoreVars, NEW a \in Registrants
  PROVE  DisputeIsFair(a)
<1> DEFINE st == rep.ReputationStats[a]
           st2 == rep'.ReputationStats[a]
           v == ReputationWeights.dispute_penalty
<1>1. a \in Accounts /\ StatsOf(a) = st /\ st \in ReputationData /\ st.registered /\ v \in Nat
  BY UserSound DEF Registrants, WeightConfig
<1>2. st2 \in ReputationData /\ StatsOf(a)' = st2
  <2>1. ScoreInv'
    BY ScoreNextInv
  <2> QED BY <1>1, <2>1 DEF ScoreInv, RepInv, RepTypeOK, RepStorage, StatsOf
<1>3. \/ Unscored(st, st2)
      \/ (Rated(st, st2) \/ Hurt(st, st2) \/ Won(st, st2)) /\ Dated(a)
  BY <1>1, StepCounts
<1>4. DisputeScoreOf(a) = DisputeScore(st, v)
  BY <1>1 DEF DisputeScoreOf
<1>5. ASSUME Dated(a) PROVE DisputeScoreOf(a)' = DisputeScore(st2, v)
  BY <1>2, <1>5 DEF DisputeScoreOf, Dated
<1>6. DisputeScore(st, v) \in Nat /\ DisputeScore(st2, v) \in Nat
  <2> HIDE DEF st, st2, v
  <2> QED BY <1>1, <1>2, DisputeScoreBound
<1> DEFINE n == st.disputes_won
           n2 == st2.disputes_won
           l == st.disputes_lost
           l2 == st2.disputes_lost
<1>7. n \in U32 /\ n2 \in U32 /\ l \in U32 /\ l2 \in U32 /\ U32 \subseteq Nat
  <2> HIDE DEF st, st2
  <2> QED BY <1>1, <1>2, StatFields
<1>8. ASSUME n2 > n, ~ (l2 > l), n2 * 100 <= U32Max
      PROVE  DisputeScoreOf(a)' >= DisputeScoreOf(a)
  <2> HIDE DEF st, st2, v
  <2>1. /\ Dated(a) /\ n2 = Sat(n + 1) /\ l2 = l
    <3>1. n2 # n
      <4> HIDE DEF n, n2
      <4> QED BY <1>7, <1>8
    <3>2. Hurt(st, st2) \/ Won(st, st2)
      BY <1>3, <3>1 DEF Unscored, Rated
    <3>3. n2 = Sat(n + 1)
      BY <3>1, <3>2 DEF Hurt, Won
    <3>4. l <= l2
      <4>1. l <= l2 \/ l2 = l
        BY <3>2 DEF Hurt, Won
      <4> HIDE DEF l, l2
      <4> QED BY <1>7, <4>1
    <3>5. l2 = l
      <4> HIDE DEF l, l2
      <4> QED BY <1>7, <1>8, <3>4
    <3>6. Dated(a)
      BY <1>3, <3>1 DEF Unscored
    <3> QED BY <3>3, <3>5, <3>6
  <2>2. n2 = n + 1
    <3> HIDE DEF n, n2
    <3>1. n2 < U32Max
      BY <1>7, <1>8, ScoreAssumption, RepAssumption
    <3> QED BY <1>7, <2>1, <3>1, RepAssumption DEF Sat
  <2>3. DisputeScore(st, v) <= DisputeScore(st2, v)
    BY <1>1, <1>2, <1>8, <2>1, <2>2, DisputeScoreMoves
  <2> QED BY <1>4, <1>5, <1>6, <2>1, <2>3
<1>9. ASSUME l2 > l, ~ (n2 > n)
      PROVE  DisputeScoreOf(a)' <= DisputeScoreOf(a)
  <2> HIDE DEF st, st2, v
  <2>1. l2 # l /\ l <= l2
    <3> HIDE DEF l, l2
    <3> QED BY <1>7, <1>9
  <2>2. Hurt(st, st2) /\ Dated(a)
    BY <1>3, <2>1 DEF Unscored, Rated, Won
  <2>3. n2 = n
    <3>1. n <= Sat(n + 1)
      <4> HIDE DEF n
      <4> QED BY <1>7, SatUp
    <3>2. n2 = n \/ n2 = Sat(n + 1)
      BY <2>2 DEF Hurt
    <3> HIDE DEF n, n2
    <3> QED BY <1>7, <1>9, <3>1, <3>2
  <2>4. DisputeScore(st2, v) <= DisputeScore(st, v)
    BY <1>1, <1>2, <2>1, <2>3, DisputeScoreMoves
  <2> QED BY <1>4, <1>5, <1>6, <2>2, <2>4
<1> QED BY <1>1, <1>2, <1>8, <1>9 DEF DisputeIsFair

\* A failed project raises neither score.
LEMMA StepCosts ==
  ASSUME ScoreInv, [ScoreNext]_scoreVars, NEW a \in Registrants
  PROVE  HarmCosts(a)
<1> DEFINE st == rep.ReputationStats[a]
           st2 == rep'.ReputationStats[a]
           w == ReputationWeights
<1>1. /\ a \in Accounts /\ StatsOf(a) = st /\ st \in ReputationData /\ st.registered
      /\ RatingInRange(st) /\ w \in WeightConfig
  BY UserSound DEF Registrants
<1>2. st2 \in ReputationData /\ RatingInRange(st2) /\ StatsOf(a)' = st2
  <2>1. ScoreInv'
    BY ScoreNextInv
  <2> QED BY <1>1, <2>1 DEF ScoreInv, RepInv, RepTypeOK, RepStorage, MeansInRange, StatsOf
<1> SUFFICES ASSUME st2.projects_failed > st.projects_failed, st2.disputes_won = st.disputes_won
             PROVE  ClientReputation(a)' <= ClientReputation(a) /\ Merits(a)' <= Merits(a)
  BY <1>1, <1>2 DEF HarmCosts
<1>3. \/ Unscored(st, st2)
      \/ (Rated(st, st2) \/ Hurt(st, st2) \/ Won(st, st2)) /\ Dated(a)
  BY <1>1, StepCounts
<1>4. Hurt(st, st2) /\ Dated(a)
  <2> HIDE DEF st, st2
  <2>1. st.projects_failed \in Nat /\ st2.projects_failed \in Nat
    BY <1>1, <1>2, StatFields
  <2>2. st2.projects_failed # st.projects_failed
    BY <2>1
  <2> QED BY <1>3, <2>2 DEF Unscored, Rated, Won
<1>5. Points(st2, w) <= Points(st, w)
  <2> HIDE DEF st, st2, w
  <2> QED BY <1>1, <1>2, <1>4, PointsFall
<1>6. Merits(a) = Points(st, w)
  BY <1>1 DEF Merits, Points, DisputeScoreOf
<1>7. Merits(a)' = Points(st2, w)
  <2>1. ReputationWeights' = w
    BY <1>4 DEF Dated
  <2> QED BY <1>2, <2>1 DEF Merits, Points, DisputeScoreOf
<1>8. ClientScore(st2) <= ClientScore(st)
  <2> HIDE DEF st, st2
  <2> QED BY <1>1, <1>2, <1>4, ClientScoreMoves DEF Hurt
<1>9. ClientReputation(a) = ClientScore(st)
  BY <1>1, SMT DEF ClientReputation, ClientScore, PostingScore, DisputesInitiated
<1>10. ClientReputation(a)' = ClientScore(st2)
  BY <1>2, SMT DEF ClientReputation, ClientScore, PostingScore, DisputesInitiated
<1> HIDE DEF st, st2, w
<1> QED BY <1>5, <1>6, <1>7, <1>8, <1>9, <1>10, SMT

\* Finishing a project that is rated no worse than the earlier ones never costs a
\* freelancer points in calculate_reputation_score, across every bracket of the volume
\* score, up to total earnings of 100000 and while a hundred times the completed
\* projects fits in 32 bits; for every weighting governance may set.
THEOREM ScoresPayCompletion == ScoreSpec => CompletionNeverHurts
<1>1. ScoreInv /\ [ScoreNext]_scoreVars => [\A a \in Registrants : CompletionPays(a)]_scoreVars
  BY StepPays
<1> QED BY <1>1, ScoreInitInv, ScoreNextInv, PTL DEF ScoreSpec, CompletionNeverHurts

\* calculate_dispute_score never falls for the winner of a dispute, while a hundred times
\* the disputes won fits in 32 bits, and never rises for its loser, whatever their history
\* and the penalty governance has set.
THEOREM ScoresJudgeFairly == ScoreSpec => DisputesScoredFairly
<1>1. ScoreInv /\ [ScoreNext]_scoreVars => [\A a \in Registrants : DisputeIsFair(a)]_scoreVars
  BY StepIsFair
<1> QED BY <1>1, ScoreInitInv, ScoreNextInv, PTL DEF ScoreSpec, DisputesScoredFairly

\* A cancelled project or a lost dispute raises neither calculate_client_reputation nor
\* the part of calculate_reputation_score that the record decides.
THEOREM ScoresNeverRewardHarm == ScoreSpec => HarmNeverHelps
<1>1. ScoreInv /\ [ScoreNext]_scoreVars => [\A a \in Registrants : HarmCosts(a)]_scoreVars
  BY StepCosts
<1> QED BY <1>1, ScoreInitInv, ScoreNextInv, PTL DEF ScoreSpec, HarmNeverHelps
================================================================================
