--------------------------- MODULE ReputationLemmas ---------------------------
(***************************************************************************)
(* What each transformer of the chain state (Balances, Reputation) does,   *)
(* for every chain state: types and pools are kept, and balances, stakes,  *)
(* statistics, attestations and locks change in exactly the way stated.    *)
(* The last part is about the round-robin selection of a jury: what        *)
(* internal_get_eligible_jurors returns against the sets it selects from.  *)
(* The theorems about the pallet and about the runtime chain these lemmas. *)
(***************************************************************************)
EXTENDS Reputation, FiniteSums

\* Who is not registered has no statistics: what register_user overwrites is empty.
Newcomers ==
    \A a \in Accounts : rep.ReputationStats[a].registered \/ rep.ReputationStats[a] = NoStats

\* A ledger in the middle of a call: an operation that fails may leave a negative
\* balance behind, which is rolled back with everything else.
Entries == [Accounts -> Int]
LockTable == [Accounts -> [LockIds -> Nat]]
AnyLedger == [free : Entries, reserved : Entries, locks : LockTable]

ChainState == [ok : BOOLEAN, ledger : AnyLedger, rep : RepStorage]

\* The state s with another ledger and another ok.
OnLedger(s, o, f, r, k) ==
    [ok |-> o, ledger |-> [free |-> f, reserved |-> r, locks |-> k], rep |-> s.rep]

\* A state with a well-typed ledger put into it is a chain state.
LEMMA OnLedgerType ==
  ASSUME NEW s \in ChainState, NEW o \in BOOLEAN, NEW f \in Entries, NEW r \in Entries,
         NEW k \in LockTable
  PROVE  /\ OnLedger(s, o, f, r, k) \in ChainState
         /\ f \in [Accounts -> Nat] /\ r \in [Accounts -> Nat]
              => OnLedger(s, o, f, r, k).ledger \in Ledger
  BY DEF ChainState, AnyLedger, Ledger, LockTable, OnLedger

\* The fields of a chain state have their types.
LEMMA LedgerFields ==
  ASSUME NEW s \in ChainState
  PROVE  /\ s.ok \in BOOLEAN
         /\ s.ledger.free \in Entries /\ s.ledger.reserved \in Entries
         /\ s.ledger.locks \in LockTable
         /\ s.rep \in RepStorage
         /\ s.ledger \in Ledger <=> /\ s.ledger.free \in [Accounts -> Nat]
                                    /\ s.ledger.reserved \in [Accounts -> Nat]
  BY DEF ChainState, AnyLedger, Ledger, LockTable

\* A ledger operation that rewrites one account's entries, as OnLedger.
LEMMA OnLedgerFields ==
  ASSUME NEW s \in ChainState, NEW o, NEW f, NEW r, NEW k
  PROVE  LET t == OnLedger(s, o, f, r, k)
         IN  /\ t.ok = o /\ t.ledger.free = f /\ t.ledger.reserved = r /\ t.ledger.locks = k
             /\ t.rep = s.rep
  BY DEF OnLedger

\* unreserve takes at most what is reserved, and keeps balances natural.
LEMMA UnreserveType ==
  ASSUME NEW s \in ChainState, NEW a \in Accounts, NEW v \in Nat
  PROVE  LET t == Unreserve(s, a, v)
             x == Takeable(s, a, v)
         IN  /\ t \in ChainState /\ t.ok = s.ok /\ t.rep = s.rep
             /\ t.ledger.free = [s.ledger.free EXCEPT ![a] = @ + x]
             /\ t.ledger.reserved = [s.ledger.reserved EXCEPT ![a] = @ - x]
             /\ t.ledger.locks = s.ledger.locks
             /\ s.ledger \in Ledger => t.ledger \in Ledger
<1> DEFINE x == Takeable(s, a, v)
           f == [s.ledger.free EXCEPT ![a] = @ + x]
           r == [s.ledger.reserved EXCEPT ![a] = @ - x]
<1>1. f \in Entries /\ r \in Entries
  BY LedgerFields DEF Entries, Takeable
<1>2. s.ledger \in Ledger => f \in [Accounts -> Nat] /\ r \in [Accounts -> Nat]
  BY LedgerFields DEF Entries, Takeable
<1>3. Unreserve(s, a, v) = [s EXCEPT !.ledger = [@ EXCEPT !.reserved = r, !.free = f]]
  BY DEF ChainState, AnyLedger, Unreserve
<1> HIDE DEF f, r
<1>4. Unreserve(s, a, v) = OnLedger(s, s.ok, f, r, s.ledger.locks)
  BY <1>3 DEF ChainState, AnyLedger, OnLedger
<1>5. s.ok \in BOOLEAN /\ s.ledger.locks \in LockTable
  BY LedgerFields
<1>6. /\ OnLedger(s, s.ok, f, r, s.ledger.locks) \in ChainState
      /\ f \in [Accounts -> Nat] /\ r \in [Accounts -> Nat] =>
           OnLedger(s, s.ok, f, r, s.ledger.locks).ledger \in Ledger
  BY ONLY <1>1, <1>5, OnLedgerType
<1>7. /\ Unreserve(s, a, v) \in ChainState
      /\ s.ledger \in Ledger => Unreserve(s, a, v).ledger \in Ledger
  BY <1>2, <1>4, <1>6
<1> QED BY <1>4, <1>7, OnLedgerFields DEF f, r

\* reserve moves v from free to reserved, and keeps balances natural when it
\* succeeds.
LEMMA ReserveType ==
  ASSUME NEW s \in ChainState, NEW a \in Accounts, NEW v \in Nat
  PROVE  LET t == Reserve(s, a, v)
         IN  /\ t \in ChainState /\ (t.ok => s.ok) /\ t.rep = s.rep
             /\ t.ledger.free = [s.ledger.free EXCEPT ![a] = @ - v]
             /\ t.ledger.reserved = [s.ledger.reserved EXCEPT ![a] = @ + v]
             /\ t.ledger.locks = s.ledger.locks
             /\ s.ledger \in Ledger /\ t.ok => t.ledger \in Ledger
<1> DEFINE left == s.ledger.free[a] - v
           f == [s.ledger.free EXCEPT ![a] = @ - v]
           r == [s.ledger.reserved EXCEPT ![a] = @ + v]
           o == s.ok /\ left >= ExistentialDeposit /\ WithinLocks(s.ledger, a, left)
<1>1. f \in Entries /\ r \in Entries /\ o \in BOOLEAN
  BY LedgerFields DEF Entries, WithinLocks
<1>2. s.ledger \in Ledger /\ o => f \in [Accounts -> Nat] /\ r \in [Accounts -> Nat]
  BY LedgerFields, BalancesAssumption DEF Entries
<1>3. v # 0 => Reserve(s, a, v) = OnLedger(s, o, f, r, s.ledger.locks)
  BY DEF ChainState, AnyLedger, Reserve, OnLedger
<1>4. v = 0 => Reserve(s, a, v) = s /\ f = s.ledger.free /\ r = s.ledger.reserved
  BY LedgerFields DEF Reserve, Entries
<1>5. o => s.ok
  OBVIOUS
<1> HIDE DEF f, r, o
<1>6. CASE v = 0
  BY <1>4, <1>6 DEF f, r
<1>7. CASE v # 0
  <2>1. /\ Reserve(s, a, v) \in ChainState
        /\ s.ledger \in Ledger /\ o => Reserve(s, a, v).ledger \in Ledger
    <3>1. s.ledger.locks \in LockTable
      BY LedgerFields
    <3>2. /\ OnLedger(s, o, f, r, s.ledger.locks) \in ChainState
          /\ f \in [Accounts -> Nat] /\ r \in [Accounts -> Nat] =>
               OnLedger(s, o, f, r, s.ledger.locks).ledger \in Ledger
      BY ONLY <1>1, <3>1, OnLedgerType
    <3> QED BY <1>2, <1>3, <1>7, <3>2
  <2> QED BY <1>3, <1>5, <1>7, <2>1, OnLedgerFields DEF f, r
<1> QED BY <1>6, <1>7

\* slash_reserved takes at most what is reserved.
LEMMA SlashReservedType ==
  ASSUME NEW s \in ChainState, NEW a \in Accounts, NEW v \in Nat
  PROVE  LET t == SlashReserved(s, a, v)
         IN  /\ t \in ChainState /\ t.ok = s.ok /\ t.rep = s.rep
             /\ t.ledger.free = s.ledger.free
             /\ t.ledger.reserved = [s.ledger.reserved EXCEPT ![a] = @ - Takeable(s, a, v)]
             /\ t.ledger.locks = s.ledger.locks
             /\ s.ledger \in Ledger => t.ledger \in Ledger
<1> DEFINE r == [s.ledger.reserved EXCEPT ![a] = @ - Takeable(s, a, v)]
<1>1. r \in Entries
  BY LedgerFields DEF Entries, Takeable
<1>2. s.ledger \in Ledger => r \in [Accounts -> Nat]
  BY LedgerFields DEF Entries, Takeable
<1>3. SlashReserved(s, a, v) = [s EXCEPT !.ledger = [@ EXCEPT !.reserved = r]]
  BY DEF ChainState, AnyLedger, SlashReserved
<1> HIDE DEF r
<1>4. SlashReserved(s, a, v) = OnLedger(s, s.ok, s.ledger.free, r, s.ledger.locks)
  BY <1>3 DEF ChainState, AnyLedger, OnLedger
<1>5. SlashReserved(s, a, v) \in ChainState
  BY <1>1, <1>4, LedgerFields, OnLedgerType
<1>6. s.ledger \in Ledger => SlashReserved(s, a, v).ledger \in Ledger
  <2>1. s.ledger \in Ledger => s.ledger.free \in [Accounts -> Nat]
    BY LedgerFields
  <2>2. SlashReserved(s, a, v).ledger.free = s.ledger.free /\ SlashReserved(s, a, v).ledger.reserved = r
    BY <1>4, OnLedgerFields
  <2> QED BY <1>2, <1>5, <2>1, <2>2, LedgerFields
<1> QED BY <1>4, <1>5, <1>6, OnLedgerFields DEF r

-------------------------------------------------------------------------------
(* The storage of the pallet *)

\* The storage items of a chain state have their types.
LEMMA RepFields ==
  ASSUME NEW s \in ChainState
  PROVE  /\ s.rep.ReputationStats \in [Accounts -> ReputationData]
         /\ s.rep.Attestations \in SUBSET (Accounts \X ProjectIds)
         /\ s.rep.JurorTiers \in [Accounts -> Tiers]
         /\ s.rep.JurorRegistry \in SUBSET Accounts
         /\ s.rep.Jurors \in [PoolTiers -> Seq(Accounts)]
         /\ s.rep.NextJurorIndex \in [PoolTiers -> Nat]
         /\ s.rep.StakeOf \in [Accounts -> Nat \cup {None}]
  BY DEF ChainState, RepStorage

\* A state that differs from s in the storage of the pallet, and in ok, only.
OnRep(s, o, r) == [ok |-> o, ledger |-> s.ledger, rep |-> r]

\* A state with another well-typed storage is a chain state.
LEMMA OnRepType ==
  ASSUME NEW s \in ChainState, NEW o \in BOOLEAN, NEW r \in RepStorage
  PROVE  OnRep(s, o, r) \in ChainState
  BY DEF ChainState, OnRep

\* Failing changes nothing but ok.
LEMMA FailType ==
  ASSUME NEW s \in ChainState
  PROVE  /\ [s EXCEPT !.ok = FALSE] \in ChainState
         /\ ~ [s EXCEPT !.ok = FALSE].ok
         /\ [s EXCEPT !.ok = FALSE].ledger = s.ledger
         /\ [s EXCEPT !.ok = FALSE].rep = s.rep
  BY DEF ChainState

\* Writing the statistics or the pools keeps the state well typed.
LEMMA SettersType ==
  ASSUME NEW s \in ChainState
  PROVE  /\ \A x \in [Accounts -> ReputationData] :
              /\ [s EXCEPT !.rep.ReputationStats = x] \in ChainState
              /\ [s EXCEPT !.rep.ReputationStats = x].ok = s.ok
              /\ [s EXCEPT !.rep.ReputationStats = x].ledger = s.ledger
         /\ \A x \in [PoolTiers -> Seq(Accounts)] :
              /\ [s EXCEPT !.rep.Jurors = x] \in ChainState
              /\ [s EXCEPT !.rep.Jurors = x].ok = s.ok
              /\ [s EXCEPT !.rep.Jurors = x].ledger = s.ledger
  BY DEF ChainState, RepStorage

\* Vec::swap_remove returns a list of accounts.
LEMMA SwapRemoveType ==
  ASSUME NEW pool \in Seq(Accounts), NEW a \in Accounts
  PROVE  /\ SwapRemove(pool, a) \in Seq(Accounts)
  BY DEF SwapRemove

\* calculate_tier_from_stats returns a tier.
LEMMA CalculateTierType ==
  ASSUME NEW st \in ReputationData
  PROVE  CalculateTier(st) \in Tiers
  BY DEF ReputationData, CalculateTier, Tiers, Ineligible, Bronze, Silver, Gold

\* PoolsSound of a storage r.
PoolsOf(r) ==
    \A t \in PoolTiers :
      /\ Len(r.Jurors[t]) <= MaxPool[t]
      /\ \A i \in 1..Len(r.Jurors[t]) :
           /\ r.Jurors[t][i] \in r.JurorRegistry
           /\ r.JurorTiers[r.Jurors[t][i]] = t
           /\ \A j \in 1..Len(r.Jurors[t]) : r.Jurors[t][j] = r.Jurors[t][i] => j = i

\* Account a is in no pool.
Absent(r, a) == \A t \in PoolTiers : \A i \in 1..Len(r.Jurors[t]) : r.Jurors[t][i] # a

Distinct(pool) == \A i, j \in 1..Len(pool) : pool[i] = pool[j] => i = j

\* swap_remove of a list without duplicates: the element is gone, nothing else
\* is added and no duplicate appears, although the last element is moved.
LEMMA SwapRemoveMembers ==
  ASSUME NEW pool \in Seq(Accounts), NEW a \in Accounts, Distinct(pool),
         NEW q \in Seq(Accounts), q = SwapRemove(pool, a)
  PROVE  /\ Len(q) <= Len(pool)
         /\ Distinct(q)
         /\ \A j \in 1..Len(q) : q[j] # a /\ \E i \in 1..Len(pool) : q[j] = pool[i]
<1>1. CASE ~ \E i \in 1..Len(pool) : pool[i] = a
  BY <1>1 DEF SwapRemove, Distinct
<1>2. CASE \E i \in 1..Len(pool) : pool[i] = a
  <2> DEFINE First(i) == pool[i] = a /\ \A j \in 1..(i - 1) : pool[j] # a
             n == Len(pool)
             i0 == CHOOSE i \in 1..n : First(i)
  <2>1. \E i \in 1..n : First(i)
    BY <1>2 DEF Distinct
  <2>2. i0 \in 1..n /\ pool[i0] = a
    BY <2>1
  <2>3. q = [j \in 1..(n - 1) |-> IF j = i0 THEN pool[n] ELSE pool[j]]
    BY <1>2 DEF SwapRemove
  <2> HIDE DEF i0
  <2>4. Len(q) = n - 1 /\ n \in Nat
    BY <2>2, <2>3
  <2>5. \A j \in 1..(n - 1) : q[j] = IF j = i0 THEN pool[n] ELSE pool[j]
    BY <2>3
  <2> QED BY <2>2, <2>4, <2>5 DEF Distinct
<1> QED BY <1>1, <1>2

\* remove_juror_from_tier_list changes one pool and nothing else.
LEMMA RemoveFromTierListType ==
  ASSUME NEW s \in ChainState, NEW a \in Accounts, NEW tier \in Tiers
  PROVE  LET t == RemoveFromTierList(s, a, tier)
         IN  /\ t \in ChainState /\ t.ok = s.ok /\ t.ledger = s.ledger
             /\ t.rep = [s.rep EXCEPT !.Jurors = t.rep.Jurors]
             /\ \A u \in PoolTiers : t.rep.Jurors[u] =
                  IF u = tier THEN SwapRemove(s.rep.Jurors[u], a) ELSE s.rep.Jurors[u]
<1> DEFINE x == [s.rep.Jurors EXCEPT ![tier] = SwapRemove(@, a)]
<1>1. CASE tier = Ineligible
  <2>1. RemoveFromTierList(s, a, tier) = s
    BY <1>1 DEF RemoveFromTierList
  <2>2. s.rep = [s.rep EXCEPT !.Jurors = s.rep.Jurors]
    BY DEF ChainState, RepStorage
  <2> QED BY <1>1, <2>1, <2>2 DEF PoolTiers, Ineligible, Bronze, Gold
<1>2. CASE tier # Ineligible
  <2>1. tier \in PoolTiers
    BY <1>2 DEF Tiers, PoolTiers, Ineligible, Bronze, Gold
  <2>2. x \in [PoolTiers -> Seq(Accounts)]
    BY <2>1, SwapRemoveType, RepFields
  <2>3. RemoveFromTierList(s, a, tier) = [s EXCEPT !.rep.Jurors = x]
    BY <1>2 DEF RemoveFromTierList, ChainState, RepStorage
  <2>4. \A u \in PoolTiers : x[u] = IF u = tier THEN SwapRemove(s.rep.Jurors[u], a) ELSE s.rep.Jurors[u]
    BY <2>1, RepFields
  <2> HIDE DEF x
  <2>5. [s EXCEPT !.rep.Jurors = x].rep = [s.rep EXCEPT !.Jurors = x]
    BY DEF ChainState, RepStorage
  <2>6. [s EXCEPT !.rep.Jurors = x].rep.Jurors = x
    BY DEF ChainState, RepStorage
  <2>7. /\ [s EXCEPT !.rep.Jurors = x] \in ChainState
        /\ [s EXCEPT !.rep.Jurors = x].ok = s.ok
        /\ [s EXCEPT !.rep.Jurors = x].ledger = s.ledger
    BY <2>2, SettersType
  <2> QED BY <2>3, <2>4, <2>5, <2>6, <2>7
<1> QED BY <1>1, <1>2

\* Once removed from the pool of its cached tier a juror is in no pool at all.
LEMMA RemovedPools ==
  ASSUME NEW s \in ChainState, NEW a \in Accounts, PoolsOf(s.rep)
  PROVE  LET t == RemoveFromTierList(s, a, s.rep.JurorTiers[a])
         IN  PoolsOf(t.rep) /\ Absent(t.rep, a)
<1> DEFINE tier == s.rep.JurorTiers[a]
           t == RemoveFromTierList(s, a, tier)
<1>1. tier \in Tiers
  BY RepFields
<1>2. /\ t \in ChainState
      /\ t.rep = [s.rep EXCEPT !.Jurors = t.rep.Jurors]
      /\ \A u \in PoolTiers : t.rep.Jurors[u] =
           IF u = tier THEN SwapRemove(s.rep.Jurors[u], a) ELSE s.rep.Jurors[u]
  BY <1>1, RemoveFromTierListType
<1> HIDE DEF t
<1>3. t.rep.JurorRegistry = s.rep.JurorRegistry /\ t.rep.JurorTiers = s.rep.JurorTiers
  BY <1>2 DEF ChainState, RepStorage
<1>4. ASSUME NEW u \in PoolTiers
      PROVE  /\ Len(t.rep.Jurors[u]) <= MaxPool[u]
             /\ Distinct(t.rep.Jurors[u])
             /\ \A j \in 1..Len(t.rep.Jurors[u]) :
                  /\ t.rep.Jurors[u][j] # a
                  /\ t.rep.Jurors[u][j] \in s.rep.JurorRegistry
                  /\ s.rep.JurorTiers[t.rep.Jurors[u][j]] = u
  <2> DEFINE pool == s.rep.Jurors[u]
             q == t.rep.Jurors[u]
  <2>1. pool \in Seq(Accounts) /\ q \in Seq(Accounts) /\ MaxPool[u] \in Nat
    BY <1>2, RepFields, RepAssumption
  <2>2. /\ Len(pool) <= MaxPool[u] /\ Distinct(pool)
        /\ \A i \in 1..Len(pool) : pool[i] \in s.rep.JurorRegistry /\ s.rep.JurorTiers[pool[i]] = u
    BY DEF PoolsOf, Distinct
  <2>3. CASE u # tier
    <3>1. q = pool
      BY <1>2, <2>3
    <3>2. \A i \in 1..Len(pool) : pool[i] # a
      BY <2>2, <2>3
    <3> HIDE DEF tier, pool, q
    <3> QED BY <2>2, <3>1, <3>2 DEF pool, q
  <2>4. CASE u = tier
    <3>1. q = SwapRemove(pool, a)
      BY <1>2, <2>4
    <3> HIDE DEF pool, q
    <3>2. /\ Len(q) <= Len(pool) /\ Distinct(q)
          /\ \A j \in 1..Len(q) : q[j] # a /\ \E i \in 1..Len(pool) : q[j] = pool[i]
      BY <2>1, <2>2, <3>1, SwapRemoveMembers
    <3>3. Len(q) <= MaxPool[u]
      BY <2>1, <2>2, <3>2
    <3>4. \A j \in 1..Len(q) : q[j] \in s.rep.JurorRegistry /\ s.rep.JurorTiers[q[j]] = u
      BY <2>2, <3>2
    <3> QED BY <3>2, <3>3, <3>4 DEF pool, q
  <2> QED BY <2>3, <2>4
<1>5. Absent(t.rep, a)
  BY <1>4 DEF Absent
<1>6. PoolsOf(t.rep)
  BY <1>3, <1>4 DEF PoolsOf, Distinct
<1> QED BY <1>5, <1>6 DEF t

\* The registry and tier of an account that is in no pool can change freely.
LEMMA RehomedPools ==
  ASSUME NEW r \in RepStorage, NEW r2 \in RepStorage, NEW a \in Accounts,
         PoolsOf(r), Absent(r, a), r2.Jurors = r.Jurors,
         r.JurorRegistry \ {a} \subseteq r2.JurorRegistry,
         \A b \in Accounts \ {a} : r2.JurorTiers[b] = r.JurorTiers[b]
  PROVE  PoolsOf(r2) /\ Absent(r2, a)
  BY DEF PoolsOf, Absent, RepStorage

\* Adding a registered account to the pool of its tier, when it is in no pool and
\* there is room, keeps the pools sound.
LEMMA AddedPools ==
  ASSUME NEW r \in RepStorage, NEW a \in Accounts, NEW tier \in PoolTiers, NEW x,
         PoolsOf(r), Absent(r, a), a \in r.JurorRegistry, r.JurorTiers[a] = tier,
         Len(r.Jurors[tier]) < MaxPool[tier],
         x = [r.Jurors EXCEPT ![tier] = Append(@, a)]
  PROVE  PoolsOf([r EXCEPT !.Jurors = x])
<1> DEFINE r2 == [r EXCEPT !.Jurors = x]
<1>1. /\ r2.Jurors = x /\ r2.JurorRegistry = r.JurorRegistry /\ r2.JurorTiers = r.JurorTiers
      /\ r.Jurors \in [PoolTiers -> Seq(Accounts)]
  BY DEF RepStorage
<1> HIDE DEF r2
<1>2. ASSUME NEW u \in PoolTiers
      PROVE  /\ Len(x[u]) <= MaxPool[u]
             /\ \A i \in 1..Len(x[u]) :
                /\ x[u][i] \in r.JurorRegistry
                /\ r.JurorTiers[x[u][i]] = u
                /\ \A j \in 1..Len(x[u]) : x[u][j] = x[u][i] => j = i
  <2>1. CASE u # tier
    <3>1. x[u] = r.Jurors[u]
      BY <1>1, <2>1
    <3>2. /\ Len(r.Jurors[u]) <= MaxPool[u]
          /\ \A i \in 1..Len(r.Jurors[u]) :
             /\ r.Jurors[u][i] \in r.JurorRegistry
             /\ r.JurorTiers[r.Jurors[u][i]] = u
             /\ \A j \in 1..Len(r.Jurors[u]) : r.Jurors[u][j] = r.Jurors[u][i] => j = i
      BY DEF PoolsOf
    <3> QED BY ONLY <3>1, <3>2
  <2>2. CASE u = tier
    <3> DEFINE pool == r.Jurors[tier]
    <3>1. x[u] = Append(pool, a) /\ pool \in Seq(Accounts) /\ MaxPool[u] \in Nat
      BY <1>1, <2>2, RepAssumption
    <3>2. \A i \in 1..Len(pool) :
             /\ pool[i] \in r.JurorRegistry
             /\ r.JurorTiers[pool[i]] = u
             /\ pool[i] # a
             /\ \A j \in 1..Len(pool) : pool[j] = pool[i] => j = i
      BY <2>2 DEF PoolsOf, Absent
    <3>3. Len(pool) < MaxPool[u]
      BY <2>2
    <3> HIDE DEF pool
    <3>4. Len(x[u]) = Len(pool) + 1 /\ x[u][Len(pool) + 1] = a
          /\ \A i \in 1..Len(pool) : x[u][i] = pool[i]
      BY <3>1
    <3>5. a \in r.JurorRegistry /\ r.JurorTiers[a] = u
      BY <2>2
    <3> QED BY ONLY <2>2, <3>1, <3>2, <3>3, <3>4, <3>5
  <2> QED BY <2>1, <2>2
<1> QED BY <1>1, <1>2 DEF PoolsOf, r2

\* Writing StakeOf changes StakeOf only.
LEMMA SetStakeType ==
  ASSUME NEW s \in ChainState, NEW a \in Accounts, NEW v \in Nat \cup {None}
  PROVE  LET t == SetStake(s, a, v)
         IN  /\ t \in ChainState /\ t.ok = s.ok /\ t.ledger = s.ledger
             /\ t.rep = [s.rep EXCEPT !.StakeOf = [@ EXCEPT ![a] = v]]
<1> DEFINE k == [s.rep.StakeOf EXCEPT ![a] = v]
           r == [s.rep EXCEPT !.StakeOf = k]
<1>1. k \in [Accounts -> Nat \cup {None}]
  BY RepFields
<1>2. SetStake(s, a, v) = [s EXCEPT !.rep = r]
  BY DEF SetStake
<1> HIDE DEF k
<1>3. r \in RepStorage
  BY <1>1 DEF ChainState, RepStorage
<1> HIDE DEF r
<1> QED BY <1>2, <1>3 DEF ChainState, r, k

\* What a juror that leaves gets back.
Refund(s, a) == IF s.rep.StakeOf[a] = None THEN 0 ELSE Takeable(s, a, s.rep.StakeOf[a])

\* Releasing a stake clears StakeOf, gives the stake back as far as it is reserved,
\* and keeps balances natural.
LEMMA ReleaseStakeType ==
  ASSUME NEW s \in ChainState, NEW a \in Accounts
  PROVE  LET t == ReleaseStake(s, a)
         IN  /\ t \in ChainState /\ t.ok = s.ok
             /\ t.rep = [s.rep EXCEPT !.StakeOf = [@ EXCEPT ![a] = None]]
             /\ t.ledger.free = [s.ledger.free EXCEPT ![a] = @ + Refund(s, a)]
             /\ t.ledger.reserved = [s.ledger.reserved EXCEPT ![a] = @ - Refund(s, a)]
             /\ t.ledger.locks = s.ledger.locks
             /\ s.ledger \in Ledger => t.ledger \in Ledger
<1> DEFINE v == s.rep.StakeOf[a]
           k == [s.rep.StakeOf EXCEPT ![a] = None]
           r == [s.rep EXCEPT !.StakeOf = k]
           u == Unreserve(s, a, v)
<1>3. CASE v = None
  <2>1. k = s.rep.StakeOf
    BY <1>3, RepFields
  <2>2. s.rep = r
    BY <2>1 DEF ChainState, RepStorage
  <2>3. Refund(s, a) = 0
    BY <1>3 DEF Refund
  <2>4. /\ s.ledger.free = [s.ledger.free EXCEPT ![a] = @ + 0]
        /\ s.ledger.reserved = [s.ledger.reserved EXCEPT ![a] = @ - 0]
    BY LedgerFields DEF Entries
  <2> QED BY <1>3, <2>2, <2>3, <2>4 DEF ReleaseStake
<1>4. CASE v # None
  <2>1. v \in Nat
    BY <1>4, RepFields
  <2>2. /\ u \in ChainState /\ u.ok = s.ok /\ u.rep = s.rep
        /\ u.ledger.free = [s.ledger.free EXCEPT ![a] = @ + Refund(s, a)]
        /\ u.ledger.reserved = [s.ledger.reserved EXCEPT ![a] = @ - Refund(s, a)]
        /\ u.ledger.locks = s.ledger.locks
        /\ s.ledger \in Ledger => u.ledger \in Ledger
    <3>1. Refund(s, a) = Takeable(s, a, v)
      BY <1>4 DEF Refund
    <3> HIDE DEF v
    <3> QED BY <2>1, <3>1, UnreserveType
  <2>3. ReleaseStake(s, a) = SetStake(u, a, None)
    BY <1>4 DEF ReleaseStake
  <2> HIDE DEF u, v
  <2>4. /\ SetStake(u, a, None) \in ChainState /\ SetStake(u, a, None).ok = u.ok
        /\ SetStake(u, a, None).ledger = u.ledger
        /\ SetStake(u, a, None).rep = [u.rep EXCEPT !.StakeOf = [@ EXCEPT ![a] = None]]
    BY <2>2, SetStakeType
  <2> QED BY <2>2, <2>3, <2>4
<1> QED BY <1>3, <1>4

\* add_juror_to_tier_list appends to one pool, or fails and changes nothing.
LEMMA AddToTierListType ==
  ASSUME NEW s \in ChainState, NEW a \in Accounts, NEW tier \in PoolTiers
  PROVE  LET t == AddToTierList(s, a, tier)
             x == [s.rep.Jurors EXCEPT ![tier] = Append(@, a)]
         IN  /\ t \in ChainState /\ t.ledger = s.ledger
             /\ IF Len(s.rep.Jurors[tier]) < MaxPool[tier]
                THEN t.ok = s.ok /\ t.rep = [s.rep EXCEPT !.Jurors = x]
                ELSE ~ t.ok /\ t.rep = s.rep
<1> DEFINE x == [s.rep.Jurors EXCEPT ![tier] = Append(@, a)]
<1>1. tier # Ineligible
  BY DEF PoolTiers, Ineligible, Bronze, Gold
<1>2. x \in [PoolTiers -> Seq(Accounts)]
  BY RepFields
<1>3. CASE Len(s.rep.Jurors[tier]) < MaxPool[tier]
  <2>1. AddToTierList(s, a, tier) = [s EXCEPT !.rep.Jurors = x]
    BY <1>1, <1>3 DEF AddToTierList, ChainState, RepStorage
  <2> HIDE DEF x
  <2>2. [s EXCEPT !.rep.Jurors = x].rep = [s.rep EXCEPT !.Jurors = x]
    BY DEF ChainState, RepStorage
  <2>3. /\ [s EXCEPT !.rep.Jurors = x] \in ChainState
        /\ [s EXCEPT !.rep.Jurors = x].ok = s.ok
        /\ [s EXCEPT !.rep.Jurors = x].ledger = s.ledger
    BY <1>2, SettersType
  <2> QED BY <1>3, <2>1, <2>2, <2>3 DEF x
<1>4. CASE ~ (Len(s.rep.Jurors[tier]) < MaxPool[tier])
  BY <1>1, <1>4, FailType DEF AddToTierList
<1> QED BY <1>3, <1>4

\* remove_juror_from_juror_registry clears the registry entry and the tier.
LEMMA LeaveRegistryType ==
  ASSUME NEW s \in ChainState, NEW a \in Accounts
  PROVE  LET t == LeaveRegistry(s, a)
         IN  /\ t \in ChainState /\ t.ok = s.ok /\ t.ledger = s.ledger
             /\ t.rep = [s.rep EXCEPT !.JurorRegistry = @ \ {a},
                                      !.JurorTiers = [@ EXCEPT ![a] = Ineligible]]
<1> DEFINE g == s.rep.JurorRegistry \ {a}
           c == [s.rep.JurorTiers EXCEPT ![a] = Ineligible]
           r == [s.rep EXCEPT !.JurorRegistry = g, !.JurorTiers = c]
<1>1. g \in SUBSET Accounts /\ c \in [Accounts -> Tiers]
  BY RepFields DEF Tiers, Ineligible, Gold
<1>2. r \in RepStorage
  <2> HIDE DEF g, c
  <2> QED BY <1>1 DEF ChainState, RepStorage
<1>3. LeaveRegistry(s, a) = OnRep(s, s.ok, r)
  <2>1. LeaveRegistry(s, a) = [s EXCEPT !.rep = r]
    BY DEF LeaveRegistry, ChainState, RepStorage
  <2> HIDE DEF r
  <2> QED BY <2>1 DEF ChainState, OnRep
<1> HIDE DEF r
<1>4. OnRep(s, s.ok, r) \in ChainState
  BY <1>2, OnRepType, LedgerFields
<1> QED BY <1>3, <1>4 DEF OnRep, r

\* A juror that is in no pool can leave the registry.
LEMMA LeftPools ==
  ASSUME NEW s \in ChainState, NEW a \in Accounts
  PROVE  LET t == LeaveRegistry(s, a)
         IN  /\ t \in ChainState /\ t.ok = s.ok /\ t.ledger = s.ledger
             /\ PoolsOf(s.rep) /\ Absent(s.rep, a) => PoolsOf(t.rep)
<1> DEFINE t == LeaveRegistry(s, a)
<1>1. /\ t \in ChainState /\ t.ok = s.ok /\ t.ledger = s.ledger
      /\ t.rep = [s.rep EXCEPT !.JurorRegistry = @ \ {a},
                               !.JurorTiers = [@ EXCEPT ![a] = Ineligible]]
  BY LeaveRegistryType
<1> HIDE DEF t
<1>2. s.rep \in RepStorage /\ t.rep \in RepStorage
  BY <1>1, LedgerFields
<1>3. /\ t.rep.Jurors = s.rep.Jurors
      /\ t.rep.JurorRegistry = s.rep.JurorRegistry \ {a}
      /\ \A b \in Accounts \ {a} : t.rep.JurorTiers[b] = s.rep.JurorTiers[b]
  BY <1>1, <1>2 DEF RepStorage
<1>4. PoolsOf(s.rep) /\ Absent(s.rep, a) => PoolsOf(t.rep)
  BY <1>2, <1>3, RehomedPools
<1> QED BY <1>1, <1>4 DEF t

\* Account b has the same balances, stake and registration in s and t.
SameHoldings(s, t, b) ==
    /\ t.ledger.free[b] = s.ledger.free[b]
    /\ t.ledger.reserved[b] = s.ledger.reserved[b]
    /\ t.rep.StakeOf[b] = s.rep.StakeOf[b]
    /\ (b \in t.rep.JurorRegistry) <=> (b \in s.rep.JurorRegistry)

\* Account a has left the registry and has got its stake back.
Departed(s, t, a) ==
    /\ t.rep.StakeOf[a] = None
    /\ a \notin t.rep.JurorRegistry
    /\ t.ledger.free[a] = s.ledger.free[a] + Refund(s, a)
    /\ t.ledger.reserved[a] = s.ledger.reserved[a] - Refund(s, a)

\* Account a holds what it held, and its tier is up to date unless the move failed.
Placed(s, t, a) ==
    /\ SameHoldings(s, t, a)
    /\ IF t.ok THEN a \in t.rep.JurorRegistry =>
                      t.rep.JurorTiers[a] = CalculateTier(t.rep.ReputationStats[a])
               ELSE t.rep.JurorTiers[a] = s.rep.JurorTiers[a]

\* What a move of a between pools does: nothing to statistics, attestations, indices,
\* locks and other accounts; a either leaves or stays.
Rehomed(s, t, a) ==
    /\ t \in ChainState
    /\ t.ok => s.ok
    /\ s.ledger \in Ledger => t.ledger \in Ledger
    /\ s.ok /\ PoolsOf(s.rep) => PoolsOf(t.rep)
    /\ t.ledger.locks = s.ledger.locks
    /\ t.rep.ReputationStats = s.rep.ReputationStats
    /\ t.rep.Attestations = s.rep.Attestations
    /\ t.rep.NextJurorIndex = s.rep.NextJurorIndex
    /\ \A b \in Accounts \ {a} :
         SameHoldings(s, t, b) /\ t.rep.JurorTiers[b] = s.rep.JurorTiers[b]
    /\ Departed(s, t, a) \/ Placed(s, t, a)

\* update_juror_tier, case by case.  It keeps types and pools even when it fails half
\* way, after the removal from the old pool: what a caller that ignores the error
\* relies on.
LEMMA UpdateJurorTierEffect ==
  ASSUME NEW s \in ChainState, NEW a \in Accounts
  PROVE  Rehomed(s, UpdateJurorTier(s, a), a)
<1> DEFINE old == s.rep.JurorTiers[a]
           new == CalculateTier(s.rep.ReputationStats[a])
           removed == RemoveFromTierList(s, a, old)
           added == AddToTierList(removed, a, new)
           t == UpdateJurorTier(s, a)
<1>1. old \in Tiers /\ new \in Tiers /\ s.rep \in RepStorage
  BY RepFields, LedgerFields, CalculateTierType
<1>2. /\ removed \in ChainState /\ removed.ok = s.ok /\ removed.ledger = s.ledger
      /\ removed.rep = [s.rep EXCEPT !.Jurors = removed.rep.Jurors]
  BY <1>1, RemoveFromTierListType
<1>3. PoolsOf(s.rep) => PoolsOf(removed.rep) /\ Absent(removed.rep, a)
  BY RemovedPools
<1>4. CASE a \notin s.rep.JurorRegistry \/ old = new
  <2>1. t = s
    BY <1>4 DEF UpdateJurorTier
  <2>2. Placed(s, s, a)
    BY <1>4 DEF Placed, SameHoldings
  <2> QED BY <2>1, <2>2 DEF Rehomed, SameHoldings
<1>5. /\ removed.rep.ReputationStats = s.rep.ReputationStats
      /\ removed.rep.Attestations = s.rep.Attestations
      /\ removed.rep.NextJurorIndex = s.rep.NextJurorIndex
      /\ removed.rep.JurorTiers = s.rep.JurorTiers
      /\ removed.rep.JurorRegistry = s.rep.JurorRegistry
      /\ removed.rep.StakeOf = s.rep.StakeOf
      /\ removed.rep \in RepStorage
  <2> HIDE DEF removed
  <2> QED BY <1>1, <1>2, LedgerFields DEF RepStorage
<1>6. CASE a \in s.rep.JurorRegistry /\ old # new /\ new = Ineligible
  <2> DEFINE released == ReleaseStake(removed, a)
  <2>1. t = LeaveRegistry(released, a)
    BY <1>6 DEF UpdateJurorTier
  <2>a. Refund(removed, a) = Refund(s, a)
    BY <1>2, <1>5 DEF Refund, Takeable
  <2> HIDE DEF old, new, removed, t
  <2>2. /\ released \in ChainState /\ released.ok = s.ok
        /\ released.rep = [removed.rep EXCEPT !.StakeOf = [@ EXCEPT ![a] = None]]
        /\ released.ledger.free = [s.ledger.free EXCEPT ![a] = @ + Refund(s, a)]
        /\ released.ledger.reserved = [s.ledger.reserved EXCEPT ![a] = @ - Refund(s, a)]
        /\ released.ledger.locks = s.ledger.locks
        /\ s.ledger \in Ledger => released.ledger \in Ledger
    <3>1. /\ removed \in ChainState /\ removed.ok = s.ok /\ removed.ledger = s.ledger
      BY <1>2
    <3> QED BY ONLY <2>a, <3>1, ReleaseStakeType DEF released
  <2> HIDE DEF released
  <2>3. /\ t \in ChainState /\ t.ok = released.ok /\ t.ledger = released.ledger
        /\ PoolsOf(released.rep) /\ Absent(released.rep, a) => PoolsOf(t.rep)
    BY <2>1, <2>2, LeftPools
  <2>4. t.rep = [released.rep EXCEPT !.JurorRegistry = @ \ {a},
                                     !.JurorTiers = [@ EXCEPT ![a] = Ineligible]]
    BY <2>1, <2>2, LeaveRegistryType
  <2>5. /\ released.rep.Jurors = removed.rep.Jurors
        /\ released.rep.JurorRegistry = removed.rep.JurorRegistry
        /\ released.rep.JurorTiers = removed.rep.JurorTiers
        /\ released.rep.ReputationStats = removed.rep.ReputationStats
        /\ released.rep.Attestations = removed.rep.Attestations
        /\ released.rep.NextJurorIndex = removed.rep.NextJurorIndex
        /\ released.rep.StakeOf = [removed.rep.StakeOf EXCEPT ![a] = None]
        /\ released.rep \in RepStorage
    BY <1>5, <2>2, LedgerFields DEF RepStorage
  <2>6. PoolsOf(removed.rep) /\ Absent(removed.rep, a)
          => PoolsOf(released.rep) /\ Absent(released.rep, a)
    BY <2>5 DEF PoolsOf, Absent
  <2>7. /\ t.rep.ReputationStats = s.rep.ReputationStats
        /\ t.rep.Attestations = s.rep.Attestations
        /\ t.rep.NextJurorIndex = s.rep.NextJurorIndex
        /\ t.rep.StakeOf = [s.rep.StakeOf EXCEPT ![a] = None]
        /\ t.rep.JurorRegistry = s.rep.JurorRegistry \ {a}
        /\ t.rep.JurorTiers = [s.rep.JurorTiers EXCEPT ![a] = Ineligible]
    BY <1>5, <2>4, <2>5 DEF RepStorage
  <2>8. /\ s.rep.StakeOf \in [Accounts -> Nat \cup {None}] /\ s.rep.JurorTiers \in [Accounts -> Tiers]
        /\ s.ledger.free \in Entries /\ s.ledger.reserved \in Entries
    BY RepFields, LedgerFields
  <2>9. Departed(s, t, a)
    BY <2>2, <2>3, <2>7, <2>8 DEF Departed, Entries
  <2>10. \A b \in Accounts \ {a} :
           SameHoldings(s, t, b) /\ t.rep.JurorTiers[b] = s.rep.JurorTiers[b]
    BY <2>2, <2>3, <2>7, <2>8 DEF SameHoldings, Entries
  <2>11. /\ t.ok => s.ok
         /\ s.ledger \in Ledger => t.ledger \in Ledger
         /\ s.ok /\ PoolsOf(s.rep) => PoolsOf(t.rep)
         /\ t.ledger.locks = s.ledger.locks
    BY <1>3, <2>2, <2>3, <2>6
  <2>12. Rehomed(s, t, a)
    BY <2>3, <2>7, <2>9, <2>10, <2>11 DEF Rehomed
  <2> QED BY <2>12 DEF t
<1>7. CASE a \in s.rep.JurorRegistry /\ old # new /\ new # Ineligible
  <2>1. new \in PoolTiers
    BY <1>1, <1>7 DEF Tiers, PoolTiers, Ineligible, Bronze, Gold
  <2>2. t = IF added.ok THEN [added EXCEPT !.rep.JurorTiers[a] = new] ELSE added
    BY <1>7 DEF UpdateJurorTier
  <2>a. new = CalculateTier(s.rep.ReputationStats[a])
    OBVIOUS
  <2> HIDE DEF old, new, removed
  <2> DEFINE x == [removed.rep.Jurors EXCEPT ![new] = Append(@, a)]
  <2>3. /\ added \in ChainState /\ added.ledger = removed.ledger
        /\ IF Len(removed.rep.Jurors[new]) < MaxPool[new]
           THEN added.ok = removed.ok /\ added.rep = [removed.rep EXCEPT !.Jurors = x]
           ELSE ~ added.ok /\ added.rep = removed.rep
    BY <1>2, <2>1, AddToTierListType
  <2> HIDE DEF added, t, x
  <2>4. /\ added.rep.ReputationStats = s.rep.ReputationStats
        /\ added.rep.Attestations = s.rep.Attestations
        /\ added.rep.NextJurorIndex = s.rep.NextJurorIndex
        /\ added.rep.JurorTiers = s.rep.JurorTiers
        /\ added.rep.JurorRegistry = s.rep.JurorRegistry
        /\ added.rep.StakeOf = s.rep.StakeOf
    BY <1>5, <2>3 DEF RepStorage
  <2>5. CASE ~ added.ok
    <3>1. t = added
      BY <2>2, <2>5
    <3>2. s.ok => added.rep = removed.rep
      BY <1>2, <2>3, <2>5
    <3>3. Placed(s, t, a)
      BY <1>2, <2>3, <2>4, <2>5, <3>1 DEF Placed, SameHoldings
    <3>4. \A b \in Accounts \ {a} :
            SameHoldings(s, t, b) /\ t.rep.JurorTiers[b] = s.rep.JurorTiers[b]
      BY <1>2, <2>3, <2>4, <3>1 DEF SameHoldings
    <3>5. Rehomed(s, t, a)
      BY <1>2, <1>3, <2>3, <2>4, <2>5, <3>1, <3>2, <3>3, <3>4 DEF Rehomed
    <3> QED BY <3>5 DEF t
  <2>6. CASE added.ok
    <3> DEFINE c == [s.rep.JurorTiers EXCEPT ![a] = new]
               r == [removed.rep EXCEPT !.JurorTiers = c]
               y == [r EXCEPT !.Jurors = x]
    <3>1. /\ Len(removed.rep.Jurors[new]) < MaxPool[new]
          /\ added.ok = s.ok /\ added.ledger = s.ledger
          /\ added.rep = [removed.rep EXCEPT !.Jurors = x]
          /\ t = [added EXCEPT !.rep.JurorTiers[a] = new]
      BY <1>2, <2>2, <2>3, <2>6
    <3>2. c \in [Accounts -> Tiers] /\ x \in [PoolTiers -> Seq(Accounts)]
      BY <1>1, <1>2, <2>1, RepFields DEF x
    <3>3. t = [added EXCEPT !.rep = [@ EXCEPT !.JurorTiers = c]]
      BY <2>3, <2>4, <3>1 DEF ChainState, RepStorage
    <3>4. c[a] = new /\ \A b \in Accounts \ {a} : c[b] = s.rep.JurorTiers[b]
      BY RepFields
    <3> HIDE DEF c
    <3>5. /\ r \in RepStorage /\ y \in RepStorage
          /\ r.JurorTiers = c /\ r.Jurors = removed.rep.Jurors
          /\ r.JurorRegistry = s.rep.JurorRegistry
          /\ y.JurorTiers = c /\ y.JurorRegistry = s.rep.JurorRegistry
          /\ y.ReputationStats = s.rep.ReputationStats /\ y.Attestations = s.rep.Attestations
          /\ y.NextJurorIndex = s.rep.NextJurorIndex /\ y.StakeOf = s.rep.StakeOf
      BY <1>5, <3>2 DEF RepStorage
    <3>6. x = [r.Jurors EXCEPT ![new] = Append(@, a)]
      BY <3>5 DEF x
    <3>7. [added.rep EXCEPT !.JurorTiers = c] = y
      BY <1>5, <3>1 DEF RepStorage
    <3>8. t = OnRep(added, s.ok, y)
      <4> HIDE DEF y
      <4> QED BY <2>3, <3>1, <3>3, <3>7 DEF ChainState, OnRep
    <3> HIDE DEF r
    <3>9. PoolsOf(s.rep) => PoolsOf(r) /\ Absent(r, a)
      BY <1>3, <1>5, <3>4, <3>5, RehomedPools
    <3>10. PoolsOf(s.rep) => PoolsOf(y)
      BY <1>7, <2>1, <3>1, <3>4, <3>5, <3>6, <3>9, AddedPools
    <3> HIDE DEF y
    <3>11. OnRep(added, s.ok, y) \in ChainState
      BY <2>3, <3>5, OnRepType, LedgerFields
    <3>12. t \in ChainState /\ t.ledger = s.ledger /\ t.rep = y /\ t.ok = s.ok
      <4> DEFINE w == OnRep(added, s.ok, y)
      <4>1. w.ledger = added.ledger /\ w.rep = y /\ w.ok = s.ok
        BY DEF OnRep
      <4> HIDE DEF w
      <4> QED BY <3>1, <3>8, <3>11, <4>1 DEF w
    <3>13. Placed(s, t, a)
      BY <2>6, <2>a, <3>1, <3>4, <3>5, <3>12 DEF Placed, SameHoldings
    <3>14. \A b \in Accounts \ {a} :
            SameHoldings(s, t, b) /\ t.rep.JurorTiers[b] = s.rep.JurorTiers[b]
      BY <3>4, <3>5, <3>12 DEF SameHoldings
    <3>15. Rehomed(s, t, a)
      BY <3>5, <3>10, <3>12, <3>13, <3>14 DEF Rehomed
    <3> QED BY <3>15 DEF t
  <2> QED BY <2>5, <2>6
<1> QED BY <1>4, <1>6, <1>7

-------------------------------------------------------------------------------
(* What a call of ReputationInterface guarantees *)

\* Types and pools survive a transformer from s to t that succeeds.
Keeps(s, t) ==
    /\ t \in ChainState
    /\ t.ok => s.ok
    /\ t.ok /\ s.ledger \in Ledger => t.ledger \in Ledger
    /\ t.ok /\ PoolsOf(s.rep) => PoolsOf(t.rep)

\* The stake of a in a storage r, zero if there is none.
StakeFrom(r, a) == IF r.StakeOf[a] = None THEN 0 ELSE r.StakeOf[a]

\* A stake is on record exactly for a juror of the registry.
StakedIff(r, a) == (a \in r.JurorRegistry) <=> (r.StakeOf[a] # None)

\* Nobody gains or loses, and no lock or index changes; the reserve moves with the
\* stake; stakes and registry move together.
Undisturbed(s, t) ==
    /\ t.ledger.locks = s.ledger.locks
    /\ t.rep.NextJurorIndex = s.rep.NextJurorIndex
    /\ \A b \in Accounts :
         /\ t.ledger.free[b] + t.ledger.reserved[b] = s.ledger.free[b] + s.ledger.reserved[b]
         /\ s.ledger.reserved[b] >= StakeFrom(s.rep, b) =>
              t.ledger.reserved[b] - StakeFrom(t.rep, b) = s.ledger.reserved[b] - StakeFrom(s.rep, b)
         /\ StakedIff(s.rep, b) => StakedIff(t.rep, b)

Reports(s, t) == Keeps(s, t) /\ Undisturbed(s, t)

\* Every juror outside X has a tier its statistics justify.
TiersBut(r, X) == \A b \in r.JurorRegistry \ X : r.JurorTiers[b] <= CalculateTier(r.ReputationStats[b])

\* A stake is a natural, a balance an integer.
LEMMA StakeFromType ==
  ASSUME NEW s \in ChainState, NEW a \in Accounts
  PROVE  /\ StakeFrom(s.rep, a) \in Nat
         /\ s.ledger.free[a] \in Int /\ s.ledger.reserved[a] \in Int
  BY RepFields, LedgerFields DEF StakeFrom, Entries

\* Transformers that keep types and pools can be chained.
LEMMA KeepsTransitive ==
  ASSUME NEW s, NEW t, NEW u, Keeps(s, t), Keeps(t, u)
  PROVE  Keeps(s, u)
  BY DEF Keeps

\* So can calls.
LEMMA ReportsTransitive ==
  ASSUME NEW s \in ChainState, NEW t, NEW u, Reports(s, t), Reports(t, u)
  PROVE  Reports(s, u)
<1>1. t \in ChainState /\ u \in ChainState
  BY DEF Reports, Keeps
<1>2. Undisturbed(s, u)
  <2> SUFFICES ASSUME NEW b \in Accounts
               PROVE  /\ u.ledger.free[b] + u.ledger.reserved[b] = s.ledger.free[b] + s.ledger.reserved[b]
                      /\ s.ledger.reserved[b] >= StakeFrom(s.rep, b) =>
                           u.ledger.reserved[b] - StakeFrom(u.rep, b)
                             = s.ledger.reserved[b] - StakeFrom(s.rep, b)
                      /\ StakedIff(s.rep, b) => StakedIff(u.rep, b)
    BY DEF Undisturbed, Reports
  <2>1. /\ StakeFrom(s.rep, b) \in Nat /\ StakeFrom(t.rep, b) \in Nat /\ StakeFrom(u.rep, b) \in Nat
        /\ s.ledger.reserved[b] \in Int /\ t.ledger.reserved[b] \in Int /\ u.ledger.reserved[b] \in Int
    BY <1>1, StakeFromType
  <2> QED BY <2>1 DEF Undisturbed, Reports
<1> QED BY <1>2, KeepsTransitive DEF Reports

\* What leaves balances, stakes, registry and indices as they are disturbs nothing.
LEMMA UndisturbedSame ==
  ASSUME NEW s \in ChainState, NEW t \in ChainState, t.ledger = s.ledger,
         t.rep.NextJurorIndex = s.rep.NextJurorIndex, t.rep.StakeOf = s.rep.StakeOf,
         t.rep.JurorRegistry = s.rep.JurorRegistry
  PROVE  Undisturbed(s, t)
<1>1. \A b \in Accounts : StakeFrom(t.rep, b) = StakeFrom(s.rep, b) /\ (StakedIff(s.rep, b) => StakedIff(t.rep, b))
  BY DEF StakeFrom, StakedIff
<1> QED BY <1>1 DEF Undisturbed

\* A move between pools disturbs nothing: a juror that leaves gets its stake back.
LEMMA RehomedUndisturbed ==
  ASSUME NEW s \in ChainState, NEW t, NEW a \in Accounts, Rehomed(s, t, a)
  PROVE  Reports(s, t)
<1>1. t \in ChainState
  BY DEF Rehomed
<1>2. ASSUME NEW b \in Accounts
      PROVE  /\ t.ledger.free[b] + t.ledger.reserved[b] = s.ledger.free[b] + s.ledger.reserved[b]
             /\ s.ledger.reserved[b] >= StakeFrom(s.rep, b) =>
                  t.ledger.reserved[b] - StakeFrom(t.rep, b) = s.ledger.reserved[b] - StakeFrom(s.rep, b)
             /\ StakedIff(s.rep, b) => StakedIff(t.rep, b)
  <2>1. CASE SameHoldings(s, t, b)
    BY <2>1 DEF SameHoldings, StakeFrom, StakedIff
  <2>2. CASE b = a /\ Departed(s, t, a)
    <3>1. /\ StakeFrom(t.rep, a) = 0 /\ StakedIff(t.rep, a)
          /\ t.ledger.free[a] = s.ledger.free[a] + Refund(s, a)
          /\ t.ledger.reserved[a] = s.ledger.reserved[a] - Refund(s, a)
      BY <2>2 DEF Departed, StakeFrom, StakedIff
    <3>2. Refund(s, a) \in Int
      BY RepFields, StakeFromType DEF Refund, Takeable
    <3>3. s.ledger.reserved[a] >= StakeFrom(s.rep, a) => Refund(s, a) = StakeFrom(s.rep, a)
      BY StakeFromType DEF Refund, Takeable, StakeFrom
    <3> QED BY <2>2, <3>1, <3>2, <3>3, StakeFromType
  <2>3. SameHoldings(s, t, b) \/ (b = a /\ Departed(s, t, a))
    BY DEF Rehomed, Placed
  <2> QED BY <2>1, <2>2, <2>3
<1>3. Undisturbed(s, t)
  BY <1>2 DEF Undisturbed, Rehomed
<1>4. Keeps(s, t)
  BY DEF Rehomed, Keeps
<1> QED BY <1>3, <1>4 DEF Reports

\* update_juror_tier as a link of a chain: afterwards the tier of a is justified.
LEMMA UpdateJurorTierReports ==
  ASSUME NEW s \in ChainState, NEW a \in Accounts
  PROVE  LET t == UpdateJurorTier(s, a)
         IN  /\ Reports(s, t)
             /\ t.rep.ReputationStats = s.rep.ReputationStats
             /\ t.rep.Attestations = s.rep.Attestations
             /\ \A X : t.ok /\ TiersBut(s.rep, X) => TiersBut(t.rep, X \ {a})
<1> DEFINE t == UpdateJurorTier(s, a)
<1>1. Rehomed(s, t, a)
  BY UpdateJurorTierEffect
<1> HIDE DEF t
<1>2. Reports(s, t)
  BY <1>1, RehomedUndisturbed
<1>3. /\ t.rep.ReputationStats = s.rep.ReputationStats
      /\ t.rep.Attestations = s.rep.Attestations
  BY <1>1 DEF Rehomed
<1>4. ASSUME NEW X, t.ok, TiersBut(s.rep, X)
      PROVE  TiersBut(t.rep, X \ {a})
  <2> SUFFICES ASSUME NEW b \in t.rep.JurorRegistry, b \notin X \ {a}
               PROVE  t.rep.JurorTiers[b] <= CalculateTier(t.rep.ReputationStats[b])
    BY DEF TiersBut
  <2>1. t \in ChainState /\ b \in Accounts
    BY <1>1, RepFields DEF Rehomed
  <2>2. CASE b = a
    <3>1. t.rep.JurorTiers[a] = CalculateTier(t.rep.ReputationStats[a])
      BY <1>1, <1>4, <2>2 DEF Rehomed, Departed, Placed
    <3>2. CalculateTier(t.rep.ReputationStats[a]) \in Int
      BY <2>1, RepFields, CalculateTierType DEF Tiers, Ineligible, Gold
    <3> QED BY <2>2, <3>1, <3>2
  <2>3. CASE b # a
    <3>1. SameHoldings(s, t, b) /\ t.rep.JurorTiers[b] = s.rep.JurorTiers[b]
      BY <1>1, <2>1, <2>3 DEF Rehomed
    <3>2. b \in s.rep.JurorRegistry \ X
      BY <2>3, <3>1 DEF SameHoldings
    <3> QED BY <1>3, <1>4, <3>1, <3>2 DEF TiersBut
  <2> QED BY <2>2, <2>3
<1> QED BY <1>2, <1>3, <1>4 DEF t

\* ensure! changes ok only.
LEMMA RequireReports ==
  ASSUME NEW s \in ChainState, NEW condition \in BOOLEAN
  PROVE  LET t == Require(s, condition)
         IN  Reports(s, t) /\ t.rep = s.rep /\ t.ledger = s.ledger /\ (t.ok <=> s.ok /\ condition)
<1> DEFINE o == s.ok /\ condition
           t == Require(s, condition)
<1>1. o \in BOOLEAN /\ t = [s EXCEPT !.ok = o] /\ (o <=> s.ok /\ condition)
  BY DEF Require
<1> HIDE DEF o, t
<1>2. t \in ChainState /\ t.ok = o /\ t.ledger = s.ledger /\ t.rep = s.rep
  BY <1>1 DEF ChainState
<1>3. Undisturbed(s, t)
  BY <1>2, UndisturbedSame
<1> QED BY <1>1, <1>2, <1>3 DEF Keeps, Reports, t

\* Writing statistics leaves pools and balances alone; the tier of a may now be stale.
LEMMA SetStatsReports ==
  ASSUME NEW s \in ChainState, NEW a \in Accounts, NEW st \in ReputationData
  PROVE  LET t == SetStats(s, a, st)
         IN  /\ Reports(s, t)
             /\ t.ok = s.ok /\ t.ledger = s.ledger
             /\ PoolsOf(s.rep) => PoolsOf(t.rep)
             /\ t.rep.ReputationStats = [s.rep.ReputationStats EXCEPT ![a] = st]
             /\ t.rep.Attestations = s.rep.Attestations
             /\ t.rep.JurorTiers = s.rep.JurorTiers
             /\ t.rep.JurorRegistry = s.rep.JurorRegistry
             /\ t.rep.StakeOf = s.rep.StakeOf
             /\ \A X : TiersBut(s.rep, X) => TiersBut(t.rep, X \cup {a})
<1> DEFINE x == [s.rep.ReputationStats EXCEPT ![a] = st]
           r == [s.rep EXCEPT !.ReputationStats = x]
           t == SetStats(s, a, st)
<1>1. x \in [Accounts -> ReputationData] /\ \A b \in Accounts \ {a} : x[b] = s.rep.ReputationStats[b]
  BY RepFields
<1>2. t = [s EXCEPT !.rep = r]
  BY DEF SetStats
<1> HIDE DEF x
<1>3. /\ r \in RepStorage /\ r.Jurors = s.rep.Jurors /\ r.JurorRegistry = s.rep.JurorRegistry
      /\ r.JurorTiers = s.rep.JurorTiers /\ r.NextJurorIndex = s.rep.NextJurorIndex
      /\ r.StakeOf = s.rep.StakeOf /\ r.Attestations = s.rep.Attestations /\ r.ReputationStats = x
  BY <1>1 DEF ChainState, RepStorage
<1>4. PoolsOf(s.rep) => PoolsOf(r)
  BY <1>3 DEF PoolsOf
<1> HIDE DEF r, t
<1>5. t \in ChainState /\ t.ok = s.ok /\ t.ledger = s.ledger /\ t.rep = r
  BY <1>2, <1>3 DEF ChainState
<1>6. Undisturbed(s, t)
  BY <1>3, <1>5, UndisturbedSame
<1>7. Reports(s, t)
  BY <1>4, <1>5, <1>6 DEF Keeps, Reports
<1>8. s.rep.JurorRegistry \subseteq Accounts
  BY RepFields
<1>9. \A X : TiersBut(s.rep, X) => TiersBut(t.rep, X \cup {a})
  BY <1>1, <1>3, <1>5, <1>8 DEF TiersBut
<1> QED BY <1>3, <1>4, <1>5, <1>7, <1>9 DEF t, x

\* create_attestation as a link of a chain.
LEMMA AttestationReports ==
  ASSUME NEW s \in ChainState, NEW a \in Accounts, NEW p \in ProjectIds
  PROVE  LET t == CreateAttestation(s, a, p)
         IN  /\ Reports(s, t)
             /\ t.ok = s.ok
             /\ t.rep.ReputationStats = s.rep.ReputationStats
             /\ t.rep.Attestations = s.rep.Attestations \cup {<<a, p>>}
             /\ \A X : TiersBut(s.rep, X) => TiersBut(t.rep, X)
<1> DEFINE x == s.rep.Attestations \cup {<<a, p>>}
           r == [s.rep EXCEPT !.Attestations = x]
           t == CreateAttestation(s, a, p)
<1>1. x \in SUBSET (Accounts \X ProjectIds)
  BY RepFields
<1>2. t = [s EXCEPT !.rep = r]
  BY DEF CreateAttestation
<1> HIDE DEF x
<1>3. /\ r \in RepStorage /\ r.Jurors = s.rep.Jurors /\ r.JurorRegistry = s.rep.JurorRegistry
      /\ r.JurorTiers = s.rep.JurorTiers /\ r.NextJurorIndex = s.rep.NextJurorIndex
      /\ r.StakeOf = s.rep.StakeOf /\ r.Attestations = x
      /\ r.ReputationStats = s.rep.ReputationStats
  BY <1>1 DEF ChainState, RepStorage
<1>4. PoolsOf(s.rep) => PoolsOf(r)
  BY <1>3 DEF PoolsOf
<1> HIDE DEF r, t
<1>5. t \in ChainState /\ t.ok = s.ok /\ t.ledger = s.ledger /\ t.rep = r
  BY <1>2, <1>3 DEF ChainState
<1>6. Undisturbed(s, t)
  BY <1>3, <1>5, UndisturbedSame
<1>7. Reports(s, t)
  BY <1>4, <1>5, <1>6 DEF Keeps, Reports
<1>8. \A X : TiersBut(s.rep, X) => TiersBut(t.rep, X)
  BY <1>3, <1>5 DEF TiersBut
<1> QED BY <1>3, <1>5, <1>7, <1>8 DEF t, x

-------------------------------------------------------------------------------
(* What the calls write into the statistics *)

WithCompletion(st, v, rating) ==
    [st EXCEPT !.projects_completed = Sat(@ + 1),
               !.total_earned = @ + v,
               !.avg_rating_received = Averaged(@, st.total_ratings_received, rating),
               !.total_ratings_received = Sat(@ + 1)]
WithWin(st)        == [st EXCEPT !.disputes_won = Sat(@ + 1)]
WithLoss(st)       == [st EXCEPT !.disputes_lost = Sat(@ + 1), !.projects_failed = Sat(@ + 1)]
WithPosting(st, v) == [st EXCEPT !.projects_posted = Sat(@ + 1), !.total_spent = @ + v]
WithFailure(st)    == [st EXCEPT !.projects_failed = Sat(@ + 1)]
WithWork(st)       == [st EXCEPT !.projects_completed = Sat(@ + 1)]
WithVote(st, score) ==
    [st EXCEPT !.jury_participation = Sat(st.jury_participation + 1),
               !.jury_accuracy = Averaged(@, Sat(st.jury_participation + 1) - 1, score)]

\* The fields of statistics have their types.
LEMMA StatFields ==
  ASSUME NEW st \in ReputationData
  PROVE  /\ st.registered \in BOOLEAN
         /\ st.projects_completed \in U32 /\ st.projects_failed \in U32
         /\ st.total_earned \in Nat /\ st.projects_posted \in U32 /\ st.total_spent \in Nat
         /\ st.disputes_won \in U32 /\ st.disputes_lost \in U32
         /\ st.avg_rating_received \in U32 /\ st.total_ratings_received \in U32
         /\ st.jury_participation \in U32 /\ st.jury_accuracy \in Permill
         /\ U32 \subseteq Nat /\ Permill \subseteq Nat
<1>1. U32 \subseteq Nat
  BY RepAssumption DEF U32
<1>2. Permill \subseteq Nat
  BY DEF Permill
<1> QED BY <1>1, <1>2 DEF ReputationData

\* A saturated natural is a u32, and is zero only if it was.
LEMMA SatType ==
  ASSUME NEW x \in Nat
  PROVE  Sat(x) \in U32 /\ Sat(x) \in Nat /\ Sat(x) <= x /\ (x > 0 => Sat(x) > 0) /\ (x <= U32Max => Sat(x) = x)
BY RepAssumption DEF Sat, U32

\* A quotient is no larger than the dividend.
LEMMA QuotientType ==
  ASSUME NEW u \in Nat, NEW v \in Nat \ {0}
  PROVE  u \div v \in Nat /\ u \div v <= u
<1>1. u \div v \in Nat /\ v * (u \div v) <= u
  OBVIOUS
<1>2. ASSUME NEW q \in Nat PROVE q <= v * q
  OBVIOUS
<1> QED BY <1>1, <1>2

\* A running mean of naturals is a u32.
LEMMA AveragedType ==
  ASSUME NEW mean \in Nat, NEW n \in Nat, NEW x \in Nat
  PROVE  Averaged(mean, n, x) \in U32
<1>1. mean * n \in Nat /\ n + 1 \in Nat \ {0}
  OBVIOUS
<1>2. Sat(mean * n) + x \in Nat
  BY <1>1, SatType
<1>3. Sat(Sat(mean * n) + x) \in U32 /\ Sat(n + 1) \in Nat \ {0}
  BY <1>1, <1>2, SatType
<1>4. ASSUME NEW u \in U32, NEW v \in Nat \ {0}
      PROVE  u \div v \in U32
  <2>1. u \in Nat /\ u <= U32Max /\ U32Max \in Nat
    BY RepAssumption DEF U32
  <2>2. u \div v \in Nat /\ u \div v <= u
    BY <2>1, QuotientType
  <2> QED BY <2>1, <2>2 DEF U32
<1> QED BY <1>3, <1>4 DEF Averaged

\* The accuracy of a juror is a Permill: the mean of values up to a million, weighted
\* with a count that does not wrap, is at most a million.
LEMMA AccuracyType ==
  ASSUME NEW acc \in Permill, NEW total \in U32 \ {0}, NEW score \in Permill
  PROVE  Averaged(acc, total - 1, score) \in Permill
<1>1. total \in Nat \ {0} /\ total - 1 \in Nat /\ acc \in Nat /\ score \in Nat /\ score <= 1000000 /\ total <= U32Max
  BY RepAssumption DEF U32, Permill
<1> DEFINE sum == acc * (total - 1)
<1>2. sum \in Nat /\ sum <= 1000000 * (total - 1)
  BY <1>1 DEF Permill
<1> HIDE DEF sum
<1>3. Sat(sum) \in Nat /\ Sat(sum) <= sum
  BY <1>2, SatType
<1> DEFINE top == Sat(Sat(sum) + score)
<1>4. top \in Nat /\ top <= 1000000 * total
  BY <1>1, <1>2, <1>3, SatType
<1>5. Sat((total - 1) + 1) = total
  BY <1>1, SatType
<1> HIDE DEF top
<1>6. top \div total \in Nat /\ total * (top \div total) <= top
  BY <1>1, <1>4
<1>7. top \div total <= 1000000
  <2> DEFINE q == top \div total
  <2>1. q \in Nat /\ total * q <= 1000000 * total
    BY <1>1, <1>4, <1>6
  <2> HIDE DEF q
  <2>2. ASSUME q > 1000000 PROVE FALSE
    <3>1. q >= 1000001
      BY <2>1, <2>2
    <3>2. total * q >= total * 1000001
      BY <1>1, <2>1, <3>1
    <3> QED BY <1>1, <2>1, <3>2
  <2> QED BY <2>1, <2>2 DEF q
<1> QED BY <1>5, <1>6, <1>7 DEF Averaged, Permill, top, sum

\* The statistics of an account are statistics.
LEMMA StatsType ==
  ASSUME NEW s \in ChainState, NEW a \in Accounts
  PROVE  Stats(s, a) \in ReputationData /\ Registered(s, a) \in BOOLEAN
<1>1. Stats(s, a) \in ReputationData
  BY RepFields DEF Stats
<1> QED BY <1>1, StatFields DEF Registered

\* Fields written with values of their types stay in the type.
LEMMA StatsWritten ==
  ASSUME NEW st \in ReputationData
  PROVE  /\ \A n \in U32 : /\ [st EXCEPT !.projects_completed = n] \in ReputationData
                           /\ [st EXCEPT !.projects_failed = n] \in ReputationData
                           /\ [st EXCEPT !.disputes_won = n] \in ReputationData
         /\ \A n \in U32, m \in U32 :
              [st EXCEPT !.disputes_lost = n, !.projects_failed = m] \in ReputationData
         /\ \A n \in U32, e \in Nat :
              [st EXCEPT !.projects_posted = n, !.total_spent = e] \in ReputationData
         /\ \A n \in U32, e \in Nat, x \in U32, y \in U32 :
              [st EXCEPT !.projects_completed = n, !.total_earned = e,
                         !.avg_rating_received = x, !.total_ratings_received = y] \in ReputationData
         /\ \A n \in U32, i \in Permill :
              [st EXCEPT !.jury_participation = n, !.jury_accuracy = i] \in ReputationData
  BY DEF ReputationData

\* What the calls write into the statistics stays in the type.
LEMMA CountedType ==
  ASSUME NEW st \in ReputationData, NEW v \in Nat, NEW rating \in Nat
  PROVE  /\ WithCompletion(st, v, rating) \in ReputationData
         /\ WithWin(st) \in ReputationData
         /\ WithLoss(st) \in ReputationData
         /\ WithPosting(st, v) \in ReputationData
         /\ WithFailure(st) \in ReputationData
         /\ WithWork(st) \in ReputationData
<1>2. /\ Sat(st.projects_completed + 1) \in U32 /\ Sat(st.projects_failed + 1) \in U32
      /\ Sat(st.disputes_won + 1) \in U32 /\ Sat(st.disputes_lost + 1) \in U32
      /\ Sat(st.projects_posted + 1) \in U32 /\ st.total_spent + v \in Nat
      /\ st.total_earned + v \in Nat /\ Sat(st.total_ratings_received + 1) \in U32
  BY SatType, StatFields
<1>3. Averaged(st.avg_rating_received, st.total_ratings_received, rating) \in U32
  BY StatFields, AveragedType
<1>5. WithWork(st) \in ReputationData /\ WithFailure(st) \in ReputationData /\ WithWin(st) \in ReputationData
  BY StatsWritten, <1>2 DEF WithWork, WithFailure, WithWin
<1>6. WithLoss(st) \in ReputationData
  BY StatsWritten, <1>2 DEF WithLoss
<1>7. WithPosting(st, v) \in ReputationData
  BY StatsWritten, <1>2 DEF WithPosting
<1>8. WithCompletion(st, v, rating) \in ReputationData
  BY StatsWritten, <1>2, <1>3 DEF WithCompletion
<1> QED BY <1>5, <1>6, <1>7, <1>8

\* So does a counted vote.
LEMMA VotedType ==
  ASSUME NEW st \in ReputationData, NEW score \in Permill
  PROVE  WithVote(st, score) \in ReputationData
<1> DEFINE n == Sat(st.jury_participation + 1)
           i == Averaged(st.jury_accuracy, n - 1, score)
<1>1. n \in U32 \ {0}
  BY SatType, StatFields
<1> HIDE DEF n
<1>2. i \in Permill
  BY <1>1, StatFields, AccuracyType
<1> HIDE DEF i
<1>4. WithVote(st, score) = [st EXCEPT !.jury_participation = n, !.jury_accuracy = i]
  BY DEF WithVote, n, i
<1>5. \A k \in U32, j \in Permill :
         [st EXCEPT !.jury_participation = k, !.jury_accuracy = j] \in ReputationData
  BY StatsWritten
<1> QED BY <1>1, <1>2, <1>4, <1>5

\* A tier depends on four fields of the statistics.
LEMMA SameTier ==
  ASSUME NEW st \in ReputationData, NEW st2 \in ReputationData,
         st2.projects_completed = st.projects_completed, st2.total_earned = st.total_earned,
         st2.disputes_won = st.disputes_won, st2.disputes_lost = st.disputes_lost
  PROVE  CalculateTier(st2) = CalculateTier(st)
  BY DEF CalculateTier

\* One more completed project never lowers a tier, the saturated counter included.
LEMMA WorkRaisesTier ==
  ASSUME NEW st \in ReputationData
  PROVE  CalculateTier(st) <= CalculateTier(WithWork(st))
<1> DEFINE st2 == WithWork(st)
<1>1. /\ st2.total_earned = st.total_earned /\ st2.disputes_won = st.disputes_won
      /\ st2.disputes_lost = st.disputes_lost /\ st2.projects_completed = Sat(st.projects_completed + 1)
  BY DEF WithWork, ReputationData
<1>2. st.projects_completed \in Nat /\ Sat(st.projects_completed + 1) \in Nat
      /\ Sat(st.projects_completed + 1) >= st.projects_completed
  BY StatFields, RepAssumption DEF U32, Sat
<1> HIDE DEF st2
<1>3. st.total_earned \in Nat
  BY StatFields
<1>4. CalculateTier(st) <= CalculateTier(st2)
  BY <1>1, <1>2, <1>3 DEF CalculateTier, Ineligible, Bronze, Silver, Gold
<1> QED BY <1>4 DEF st2

-------------------------------------------------------------------------------
(* The calls of ReputationInterface, exactly *)

\* A call that rewrites the statistics to stats, the attestations to attested, and
\* otherwise only moves jurors between pools; the tiers are justified afterwards.
Recorded(s, t, stats, attested) ==
    /\ Reports(s, t)
    /\ t.rep.ReputationStats = stats
    /\ t.rep.Attestations = attested
    /\ t.ok /\ TiersBut(s.rep, {}) => TiersBut(t.rep, {})

\* A call that requires a registered caller and writes statistics that justify the
\* same tier, or a better one.
LEMMA SimpleCall ==
  ASSUME NEW s \in ChainState, NEW a \in Accounts, NEW st \in ReputationData,
         CalculateTier(Stats(s, a)) <= CalculateTier(st)
  PROVE  LET t == SetStats(Require(s, Registered(s, a)), a, st)
         IN  /\ Recorded(s, t, [s.rep.ReputationStats EXCEPT ![a] = st], s.rep.Attestations)
             /\ t.ok <=> s.ok /\ Registered(s, a)
<1> DEFINE u == Require(s, Registered(s, a))
           t == SetStats(u, a, st)
<1>1. Reports(s, u) /\ u.rep = s.rep /\ u.ledger = s.ledger /\ (u.ok <=> s.ok /\ Registered(s, a))
  BY StatsType, RequireReports
<1> HIDE DEF u
<1>2. u \in ChainState
  BY <1>1 DEF Reports, Keeps
<1>3. /\ Reports(u, t) /\ t.ok = u.ok
      /\ t.rep.ReputationStats = [u.rep.ReputationStats EXCEPT ![a] = st]
      /\ t.rep.Attestations = u.rep.Attestations
      /\ t.rep.JurorTiers = u.rep.JurorTiers
      /\ t.rep.JurorRegistry = u.rep.JurorRegistry
  BY <1>2, SetStatsReports
<1> HIDE DEF t
<1>4. Reports(s, t)
  BY <1>1, <1>3, ReportsTransitive
<1>5. TiersBut(s.rep, {}) => TiersBut(t.rep, {})
  <2> SUFFICES ASSUME TiersBut(s.rep, {}), NEW b \in s.rep.JurorRegistry
               PROVE  s.rep.JurorTiers[b] <= CalculateTier(t.rep.ReputationStats[b])
    BY <1>1, <1>3 DEF TiersBut
  <2>1. /\ s.rep.JurorTiers[b] <= CalculateTier(s.rep.ReputationStats[b])
        /\ b \in Accounts /\ s.rep.JurorTiers[b] \in Int
        /\ s.rep.ReputationStats[b] \in ReputationData
        /\ s.rep.ReputationStats \in [Accounts -> ReputationData]
    <3>1. b \in Accounts /\ s.rep.JurorTiers[b] \in Tiers /\ s.rep.ReputationStats[b] \in ReputationData
      BY RepFields
    <3>2. s.rep.JurorTiers[b] \in Int
      BY <3>1 DEF Tiers, Ineligible, Gold
    <3>3. s.rep.JurorTiers[b] <= CalculateTier(s.rep.ReputationStats[b])
      BY DEF TiersBut
    <3> QED BY <3>1, <3>2, <3>3, RepFields
  <2>2. CASE b # a
    BY <1>1, <1>3, <2>1, <2>2
  <2>3. CASE b = a
    <3>1. t.rep.ReputationStats[b] = st /\ Stats(s, a) = s.rep.ReputationStats[b]
      BY <1>1, <1>3, <2>1, <2>3 DEF Stats
    <3>2. CalculateTier(st) \in Int /\ CalculateTier(s.rep.ReputationStats[b]) \in Int
      BY <2>1, CalculateTierType DEF Tiers, Ineligible, Gold
    <3> QED BY <2>1, <3>1, <3>2
  <2> QED BY <2>2, <2>3
<1>6. Recorded(s, t, [s.rep.ReputationStats EXCEPT ![a] = st], s.rep.Attestations)
  BY <1>1, <1>3, <1>4, <1>5 DEF Recorded
<1> QED BY <1>1, <1>3, <1>6 DEF t, u

\* on_work_accepted
LEMMA OnWorkAcceptedRecords ==
  ASSUME NEW s \in ChainState, NEW a \in Accounts
  PROVE  LET t == OnWorkAccepted(s, a)
         IN  /\ Recorded(s, t, [s.rep.ReputationStats EXCEPT ![a] = WithWork(Stats(s, a))], s.rep.Attestations)
             /\ t.ok <=> s.ok /\ Registered(s, a)
<1>1. Stats(s, a) \in ReputationData /\ WithWork(Stats(s, a)) \in ReputationData
  BY StatsType, CountedType
<1>2. CalculateTier(Stats(s, a)) <= CalculateTier(WithWork(Stats(s, a)))
  BY <1>1, WorkRaisesTier
<1>3. OnWorkAccepted(s, a) = SetStats(Require(s, Registered(s, a)), a, WithWork(Stats(s, a)))
  BY DEF OnWorkAccepted, WithWork
<1> QED BY <1>1, <1>2, <1>3, SimpleCall

\* on_project_cancelled
LEMMA OnProjectCancelledRecords ==
  ASSUME NEW s \in ChainState, NEW a \in Accounts
  PROVE  LET t == OnProjectCancelled(s, a)
         IN  /\ Recorded(s, t, [s.rep.ReputationStats EXCEPT ![a] = WithFailure(Stats(s, a))], s.rep.Attestations)
             /\ t.ok <=> s.ok /\ Registered(s, a)
<1> DEFINE st == Stats(s, a)
<1>1. st \in ReputationData /\ WithFailure(st) \in ReputationData
  BY StatsType, CountedType
<1> HIDE DEF st
<1>2. CalculateTier(st) = CalculateTier(WithFailure(st))
  <2>1. /\ WithFailure(st).projects_completed = st.projects_completed
        /\ WithFailure(st).total_earned = st.total_earned
        /\ WithFailure(st).disputes_won = st.disputes_won
        /\ WithFailure(st).disputes_lost = st.disputes_lost
    BY <1>1 DEF WithFailure, ReputationData
  <2> QED BY <1>1, <2>1, SameTier
<1>3. CalculateTier(st) <= CalculateTier(WithFailure(st))
  BY <1>1, <1>2, CalculateTierType DEF Tiers, Ineligible, Gold
<1>4. OnProjectCancelled(s, a) = SetStats(Require(s, Registered(s, a)), a, WithFailure(st))
  BY DEF OnProjectCancelled, WithFailure, st
<1> QED BY <1>1, <1>3, <1>4, SimpleCall DEF st

\* on_project_created
LEMMA OnProjectCreatedRecords ==
  ASSUME NEW s \in ChainState, NEW a \in Accounts, NEW v \in Nat
  PROVE  LET t == OnProjectCreated(s, a, v)
         IN  /\ Recorded(s, t, [s.rep.ReputationStats EXCEPT ![a] = WithPosting(Stats(s, a), v)], s.rep.Attestations)
             /\ t.ok <=> s.ok /\ Registered(s, a)
<1> DEFINE st == Stats(s, a)
<1>1. st \in ReputationData /\ WithPosting(st, v) \in ReputationData
  BY StatsType, CountedType
<1> HIDE DEF st
<1>2. CalculateTier(st) = CalculateTier(WithPosting(st, v))
  <2>1. /\ WithPosting(st, v).projects_completed = st.projects_completed
        /\ WithPosting(st, v).total_earned = st.total_earned
        /\ WithPosting(st, v).disputes_won = st.disputes_won
        /\ WithPosting(st, v).disputes_lost = st.disputes_lost
    BY <1>1 DEF WithPosting, ReputationData
  <2> QED BY <1>1, <2>1, SameTier
<1>3. CalculateTier(st) <= CalculateTier(WithPosting(st, v))
  BY <1>1, <1>2, CalculateTierType DEF Tiers, Ineligible, Gold
<1>4. OnProjectCreated(s, a, v) = SetStats(Require(s, Registered(s, a)), a, WithPosting(st, v))
  BY DEF OnProjectCreated, WithPosting, st
<1> QED BY <1>1, <1>3, <1>4, SimpleCall DEF st

\* on_project_completed: count, move between pools, attest.
LEMMA OnProjectCompletedRecords ==
  ASSUME NEW s \in ChainState, NEW a \in Accounts, NEW v \in Nat, NEW rating \in Nat,
         NEW p \in ProjectIds
  PROVE  LET t == OnProjectCompleted(s, a, v, rating, p)
         IN  /\ Recorded(s, t, [s.rep.ReputationStats EXCEPT ![a] = WithCompletion(Stats(s, a), v, rating)],
                               s.rep.Attestations \cup {<<a, p>>})
             /\ t.ok => s.ok /\ rating <= 5000 /\ Registered(s, a)
<1> DEFINE st == WithCompletion(Stats(s, a), v, rating)
           valid == rating <= 5000 /\ Registered(s, a)
           u == Require(s, valid)
           counted == SetStats(u, a, st)
           moved == UpdateJurorTier(counted, a)
           attested == CreateAttestation(moved, a, p)
<1>1. st \in ReputationData
  BY StatsType, CountedType
<1>2. Reports(s, u) /\ u.rep = s.rep /\ (u.ok <=> s.ok /\ valid) /\ u \in ChainState
  <2>1. valid \in BOOLEAN
    BY StatsType
  <2> HIDE DEF valid
  <2> QED BY <2>1, RequireReports DEF Reports, Keeps
<1>3. OnProjectCompleted(s, a, v, rating, p) = attested
  BY DEF OnProjectCompleted, WithCompletion
<1> HIDE DEF st, u
<1>a. /\ Reports(u, counted) /\ counted.ok = u.ok
      /\ counted.rep.ReputationStats = [u.rep.ReputationStats EXCEPT ![a] = st]
      /\ counted.rep.Attestations = u.rep.Attestations
      /\ \A X : TiersBut(u.rep, X) => TiersBut(counted.rep, X \cup {a})
  <2>1. u \in ChainState
    BY <1>2
  <2> HIDE DEF valid
  <2> QED BY ONLY <1>1, <2>1, a \in Accounts, SetStatsReports
<1>4. /\ Reports(u, counted) /\ counted.ok = u.ok /\ counted \in ChainState
      /\ counted.rep.ReputationStats = [s.rep.ReputationStats EXCEPT ![a] = st]
      /\ counted.rep.Attestations = s.rep.Attestations
      /\ TiersBut(s.rep, {}) => TiersBut(counted.rep, {} \cup {a})
  <2> HIDE DEF counted
  <2> QED BY <1>2, <1>a DEF Reports, Keeps
<1> HIDE DEF counted
<1>5. /\ Reports(counted, moved) /\ moved \in ChainState
      /\ moved.rep.ReputationStats = counted.rep.ReputationStats
      /\ moved.rep.Attestations = counted.rep.Attestations
      /\ moved.ok => counted.ok
      /\ moved.ok /\ TiersBut(counted.rep, {} \cup {a}) => TiersBut(moved.rep, ({} \cup {a}) \ {a})
  BY <1>4, UpdateJurorTierReports DEF Reports, Keeps
<1>6. ({} \cup {a}) \ {a} = {}
  OBVIOUS
<1> HIDE DEF moved
<1>7. /\ Reports(moved, attested) /\ attested.ok = moved.ok
      /\ attested.rep.ReputationStats = moved.rep.ReputationStats
      /\ attested.rep.Attestations = moved.rep.Attestations \cup {<<a, p>>}
      /\ TiersBut(moved.rep, {}) => TiersBut(attested.rep, {})
  BY <1>5, AttestationReports
<1> HIDE DEF attested
<1>8. Reports(s, attested)
  <2>1. Reports(s, counted)
    BY <1>2, <1>4, ReportsTransitive
  <2>2. Reports(s, moved)
    BY <1>5, <2>1, ReportsTransitive
  <2> QED BY <1>7, <2>2, ReportsTransitive
<1>9. Recorded(s, attested, [s.rep.ReputationStats EXCEPT ![a] = st], s.rep.Attestations \cup {<<a, p>>})
  BY <1>4, <1>5, <1>6, <1>7, <1>8 DEF Recorded
<1> QED BY <1>2, <1>3, <1>4, <1>5, <1>7, <1>9 DEF st

\* The statistics after a dispute between a, who won, and b, who lost.
Decided(stats, a, b) ==
    LET won == [stats EXCEPT ![a] = WithWin(stats[a])]
    IN  [won EXCEPT ![b] = WithLoss(won[b])]

\* on_dispute_outcome: two accounts change their statistics, then their pools.
LEMMA OnDisputeOutcomeRecords ==
  ASSUME NEW s \in ChainState, NEW a \in Accounts, NEW b \in Accounts
  PROVE  LET t == OnDisputeOutcome(s, a, b)
         IN  /\ Recorded(s, t, Decided(s.rep.ReputationStats, a, b), s.rep.Attestations)
             /\ t.ok => s.ok /\ Registered(s, a) /\ Registered(s, b)
<1> DEFINE both == Registered(s, a) /\ Registered(s, b)
           u == Require(s, both)
           sta == WithWin(Stats(s, a))
           won == SetStats(u, a, sta)
           stb == WithLoss(Stats(won, b))
           lost == SetStats(won, b, stb)
           moved == UpdateJurorTier(lost, a)
           t == UpdateJurorTier(moved, b)
<1>1. OnDisputeOutcome(s, a, b) = t
  BY DEF OnDisputeOutcome, WithWin, WithLoss
<1>2. Reports(s, u) /\ u.rep = s.rep /\ (u.ok <=> s.ok /\ both) /\ u \in ChainState
  <2>1. both \in BOOLEAN
    BY StatsType
  <2> HIDE DEF both
  <2> QED BY <2>1, RequireReports DEF Reports, Keeps
<1>3. sta \in ReputationData /\ sta = WithWin(s.rep.ReputationStats[a])
  BY StatsType, CountedType DEF Stats
<1> HIDE DEF u, sta
<1>a. /\ Reports(u, won) /\ won.ok = u.ok
      /\ won.rep.ReputationStats = [u.rep.ReputationStats EXCEPT ![a] = sta]
      /\ won.rep.Attestations = u.rep.Attestations
      /\ \A X : TiersBut(u.rep, X) => TiersBut(won.rep, X \cup {a})
  BY <1>2, <1>3, SetStatsReports
<1>4. /\ Reports(u, won) /\ won.ok = u.ok /\ won \in ChainState
      /\ won.rep.ReputationStats = [s.rep.ReputationStats EXCEPT ![a] = sta]
      /\ won.rep.Attestations = s.rep.Attestations
      /\ TiersBut(s.rep, {}) => TiersBut(won.rep, {} \cup {a})
  <2> HIDE DEF won
  <2> QED BY <1>2, <1>a DEF Reports, Keeps
<1> HIDE DEF won
<1>5. stb \in ReputationData /\ stb = WithLoss(won.rep.ReputationStats[b])
  BY <1>4, StatsType, CountedType DEF Stats
<1> HIDE DEF stb
<1>b. /\ Reports(won, lost) /\ lost.ok = won.ok
      /\ lost.rep.ReputationStats = [won.rep.ReputationStats EXCEPT ![b] = stb]
      /\ lost.rep.Attestations = won.rep.Attestations
      /\ \A X : TiersBut(won.rep, X) => TiersBut(lost.rep, X \cup {b})
  <2>1. won \in ChainState /\ stb \in ReputationData
    BY <1>4, <1>5
  <2> QED BY ONLY <2>1, b \in Accounts, SetStatsReports
<1>6. /\ Reports(won, lost) /\ lost.ok = won.ok /\ lost \in ChainState
      /\ lost.rep.ReputationStats = [won.rep.ReputationStats EXCEPT ![b] = stb]
      /\ lost.rep.Attestations = won.rep.Attestations
      /\ TiersBut(won.rep, {} \cup {a}) => TiersBut(lost.rep, ({} \cup {a}) \cup {b})
  <2> HIDE DEF lost
  <2> QED BY <1>b DEF Reports, Keeps
<1> HIDE DEF lost
<1>7. /\ Reports(lost, moved) /\ moved \in ChainState /\ (moved.ok => lost.ok)
      /\ moved.rep.ReputationStats = lost.rep.ReputationStats
      /\ moved.rep.Attestations = lost.rep.Attestations
      /\ moved.ok /\ TiersBut(lost.rep, ({} \cup {a}) \cup {b})
           => TiersBut(moved.rep, (({} \cup {a}) \cup {b}) \ {a})
  BY <1>6, UpdateJurorTierReports DEF Reports, Keeps
<1> HIDE DEF moved
<1>8. /\ Reports(moved, t) /\ t \in ChainState /\ (t.ok => moved.ok)
      /\ t.rep.ReputationStats = moved.rep.ReputationStats
      /\ t.rep.Attestations = moved.rep.Attestations
      /\ t.ok /\ TiersBut(moved.rep, (({} \cup {a}) \cup {b}) \ {a})
           => TiersBut(t.rep, ((({} \cup {a}) \cup {b}) \ {a}) \ {b})
  BY <1>7, UpdateJurorTierReports DEF Reports, Keeps
<1> HIDE DEF t
<1>9. ((({} \cup {a}) \cup {b}) \ {a}) \ {b} = {}
  OBVIOUS
<1>10. Reports(s, t)
  <2>1. Reports(s, won)
    BY <1>2, <1>4, ReportsTransitive
  <2>2. Reports(s, lost)
    BY <1>6, <2>1, ReportsTransitive
  <2>3. Reports(s, moved)
    BY <1>7, <2>2, ReportsTransitive
  <2> QED BY <1>8, <2>3, ReportsTransitive
<1>11. t.rep.ReputationStats = Decided(s.rep.ReputationStats, a, b)
  BY <1>3, <1>4, <1>5, <1>6, <1>7, <1>8 DEF Decided
<1>12. Recorded(s, t, Decided(s.rep.ReputationStats, a, b), s.rep.Attestations)
  BY <1>4, <1>6, <1>7, <1>8, <1>9, <1>10, <1>11 DEF Recorded
<1> QED BY <1>1, <1>2, <1>4, <1>6, <1>7, <1>8, <1>12

\* on_jury_vote whose error is ignored: the vote is counted if the juror is registered,
\* and whatever was written before the error is kept.  It cannot leave a juror in a
\* tier that is too high, since a vote does not change the tier the record justifies.
LEMMA IgnoredVoteRecords ==
  ASSUME NEW s \in ChainState, NEW a \in Accounts, NEW withMajority \in BOOLEAN, s.ok
  PROVE  LET t == [OnJuryVote(s, a, withMajority) EXCEPT !.ok = TRUE]
             score == IF withMajority THEN 1000000 ELSE 0
         IN  /\ Recorded(s, t, IF Registered(s, a)
                               THEN [s.rep.ReputationStats EXCEPT ![a] = WithVote(Stats(s, a), score)]
                               ELSE s.rep.ReputationStats, s.rep.Attestations)
             /\ t.ok
<1> DEFINE score == IF withMajority THEN 1000000 ELSE 0
           st == WithVote(Stats(s, a), score)
           u == SetStats(s, a, st)
           v == OnJuryVote(s, a, withMajority)
           t == [v EXCEPT !.ok = TRUE]
<1>1. CASE ~ Registered(s, a)
  <2>1. v = [s EXCEPT !.ok = FALSE]
    BY <1>1 DEF OnJuryVote, Registered
  <2>2. t = s
    BY <2>1 DEF ChainState
  <2>3. Reports(s, s)
    BY UndisturbedSame DEF Reports, Keeps
  <2>4. Recorded(s, t, s.rep.ReputationStats, s.rep.Attestations)
    BY <2>2, <2>3 DEF Recorded
  <2> HIDE DEF v, t, score
  <2> QED BY <1>1, <2>2, <2>4 DEF t, v
<1>2. CASE Registered(s, a)
  <2>1. v = UpdateJurorTier(u, a)
    BY <1>2 DEF OnJuryVote, Registered, WithVote
  <2>2. score \in Permill
    BY DEF Permill
  <2> HIDE DEF score
  <2>3. Stats(s, a) \in ReputationData /\ st \in ReputationData
    BY <2>2, StatsType, VotedType
  <2>4. CalculateTier(st) = CalculateTier(Stats(s, a))
    <3> DEFINE old == Stats(s, a)
    <3>1. /\ st.projects_completed = old.projects_completed /\ st.total_earned = old.total_earned
          /\ st.disputes_won = old.disputes_won /\ st.disputes_lost = old.disputes_lost
      <4> HIDE DEF old
      <4>1. st = WithVote(old, score)
        BY DEF old
      <4> HIDE DEF st
      <4> QED BY <2>3, <4>1 DEF WithVote, ReputationData, old
    <3> QED BY <2>3, <3>1, SameTier
  <2> HIDE DEF st
  <2>5. /\ Reports(s, u) /\ u \in ChainState /\ u.ok /\ u.ledger = s.ledger
        /\ PoolsOf(s.rep) => PoolsOf(u.rep)
        /\ u.rep.ReputationStats = [s.rep.ReputationStats EXCEPT ![a] = st]
        /\ u.rep.Attestations = s.rep.Attestations
        /\ u.rep.JurorTiers = s.rep.JurorTiers
        /\ u.rep.JurorRegistry = s.rep.JurorRegistry
    BY <2>3, SetStatsReports DEF Reports, Keeps
  <2>6. TiersBut(s.rep, {}) => TiersBut(u.rep, {})
    <3> SUFFICES ASSUME TiersBut(s.rep, {}), NEW b \in s.rep.JurorRegistry
                 PROVE  s.rep.JurorTiers[b] <= CalculateTier(u.rep.ReputationStats[b])
      BY <2>5 DEF TiersBut
    <3>1. b \in Accounts /\ s.rep.ReputationStats \in [Accounts -> ReputationData]
      BY RepFields
    <3>2. s.rep.JurorTiers[b] <= CalculateTier(s.rep.ReputationStats[b])
      BY DEF TiersBut
    <3>3. CalculateTier(u.rep.ReputationStats[b]) = CalculateTier(s.rep.ReputationStats[b])
      BY <2>4, <2>5, <3>1 DEF Stats
    <3> QED BY <3>2, <3>3
  <2> HIDE DEF u
  <2>7. Rehomed(u, v, a)
    BY <2>1, <2>5, UpdateJurorTierEffect
  <2> HIDE DEF v
  <2>8. /\ v \in ChainState /\ t \in ChainState /\ t.ok /\ t.ledger = v.ledger /\ t.rep = v.rep
    BY <2>7 DEF Rehomed, ChainState
  <2> HIDE DEF t
  <2>9. Undisturbed(s, t)
    <3>1. Undisturbed(u, v)
      BY <2>5, <2>7, RehomedUndisturbed DEF Reports
    <3>2. Undisturbed(u, t)
      BY <2>8, <3>1 DEF Undisturbed
    <3>3. Undisturbed(s, u)
      BY <2>5 DEF Reports
    <3>4. Keeps(s, u) /\ Keeps(u, t)
      BY <2>5, <2>7, <2>8 DEF Reports, Keeps, Rehomed
    <3>5. Reports(s, t)
      BY <3>2, <3>3, <3>4, ReportsTransitive DEF Reports
    <3> QED BY <3>5 DEF Reports
  <2>10. Keeps(s, t)
    BY <2>5, <2>7, <2>8 DEF Keeps, Rehomed
  <2>11. TiersBut(u.rep, {}) => TiersBut(t.rep, {})
    <3> SUFFICES ASSUME TiersBut(u.rep, {}), NEW b \in t.rep.JurorRegistry
                 PROVE  t.rep.JurorTiers[b] <= CalculateTier(t.rep.ReputationStats[b])
      BY DEF TiersBut
    <3>1. /\ b \in Accounts /\ t.rep.ReputationStats = u.rep.ReputationStats
          /\ CalculateTier(u.rep.ReputationStats[b]) \in Int
      BY <2>5, <2>7, <2>8, RepFields, CalculateTierType DEF Rehomed, Tiers, Ineligible, Gold
    <3>2. CASE t.rep.JurorTiers[b] = u.rep.JurorTiers[b] /\ SameHoldings(u, v, b)
      BY <2>8, <3>1, <3>2 DEF TiersBut, SameHoldings
    <3>3. CASE b = a /\ t.rep.JurorTiers[b] = CalculateTier(t.rep.ReputationStats[b])
      BY <3>1, <3>3
    <3>4. CASE b # a
      <4>1. t.rep.JurorTiers[b] = u.rep.JurorTiers[b] /\ SameHoldings(u, v, b)
        BY <2>7, <2>8, <3>1, <3>4 DEF Rehomed
      <4> QED BY <3>2, <4>1
    <3>5. CASE b = a
      <4>1. Placed(u, v, a)
        BY <2>7, <2>8, <3>5 DEF Rehomed, Departed
      <4> QED BY <2>8, <3>2, <3>3, <3>5, <4>1 DEF Placed
    <3> QED BY <3>4, <3>5
  <2>12. Recorded(s, t, [s.rep.ReputationStats EXCEPT ![a] = st], s.rep.Attestations)
    BY <2>5, <2>6, <2>7, <2>8, <2>9, <2>10, <2>11 DEF Recorded, Reports, Rehomed
  <2> QED BY <1>2, <2>8, <2>12 DEF t, v, st, score
<1> QED BY <1>1, <1>2

-------------------------------------------------------------------------------
(* The extrinsics of jurors *)

\* The chain state a call starts from.
LEMMA ChainType ==
  ASSUME RepTypeOK
  PROVE  /\ Chain \in ChainState /\ Chain.ok
         /\ Chain.ledger = ledger /\ Chain.rep = rep
         /\ Chain.ledger \in Ledger
         /\ PoolsOf(Chain.rep) <=> PoolsSound
<1>1. ledger \in AnyLedger
  BY DEF RepTypeOK, Ledger, AnyLedger, Entries, LockTable
<1> QED BY <1>1 DEF RepTypeOK, Chain, ChainState, PoolsOf, PoolsSound

\* Joining the registry writes the registry entry and the tier.
LEMMA JoinRegistryType ==
  ASSUME NEW s \in ChainState, NEW a \in Accounts, NEW tier \in Tiers
  PROVE  LET t == JoinRegistry(s, a, tier)
         IN  /\ t \in ChainState /\ t.ok = s.ok /\ t.ledger = s.ledger
             /\ t.rep.Jurors = s.rep.Jurors
             /\ t.rep.JurorRegistry = s.rep.JurorRegistry \cup {a}
             /\ t.rep.JurorTiers = [s.rep.JurorTiers EXCEPT ![a] = tier]
             /\ t.rep.ReputationStats = s.rep.ReputationStats
             /\ t.rep.Attestations = s.rep.Attestations
             /\ t.rep.NextJurorIndex = s.rep.NextJurorIndex
             /\ t.rep.StakeOf = s.rep.StakeOf
<1> DEFINE g == s.rep.JurorRegistry \cup {a}
           c == [s.rep.JurorTiers EXCEPT ![a] = tier]
           r == [s.rep EXCEPT !.JurorRegistry = g, !.JurorTiers = c]
           t == JoinRegistry(s, a, tier)
<1>1. g \in SUBSET Accounts /\ c \in [Accounts -> Tiers]
  BY RepFields
<1>2. t = [s EXCEPT !.rep = r]
  BY DEF JoinRegistry, ChainState, RepStorage
<1> HIDE DEF g, c
<1>3. /\ r \in RepStorage /\ r.Jurors = s.rep.Jurors /\ r.JurorRegistry = g /\ r.JurorTiers = c
      /\ r.ReputationStats = s.rep.ReputationStats /\ r.Attestations = s.rep.Attestations
      /\ r.NextJurorIndex = s.rep.NextJurorIndex /\ r.StakeOf = s.rep.StakeOf
  BY <1>1 DEF ChainState, RepStorage
<1> HIDE DEF r, t
<1>4. t \in ChainState /\ t.ok = s.ok /\ t.ledger = s.ledger /\ t.rep = r
  BY <1>2, <1>3 DEF ChainState
<1> QED BY <1>3, <1>4 DEF t, g, c

\* What a new juror changes: its own reserve, stake, registration and tier.
Joined(s, t, a) ==
    /\ t \in ChainState /\ t.ok
    /\ t.ledger \in Ledger
    /\ PoolsOf(t.rep)
    /\ t.ledger.locks = s.ledger.locks
    /\ t.rep.ReputationStats = s.rep.ReputationStats
    /\ t.rep.Attestations = s.rep.Attestations
    /\ t.rep.NextJurorIndex = s.rep.NextJurorIndex
    /\ \A b \in Accounts \ {a} :
         SameHoldings(s, t, b) /\ t.rep.JurorTiers[b] = s.rep.JurorTiers[b]
    /\ a \notin s.rep.JurorRegistry /\ a \in t.rep.JurorRegistry
    /\ t.rep.JurorTiers[a] = CalculateTier(t.rep.ReputationStats[a])
    /\ t.rep.StakeOf[a] = JurorStake
    /\ t.ledger.free[a] = s.ledger.free[a] - JurorStake
    /\ t.ledger.reserved[a] = s.ledger.reserved[a] + JurorStake

\* register_as_juror: who is not in the registry is in no pool.
LEMMA RegisterAsJurorEffect ==
  ASSUME RepTypeOK, PoolsSound, NEW a \in Accounts, RegisterAsJuror(a)
  PROVE  \E t : Commit(t) /\ Joined(Chain, t, a)
<1> DEFINE tier     == CalculateTier(rep.ReputationStats[a])
           reserved == Reserve(Chain, a, JurorStake)
           staked   == SetStake(reserved, a, JurorStake)
           joined   == JoinRegistry(staked, a, tier)
           added    == AddToTierList(joined, a, tier)
           x        == [joined.rep.Jurors EXCEPT ![tier] = Append(@, a)]
<1>1. /\ Chain \in ChainState /\ Chain.ok /\ Chain.rep = rep
      /\ Chain.ledger \in Ledger /\ PoolsOf(rep)
  BY ChainType
<1>2. Absent(rep, a) /\ tier >= Bronze /\ a \notin rep.JurorRegistry /\ Commit(added)
  BY <1>1 DEF RegisterAsJuror, PoolsOf, Absent
<1>3. tier \in PoolTiers /\ tier \in Tiers
  <2>1. tier \in Tiers
    BY <1>1, RepFields, CalculateTierType
  <2> QED BY <1>2, <2>1 DEF Tiers, PoolTiers, Ineligible, Bronze, Gold
<1>a. tier = CalculateTier(rep.ReputationStats[a])
  OBVIOUS
<1> HIDE DEF tier
<1>4. /\ reserved \in ChainState /\ reserved.rep = rep
      /\ reserved.ok => reserved.ledger \in Ledger
      /\ reserved.ledger.free = [Chain.ledger.free EXCEPT ![a] = @ - JurorStake]
      /\ reserved.ledger.reserved = [Chain.ledger.reserved EXCEPT ![a] = @ + JurorStake]
      /\ reserved.ledger.locks = Chain.ledger.locks
  <2>1. JurorStake \in Nat
    BY RepAssumption
  <2> QED BY ONLY <1>1, <2>1, ReserveType
<1> HIDE DEF reserved
<1>5. /\ staked \in ChainState /\ staked.ok = reserved.ok /\ staked.ledger = reserved.ledger
      /\ staked.rep = [reserved.rep EXCEPT !.StakeOf = [@ EXCEPT ![a] = JurorStake]]
  <2>1. JurorStake \in Nat \cup {None}
    BY RepAssumption
  <2> QED BY <1>4, <2>1, SetStakeType
<1> HIDE DEF staked
<1>6. /\ staked.rep.Jurors = rep.Jurors /\ staked.rep.JurorRegistry = rep.JurorRegistry
      /\ staked.rep.JurorTiers = rep.JurorTiers /\ staked.rep.ReputationStats = rep.ReputationStats
      /\ staked.rep.Attestations = rep.Attestations /\ staked.rep.NextJurorIndex = rep.NextJurorIndex
      /\ staked.rep.StakeOf = [rep.StakeOf EXCEPT ![a] = JurorStake]
  BY <1>4, <1>5 DEF RepStorage, ChainState
<1>7. /\ joined \in ChainState /\ joined.ok = staked.ok /\ joined.ledger = staked.ledger
      /\ joined.rep.Jurors = staked.rep.Jurors
      /\ joined.rep.JurorRegistry = staked.rep.JurorRegistry \cup {a}
      /\ joined.rep.JurorTiers = [staked.rep.JurorTiers EXCEPT ![a] = tier]
      /\ joined.rep.ReputationStats = staked.rep.ReputationStats
      /\ joined.rep.Attestations = staked.rep.Attestations
      /\ joined.rep.NextJurorIndex = staked.rep.NextJurorIndex
      /\ joined.rep.StakeOf = staked.rep.StakeOf
  BY ONLY <1>3, <1>5, JoinRegistryType
<1> HIDE DEF joined
<1>8. rep \in RepStorage /\ joined.rep \in RepStorage
  BY <1>1, <1>7, LedgerFields
<1>9. PoolsOf(joined.rep) /\ Absent(joined.rep, a)
  <2>1. /\ joined.rep.Jurors = rep.Jurors
        /\ rep.JurorRegistry \ {a} \subseteq joined.rep.JurorRegistry
        /\ \A b \in Accounts \ {a} : joined.rep.JurorTiers[b] = rep.JurorTiers[b]
    BY <1>6, <1>7, <1>8 DEF RepStorage
  <2> QED BY <1>1, <1>2, <1>8, <2>1, RehomedPools
<1>10. a \in joined.rep.JurorRegistry /\ joined.rep.JurorTiers[a] = tier
  BY <1>6, <1>7, <1>8 DEF RepStorage
<1>11. /\ added \in ChainState /\ added.ledger = joined.ledger
       /\ IF Len(joined.rep.Jurors[tier]) < MaxPool[tier]
          THEN added.ok = joined.ok /\ added.rep = [joined.rep EXCEPT !.Jurors = x]
          ELSE ~ added.ok /\ added.rep = joined.rep
  BY <1>3, <1>7, AddToTierListType
<1> HIDE DEF added
<1>12. /\ added.ok /\ added.rep = [joined.rep EXCEPT !.Jurors = x]
       /\ Len(joined.rep.Jurors[tier]) < MaxPool[tier] /\ joined.ok
  BY <1>2, <1>11 DEF Commit
<1>13. PoolsOf(added.rep)
  <2>1. x = [joined.rep.Jurors EXCEPT ![tier] = Append(@, a)]
    OBVIOUS
  <2> HIDE DEF x
  <2>2. PoolsOf([joined.rep EXCEPT !.Jurors = x])
    BY <1>3, <1>8, <1>9, <1>10, <1>12, <2>1, AddedPools
  <2> QED BY <1>12, <2>2
<1>14. added.ledger \in Ledger
  BY <1>4, <1>5, <1>7, <1>11, <1>12
<1>15. /\ added.rep.JurorRegistry = rep.JurorRegistry \cup {a}
       /\ added.rep.JurorTiers = [rep.JurorTiers EXCEPT ![a] = tier]
       /\ added.rep.ReputationStats = rep.ReputationStats
       /\ added.rep.Attestations = rep.Attestations
       /\ added.rep.NextJurorIndex = rep.NextJurorIndex
       /\ added.rep.StakeOf = [rep.StakeOf EXCEPT ![a] = JurorStake]
  <2>1. /\ added.rep.JurorRegistry = joined.rep.JurorRegistry
        /\ added.rep.JurorTiers = joined.rep.JurorTiers
        /\ added.rep.ReputationStats = joined.rep.ReputationStats
        /\ added.rep.Attestations = joined.rep.Attestations
        /\ added.rep.NextJurorIndex = joined.rep.NextJurorIndex
        /\ added.rep.StakeOf = joined.rep.StakeOf
    <3> HIDE DEF x
    <3> QED BY <1>8, <1>12 DEF RepStorage
  <2> QED BY <1>6, <1>7, <2>1
<1>16. /\ added.ledger.free = [Chain.ledger.free EXCEPT ![a] = @ - JurorStake]
       /\ added.ledger.reserved = [Chain.ledger.reserved EXCEPT ![a] = @ + JurorStake]
       /\ added.ledger.locks = Chain.ledger.locks
  BY <1>4, <1>5, <1>7, <1>11
<1>17. /\ rep.JurorTiers \in [Accounts -> Tiers] /\ rep.StakeOf \in [Accounts -> Nat \cup {None}]
       /\ Chain.ledger.free \in Entries /\ Chain.ledger.reserved \in Entries
  BY <1>1, RepFields, LedgerFields
<1>18. \A b \in Accounts \ {a} :
         SameHoldings(Chain, added, b) /\ added.rep.JurorTiers[b] = Chain.rep.JurorTiers[b]
  BY <1>1, <1>15, <1>16, <1>17 DEF SameHoldings, Entries
<1>19. /\ a \notin Chain.rep.JurorRegistry /\ a \in added.rep.JurorRegistry
       /\ added.rep.JurorTiers[a] = CalculateTier(added.rep.ReputationStats[a])
       /\ added.rep.StakeOf[a] = JurorStake
       /\ added.ledger.free[a] = Chain.ledger.free[a] - JurorStake
       /\ added.ledger.reserved[a] = Chain.ledger.reserved[a] + JurorStake
  BY <1>1, <1>2, <1>a, <1>15, <1>16, <1>17 DEF Entries
<1>20. Joined(Chain, added, a)
  BY <1>1, <1>11, <1>12, <1>13, <1>14, <1>15, <1>16, <1>18, <1>19 DEF Joined
<1> QED BY <1>2, <1>20

\* deregister_as_juror: the juror leaves its pool and the registry and gets its stake
\* back.
LEMMA DeregisterAsJurorEffect ==
  ASSUME RepTypeOK, PoolsSound, NEW a \in Accounts, DeregisterAsJuror(a)
  PROVE  \E t : Commit(t) /\ Rehomed(Chain, t, a) /\ t.ok
<1> DEFINE r == ReleaseStake(Chain, a)
           m == RemoveFromTierList(r, a, rep.JurorTiers[a])
           t == LeaveRegistry(m, a)
<1>1. /\ Chain \in ChainState /\ Chain.ok /\ Chain.rep = rep /\ rep \in RepStorage
      /\ PoolsOf(rep)
  BY ChainType, LedgerFields
<1>2. /\ r \in ChainState /\ r.ok = Chain.ok
      /\ r.rep = [rep EXCEPT !.StakeOf = [@ EXCEPT ![a] = None]]
      /\ r.ledger.free = [Chain.ledger.free EXCEPT ![a] = @ + Refund(Chain, a)]
      /\ r.ledger.reserved = [Chain.ledger.reserved EXCEPT ![a] = @ - Refund(Chain, a)]
      /\ r.ledger.locks = Chain.ledger.locks
      /\ Chain.ledger \in Ledger => r.ledger \in Ledger
  BY <1>1, ReleaseStakeType
<1>3. Commit(t)
  BY DEF DeregisterAsJuror
<1> HIDE DEF r
<1>4. /\ r.rep.Jurors = rep.Jurors /\ r.rep.JurorRegistry = rep.JurorRegistry
      /\ r.rep.JurorTiers = rep.JurorTiers /\ r.rep.ReputationStats = rep.ReputationStats
      /\ r.rep.Attestations = rep.Attestations /\ r.rep.NextJurorIndex = rep.NextJurorIndex
      /\ r.rep.StakeOf = [rep.StakeOf EXCEPT ![a] = None] /\ r.rep \in RepStorage
  <2>1. r.rep \in RepStorage
    BY <1>2, LedgerFields
  <2>2. rep \in RepStorage /\ r.rep = [rep EXCEPT !.StakeOf = [@ EXCEPT ![a] = None]]
    BY <1>1, <1>2
  <2> QED BY ONLY <2>1, <2>2 DEF RepStorage
<1>5. PoolsOf(r.rep) /\ m = RemoveFromTierList(r, a, r.rep.JurorTiers[a]) /\ rep.JurorTiers[a] \in Tiers
  BY <1>1, <1>4, RepFields DEF PoolsOf
<1>6. PoolsOf(m.rep) /\ Absent(m.rep, a)
  BY <1>2, <1>5, RemovedPools
<1>7. /\ m \in ChainState /\ m.ok = r.ok /\ m.ledger = r.ledger
      /\ m.rep = [r.rep EXCEPT !.Jurors = m.rep.Jurors]
  <2> DEFINE tier == rep.JurorTiers[a]
  <2>1. tier \in Tiers /\ r \in ChainState /\ m = RemoveFromTierList(r, a, tier)
    BY <1>2, <1>5
  <2> HIDE DEF tier, m
  <2> QED BY ONLY <2>1, a \in Accounts, RemoveFromTierListType
<1> HIDE DEF m
<1>8. /\ m.rep.JurorRegistry = rep.JurorRegistry
      /\ m.rep.JurorTiers = rep.JurorTiers /\ m.rep.ReputationStats = rep.ReputationStats
      /\ m.rep.Attestations = rep.Attestations /\ m.rep.NextJurorIndex = rep.NextJurorIndex
      /\ m.rep.StakeOf = [rep.StakeOf EXCEPT ![a] = None] /\ m.rep \in RepStorage
  BY <1>4, <1>7, LedgerFields DEF RepStorage
<1>9. /\ t \in ChainState /\ t.ok = m.ok /\ t.ledger = m.ledger /\ PoolsOf(t.rep)
      /\ t.rep = [m.rep EXCEPT !.JurorRegistry = @ \ {a},
                               !.JurorTiers = [@ EXCEPT ![a] = Ineligible]]
  BY <1>6, <1>7, LeftPools, LeaveRegistryType
<1> HIDE DEF t
<1>10. /\ t.rep.JurorRegistry = rep.JurorRegistry \ {a}
       /\ t.rep.JurorTiers = [rep.JurorTiers EXCEPT ![a] = Ineligible]
       /\ t.rep.ReputationStats = rep.ReputationStats
       /\ t.rep.Attestations = rep.Attestations /\ t.rep.NextJurorIndex = rep.NextJurorIndex
       /\ t.rep.StakeOf = [rep.StakeOf EXCEPT ![a] = None]
  BY <1>8, <1>9 DEF RepStorage
<1>11. /\ rep.JurorTiers \in [Accounts -> Tiers] /\ rep.StakeOf \in [Accounts -> Nat \cup {None}]
       /\ Chain.ledger.free \in Entries /\ Chain.ledger.reserved \in Entries
  BY <1>1, RepFields, LedgerFields
<1>12. Departed(Chain, t, a)
  BY <1>2, <1>7, <1>9, <1>10, <1>11 DEF Departed, Entries
<1>13. \A b \in Accounts \ {a} :
         SameHoldings(Chain, t, b) /\ t.rep.JurorTiers[b] = Chain.rep.JurorTiers[b]
  BY <1>1, <1>2, <1>7, <1>9, <1>10, <1>11 DEF SameHoldings, Entries
<1>14. Rehomed(Chain, t, a)
  BY <1>1, <1>2, <1>7, <1>9, <1>10, <1>12, <1>13 DEF Rehomed
<1> QED BY <1>1, <1>2, <1>3, <1>7, <1>9, <1>14

-------------------------------------------------------------------------------
(* Slashing *)

\* The reserve moves with the stake, and stakes and registry move together.
StakesMove(s, t) ==
    \A b \in Accounts :
      /\ s.ledger.reserved[b] >= StakeFrom(s.rep, b) =>
           t.ledger.reserved[b] - StakeFrom(t.rep, b) = s.ledger.reserved[b] - StakeFrom(s.rep, b)
      /\ StakedIff(s.rep, b) => StakedIff(t.rep, b)

\* A slash never takes more than the stake.
LEMMA SlashBound ==
  ASSUME NEW stake \in Nat
  PROVE  (SlashPercent * stake + 49) \div 100 \in 0..stake
<1>1. SlashPercent \in Nat /\ SlashPercent <= 100
  BY RepAssumption
<1>2. SlashPercent * stake \in Nat /\ SlashPercent * stake <= 100 * stake
  BY <1>1
<1> QED BY <1>2

\* slash_juror, whether or not it removes the juror: the reserve and the stake on
\* record shrink by the same amount, and who has nothing left at stake is out.
LEMMA SlashJurorEffect ==
  ASSUME NEW s \in ChainState, NEW a \in Accounts, SlashJuror(s, a).ok
  PROVE  LET t == SlashJuror(s, a)
         IN  /\ Keeps(s, t)
             /\ StakesMove(s, t)
             /\ t.rep.ReputationStats = s.rep.ReputationStats
             /\ TiersBut(s.rep, {}) => TiersBut(t.rep, {})
<1> DEFINE stake == s.rep.StakeOf[a]
           slash == (SlashPercent * stake + 49) \div 100
           cut == SlashReserved(s, a, slash)
           slashed == Require(cut, a \in s.rep.JurorRegistry)
           left == IF stake - slash = 0 THEN None ELSE stake - slash
           set == SetStake(slashed, a, left)
           t == SlashJuror(s, a)
<1>1. stake # None
  <2> SUFFICES ASSUME stake = None PROVE FALSE
    OBVIOUS
  <2>1. SlashJuror(s, a) = [s EXCEPT !.ok = FALSE]
    BY DEF SlashJuror
  <2> QED BY <2>1, FailType
<1>2. stake \in Nat /\ s.rep \in RepStorage /\ s.ledger.reserved \in Entries
  BY <1>1, RepFields, LedgerFields
<1>3. slash \in Nat /\ slash <= stake /\ stake - slash \in Nat
  <2> HIDE DEF stake
  <2> QED BY <1>2, SlashBound
<1>4. t = IF stake - slash = 0
          THEN LeaveRegistry(RemoveFromTierList(SetStake(slashed, a, None), a, s.rep.JurorTiers[a]), a)
          ELSE SetStake(slashed, a, stake - slash)
  BY <1>1 DEF SlashJuror
<1>5. left \in Nat \cup {None} /\ None \notin Nat
  BY <1>3, RepAssumption
<1>6. /\ cut \in ChainState /\ cut.ok = s.ok /\ cut.rep = s.rep
      /\ cut.ledger.reserved = [s.ledger.reserved EXCEPT ![a] = @ - Takeable(s, a, slash)]
      /\ s.ledger \in Ledger => cut.ledger \in Ledger
  <2> HIDE DEF slash
  <2> QED BY <1>3, SlashReservedType
<1>7. /\ slashed \in ChainState /\ slashed.rep = s.rep /\ slashed.ledger = cut.ledger
      /\ slashed.ok <=> cut.ok /\ a \in s.rep.JurorRegistry
  <2> DEFINE opted == a \in s.rep.JurorRegistry
  <2>1. opted \in BOOLEAN /\ slashed = Require(cut, opted) /\ cut \in ChainState
    BY <1>6
  <2>2. opted <=> a \in s.rep.JurorRegistry
    OBVIOUS
  <2> HIDE DEF cut, opted, slashed
  <2>3. /\ Reports(cut, slashed) /\ slashed.rep = cut.rep /\ slashed.ledger = cut.ledger
        /\ slashed.ok <=> cut.ok /\ opted
    BY ONLY <2>1, RequireReports
  <2> QED BY <1>6, <2>2, <2>3 DEF Reports, Keeps
<1>8. t = IF stake - slash = 0
          THEN LeaveRegistry(RemoveFromTierList(set, a, s.rep.JurorTiers[a]), a)
          ELSE set
  BY <1>4
<1> HIDE DEF left, slashed, cut, t
<1>9. /\ set \in ChainState /\ set.ok = slashed.ok /\ set.ledger = cut.ledger
      /\ set.rep = [s.rep EXCEPT !.StakeOf = [@ EXCEPT ![a] = left]]
  BY <1>5, <1>7, SetStakeType
<1> HIDE DEF set, stake, slash
<1>10. /\ set.rep.Jurors = s.rep.Jurors /\ set.rep.JurorRegistry = s.rep.JurorRegistry
       /\ set.rep.JurorTiers = s.rep.JurorTiers /\ set.rep.ReputationStats = s.rep.ReputationStats
       /\ set.rep.StakeOf = [s.rep.StakeOf EXCEPT ![a] = left] /\ set.rep \in RepStorage
  <2>1. set.rep \in RepStorage
    BY <1>9, LedgerFields
  <2> QED BY ONLY <1>2, <1>9, <2>1 DEF RepStorage
<1>11. PoolsOf(s.rep) => PoolsOf(set.rep)
  BY <1>10 DEF PoolsOf
<1>12. /\ t \in ChainState /\ t.ok = set.ok /\ t.ledger = set.ledger
       /\ PoolsOf(s.rep) => PoolsOf(t.rep)
       /\ t.rep.StakeOf = set.rep.StakeOf
       /\ t.rep.ReputationStats = s.rep.ReputationStats
       /\ t.rep.JurorRegistry = IF stake - slash = 0 THEN s.rep.JurorRegistry \ {a} ELSE s.rep.JurorRegistry
       /\ \A b \in Accounts \ {a} : t.rep.JurorTiers[b] = s.rep.JurorTiers[b]
       /\ stake - slash # 0 => t.rep.JurorTiers[a] = s.rep.JurorTiers[a]
  <2>1. CASE stake - slash # 0
    BY <1>8, <1>9, <1>10, <1>11, <2>1
  <2>2. CASE stake - slash = 0
    <3> DEFINE tier == s.rep.JurorTiers[a]
               m == RemoveFromTierList(set, a, tier)
    <3>1. t = LeaveRegistry(m, a)
      BY <1>8, <2>2
    <3>2. tier \in Tiers
      BY RepFields
    <3>3. tier = set.rep.JurorTiers[a] /\ m = RemoveFromTierList(set, a, tier)
      BY <1>10
    <3>4. /\ m \in ChainState /\ m.ok = set.ok /\ m.ledger = set.ledger
          /\ m.rep = [set.rep EXCEPT !.Jurors = m.rep.Jurors]
      <4>1. set \in ChainState /\ m = RemoveFromTierList(set, a, tier)
        BY <1>9, <3>3
      <4> HIDE DEF m, tier
      <4> QED BY ONLY <4>1, <3>2, a \in Accounts, RemoveFromTierListType
    <3> HIDE DEF tier
    <3>5. PoolsOf(set.rep) => PoolsOf(m.rep) /\ Absent(m.rep, a)
      BY <1>9, <3>3, RemovedPools
    <3> HIDE DEF m
    <3>6. /\ m.rep.JurorRegistry = s.rep.JurorRegistry
          /\ m.rep.JurorTiers = s.rep.JurorTiers /\ m.rep.ReputationStats = s.rep.ReputationStats
          /\ m.rep.StakeOf = set.rep.StakeOf /\ m.rep \in RepStorage
      <4>1. m.rep \in RepStorage
        BY <3>4, LedgerFields
      <4>2. /\ m.rep.JurorRegistry = set.rep.JurorRegistry
            /\ m.rep.JurorTiers = set.rep.JurorTiers /\ m.rep.ReputationStats = set.rep.ReputationStats
            /\ m.rep.StakeOf = set.rep.StakeOf
        BY ONLY <1>10, <3>4, <4>1 DEF RepStorage
      <4> QED BY <1>10, <4>1, <4>2
    <3>7. /\ t \in ChainState /\ t.ok = m.ok /\ t.ledger = m.ledger
          /\ PoolsOf(m.rep) /\ Absent(m.rep, a) => PoolsOf(t.rep)
      BY <3>1, <3>4, LeftPools
    <3>8. t.rep = [m.rep EXCEPT !.JurorRegistry = @ \ {a},
                               !.JurorTiers = [@ EXCEPT ![a] = Ineligible]]
      BY <3>1, <3>4, LeaveRegistryType
    <3>9. /\ t.rep.JurorRegistry = m.rep.JurorRegistry \ {a}
          /\ t.rep.StakeOf = m.rep.StakeOf /\ t.rep.ReputationStats = m.rep.ReputationStats
          /\ \A b \in Accounts \ {a} : t.rep.JurorTiers[b] = m.rep.JurorTiers[b]
      BY ONLY <3>6, <3>8, a \in Accounts DEF RepStorage
    <3> QED BY <1>11, <2>2, <3>4, <3>5, <3>6, <3>7, <3>9
  <2> QED BY <2>1, <2>2
<1>13. s.ok /\ a \in s.rep.JurorRegistry
  BY <1>6, <1>7, <1>9, <1>12 DEF t
<1>14. Keeps(s, t)
  BY <1>6, <1>9, <1>12, <1>13 DEF Keeps
<1>15. TiersBut(s.rep, {}) => TiersBut(t.rep, {})
  <2>1. s.rep.JurorRegistry \subseteq Accounts
    BY RepFields
  <2> QED BY <1>12, <2>1 DEF TiersBut
<1>16. StakesMove(s, t)
  <2>1. ASSUME NEW b \in Accounts \ {a}
        PROVE  /\ StakeFrom(t.rep, b) = StakeFrom(s.rep, b)
               /\ StakedIff(s.rep, b) => StakedIff(t.rep, b)
               /\ t.ledger.reserved[b] = s.ledger.reserved[b]
    <3>1. t.rep.StakeOf[b] = s.rep.StakeOf[b]
      BY <1>2, <1>10, <1>12 DEF RepStorage
    <3> QED BY <1>2, <1>6, <1>9, <1>12, <3>1 DEF StakeFrom, StakedIff, Entries
  <2>2. /\ StakeFrom(s.rep, a) = stake /\ StakeFrom(t.rep, a) = stake - slash
        /\ StakedIff(t.rep, a)
    <3>1. t.rep.StakeOf[a] = left
      BY <1>2, <1>10, <1>12 DEF RepStorage
    <3>2. s.rep.StakeOf[a] = stake
      BY DEF stake
    <3>3. left = IF stake - slash = 0 THEN None ELSE stake - slash
      BY DEF left
    <3> QED BY <1>1, <1>3, <1>5, <1>12, <1>13, <3>1, <3>2, <3>3 DEF StakeFrom, StakedIff
  <2>3. s.ledger.reserved[a] >= stake => t.ledger.reserved[a] = s.ledger.reserved[a] - slash
    BY <1>2, <1>3, <1>6, <1>9, <1>12 DEF Entries, Takeable
  <2>4. s.ledger.reserved[a] \in Int
    BY <1>2 DEF Entries
  <2>5. /\ s.ledger.reserved[a] >= StakeFrom(s.rep, a) =>
             t.ledger.reserved[a] - StakeFrom(t.rep, a) = s.ledger.reserved[a] - StakeFrom(s.rep, a)
        /\ StakedIff(s.rep, a) => StakedIff(t.rep, a)
    BY <1>2, <1>3, <2>2, <2>3, <2>4
  <2> QED BY <2>1, <2>5 DEF StakesMove
<1> QED BY <1>12, <1>14, <1>15, <1>16 DEF t

-------------------------------------------------------------------------------
(* Genesis *)

\* The genesis build leaves sound pools, staked jurors and justified tiers.
LEMMA GenesisSound ==
  RepInit => RepTypeOK /\ PoolsSound /\ StakesBacked /\ TierNotOverstated /\ Newcomers
<1> SUFFICES ASSUME RepInit
             PROVE  RepTypeOK /\ PoolsSound /\ StakesBacked /\ TierNotOverstated /\ Newcomers
  OBVIOUS
<1>0. /\ StakedAtGenesis \subseteq Accounts
      /\ \A a \in StakedAtGenesis : InitialFree[a] >= JurorStake + ExistentialDeposit
  BY GenesisAssumption DEF StakedAtGenesis, InPool
<1>1. ledger \in Ledger
  BY <1>0, RepAssumption, BalancesAssumption DEF RepInit, Ledger
<1>2. rep \in RepStorage
  <2>1. \A a \in Accounts : CalculateTier(InitialUsers[a]) \in Tiers
    BY RepAssumption, CalculateTierType
  <2>2. Ineligible \in Tiers
    BY DEF Tiers, Ineligible, Gold
  <2> QED BY <1>0, <2>1, <2>2, RepAssumption DEF RepInit, RepStorage
<1>3. PoolsSound
  <2> SUFFICES ASSUME NEW t \in PoolTiers
               PROVE  /\ Len(InitialJurors[t]) <= MaxPool[t]
                      /\ \A i \in 1..Len(InitialJurors[t]) :
                           /\ InitialJurors[t][i] \in StakedAtGenesis
                           /\ CalculateTier(InitialUsers[InitialJurors[t][i]]) = t
                           /\ \A j \in 1..Len(InitialJurors[t]) :
                                InitialJurors[t][j] = InitialJurors[t][i] => j = i
    BY DEF RepInit, PoolsSound, StakedAtGenesis
  <2>1. InitialJurors[t] \in Seq(Accounts)
    BY RepAssumption
  <2>2. \A i \in 1..Len(InitialJurors[t]) : InitialJurors[t][i] \in StakedAtGenesis
    BY <2>1 DEF StakedAtGenesis, InPool
  <2> QED BY <2>2, GenesisAssumption
<1>4. StakesBacked
  <2>1. JurorStake # None
    BY RepAssumption
  <2> QED BY <1>0, <2>1 DEF RepInit, StakesBacked
<1>5. TierNotOverstated
  <2> SUFFICES ASSUME NEW a \in StakedAtGenesis
               PROVE  CalculateTier(InitialUsers[a]) <= CalculateTier(InitialUsers[a])
    BY <1>0 DEF RepInit, TierNotOverstated
  <2>1. CalculateTier(InitialUsers[a]) \in Tiers
    BY <1>0, RepAssumption, CalculateTierType
  <2> QED BY <2>1 DEF Tiers, Ineligible, Gold
<1>6. rep.ReputationStats = InitialUsers
  BY DEF RepInit
<1>7. Newcomers
  BY <1>6, UsersAssumption, Zenon DEF Newcomers
<1> QED BY <1>1, <1>2, <1>3, <1>4, <1>5, <1>7 DEF RepTypeOK

-------------------------------------------------------------------------------
(* The selection of a jury *)

\* Going on from any index x, n steps of a round reach each of n places.
LEMMA RoundReaches ==
  ASSUME NEW x \in Nat, NEW n \in Nat \ {0}, NEW i \in 1..n
  PROVE  \E j \in 1..n : ((x + j - 1) % n) + 1 = i
<1> DEFINE r == x % n
           q == x \div n
<1>1. r \in 0..(n - 1) /\ q \in Nat /\ x = n * q + r
  OBVIOUS
<1> HIDE DEF r, q
<1>2. ASSUME NEW m \in Nat, NEW d \in 0..(n - 1)
      PROVE  (n * m + d) % n = d
  <2> DEFINE y == n * m + d
             e == y % n
             k == y \div n
  <2>1. y \in Nat
    OBVIOUS
  <2>2. e \in 0..(n - 1) /\ k \in Nat /\ y = n * k + e
    <3> HIDE DEF y
    <3> QED BY <2>1
  <2> HIDE DEF e, k
  <2>3. n * (m - k) = e - d
    BY <2>2
  <2>4. m = k
    <3>1. CASE m > k
      <4>1. n * (m - k) >= n
        <5>1. m - k - 1 \in Nat
          BY <2>2, <3>1
        <5>2. n * (m - k - 1) \in Nat
          BY <5>1
        <5> QED BY <2>2, <5>2
      <4> QED BY <2>2, <2>3, <4>1
    <3>2. CASE m < k
      <4>1. n * (m - k) <= -n
        <5>1. k - m - 1 \in Nat
          BY <2>2, <3>2
        <5>2. n * (k - m - 1) \in Nat
          BY <5>1
        <5> QED BY <2>2, <5>2
      <4> QED BY <2>2, <2>3, <4>1
    <3> QED BY <2>2, <3>1, <3>2
  <2>5. e = d
    BY <2>2, <2>3, <2>4
  <2> QED BY <2>5 DEF e
<1>3. CASE i - 1 >= r
  <2> DEFINE j == i - r
  <2>1. j \in 1..n /\ x + j - 1 = n * q + (i - 1) /\ i - 1 \in 0..(n - 1)
    BY <1>1, <1>3
  <2>2. (n * q + (i - 1)) % n = i - 1
    BY <1>1, <1>2, <2>1
  <2> QED BY <2>1, <2>2
<1>4. CASE i - 1 < r
  <2> DEFINE j == n + i - r
  <2>1. j \in 1..n /\ x + j - 1 = n * (q + 1) + (i - 1) /\ i - 1 \in 0..(n - 1) /\ q + 1 \in Nat
    BY <1>1, <1>4
  <2>2. (n * (q + 1) + (i - 1)) % n = i - 1
    BY <1>2, <2>1
  <2> HIDE DEF j
  <2>3. ((x + j - 1) % n) + 1 = i
    BY <2>1, <2>2
  <2> QED BY <2>1, <2>3
<1> QED BY <1>1, <1>3, <1>4

\* Who can be taken from the pool of a tier.
Eligible(s, tier, exclude) ==
    {a \in Accounts \ exclude : \E i \in 1..Len(s.rep.Jurors[tier]) : s.rep.Jurors[tier][i] = a}

\* T is J and as much of P as count allows.
Filled(J, P, T, count) ==
    /\ J \subseteq T /\ T \subseteq J \cup P
    /\ Cardinality(T) <= count
    /\ Cardinality(T) = count \/ T = J \cup P

\* One pool: the round takes its members until count are taken or it has been round.
LEMMA SelectFromPoolFills ==
  ASSUME NEW s \in ChainState, NEW sel, sel.next \in [PoolTiers -> Nat], sel.jurors \in SUBSET Accounts,
         NEW tier \in PoolTiers, NEW exclude, NEW count \in Nat, Cardinality(sel.jurors) <= count
  PROVE  LET t == SelectFromPool(s, sel, tier, exclude, count)
         IN  /\ t.next \in [PoolTiers -> Nat]
             /\ t.jurors \in SUBSET Accounts
             /\ Filled(sel.jurors, Eligible(s, tier, exclude), t.jurors, count)
             /\ \A u \in PoolTiers : t.next[u] = sel.next[u]
                                      \/ (u = tier /\ t.next[u] < Len(s.rep.Jurors[tier]))
<1> DEFINE pool     == s.rep.Jurors[tier]
           n        == Len(pool)
           J        == sel.jurors
           P        == Eligible(s, tier, exclude)
           round    == [i \in 1..n |-> pool[((sel.next[tier] + i - 1) % n) + 1]]
           Taken(k) == J \cup {a \in Accounts \ exclude : \E i \in 1..k : round[i] = a}
           stops    == {k \in 0..n : Cardinality(Taken(k)) = count} \cup {n}
           attempts == CHOOSE k \in stops : \A j \in stops : k <= j
           t        == SelectFromPool(s, sel, tier, exclude, count)
           Goal     == /\ t.next \in [PoolTiers -> Nat]
                       /\ t.jurors \in SUBSET Accounts
                       /\ Filled(J, P, t.jurors, count)
                       /\ \A u \in PoolTiers : t.next[u] = sel.next[u] \/ (u = tier /\ t.next[u] < n)
<1>1. n \in Nat /\ pool \in Seq(Accounts)
  BY RepFields
<1>2. t = IF Cardinality(J) >= count \/ n = 0 THEN sel
          ELSE [jurors |-> Taken(attempts),
                next   |-> [sel.next EXCEPT ![tier] = (@ + attempts) % n]]
  BY DEF SelectFromPool
<1>3. IsFiniteSet(J) /\ Cardinality(J) \in Nat /\ Cardinality(J) <= count
  BY RepAssumption, FS_Subset, FS_CardinalityType
<1>4. ASSUME Cardinality(J) >= count PROVE Goal
  <2> HIDE DEF Taken, attempts, t, n
  <2>1. t = sel
    BY <1>2, <1>4
  <2>2. Cardinality(J) = count
    BY <1>3, <1>4
  <2>3. Filled(J, P, J, count)
    BY <2>2 DEF Filled
  <2> QED BY <2>1, <2>3
<1>5. ASSUME n = 0 PROVE Goal
  <2>1. P = {}
    BY <1>5 DEF Eligible
  <2> HIDE DEF Taken, attempts, t, n, P
  <2>2. t = sel
    BY <1>2, <1>5
  <2>3. Filled(J, P, J, count)
    BY <1>3, <2>1 DEF Filled
  <2> QED BY <2>2, <2>3
<1>6. ASSUME n # 0, Cardinality(J) < count PROVE Goal
  <2>1. \A k \in 0..n : /\ Taken(k) \in SUBSET Accounts
                        /\ IsFiniteSet(Taken(k)) /\ Cardinality(Taken(k)) \in Nat
    <3> HIDE DEF round
    <3> QED BY RepAssumption, FS_Subset, FS_CardinalityType
  <2>2. Taken(0) = J
    OBVIOUS
  <2>3. ASSUME NEW k \in 1..n
        PROVE  Taken(k) \subseteq Taken(k - 1) \cup {round[k]} /\ k - 1 \in 0..n
    <3> HIDE DEF round, n
    <3>1. \A i \in 1..k : i \in 1..(k - 1) \/ i = k
      BY <1>1
    <3> QED BY <1>1, <3>1
  <2>4. Taken(n) = J \cup P
    <3>1. ASSUME NEW a, \E i \in 1..n : round[i] = a
          PROVE  \E i \in 1..n : pool[i] = a
      <4>1. PICK i \in 1..n : round[i] = a
        BY <3>1
      <4> DEFINE h == sel.next[tier] + i - 1
      <4>2. h \in Nat /\ n \in Nat \ {0}
        BY <1>1, <1>6
      <4>3. round[i] = pool[(h % n) + 1]
        BY <4>1
      <4> HIDE DEF h, n
      <4>4. (h % n) + 1 \in 1..n
        BY <4>2
      <4> QED BY <4>1, <4>3, <4>4
    <3>2. ASSUME NEW a, \E i \in 1..n : pool[i] = a
          PROVE  \E i \in 1..n : round[i] = a
      <4>1. PICK i \in 1..n : pool[i] = a
        BY <3>2
      <4>2. sel.next[tier] \in Nat /\ n \in Nat \ {0}
        BY <1>1, <1>6
      <4>3. PICK j \in 1..n : ((sel.next[tier] + j - 1) % n) + 1 = i
        BY <4>2, RoundReaches
      <4>4. round[j] = pool[i]
        BY <4>3
      <4> QED BY <4>1, <4>4
    <3>3. P = {a \in Accounts \ exclude : \E i \in 1..n : pool[i] = a}
      BY DEF Eligible
    <3> HIDE DEF round, P, n, pool
    <3> QED BY <3>1, <3>2, <3>3
  <2>5. ASSUME NEW k \in 0..n
        PROVE  Taken(k) \subseteq J \cup P /\ J \subseteq Taken(k)
    <3>1. Taken(k) \subseteq Taken(n)
      <4> HIDE DEF round, n
      <4>1. \A i \in 1..k : i \in 1..n
        BY <1>1
      <4> QED BY <4>1
    <3> QED BY <2>4, <3>1
  <2> HIDE DEF Taken, P, J, round
  <2>6. stops \in SUBSET (0..n) /\ stops # {} /\ n \in stops
    <3> HIDE DEF n
    <3> QED BY <1>1
  <2>7. attempts \in stops /\ \A j \in stops : attempts <= j
    <3> HIDE DEF stops
    <3>1. stops \in SUBSET Nat
      <4> HIDE DEF n
      <4> QED BY <1>1, <2>6
    <3>2. \E k \in stops : \A j \in stops : k <= j
      BY <2>6, <3>1, LeastExists
    <3> QED BY <3>2
  <2>8. attempts \in 0..n
    <3> HIDE DEF attempts, stops
    <3> QED BY <2>6, <2>7
  <2>9. (\A k \in 0..n : Cardinality(Taken(k)) # count) => Cardinality(Taken(n)) < count
    <3> SUFFICES ASSUME \A k \in 0..n : Cardinality(Taken(k)) # count, ~ (Cardinality(Taken(n)) < count)
                 PROVE  FALSE
      OBVIOUS
    <3> DEFINE Bad == {k \in 0..n : Cardinality(Taken(k)) >= count}
    <3> HIDE DEF n
    <3>1. Bad \in SUBSET Nat /\ Bad # {}
      BY <1>1, <2>1
    <3>2. PICK k \in Bad : \A j \in Bad : k <= j
      BY <3>1, LeastExists
    <3>3. k # 0
      <4>1. Cardinality(Taken(k)) >= count
        BY <3>2
      <4>2. Cardinality(Taken(0)) < count /\ Cardinality(Taken(0)) \in Nat
        BY <1>3, <1>6, <2>2
      <4> QED BY <4>1, <4>2
    <3>4. k \in 1..n /\ k - 1 \in 0..n /\ Cardinality(Taken(k)) > count
      BY <1>1, <2>1, <3>2, <3>3
    <3>5. Cardinality(Taken(k - 1)) < count
      <4>1. k - 1 \notin Bad
        BY <1>1, <3>2, <3>4
      <4> QED BY <2>1, <3>4, <4>1
    <3>6. Cardinality(Taken(k - 1) \cup {round[k]}) <= Cardinality(Taken(k - 1)) + 1
          /\ IsFiniteSet(Taken(k - 1) \cup {round[k]})
      <4>1. IsFiniteSet(Taken(k - 1)) /\ Cardinality(Taken(k - 1)) \in Nat
        BY <2>1, <3>4
      <4> DEFINE S == Taken(k - 1)
      <4> HIDE DEF S
      <4>2. IsFiniteSet(S \cup {round[k]})
            /\ Cardinality(S \cup {round[k]}) = IF round[k] \in S THEN Cardinality(S) ELSE Cardinality(S) + 1
        BY <4>1, FS_AddElement DEF S
      <4> QED BY <4>1, <4>2 DEF S
    <3>7. Cardinality(Taken(k)) <= Cardinality(Taken(k - 1) \cup {round[k]})
      BY <2>3, <3>4, <3>6, FS_Subset
    <3>8. /\ Cardinality(Taken(k)) \in Nat /\ Cardinality(Taken(k - 1)) \in Nat
          /\ Cardinality(Taken(k - 1) \cup {round[k]}) \in Nat
      BY <2>1, <3>4, <3>6, FS_CardinalityType
    <3> QED BY <3>4, <3>5, <3>6, <3>7, <3>8
  <2>10. Cardinality(Taken(attempts)) = count
         \/ (attempts = n /\ \A k \in 0..n : Cardinality(Taken(k)) # count)
    <3>1. CASE \E k \in 0..n : Cardinality(Taken(k)) = count
      <4>1. PICK k \in 0..n : Cardinality(Taken(k)) = count
        BY <3>1
      <4>2. k \in stops
        BY <4>1
      <4>3. attempts <= k /\ attempts \in stops
        BY <2>7, <4>2
      <4>4. CASE Cardinality(Taken(attempts)) # count
        <5>1. attempts = n
          BY <4>3, <4>4
        <5> HIDE DEF n, attempts, stops
        <5>2. k = n
          BY <1>1, <4>1, <4>3, <5>1
        <5> QED BY <4>1, <4>4, <5>1, <5>2
      <4> QED BY <4>4
    <3>2. CASE \A k \in 0..n : Cardinality(Taken(k)) # count
      BY <2>7, <3>2
    <3> QED BY <3>1, <3>2
  <2> DEFINE next == [sel.next EXCEPT ![tier] = (@ + attempts) % n]
  <2>11. t = [jurors |-> Taken(attempts), next |-> next]
    <3>1. ~ (Cardinality(J) >= count \/ n = 0)
      BY <1>3, <1>6
    <3> HIDE DEF t, n
    <3> QED BY <1>2, <3>1 DEF Taken
  <2> HIDE DEF n, attempts, stops, t, next
  <2>12. Filled(J, P, Taken(attempts), count)
    <3>1. CASE Cardinality(Taken(attempts)) = count
      BY <2>5, <2>8, <3>1 DEF Filled
    <3>2. CASE attempts = n /\ \A k \in 0..n : Cardinality(Taken(k)) # count
      <4>1. Taken(attempts) = J \cup P /\ J \subseteq Taken(attempts)
        BY <2>4, <2>5, <2>8, <3>2
      <4>2. Cardinality(Taken(attempts)) < count /\ Cardinality(Taken(attempts)) \in Nat
        BY <2>1, <2>8, <2>9, <3>2
      <4> QED BY <4>1, <4>2 DEF Filled
    <3> QED BY <2>10, <3>1, <3>2
  <2>13. /\ next \in [PoolTiers -> Nat] /\ next[tier] < n
         /\ \A u \in PoolTiers : u # tier => next[u] = sel.next[u]
    <3>1. ASSUME NEW x \in Nat PROVE (x + attempts) % n \in Nat /\ (x + attempts) % n < n
      BY <1>1, <1>6, <2>8
    <3> QED BY <3>1 DEF next
  <2>14. t.jurors = Taken(attempts) /\ t.next = next
    BY <2>11
  <2> QED BY <2>1, <2>8, <2>12, <2>13, <2>14
<1>7. Goal
  <2> HIDE DEF Goal
  <2> QED BY <1>3, <1>4, <1>5, <1>6
<1> HIDE DEF Taken, attempts
<1> QED BY ONLY <1>7, Zenon

\* Three disjoint pools gone through one after the other.
Thrice(P3, P2, P1, T3, T2, T1, count) ==
    /\ P3 \in SUBSET Accounts /\ P2 \in SUBSET Accounts /\ P1 \in SUBSET Accounts
    /\ P3 \cap P2 = {} /\ P3 \cap P1 = {} /\ P2 \cap P1 = {}
    /\ count \in Nat
    /\ Filled({}, P3, T3, count) /\ Filled(T3, P2, T2, count) /\ Filled(T2, P1, T1, count)

\* A choice of at most count accounts out of three pools that prefers the best ones.
BestFirst(P3, P2, P1, T, count) ==
    /\ T \subseteq P1 \cup P2 \cup P3
    /\ Cardinality(T) = IF Cardinality(P1 \cup P2 \cup P3) < count
                        THEN Cardinality(P1 \cup P2 \cup P3) ELSE count
    /\ T \cap P2 # {} => P3 \subseteq T
    /\ T \cap P1 # {} => P3 \subseteq T /\ P2 \subseteq T

\* Three pools one after the other, the best first: the result is as large as it can
\* be, and whoever is left out of a better pool keeps out everyone of a worse one.
LEMMA FilledThrice ==
  ASSUME NEW P3, NEW P2, NEW P1, NEW T3, NEW T2, NEW T1, NEW count,
         Thrice(P3, P2, P1, T3, T2, T1, count)
  PROVE  BestFirst(P3, P2, P1, T1, count)
<1> DEFINE all == P1 \cup P2 \cup P3
<1> USE DEF Thrice
<1>1. T3 \subseteq T2 /\ T2 \subseteq T1 /\ T1 \subseteq all /\ T3 \subseteq P3
      /\ T2 \subseteq T3 \cup P2 /\ T1 \subseteq T2 \cup P1
  BY DEF Filled
<1>2. IsFiniteSet(all) /\ Cardinality(all) \in Nat
  BY RepAssumption, FS_Subset, FS_CardinalityType
<1> HIDE DEF all
<1>3. /\ IsFiniteSet(T1) /\ Cardinality(T1) \in Nat /\ Cardinality(T1) <= Cardinality(all)
      /\ IsFiniteSet(T2) /\ Cardinality(T2) \in Nat /\ Cardinality(T2) <= Cardinality(T1)
      /\ IsFiniteSet(T3) /\ Cardinality(T3) \in Nat /\ Cardinality(T3) <= Cardinality(T2)
      /\ Cardinality(T1) = Cardinality(T2) => T1 = T2
      /\ Cardinality(T2) = Cardinality(T3) => T2 = T3
  <2>1. IsFiniteSet(T1) /\ Cardinality(T1) <= Cardinality(all)
    BY <1>1, <1>2, FS_Subset
  <2>2. IsFiniteSet(T2) /\ Cardinality(T2) <= Cardinality(T1) /\ (Cardinality(T1) = Cardinality(T2) => T1 = T2)
    BY <1>1, <2>1, FS_Subset
  <2>3. IsFiniteSet(T3) /\ Cardinality(T3) <= Cardinality(T2) /\ (Cardinality(T2) = Cardinality(T3) => T2 = T3)
    BY <1>1, <2>2, FS_Subset
  <2> QED BY <2>1, <2>2, <2>3, FS_CardinalityType
<1>4. /\ Cardinality(T1) <= count
      /\ Cardinality(T3) = count \/ T3 = P3
      /\ Cardinality(T2) = count \/ T2 = T3 \cup P2
      /\ Cardinality(T1) = count \/ T1 = T2 \cup P1
  BY DEF Filled
<1>5. Cardinality(T3) = count => T1 = T3
  BY <1>3, <1>4
<1>6. Cardinality(T2) = count => T1 = T2
  BY <1>3, <1>4
<1>7. Cardinality(T1) # count => T1 = all
  BY <1>3, <1>4 DEF all
<1>8. Cardinality(T1) = IF Cardinality(all) < count THEN Cardinality(all) ELSE count
  BY <1>2, <1>3, <1>4, <1>7
<1>9. T1 \cap P2 # {} => P3 \subseteq T1
  BY <1>1, <1>4, <1>5
<1>10. T1 \cap P1 # {} => P3 \subseteq T1 /\ P2 \subseteq T1
  BY <1>1, <1>4, <1>5, <1>6
<1> QED BY <1>1, <1>8, <1>9, <1>10 DEF all, BestFirst

\* What a selection may take from a tier: nothing below minTier.
Offered(s, minTier, tier, exclude) == IF minTier <= tier THEN Eligible(s, tier, exclude) ELSE {}

\* internal_get_eligible_jurors: it takes eligible accounts only, as many as asked for
\* if there are that many, nobody of a lower tier while one of a higher tier is left,
\* and the indices it stores stay inside the pools.
LEMMA GetEligibleJurorsCorrect ==
  ASSUME NEW s \in ChainState, PoolsOf(s.rep), NEW minTier \in PoolTiers, NEW exclude, NEW count \in Nat
  PROVE  LET sel == GetEligibleJurors(s, minTier, exclude, count)
         IN  /\ sel.next \in [PoolTiers -> Nat]
             /\ \A u \in PoolTiers : sel.next[u] = s.rep.NextJurorIndex[u]
                                     \/ sel.next[u] < Len(s.rep.Jurors[u])
             /\ BestFirst(Offered(s, minTier, Gold, exclude), Offered(s, minTier, Silver, exclude),
                          Offered(s, minTier, Bronze, exclude), sel.jurors, count)
<1> DEFINE P(tier) == Offered(s, minTier, tier, exclude)
           Pool(sel, tier) == IF minTier <= tier
                              THEN SelectFromPool(s, sel, tier, exclude, count)
                              ELSE sel
           none == [jurors |-> {}, next |-> s.rep.NextJurorIndex]
           gold == Pool(none, Gold)
           silver == Pool(gold, Silver)
           bronze == Pool(silver, Bronze)
           Typed(sel) == sel.next \in [PoolTiers -> Nat] /\ sel.jurors \in SUBSET Accounts
                         /\ Cardinality(sel.jurors) <= count
           Inside(sel) == \A u \in PoolTiers : sel.next[u] = s.rep.NextJurorIndex[u]
                                               \/ sel.next[u] < Len(s.rep.Jurors[u])
<1>1. GetEligibleJurors(s, minTier, exclude, count) = bronze
  BY DEF GetEligibleJurors
<1>2. Typed(none) /\ Inside(none) /\ none.jurors = {}
  BY RepFields, FS_EmptySet
<1>3. Gold \in PoolTiers /\ Silver \in PoolTiers /\ Bronze \in PoolTiers
  BY DEF PoolTiers, Gold, Silver, Bronze
<1>4. ASSUME NEW sel, Typed(sel), Inside(sel), NEW tier \in PoolTiers
      PROVE  /\ Typed(Pool(sel, tier)) /\ Inside(Pool(sel, tier))
             /\ Filled(sel.jurors, P(tier), Pool(sel, tier).jurors, count)
  <2>1. CASE minTier <= tier
    <3> DEFINE t == SelectFromPool(s, sel, tier, exclude, count)
    <3>1. /\ t.next \in [PoolTiers -> Nat]
          /\ t.jurors \in SUBSET Accounts
          /\ Filled(sel.jurors, Eligible(s, tier, exclude), t.jurors, count)
          /\ \A u \in PoolTiers : t.next[u] = sel.next[u]
                                  \/ (u = tier /\ t.next[u] < Len(s.rep.Jurors[tier]))
      BY <1>4, SelectFromPoolFills
    <3> HIDE DEF t
    <3>2. Pool(sel, tier) = t /\ P(tier) = Eligible(s, tier, exclude)
      BY <2>1 DEF t, Offered
    <3>3. Typed(t) /\ Inside(t)
      BY <1>4, <3>1 DEF Filled
    <3> HIDE DEF Typed, Inside, Pool, P
    <3> QED BY <3>1, <3>2, <3>3
  <2>2. CASE ~ (minTier <= tier)
    <3>1. Pool(sel, tier) = sel /\ P(tier) = {}
      BY <2>2 DEF Offered
    <3>2. Filled(sel.jurors, {}, sel.jurors, count)
      BY <1>4 DEF Filled
    <3> HIDE DEF Typed, Inside, Pool, P
    <3> QED BY <1>4, <3>1, <3>2
  <2> QED BY <2>1, <2>2
<1> HIDE DEF Pool, P, Typed, Inside, none
<1>5. Typed(gold) /\ Inside(gold) /\ Filled({}, P(Gold), gold.jurors, count)
  <2>1. Typed(gold) /\ Inside(gold) /\ Filled(none.jurors, P(Gold), gold.jurors, count)
    BY <1>2, <1>3, <1>4
  <2> HIDE DEF gold
  <2> QED BY <1>2, <2>1
<1> HIDE DEF gold
<1>6. Typed(silver) /\ Inside(silver) /\ Filled(gold.jurors, P(Silver), silver.jurors, count)
  BY <1>3, <1>4, <1>5
<1> HIDE DEF silver
<1>7. Typed(bronze) /\ Inside(bronze) /\ Filled(silver.jurors, P(Bronze), bronze.jurors, count)
  BY <1>3, <1>4, <1>6
<1> HIDE DEF bronze
<1>8. /\ P(Gold) \in SUBSET Accounts /\ P(Silver) \in SUBSET Accounts /\ P(Bronze) \in SUBSET Accounts
  BY DEF P, Offered, Eligible
<1>9. /\ P(Gold) \cap P(Silver) = {} /\ P(Gold) \cap P(Bronze) = {} /\ P(Silver) \cap P(Bronze) = {}
  <2>1. ASSUME NEW t \in PoolTiers, NEW a \in P(t)
        PROVE  s.rep.JurorTiers[a] = t
    BY DEF P, Offered, Eligible, PoolsOf
  <2>2. Gold # Silver /\ Gold # Bronze /\ Silver # Bronze
    BY DEF Gold, Silver, Bronze
  <2> QED BY <1>3, <2>1, <2>2
<1>10. BestFirst(P(Gold), P(Silver), P(Bronze), bronze.jurors, count)
  <2>1. Thrice(P(Gold), P(Silver), P(Bronze), gold.jurors, silver.jurors, bronze.jurors, count)
    BY <1>5, <1>6, <1>7, <1>8, <1>9 DEF Thrice
  <2> QED BY ONLY <2>1, FilledThrice
<1>11. bronze.next \in [PoolTiers -> Nat] /\ Inside(bronze)
  BY <1>7 DEF Typed
<1> QED BY <1>1, <1>10, <1>11 DEF P, Inside

\* Going round a pool stores an index that is a natural.
LEMMA SelectFromPoolType ==
  ASSUME NEW s \in ChainState, NEW sel, sel.next \in [PoolTiers -> Nat],
         NEW tier \in PoolTiers, NEW exclude, NEW count
  PROVE  SelectFromPool(s, sel, tier, exclude, count).next \in [PoolTiers -> Nat]
<1> DEFINE pool     == s.rep.Jurors[tier]
           n        == Len(pool)
           round    == [i \in 1..n |-> pool[((sel.next[tier] + i - 1) % n) + 1]]
           Taken(k) == sel.jurors \cup
                       {a \in Accounts \ exclude : \E i \in 1..k : round[i] = a}
           stops    == {k \in 0..n : Cardinality(Taken(k)) = count} \cup {n}
           attempts == CHOOSE k \in stops : \A j \in stops : k <= j
           t        == SelectFromPool(s, sel, tier, exclude, count)
<1>1. n \in Nat
  BY RepFields
<1>2. stops \in SUBSET Nat /\ stops # {}
  <2> HIDE DEF n, Taken
  <2> QED BY <1>1
<1>3. attempts \in Nat
  <2> HIDE DEF stops
  <2>1. \E k \in stops : \A j \in stops : k <= j
    BY <1>2, LeastExists
  <2> QED BY <1>2, <2>1
<1>4. t = IF Cardinality(sel.jurors) >= count \/ n = 0 THEN sel
          ELSE [jurors |-> Taken(attempts),
                next   |-> [sel.next EXCEPT ![tier] = (@ + attempts) % n]]
  BY DEF SelectFromPool
<1> HIDE DEF attempts, n, Taken, t
<1>5. n # 0 => [sel.next EXCEPT ![tier] = (@ + attempts) % n] \in [PoolTiers -> Nat]
  BY <1>1, <1>3
<1> QED BY <1>4, <1>5 DEF t

\* get_eligible_jurors stores natural indices.
LEMMA GetEligibleJurorsType ==
  ASSUME NEW s \in ChainState, NEW minTier, NEW exclude, NEW count
  PROVE  GetEligibleJurors(s, minTier, exclude, count).next \in [PoolTiers -> Nat]
<1> DEFINE Pool(sel, tier) == IF minTier <= tier
                              THEN SelectFromPool(s, sel, tier, exclude, count)
                              ELSE sel
           none == [jurors |-> {}, next |-> s.rep.NextJurorIndex]
<1>1. none.next \in [PoolTiers -> Nat]
  BY RepFields
<1>2. ASSUME NEW sel, sel.next \in [PoolTiers -> Nat], NEW tier \in PoolTiers
      PROVE  Pool(sel, tier).next \in [PoolTiers -> Nat]
  BY <1>2, SelectFromPoolType
<1>3. Gold \in PoolTiers /\ Silver \in PoolTiers /\ Bronze \in PoolTiers
  BY DEF PoolTiers, Gold, Silver, Bronze
<1>4. GetEligibleJurors(s, minTier, exclude, count) = Pool(Pool(Pool(none, Gold), Silver), Bronze)
  BY DEF GetEligibleJurors
<1> HIDE DEF Pool, none
<1>5. Pool(none, Gold).next \in [PoolTiers -> Nat]
  BY <1>1, <1>2, <1>3
<1>6. Pool(Pool(none, Gold), Silver).next \in [PoolTiers -> Nat]
  BY <1>2, <1>3, <1>5
<1>7. Pool(Pool(Pool(none, Gold), Silver), Bronze).next \in [PoolTiers -> Nat]
  BY <1>2, <1>3, <1>6
<1> QED BY <1>4, <1>7

\* What a selection promises follows from pools that are sound.
LEMMA SelectionHolds == RepTypeOK /\ PoolsSound => SelectionCorrect
<1> SUFFICES ASSUME RepTypeOK, PoolsSound, NEW minTier \in PoolTiers, NEW exclude \in SUBSET Accounts,
                    NEW count \in 1..Cardinality(Accounts)
             PROVE  LET sel      == GetEligibleJurors(Chain, minTier, exclude, count)
                        eligible == UNION {EligibleIn(t, exclude) : t \in minTier..Gold}
                    IN  /\ sel.jurors \subseteq eligible
                        /\ Cardinality(sel.jurors) =
                             IF Cardinality(eligible) < count THEN Cardinality(eligible) ELSE count
                        /\ \A t \in minTier..Gold, u \in minTier..Gold :
                             t < u /\ sel.jurors \cap EligibleIn(t, exclude) # {}
                               => EligibleIn(u, exclude) \subseteq sel.jurors
                        /\ \A t \in PoolTiers : sel.next[t] # rep.NextJurorIndex[t]
                                                 => sel.next[t] < Len(rep.Jurors[t])
  BY DEF SelectionCorrect
<1> DEFINE sel      == GetEligibleJurors(Chain, minTier, exclude, count)
           eligible == UNION {EligibleIn(t, exclude) : t \in minTier..Gold}
           P(t)     == Offered(Chain, minTier, t, exclude)
<1>1. Chain \in ChainState /\ Chain.rep = rep /\ PoolsOf(Chain.rep)
  BY ChainType
<1>2. count \in Nat
  BY RepAssumption, FS_CardinalityType
<1>3. /\ \A u \in PoolTiers : sel.next[u] = rep.NextJurorIndex[u] \/ sel.next[u] < Len(rep.Jurors[u])
      /\ BestFirst(P(Gold), P(Silver), P(Bronze), sel.jurors, count)
  BY <1>1, <1>2, GetEligibleJurorsCorrect
<1>4. \A t \in PoolTiers : P(t) = IF minTier <= t THEN EligibleIn(t, exclude) ELSE {}
  BY <1>1 DEF Offered, Eligible, EligibleIn, InPool
<1>5. /\ Gold = 3 /\ Silver = 2 /\ Bronze = 1 /\ PoolTiers = {1, 2, 3}
  BY DEF PoolTiers, Gold, Silver, Bronze
<1>6. minTier..Gold = {t \in PoolTiers : minTier <= t}
  BY <1>5
<1> HIDE DEF sel, P
<1>7. eligible = P(Bronze) \cup P(Silver) \cup P(Gold)
  BY <1>4, <1>5, <1>6
<1> HIDE DEF eligible
<1>8. sel.jurors \subseteq eligible
  BY <1>3, <1>7 DEF BestFirst
<1>9. Cardinality(sel.jurors) =
        IF Cardinality(eligible) < count THEN Cardinality(eligible) ELSE count
  BY <1>3, <1>7 DEF BestFirst
<1>10. ASSUME NEW t \in minTier..Gold, NEW u \in minTier..Gold, t < u,
              sel.jurors \cap EligibleIn(t, exclude) # {}
       PROVE  EligibleIn(u, exclude) \subseteq sel.jurors
  <2>1. P(t) = EligibleIn(t, exclude) /\ P(u) = EligibleIn(u, exclude)
    BY <1>4, <1>6
  <2>2. sel.jurors \cap P(t) # {}
    BY <1>10, <2>1
  <2>3. (t = Silver /\ u = Gold) \/ (t = Bronze /\ u \in {Silver, Gold})
    BY <1>5, <1>6, <1>10
  <2>4. P(u) \subseteq sel.jurors
    BY <1>3, <2>2, <2>3 DEF BestFirst
  <2> QED BY <2>1, <2>4
<1>11. \A t \in PoolTiers : sel.next[t] # rep.NextJurorIndex[t] => sel.next[t] < Len(rep.Jurors[t])
  BY <1>3
<1> QED BY <1>8, <1>9, <1>10, <1>11 DEF sel, eligible
================================================================================
