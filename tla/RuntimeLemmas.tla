----------------------------- MODULE RuntimeLemmas -----------------------------
(***************************************************************************)
(* What the calls of the composed runtime do to the chain state: locks,    *)
(* payments, bonds, costs, rewards and votes, for every chain state.  Each *)
(* call is a chain of transformers; the first part says what those of the  *)
(* currency do, the rest what each call commits.  RuntimeProofs shows the  *)
(* inductive invariants with them.                                         *)
(***************************************************************************)
EXTENDS ArbitrationProofs, ReputationLemmas

-------------------------------------------------------------------------------
(* The currency *)

\* set_lock writes one lock and nothing else.
LEMMA SetLockEffect ==
  ASSUME NEW s \in ChainState, NEW a \in Accounts, NEW id \in LockIds, NEW v \in Nat
  PROVE  LET t == SetLock(s, id, a, v)
         IN  /\ Keeps(s, t) /\ t.ok = s.ok /\ t.rep = s.rep
             /\ t.ledger.free = s.ledger.free /\ t.ledger.reserved = s.ledger.reserved
             /\ t.ledger.locks = [s.ledger.locks EXCEPT ![a] = [@ EXCEPT ![id] = v]]
<1> DEFINE k == [s.ledger.locks EXCEPT ![a] = [@ EXCEPT ![id] = v]]
           t == SetLock(s, id, a, v)
<1>1. /\ s.ok \in BOOLEAN /\ s.ledger.free \in Entries /\ s.ledger.reserved \in Entries
      /\ s.ledger.locks \in LockTable
  BY LedgerFields
<1>2. k \in LockTable
  BY <1>1 DEF LockTable
<1>3. t = OnLedger(s, s.ok, s.ledger.free, s.ledger.reserved, k)
  BY DEF SetLock, OnLedger, ChainState, AnyLedger
<1> HIDE DEF k, t
<1>4. /\ t \in ChainState /\ t.ok = s.ok /\ t.rep = s.rep /\ t.ledger.free = s.ledger.free
      /\ t.ledger.reserved = s.ledger.reserved /\ t.ledger.locks = k
  BY <1>1, <1>2, <1>3, OnLedgerType, OnLedgerFields
<1>5. Keeps(s, t)
  BY <1>4, LedgerFields DEF Keeps
<1> QED BY <1>4, <1>5 DEF k, t

\* remove_lock is a lock of zero.
LEMMA RemoveLockIsSetLock ==
  ASSUME NEW s, NEW a, NEW id
  PROVE  RemoveLock(s, id, a) = SetLock(s, id, a, 0)
  BY DEF RemoveLock, SetLock

\* What is left of a sender's free balance: less than the existential deposit is dust.
Swept(x) == IF x < ExistentialDeposit THEN 0 ELSE x

\* v has moved from one free balance to another, and nothing if there is nothing to
\* move; if it succeeded the sender could pay.
Moved(s, t, from, to, v) ==
    /\ Keeps(s, t) /\ t.rep = s.rep
    /\ t.ledger.reserved = s.ledger.reserved /\ t.ledger.locks = s.ledger.locks
    /\ \A b \in Accounts \ {from, to} : t.ledger.free[b] = s.ledger.free[b]
    /\ v = 0 \/ from = to => t = s
    /\ v # 0 /\ from # to => /\ t.ledger.free[from] = Swept(s.ledger.free[from] - v)
                             /\ t.ledger.free[to] = s.ledger.free[to] + v
                             /\ t.ok => s.ledger.free[from] - v >= 0

\* transfer does that.
LEMMA TransferEffect ==
  ASSUME NEW s \in ChainState, NEW from \in Accounts, NEW to \in Accounts, NEW v \in Nat,
         NEW keepAlive \in BOOLEAN
  PROVE  Moved(s, Transfer(s, from, to, v, keepAlive), from, to, v)
<1> DEFINE left == s.ledger.free[from] - v
           f == [[s.ledger.free EXCEPT ![from] = Swept(left)] EXCEPT ![to] = @ + v]
           t == Transfer(s, from, to, v, keepAlive)
<1>1. /\ s.ok \in BOOLEAN /\ s.ledger.free \in Entries /\ s.ledger.reserved \in Entries
      /\ s.ledger.locks \in LockTable
  BY LedgerFields
<1>2. CASE v = 0 \/ from = to
  <2>1. t = s
    BY <1>2 DEF Transfer
  <2>2. Keeps(s, s)
    BY DEF Keeps
  <2> HIDE DEF t
  <2> QED BY <1>2, <2>1, <2>2 DEF t, Moved
<1>3. CASE v # 0 /\ from # to
  <2> DEFINE o == /\ s.ok
                  /\ left >= 0
                  /\ WithinLocks(s.ledger, from, left + s.ledger.reserved[from])
                  /\ (keepAlive \/ Pinned(s.ledger, from)) => left >= ExistentialDeposit
                  /\ s.ledger.free[to] + v >= ExistentialDeposit
  <2>1. left \in Int /\ Swept(left) \in Int /\ (left >= 0 => Swept(left) \in Nat)
    BY <1>1, BalancesAssumption DEF Entries, Swept
  <2>2. f \in Entries
    BY <1>1, <2>1 DEF Entries
  <2>3. t = OnLedger(s, o, f, s.ledger.reserved, s.ledger.locks)
    <3>1. [s.ledger.free EXCEPT ![from] = Swept(left), ![to] = @ + v] = f
      BY <1>1, <1>3 DEF Entries
    <3>2. t = [ok |-> o, ledger |-> [free |-> [s.ledger.free EXCEPT ![from] = Swept(left), ![to] = @ + v],
                                     reserved |-> s.ledger.reserved, locks |-> s.ledger.locks],
               rep |-> s.rep]
      BY <1>3 DEF Transfer, Swept, ChainState, AnyLedger
    <3> QED BY <3>1, <3>2 DEF OnLedger
  <2>4. o \in BOOLEAN
    OBVIOUS
  <2>5. /\ f[from] = Swept(left) /\ f[to] = s.ledger.free[to] + v
        /\ \A b \in Accounts \ {from, to} : f[b] = s.ledger.free[b]
    BY <1>1, <1>3 DEF Entries
  <2>6. o => s.ok /\ left >= 0
    OBVIOUS
  <2>7. s.ledger \in Ledger /\ o => f \in [Accounts -> Nat] /\ s.ledger.reserved \in [Accounts -> Nat]
    <3> SUFFICES ASSUME s.ledger \in Ledger, o
                 PROVE  f \in [Accounts -> Nat] /\ s.ledger.reserved \in [Accounts -> Nat]
      OBVIOUS
    <3>1. s.ledger.free \in [Accounts -> Nat] /\ s.ledger.reserved \in [Accounts -> Nat]
      BY LedgerFields
    <3>2. Swept(left) \in Nat
      BY <2>1, <2>6
    <3> QED BY <3>1, <3>2
  <2> HIDE DEF o, f, t, left
  <2>8. /\ t \in ChainState /\ t.ok = o /\ t.rep = s.rep /\ t.ledger.free = f
        /\ t.ledger.reserved = s.ledger.reserved /\ t.ledger.locks = s.ledger.locks
    <3>1. t \in ChainState
      BY ONLY s \in ChainState, <1>1, <2>2, <2>3, <2>4, OnLedgerType
    <3> QED BY <2>3, <3>1, OnLedgerFields
  <2>9. Keeps(s, t)
    BY <2>6, <2>7, <2>8, LedgerFields DEF Keeps
  <2>10. /\ \A b \in Accounts \ {from, to} : t.ledger.free[b] = s.ledger.free[b]
         /\ t.ledger.free[from] = Swept(left) /\ t.ledger.free[to] = s.ledger.free[to] + v
         /\ t.ok => left >= 0
    BY <2>5, <2>6, <2>8
  <2> QED BY <1>3, <2>8, <2>9, <2>10 DEF t, left, Moved
<1> QED BY <1>2, <1>3

\* v has moved and, if it succeeded, nothing was swept.
Handed(s, t, from, to, v) ==
    /\ Moved(s, t, from, to, v)
    /\ t.ok /\ v # 0 /\ from # to => t.ledger.free[from] = s.ledger.free[from] - v

\* With KeepAlive transfer does that.
LEMMA KeepAliveEffect ==
  ASSUME NEW s \in ChainState, NEW from \in Accounts, NEW to \in Accounts, NEW v \in Nat
  PROVE  Handed(s, Transfer(s, from, to, v, TRUE), from, to, v)
<1> DEFINE t == Transfer(s, from, to, v, TRUE)
           left == s.ledger.free[from] - v
<1>1. TRUE \in BOOLEAN
  OBVIOUS
<1>2. Moved(s, t, from, to, v)
  BY <1>1, TransferEffect, Zenon
<1>3. ASSUME t.ok, v # 0, from # to
      PROVE  left >= ExistentialDeposit
  BY <1>3 DEF Transfer, ChainState
<1>4. left \in Int
  BY StakeFromType
<1> HIDE DEF t
<1>5. ASSUME t.ok, v # 0, from # to
      PROVE  t.ledger.free[from] = left
  <2>1. t.ledger.free[from] = Swept(left)
    BY <1>2, <1>5 DEF Moved
  <2>2. left >= ExistentialDeposit
    BY <1>3, <1>5
  <2> HIDE DEF left
  <2> QED BY <1>4, <2>1, <2>2, BalancesAssumption DEF Swept
<1> QED BY <1>2, <1>5 DEF Handed, t

\* deposit_creating adds v to a free balance, or loses it if the account stays below
\* the existential deposit.
LEMMA DepositEffect ==
  ASSUME NEW s \in ChainState, NEW a \in Accounts, NEW v \in Int
  PROVE  LET t == DepositCreating(s, a, v)
         IN  /\ t \in ChainState /\ t.rep = s.rep /\ t.ok = s.ok
             /\ v \in Nat /\ s.ledger \in Ledger => t.ledger \in Ledger
             /\ t.ledger.reserved = s.ledger.reserved /\ t.ledger.locks = s.ledger.locks
             /\ \A b \in Accounts \ {a} : t.ledger.free[b] = s.ledger.free[b]
             /\ t.ledger.free[a] = IF s.ledger.free[a] + v >= ExistentialDeposit
                                   THEN s.ledger.free[a] + v ELSE s.ledger.free[a]
<1> DEFINE t == DepositCreating(s, a, v)
           f == [s.ledger.free EXCEPT ![a] = @ + v]
<1>1. /\ s.ok \in BOOLEAN /\ s.ledger.free \in Entries /\ s.ledger.reserved \in Entries
      /\ s.ledger.locks \in LockTable
  BY LedgerFields
<1>2. CASE s.ledger.free[a] + v >= ExistentialDeposit
  <2>1. t = OnLedger(s, s.ok, f, s.ledger.reserved, s.ledger.locks)
    BY <1>2 DEF DepositCreating, OnLedger, ChainState, AnyLedger
  <2>2. f \in Entries
    BY <1>1 DEF Entries
  <2>3. f[a] = s.ledger.free[a] + v /\ \A b \in Accounts \ {a} : f[b] = s.ledger.free[b]
    BY <1>1 DEF Entries
  <2>4. v \in Nat /\ s.ledger.free \in [Accounts -> Nat] => f \in [Accounts -> Nat]
    OBVIOUS
  <2> HIDE DEF t, f
  <2>5. /\ t \in ChainState /\ t.ok = s.ok /\ t.rep = s.rep /\ t.ledger.free = f
        /\ t.ledger.reserved = s.ledger.reserved /\ t.ledger.locks = s.ledger.locks
    BY <1>1, <2>1, <2>2, OnLedgerType, OnLedgerFields
  <2>6. v \in Nat /\ s.ledger \in Ledger => t.ledger \in Ledger
    BY <2>4, <2>5, LedgerFields
  <2> QED BY <1>2, <2>3, <2>5, <2>6 DEF t
<1>3. CASE ~ (s.ledger.free[a] + v >= ExistentialDeposit)
  <2>1. t = s
    BY <1>3 DEF DepositCreating
  <2> HIDE DEF t
  <2> QED BY <1>3, <2>1 DEF t
<1> QED BY <1>2, <1>3

-------------------------------------------------------------------------------
(* Payments *)

\* What an account owns, and what it has reserved beyond its stake.
Owns(s, a)   == s.ledger.free[a] + s.ledger.reserved[a]
Beyond(s, a) == s.ledger.reserved[a] - StakeFrom(s.rep, a)

OwnsKept(s, t)   == \A b \in Accounts : Owns(t, b) = Owns(s, b)
BeyondKept(s, t) == \A b \in Accounts : Beyond(s, b) >= 0 => Beyond(t, b) = Beyond(s, b)

\* Both are integers.
LEMMA OwnsType ==
  ASSUME NEW s \in ChainState, NEW a \in Accounts
  PROVE  Owns(s, a) \in Int /\ Beyond(s, a) \in Int
  BY StakeFromType DEF Owns, Beyond

\* A call of the reputation pallet moves nobody's money, and reserve and stake together.
LEMMA ReportsKeeps ==
  ASSUME NEW s \in ChainState, NEW t, Reports(s, t)
  PROVE  /\ t \in ChainState /\ Keeps(s, t) /\ OwnsKept(s, t) /\ BeyondKept(s, t)
         /\ t.ledger.locks = s.ledger.locks /\ t.rep.NextJurorIndex = s.rep.NextJurorIndex
<1>1. t \in ChainState /\ Keeps(s, t) /\ Undisturbed(s, t)
  BY DEF Reports, Keeps
<1>2. OwnsKept(s, t)
  BY <1>1 DEF Undisturbed, OwnsKept, Owns
<1>3. ASSUME NEW b \in Accounts, Beyond(s, b) >= 0
      PROVE  Beyond(t, b) = Beyond(s, b)
  <2>1. /\ s.ledger.reserved[b] \in Int /\ StakeFrom(s.rep, b) \in Int
    BY StakeFromType
  <2>2. s.ledger.reserved[b] >= StakeFrom(s.rep, b)
    BY <1>3, <2>1 DEF Beyond
  <2> QED BY <1>1, <2>2 DEF Undisturbed, Beyond
<1> QED BY <1>1, <1>2, <1>3 DEF BeyondKept, Undisturbed

\* Both relations can be chained.
LEMMA KeptTransitive ==
  ASSUME NEW s, NEW t, NEW u, BeyondKept(s, t), BeyondKept(t, u)
  PROVE  BeyondKept(s, u)
  BY DEF BeyondKept

\* What b owns after amount has been paid by from to to.
Paying(s, from, to, amount, b) ==
    Owns(s, b) - (IF b = from THEN amount ELSE 0) + (IF b = to THEN amount ELSE 0)

\* A payment that keeps the payer alive: nobody else is concerned and nothing is lost.
LEMMA PaidInFull ==
  ASSUME NEW s \in ChainState, NEW from \in Accounts, NEW to \in Accounts, NEW v \in Nat,
         NEW t, Handed(s, t, from, to, v), t.ok, NEW b \in Accounts
  PROVE  Owns(t, b) = Paying(s, from, to, v, b)
<1> DEFINE left == s.ledger.free[from] - v
<1>1. /\ t.ledger.reserved = s.ledger.reserved
      /\ b \notin {from, to} => t.ledger.free[b] = s.ledger.free[b]
      /\ v = 0 \/ from = to => t = s
      /\ v # 0 /\ from # to => /\ t.ledger.free[from] = left
                               /\ t.ledger.free[to] = s.ledger.free[to] + v
  BY DEF Handed, Moved
<1>2. \A x \in Accounts : s.ledger.free[x] \in Int /\ s.ledger.reserved[x] \in Int
  BY StakeFromType
<1> QED BY <1>1, <1>2 DEF Owns, Paying

\* The lock of a project is lifted, the freelancer paid and the completion reported.
Payment(s, id, client, freelancer, v, rating, p) ==
    OnProjectCompleted(Transfer(RemoveLock(s, id, client), client, freelancer, v, TRUE),
                       freelancer, v, rating, p)

\* A payment that succeeds pays in full and leaves an attestation; the lock is gone.
LEMMA PaymentEffect ==
  ASSUME NEW s \in ChainState, NEW client \in Accounts, NEW freelancer \in Accounts,
         NEW id \in LockIds, NEW v \in Nat, NEW rating \in Nat, NEW p \in ProjectIds
  PROVE  LET t == Payment(s, id, client, freelancer, v, rating, p)
         IN  /\ Keeps(s, t) /\ BeyondKept(s, t)
             /\ \A b \in Accounts : StakedIff(s.rep, b) => StakedIff(t.rep, b)
             /\ t.ledger.locks = [s.ledger.locks EXCEPT ![client] = [@ EXCEPT ![id] = 0]]
             /\ t.rep.Attestations = s.rep.Attestations \cup {<<freelancer, p>>}
             /\ t.rep.ReputationStats =
                  [s.rep.ReputationStats EXCEPT ![freelancer] =
                     WithCompletion(Stats(s, freelancer), v, rating)]
             /\ t.ok => /\ \A b \in Accounts : Owns(t, b) = Paying(s, client, freelancer, v, b)
                        /\ Registered(s, freelancer)
                        /\ TiersBut(s.rep, {}) => TiersBut(t.rep, {})
<1> DEFINE u == RemoveLock(s, id, client)
           w == Transfer(u, client, freelancer, v, TRUE)
           t == Payment(s, id, client, freelancer, v, rating, p)
<1>1. /\ Keeps(s, u) /\ u.rep = s.rep
      /\ u.ledger.free = s.ledger.free /\ u.ledger.reserved = s.ledger.reserved
      /\ u.ledger.locks = [s.ledger.locks EXCEPT ![client] = [@ EXCEPT ![id] = 0]]
  BY SetLockEffect, RemoveLockIsSetLock
<1>2. u \in ChainState
  BY <1>1 DEF Keeps
<1> HIDE DEF u
<1>a. Handed(u, w, client, freelancer, v)
  BY <1>2, KeepAliveEffect, Zenon
<1>6. t = OnProjectCompleted(w, freelancer, v, rating, p)
  BY DEF t, Payment, w, u
<1> HIDE DEF w, t
<1>3. /\ Keeps(u, w) /\ w.rep = u.rep
      /\ w.ledger.reserved = u.ledger.reserved /\ w.ledger.locks = u.ledger.locks
  BY <1>a DEF Handed, Moved
<1>4. w.ok => \A b \in Accounts : Owns(w, b) = Paying(u, client, freelancer, v, b)
  BY <1>a, <1>2, PaidInFull
<1>5. w \in ChainState
  BY <1>3 DEF Keeps
<1>7. /\ Recorded(w, t, [w.rep.ReputationStats EXCEPT ![freelancer] = WithCompletion(Stats(w, freelancer), v, rating)],
                  w.rep.Attestations \cup {<<freelancer, p>>})
      /\ t.ok => w.ok /\ Registered(w, freelancer)
  BY <1>5, <1>6, OnProjectCompletedRecords
<1>8. Reports(w, t)
  BY <1>7 DEF Recorded
<1>9. /\ Keeps(w, t) /\ OwnsKept(w, t) /\ BeyondKept(w, t)
      /\ t.ledger.locks = w.ledger.locks /\ t.rep.NextJurorIndex = w.rep.NextJurorIndex
  BY <1>5, <1>8, ReportsKeeps
<1>10. Keeps(s, t)
  BY <1>1, <1>3, <1>9, KeepsTransitive
<1>11. BeyondKept(s, t)
  <2>1. BeyondKept(s, w)
    BY <1>1, <1>3 DEF BeyondKept, Beyond
  <2> QED BY <1>9, <2>1, KeptTransitive
<1>12. /\ t.rep.Attestations = s.rep.Attestations \cup {<<freelancer, p>>}
       /\ t.rep.ReputationStats =
            [s.rep.ReputationStats EXCEPT ![freelancer] = WithCompletion(Stats(s, freelancer), v, rating)]
  BY <1>1, <1>3, <1>7 DEF Recorded, Stats
<1>13. ASSUME t.ok
       PROVE  /\ \A b \in Accounts : Owns(t, b) = Paying(s, client, freelancer, v, b)
              /\ Registered(s, freelancer)
              /\ TiersBut(s.rep, {}) => TiersBut(t.rep, {})
  <2>1. w.ok /\ Registered(s, freelancer)
    BY <1>1, <1>3, <1>7, <1>13 DEF Registered, Stats
  <2>2. \A b \in Accounts : Owns(u, b) = Owns(s, b)
    BY <1>1 DEF Owns
  <2>3. \A b \in Accounts : Owns(t, b) = Paying(s, client, freelancer, v, b)
    BY <1>4, <1>9, <2>1, <2>2 DEF OwnsKept, Paying
  <2>4. TiersBut(s.rep, {}) => TiersBut(t.rep, {})
    BY <1>1, <1>3, <1>7, <1>13 DEF Recorded
  <2> QED BY <2>1, <2>3, <2>4
<1>14. \A b \in Accounts : StakedIff(s.rep, b) => StakedIff(t.rep, b)
  BY <1>1, <1>3, <1>8 DEF Reports, Undisturbed
<1> QED BY <1>1, <1>3, <1>9, <1>10, <1>11, <1>12, <1>13, <1>14 DEF t

\* A payment returns a chain state.
LEMMA PaymentType ==
  ASSUME NEW s \in ChainState, NEW c \in Accounts, NEW f \in Accounts,
         NEW id \in LockIds, NEW v \in Nat, NEW rating \in Nat, NEW p \in ProjectIds
  PROVE  Payment(s, id, c, f, v, rating, p) \in ChainState
<1> DEFINE t  == Payment(s, id, c, f, v, rating, p)
           st == WithCompletion(Stats(s, f), v, rating)
<1>1. /\ Keeps(s, t) /\ BeyondKept(s, t)
      /\ \A b \in Accounts : StakedIff(s.rep, b) => StakedIff(t.rep, b)
      /\ t.ledger.locks = [s.ledger.locks EXCEPT ![c] = [@ EXCEPT ![id] = 0]]
      /\ t.rep.Attestations = s.rep.Attestations \cup {<<f, p>>}
      /\ t.rep.ReputationStats = [s.rep.ReputationStats EXCEPT ![f] = st]
      /\ t.ok => /\ \A b \in Accounts : Owns(t, b) = Paying(s, c, f, v, b)
                 /\ Registered(s, f)
                 /\ TiersBut(s.rep, {}) => TiersBut(t.rep, {})
  BY PaymentEffect
<1> QED BY <1>1 DEF Keeps

-------------------------------------------------------------------------------
(* The payouts of an enforced ruling *)

\* What a settlement takes from the appellant of a bond: all of it, if it is there.
Forfeit(s, bond, winner) ==
    IF bond = None \/ bond.appellant = winner THEN 0
    ELSE Takeable(s, bond.appellant, bond.amount)

\* What a settlement takes out of the reserve of b.
Released(s, bond, b) ==
    IF bond # None /\ bond.appellant = b THEN Takeable(s, b, bond.amount) ELSE 0

\* The chain u differs from s by a settlement that only moves balances.
BalancesOnly(s, u) ==
    /\ u \in ChainState /\ u.rep = s.rep
    /\ u.ok => s.ok
    /\ u.ok /\ s.ledger \in Ledger => u.ledger \in Ledger
    /\ u.ledger.locks = s.ledger.locks

\* Moving balances keeps everything else.
LEMMA BalancesOnlyKeeps ==
  ASSUME NEW s \in ChainState, NEW u, BalancesOnly(s, u)
  PROVE  Keeps(s, u)
  BY DEF BalancesOnly, Keeps

\* The chains of settlements can be joined.
LEMMA BalancesOnlyTransitive ==
  ASSUME NEW s, NEW t, NEW u, BalancesOnly(s, t), BalancesOnly(t, u)
  PROVE  BalancesOnly(s, u)
  BY DEF BalancesOnly

\* What can be taken out of a reserve is an integer, and natural if the reserve is;
\* it is what was asked for if that is there.
LEMMA TakeableType ==
  ASSUME NEW s \in ChainState, NEW a \in Accounts, NEW v \in Nat
  PROVE  /\ Takeable(s, a, v) \in Int
         /\ s.ledger \in Ledger => Takeable(s, a, v) \in Nat
         /\ v <= s.ledger.reserved[a] => Takeable(s, a, v) = v
<1>1. s.ledger.reserved[a] \in Int
  BY StakeFromType
<1>2. s.ledger \in Ledger => s.ledger.reserved[a] \in Nat
  BY LedgerFields
<1> QED BY <1>1, <1>2 DEF Takeable

\* What b loses by the settlement of a bond that forfeits x.
LostTo(bond, b, x) == IF bond # None /\ b = bond.appellant THEN x ELSE 0

\* What of a deposit of x arrives in the pallet's account: nothing if it cannot open it.
Arrives(s, x) == IF s.ledger.free[PalletAccount] + x >= ExistentialDeposit THEN x ELSE 0

\* What of it is b's.
GainTo(s, b, x) == IF b = PalletAccount THEN Arrives(s, x) ELSE 0

\* One bond has been settled and x of it forfeited.
BondSettled(s, u, bond, x) ==
    /\ BalancesOnly(s, u) /\ u.ok = s.ok
    /\ x \in Int /\ (s.ledger \in Ledger => x \in Nat)
    /\ \A b \in Accounts : u.ledger.reserved[b] = s.ledger.reserved[b] - Released(s, bond, b)
    /\ \A b \in Accounts : Owns(u, b) = Owns(s, b) - LostTo(bond, b, x) + GainTo(s, b, x)

\* No bond, nothing happens.
LEMMA NoBondSettled ==
  ASSUME NEW s \in ChainState, NEW bond, bond = None
  PROVE  BondSettled(s, s, bond, 0)
<1>1. PalletAccount \in Accounts
  BY ArbAssumption
<1>2. \A b \in Accounts : s.ledger.free[b] \in Int /\ s.ledger.reserved[b] \in Int
  BY StakeFromType
<1>3. BalancesOnly(s, s)
  BY DEF BalancesOnly
<1>4. \A b \in Accounts : Owns(s, b) \in Int
  BY OwnsType
<1>5. \A b \in Accounts : Released(s, bond, b) = 0 /\ LostTo(bond, b, 0) = 0
  BY DEF Released, LostTo
<1>6. \A b \in Accounts : GainTo(s, b, 0) = 0
  BY DEF Arrives, GainTo
<1> QED BY <1>1, <1>2, <1>3, <1>4, <1>5, <1>6 DEF BondSettled

\* The winner's bond goes back into its free balance.
LEMMA BondReturned ==
  ASSUME NEW s \in ChainState, NEW bond \in Bond, bond # None, NEW u,
         u = Unreserve(s, bond.appellant, bond.amount)
  PROVE  BondSettled(s, u, bond, 0)
<1> DEFINE a == bond.appellant
           y == Takeable(s, a, bond.amount)
<1>1. PalletAccount \in Accounts
  BY ArbAssumption
<1>2. \A b \in Accounts : s.ledger.free[b] \in Int /\ s.ledger.reserved[b] \in Int
  BY StakeFromType
<1>3. a \in Accounts /\ bond.amount \in Nat
  BY DEF Bond
<1>4. y \in Int
  BY <1>3, TakeableType
<1>5. /\ u \in ChainState /\ u.ok = s.ok /\ u.rep = s.rep
      /\ u.ledger.free = [s.ledger.free EXCEPT ![a] = @ + y]
      /\ u.ledger.reserved = [s.ledger.reserved EXCEPT ![a] = @ - y]
      /\ u.ledger.locks = s.ledger.locks
      /\ s.ledger \in Ledger => u.ledger \in Ledger
  BY <1>3, UnreserveType
<1>6. \A b \in Accounts : Released(s, bond, b) = (IF b = a THEN y ELSE 0) /\ LostTo(bond, b, 0) = 0
  BY DEF Released, LostTo
<1> HIDE DEF y, a
<1>7. BalancesOnly(s, u)
  BY <1>5 DEF BalancesOnly
<1>8. s.ledger.free \in Entries /\ s.ledger.reserved \in Entries
  BY LedgerFields
<1>9. ASSUME NEW b \in Accounts
      PROVE  /\ u.ledger.reserved[b] = IF b = a THEN s.ledger.reserved[b] - y ELSE s.ledger.reserved[b]
             /\ u.ledger.free[b] = IF b = a THEN s.ledger.free[b] + y ELSE s.ledger.free[b]
  BY <1>3, <1>5, <1>8 DEF Entries
<1>10. ASSUME NEW b \in Accounts
       PROVE  /\ u.ledger.reserved[b] = s.ledger.reserved[b] - Released(s, bond, b)
              /\ Owns(u, b) = Owns(s, b) /\ Owns(s, b) \in Int
  BY <1>2, <1>4, <1>6, <1>9 DEF Owns
<1>11. \A b \in Accounts : GainTo(s, b, 0) = 0 /\ LostTo(bond, b, 0) = 0
  BY DEF Arrives, GainTo, LostTo
<1> QED BY <1>1, <1>5, <1>6, <1>7, <1>10, <1>11 DEF BondSettled

\* Another bond goes to the pallet's account, or is lost if it cannot open it.
LEMMA BondForfeited ==
  ASSUME NEW s \in ChainState, NEW bond \in Bond, bond # None, NEW u, NEW x,
         x = Takeable(s, bond.appellant, bond.amount),
         u = DepositCreating(SlashReserved(s, bond.appellant, bond.amount), PalletAccount, x)
  PROVE  BondSettled(s, u, bond, x)
<1> DEFINE a == bond.appellant
           w == SlashReserved(s, a, bond.amount)
<1>1. PalletAccount \in Accounts
  BY ArbAssumption
<1>2. \A b \in Accounts : s.ledger.free[b] \in Int /\ s.ledger.reserved[b] \in Int
  BY StakeFromType
<1>3. a \in Accounts /\ bond.amount \in Nat
  BY DEF Bond
<1>4. x \in Int /\ (s.ledger \in Ledger => x \in Nat)
  BY <1>3, TakeableType
<1>5. /\ w \in ChainState /\ w.ok = s.ok /\ w.rep = s.rep
      /\ w.ledger.free = s.ledger.free
      /\ w.ledger.reserved = [s.ledger.reserved EXCEPT ![a] = @ - x]
      /\ w.ledger.locks = s.ledger.locks
      /\ s.ledger \in Ledger => w.ledger \in Ledger
  BY <1>3, SlashReservedType
<1>6. \A b \in Accounts : /\ Released(s, bond, b) = IF b = a THEN x ELSE 0
                          /\ LostTo(bond, b, x) = IF b = a THEN x ELSE 0
  BY DEF Released, LostTo
<1>7. u = DepositCreating(w, PalletAccount, x)
  OBVIOUS
<1> HIDE DEF w, a
<1>8. /\ u \in ChainState /\ u.rep = w.rep /\ u.ok = w.ok
      /\ x \in Nat /\ w.ledger \in Ledger => u.ledger \in Ledger
      /\ u.ledger.reserved = w.ledger.reserved /\ u.ledger.locks = w.ledger.locks
      /\ \A b \in Accounts \ {PalletAccount} : u.ledger.free[b] = w.ledger.free[b]
      /\ u.ledger.free[PalletAccount] =
           IF w.ledger.free[PalletAccount] + x >= ExistentialDeposit
           THEN w.ledger.free[PalletAccount] + x ELSE w.ledger.free[PalletAccount]
  <2>1. w \in ChainState /\ PalletAccount \in Accounts /\ x \in Int
    BY <1>1, <1>4, <1>5
  <2> QED BY ONLY <1>7, <2>1, DepositEffect
<1>9. BalancesOnly(s, u) /\ u.ok = s.ok
  BY <1>4, <1>5, <1>8 DEF BalancesOnly
<1>10. s.ledger.reserved \in Entries
  BY LedgerFields
<1>11. ASSUME NEW b \in Accounts
       PROVE  u.ledger.reserved[b] = IF b = a THEN s.ledger.reserved[b] - x ELSE s.ledger.reserved[b]
  BY <1>3, <1>5, <1>8, <1>10 DEF Entries
<1>12. ASSUME NEW b \in Accounts
       PROVE  u.ledger.reserved[b] = s.ledger.reserved[b] - Released(s, bond, b)
  BY <1>2, <1>4, <1>6, <1>11
<1>13. ASSUME NEW b \in Accounts
       PROVE  Owns(u, b) = Owns(s, b) - LostTo(bond, b, x) + GainTo(s, b, x)
  <2>1. u.ledger.free[b] = s.ledger.free[b] + GainTo(s, b, x)
    BY <1>1, <1>2, <1>4, <1>5, <1>8 DEF Arrives, GainTo
  <2>2. GainTo(s, b, x) \in Int
    BY <1>4 DEF Arrives, GainTo
  <2> QED BY <1>2, <1>4, <1>6, <1>11, <2>1, <2>2 DEF Owns
<1> QED BY <1>4, <1>9, <1>12, <1>13 DEF BondSettled, a

\* One bond, whatever it is.
LEMMA SettleBondEffect ==
  ASSUME NEW s \in ChainState, NEW slashed \in Int, NEW bond \in Bond \cup {None},
         NEW winner \in Accounts
  PROVE  LET u == SettleBond([s |-> s, slashed |-> slashed], bond, winner)
             x == Forfeit(s, bond, winner)
         IN  u = [s |-> u.s, slashed |-> slashed + x] /\ BondSettled(s, u.s, bond, x)
<1> DEFINE t == [s |-> s, slashed |-> slashed]
           u == SettleBond(t, bond, winner)
           x == Forfeit(s, bond, winner)
<1>1. CASE bond = None
  <2>1. u = t /\ x = 0
    BY <1>1 DEF SettleBond, Forfeit
  <2>2. u.s = s /\ u = [s |-> u.s, slashed |-> slashed + x]
    BY <2>1
  <2> QED BY <1>1, <2>1, <2>2, NoBondSettled
<1>2. CASE bond # None /\ bond.appellant = winner
  <2>1. u = [s |-> Unreserve(s, winner, bond.amount), slashed |-> slashed] /\ x = 0
    BY <1>2 DEF SettleBond, Forfeit
  <2>2. u.s = Unreserve(s, bond.appellant, bond.amount) /\ u = [s |-> u.s, slashed |-> slashed + x]
    BY <1>2, <2>1
  <2>3. bond \in Bond
    BY <1>2
  <2> HIDE DEF u, x
  <2>4. BondSettled(s, u.s, bond, 0)
    BY ONLY s \in ChainState, <1>2, <2>2, <2>3, BondReturned
  <2> QED BY <2>1, <2>2, <2>4 DEF u, x
<1>3. CASE bond # None /\ bond.appellant # winner
  <2>1. x = Takeable(s, bond.appellant, bond.amount)
    BY <1>3 DEF Forfeit
  <2>2. u = [s |-> DepositCreating(SlashReserved(s, bond.appellant, bond.amount), PalletAccount, x),
             slashed |-> slashed + x]
    BY <1>3, <2>1 DEF SettleBond
  <2>3. /\ u.s = DepositCreating(SlashReserved(s, bond.appellant, bond.amount), PalletAccount, x)
        /\ u = [s |-> u.s, slashed |-> slashed + x]
    BY <2>2
  <2>4. bond \in Bond
    BY <1>3
  <2> HIDE DEF u, x
  <2>5. BondSettled(s, u.s, bond, x)
    BY ONLY s \in ChainState, <1>3, <2>1, <2>3, <2>4, BondForfeited
  <2> QED BY <2>3, <2>5 DEF u, x
<1> QED BY <1>1, <1>2, <1>3

\* The type of what settles all bonds of a project.
LEMMA SettleBondsType ==
  ASSUME NEW s \in ChainState, NEW p \in ProjectIds, NEW winner \in Accounts,
         AppealBonds[p] \in [Rounds -> Bond \cup {None}]
  PROVE  LET u == SettleBonds(s, p, winner)
         IN  u.slashed \in Int /\ BalancesOnly(s, u.s)
<1> DEFINE b  == AppealBonds[p]
           n  == [s |-> s, slashed |-> 0]
           u1 == SettleBond(n, b[1], winner)
           u2 == SettleBond(u1, b[2], winner)
           u3 == SettleBond(u2, b[3], winner)
<1>1. b[1] \in Bond \cup {None} /\ b[2] \in Bond \cup {None} /\ b[3] \in Bond \cup {None}
  BY DEF Rounds
<1>2. ASSUME NEW v \in ChainState, NEW z \in Int, NEW bond \in Bond \cup {None}, NEW w,
             w = SettleBond([s |-> v, slashed |-> z], bond, winner)
      PROVE  w = [s |-> w.s, slashed |-> w.slashed] /\ w.slashed \in Int /\ BalancesOnly(v, w.s)
  <2>1. w = [s |-> w.s, slashed |-> z + Forfeit(v, bond, winner)]
        /\ BondSettled(v, w.s, bond, Forfeit(v, bond, winner))
    BY <1>2, SettleBondEffect
  <2>2. w.slashed = z + Forfeit(v, bond, winner)
    BY <2>1
  <2> QED BY <2>1, <2>2 DEF BondSettled
<1>3. SettleBonds(s, p, winner) = u3
  BY DEF SettleBonds
<1> HIDE DEF b
<1>4. u1 = [s |-> u1.s, slashed |-> u1.slashed] /\ u1.slashed \in Int /\ BalancesOnly(s, u1.s)
  BY <1>1, <1>2
<1> HIDE DEF u1
<1>5. u1.s \in ChainState
  BY <1>4 DEF BalancesOnly
<1>6. u2 = [s |-> u2.s, slashed |-> u2.slashed] /\ u2.slashed \in Int /\ BalancesOnly(u1.s, u2.s)
  BY <1>1, <1>2, <1>4, <1>5
<1> HIDE DEF u2
<1>7. u2.s \in ChainState
  BY <1>6 DEF BalancesOnly
<1>8. u3.slashed \in Int /\ BalancesOnly(u2.s, u3.s)
  BY <1>1, <1>2, <1>6, <1>7
<1> HIDE DEF u3
<1>9. BalancesOnly(s, u3.s)
  BY <1>4, <1>6, <1>8, BalancesOnlyTransitive
<1> QED BY <1>3, <1>8, <1>9

\* The loser pays the costs or does not.
LEMMA PayCostsType ==
  ASSUME NEW t, t.s \in ChainState, t.slashed \in Int, NEW p \in ProjectIds,
         NEW loser \in Accounts, ArbitrationCosts[p] \in Nat
  PROVE  BalancesOnly(t.s, PayCosts(t, p, loser))
<1> DEFINE owed == ArbitrationCosts[p] - t.slashed
           paid == Transfer(t.s, loser, PalletAccount, owed, FALSE)
<1>1. BalancesOnly(t.s, t.s)
  BY DEF BalancesOnly
<1>2. CASE ArbitrationCosts[p] > t.slashed /\ paid.ok
  <2>1. PayCosts(t, p, loser) = paid
    BY <1>2 DEF PayCosts
  <2>2. owed \in Nat /\ PalletAccount \in Accounts /\ FALSE \in BOOLEAN
    BY <1>2, ArbAssumption
  <2> HIDE DEF owed
  <2>3. Moved(t.s, paid, loser, PalletAccount, owed)
    BY <2>2, TransferEffect, Zenon
  <2> HIDE DEF paid
  <2>4. BalancesOnly(t.s, paid)
    BY <2>3 DEF Moved, Keeps, BalancesOnly
  <2> QED BY <2>1, <2>4
<1>3. CASE ~ (ArbitrationCosts[p] > t.slashed /\ paid.ok)
  <2>1. PayCosts(t, p, loser) = t.s
    BY <1>3 DEF PayCosts
  <2> QED BY <1>1, <2>1
<1> QED BY <1>2, <1>3

\* What the jurors have after their rewards are paid out of the pallet's account.
Rewarded(s, p, a) ==
    IF a = PalletAccount
    THEN s.ledger.free[a] + JurorRewards[p][a] - RewardsDue(p)
    ELSE s.ledger.free[a] + JurorRewards[p][a]

\* The jurors are paid.
LEMMA PayJurorsEffect ==
  ASSUME NEW s \in ChainState, NEW p \in ProjectIds, JurorRewards[p] \in [Accounts -> Nat]
  PROVE  LET t == PayJurors(s, p)
         IN  /\ BalancesOnly(s, t) /\ t.ledger.reserved = s.ledger.reserved
             /\ \A a \in Accounts : t.ledger.free[a] = Rewarded(s, p, a)
<1> DEFINE due  == RewardsDue(p)
           paid == [a \in Accounts |-> s.ledger.free[a] + JurorRewards[p][a]]
           left == paid[PalletAccount] - due
           f    == [paid EXCEPT ![PalletAccount] = left]
           o    == /\ s.ok
                   /\ left >= ExistentialDeposit
                   /\ \A a \in Accounts : JurorRewards[p][a] > 0 => paid[a] >= ExistentialDeposit
           t    == PayJurors(s, p)
<1>1. /\ s.ok \in BOOLEAN /\ s.ledger.free \in Entries /\ s.ledger.reserved \in Entries
      /\ s.ledger.locks \in LockTable
  BY LedgerFields
<1>2. PalletAccount \in Accounts /\ IsFiniteSet(Accounts)
  BY ArbAssumption, RepAssumption
<1>3. \A a \in Accounts : JurorRewards[p][a] \in Nat /\ s.ledger.free[a] \in Int
  BY <1>1 DEF Entries
<1>4. due \in Nat /\ \A a \in Accounts : JurorRewards[p][a] <= due
  BY <1>2, <1>3, SumNat DEF RewardsDue
<1>5. paid \in Entries /\ \A a \in Accounts : paid[a] = s.ledger.free[a] + JurorRewards[p][a]
  BY <1>3 DEF Entries
<1>6. left \in Int
  BY <1>2, <1>4, <1>5 DEF Entries
<1>7. f \in Entries /\ \A a \in Accounts : f[a] = Rewarded(s, p, a)
  <2>1. ASSUME NEW a \in Accounts
        PROVE  f[a] = IF a = PalletAccount THEN paid[a] - RewardsDue(p) ELSE paid[a]
    BY <1>2, <1>5 DEF Entries
  <2>2. f \in Entries
    <3> HIDE DEF paid, left
    <3> QED BY <1>5, <1>6 DEF Entries
  <2> HIDE DEF f, paid
  <2>3. ASSUME NEW a \in Accounts
        PROVE  f[a] = Rewarded(s, p, a)
    <3>1. f[a] = IF a = PalletAccount THEN s.ledger.free[a] + JurorRewards[p][a] - RewardsDue(p)
                                      ELSE s.ledger.free[a] + JurorRewards[p][a]
      BY <1>3, <1>4, <1>5, <2>1, <2>3
    <3> QED BY ONLY <3>1 DEF Rewarded
  <2> QED BY <2>2, <2>3
<1>8. CASE due = 0
  <2>1. t = s
    BY <1>8 DEF PayJurors
  <2>2. \A a \in Accounts : s.ledger.free[a] = Rewarded(s, p, a)
    <3> TAKE a \in Accounts
    <3>1. JurorRewards[p][a] = 0 /\ RewardsDue(p) = 0 /\ s.ledger.free[a] \in Int
      BY <1>3, <1>4, <1>8
    <3> QED BY <3>1 DEF Rewarded
  <2>3. BalancesOnly(s, s)
    BY DEF BalancesOnly
  <2> HIDE DEF t
  <2> QED BY <2>1, <2>2, <2>3 DEF t
<1>9. CASE due # 0
  <2>1. t = OnLedger(s, o, f, s.ledger.reserved, s.ledger.locks)
    BY <1>9 DEF PayJurors, OnLedger, ChainState, AnyLedger
  <2>2. o \in BOOLEAN /\ (o => s.ok /\ left >= ExistentialDeposit)
    OBVIOUS
  <2>3. s.ledger \in Ledger /\ o => f \in [Accounts -> Nat] /\ s.ledger.reserved \in [Accounts -> Nat]
    <3> SUFFICES ASSUME s.ledger \in Ledger, o
                 PROVE  f \in [Accounts -> Nat] /\ s.ledger.reserved \in [Accounts -> Nat]
      OBVIOUS
    <3>1. s.ledger.free \in [Accounts -> Nat] /\ s.ledger.reserved \in [Accounts -> Nat]
      BY LedgerFields
    <3>2. paid \in [Accounts -> Nat]
      BY <1>3, <3>1
    <3>3. left \in Nat
      BY <1>6, <2>2, BalancesAssumption
    <3> HIDE DEF paid, left
    <3> QED BY <3>1, <3>2, <3>3
  <2> HIDE DEF o, f, t, left, paid, due
  <2>4. /\ t \in ChainState /\ t.ok = o /\ t.rep = s.rep /\ t.ledger.free = f
        /\ t.ledger.reserved = s.ledger.reserved /\ t.ledger.locks = s.ledger.locks
    <3>1. t \in ChainState
      BY ONLY s \in ChainState, <1>1, <1>7, <2>1, <2>2, OnLedgerType
    <3> QED BY <2>1, <3>1, OnLedgerFields
  <2>5. BalancesOnly(s, t)
    BY <2>2, <2>3, <2>4, LedgerFields DEF BalancesOnly
  <2> QED BY <1>7, <2>4, <2>5 DEF t
<1> QED BY <1>8, <1>9

-------------------------------------------------------------------------------
(* The votes of a closed round *)

\* Counting votes changes neither registration nor what was earned and rated, and
\* nothing of an account that is not registered.
SameCredit(old, new) ==
    /\ new.registered = old.registered
    /\ new.total_earned = old.total_earned
    /\ new.total_ratings_received = old.total_ratings_received
    /\ ~ old.registered => new = old

\* From s to t votes have been counted.
VotesCounted(s, t) ==
    /\ Reports(s, t) /\ t.ok
    /\ t.rep.Attestations = s.rep.Attestations
    /\ TiersBut(s.rep, {}) => TiersBut(t.rep, {})
    /\ \A a \in Accounts : SameCredit(Stats(s, a), Stats(t, a))

\* One more vote.
CountVote(s, a, withMajority) == [OnJuryVote(s, a, withMajority) EXCEPT !.ok = TRUE]

\* A counted vote is one.
LEMMA OneVoteCounted ==
  ASSUME NEW s \in ChainState, NEW t, VotesCounted(s, t), NEW a \in Accounts,
         NEW withMajority \in BOOLEAN
  PROVE  VotesCounted(s, CountVote(t, a, withMajority))
<1> DEFINE u     == CountVote(t, a, withMajority)
           score == IF withMajority THEN 1000000 ELSE 0
           stats == IF Registered(t, a)
                    THEN [t.rep.ReputationStats EXCEPT ![a] = WithVote(Stats(t, a), score)]
                    ELSE t.rep.ReputationStats
<1>1. t \in ChainState /\ t.ok
  BY DEF VotesCounted, Reports, Keeps
<1>2. Recorded(t, u, stats, t.rep.Attestations) /\ u.ok
  BY <1>1, IgnoredVoteRecords DEF CountVote
<1> HIDE DEF u
<1>3. /\ Reports(t, u) /\ u.rep.ReputationStats = stats /\ u.rep.Attestations = t.rep.Attestations
      /\ TiersBut(t.rep, {}) => TiersBut(u.rep, {})
  <2> HIDE DEF stats
  <2> QED BY <1>2 DEF Recorded
<1>4. Reports(s, u)
  BY <1>3, ReportsTransitive DEF VotesCounted
<1>5. t.rep.ReputationStats \in [Accounts -> ReputationData]
  BY <1>1, RepFields
<1>6. ASSUME NEW b \in Accounts
      PROVE  SameCredit(Stats(t, b), Stats(u, b))
  <2>1. Stats(t, b) \in ReputationData
    BY <1>5 DEF Stats
  <2>2. CASE b = a /\ Registered(t, a)
    <3> HIDE DEF score
    <3>1. Stats(u, b) = WithVote(Stats(t, b), score)
      BY <1>3, <1>5, <2>2 DEF Stats
    <3> HIDE DEF stats
    <3>2. Stats(t, b).registered
      BY <2>2 DEF Registered
    <3> QED BY <2>1, <3>1, <3>2 DEF WithVote, SameCredit, ReputationData
  <2>3. CASE b # a \/ ~ Registered(t, a)
    <3>1. Stats(u, b) = Stats(t, b)
      <4> HIDE DEF score
      <4> QED BY <1>3, <1>5, <2>3 DEF Stats
    <3> QED BY <3>1 DEF SameCredit
  <2> QED BY <2>2, <2>3
<1>7. ASSUME NEW b \in Accounts
      PROVE  SameCredit(Stats(s, b), Stats(u, b))
  <2>1. SameCredit(Stats(s, b), Stats(t, b)) /\ SameCredit(Stats(t, b), Stats(u, b))
    BY <1>6 DEF VotesCounted
  <2> QED BY <2>1 DEF SameCredit
<1> QED BY <1>2, <1>3, <1>4, <1>7 DEF VotesCounted, u

\* The ballot of a round is counted, in whatever order.
LEMMA RecordVotesEffect ==
  ASSUME Chain \in ChainState, Chain.ok, NEW votes, DOMAIN votes \in SUBSET Accounts
  PROVE  VotesCounted(Chain, RecordVotes(votes))
<1> DEFINE D    == DOMAIN votes
           St   == {t \in ChainState : VotesCounted(Chain, t)}
           Majority(j) == WithMajority(votes, j)
           step == [j \in D |-> [t \in St |-> CountVote(t, j, Majority(j))]]
           F(it) == [s \in SUBSET D |-> IF s = {} THEN Chain
                                        ELSE CountVote(it[s \ {Pick(s)}], Pick(s), Majority(Pick(s)))]
           chosen == CHOOSE it : it = F(it)
<1>1. IsFiniteSet(D)
  BY RepAssumption, FS_Subset
<1>2. Chain \in St
  <2>1. Reports(Chain, Chain)
    BY DEF Reports, Keeps, Undisturbed
  <2>2. \A a \in Accounts : SameCredit(Stats(Chain, a), Stats(Chain, a))
    BY DEF SameCredit
  <2> QED BY <2>1, <2>2 DEF VotesCounted
<1>3. ASSUME NEW j \in D, NEW t \in St
      PROVE  CountVote(t, j, Majority(j)) \in St
  <2>1. Majority(j) \in BOOLEAN
    BY DEF WithMajority
  <2> HIDE DEF Majority
  <2>2. VotesCounted(Chain, CountVote(t, j, Majority(j)))
    BY <2>1, OneVoteCounted, Zenon
  <2> QED BY <2>2 DEF VotesCounted, Reports, Keeps
<1> HIDE DEF St, Majority
<1>4. step \in [D -> [St -> St]]
  BY <1>3
<1>5. PICK it \in [SUBSET D -> St] : IsFold(it, SUBSET D, Chain, step)
  <2> HIDE DEF step, D
  <2> QED BY <1>1, <1>2, <1>4, FoldExists
<1>6. \A s \in SUBSET D : s # {} => Pick(s) \in D /\ s \ {Pick(s)} \in SUBSET D
  BY DEF Pick
<1>7. it = F(it)
  <2>1. \A s \in SUBSET D : s # {} =>
          step[Pick(s)][it[s \ {Pick(s)}]] = CountVote(it[s \ {Pick(s)}], Pick(s), Majority(Pick(s)))
    BY <1>5, <1>6
  <2> HIDE DEF step
  <2> QED BY <1>5, <2>1 DEF IsFold
<1>8. chosen = F(chosen)
  BY <1>7
<1> HIDE DEF chosen
<1>9. \A s \in SUBSET D : chosen[s] = IF s = {} THEN Chain
                            ELSE CountVote(chosen[s \ {Pick(s)}], Pick(s), Majority(Pick(s)))
  BY <1>8
<1> HIDE DEF F, step
<1>10. ASSUME NEW B, B = {s \in SUBSET D : chosen[s] \notin St}, B # {}
       PROVE  FALSE
  <2>1. PICK s \in B : \A t \in B : Cardinality(s) <= Cardinality(t)
    BY <1>1, <1>10, SmallestSet
  <2>2. s \in SUBSET D /\ chosen[s] \notin St
    BY <1>10, <2>1
  <2>3. CASE s = {}
    <3>1. chosen[s] = Chain
      BY <1>9, <2>2, <2>3, Zenon
    <3> QED BY <1>2, <2>2, <3>1
  <2>4. CASE s # {}
    <3>1. /\ Pick(s) \in s /\ Cardinality(s) \in Nat /\ Cardinality(s \ {Pick(s)}) = Cardinality(s) - 1
      BY <1>1, <2>2, <2>4, FS_Subset, PickType
    <3>2. s \ {Pick(s)} \notin B
      BY <2>1, <3>1
    <3>3. chosen[s \ {Pick(s)}] \in St /\ Pick(s) \in D
      BY <1>6, <1>10, <2>2, <2>4, <3>2
    <3>4. chosen[s] = CountVote(chosen[s \ {Pick(s)}], Pick(s), Majority(Pick(s)))
      BY <1>9, <2>2, <2>4, Zenon
    <3>5. CountVote(chosen[s \ {Pick(s)}], Pick(s), Majority(Pick(s))) \in St
      BY ONLY <1>3, <3>3
    <3> QED BY <2>2, <3>4, <3>5
  <2> QED BY <2>3, <2>4
<1>11. chosen[D] \in St
  <2> DEFINE B == {s \in SUBSET D : chosen[s] \notin St}
  <2>1. B = {}
    BY <1>10, Zenon
  <2>2. D \in SUBSET D
    OBVIOUS
  <2> QED BY <2>1, <2>2
<1>12. RecordVotes(votes) = chosen[D]
  BY DEF chosen, F, RecordVotes, FoldSet, MapThenFoldSet, Pick, CountVote, Majority
<1> QED BY <1>11, <1>12 DEF St

-------------------------------------------------------------------------------
(* What every call of the runtime keeps *)

\* A call that succeeds keeps types, pools, the match of stakes and registry, and
\* justified tiers, and gives statistics to registered accounts only.
Sustains(s, t) ==
    /\ Keeps(s, t) /\ t.ok
    /\ \A b \in Accounts : StakedIff(s.rep, b) => StakedIff(t.rep, b)
    /\ TiersBut(s.rep, {}) => TiersBut(t.rep, {})
    /\ \A b \in Accounts : Stats(t, b).registered \/ Stats(t, b) = Stats(s, b)
    /\ \A b \in Accounts : Stats(s, b).registered => Stats(t, b).registered

\* What the reputation pallet and the currency keep, whoever calls them.
RuntimeInv ==
    /\ RepTypeOK /\ PoolsSound
    /\ \A b \in Accounts : StakedIff(rep, b)
    /\ TiersBut(rep, {})
    /\ Newcomers

\* A call that changes nothing sustains everything.
LEMMA SustainsSame ==
  ASSUME NEW s \in ChainState, s.ok
  PROVE  Sustains(s, s)
  BY DEF Sustains, Keeps

\* Calls can be chained.
LEMMA SustainsTransitive ==
  ASSUME NEW s, NEW t, NEW u, Sustains(s, t), Sustains(t, u)
  PROVE  Sustains(s, u)
<1>1. Keeps(s, u) /\ u.ok
  BY KeepsTransitive DEF Sustains
<1>2. ASSUME NEW b \in Accounts
      PROVE  /\ StakedIff(s.rep, b) => StakedIff(u.rep, b)
             /\ Stats(u, b).registered \/ Stats(u, b) = Stats(s, b)
             /\ Stats(s, b).registered => Stats(u, b).registered
  <2>1. /\ StakedIff(s.rep, b) => StakedIff(t.rep, b)
        /\ Stats(t, b).registered \/ Stats(t, b) = Stats(s, b)
        /\ Stats(s, b).registered => Stats(t, b).registered
    BY DEF Sustains
  <2>2. /\ StakedIff(t.rep, b) => StakedIff(u.rep, b)
        /\ Stats(u, b).registered \/ Stats(u, b) = Stats(t, b)
        /\ Stats(t, b).registered => Stats(u, b).registered
    BY DEF Sustains
  <2> QED BY <2>1, <2>2
<1> QED BY <1>1, <1>2 DEF Sustains

\* The currency touches nothing of the reputation pallet.
LEMMA CurrencySustains ==
  ASSUME NEW s, NEW t, Keeps(s, t), t.ok, t.rep = s.rep
  PROVE  Sustains(s, t)
  BY DEF Sustains, Stats

\* A recorded call sustains everything if it writes statistics of registered accounts.
LEMMA RecordedSustains ==
  ASSUME NEW s, NEW t, NEW stats, NEW attested, Recorded(s, t, stats, attested), t.ok,
         \A b \in Accounts : /\ stats[b].registered \/ stats[b] = Stats(s, b)
                             /\ Stats(s, b).registered => stats[b].registered
  PROVE  Sustains(s, t)
<1>1. Keeps(s, t) /\ Undisturbed(s, t) /\ t.rep.ReputationStats = stats
      /\ (TiersBut(s.rep, {}) => TiersBut(t.rep, {}))
  BY DEF Recorded, Reports
<1>2. \A b \in Accounts : StakedIff(s.rep, b) => StakedIff(t.rep, b)
  BY <1>1 DEF Undisturbed
<1> QED BY <1>1, <1>2 DEF Sustains, Stats

\* The end of a call.
LEMMA CommitSustains ==
  ASSUME RuntimeInv, NEW t, Commit(t), Sustains(Chain, t)
  PROVE  RuntimeInv'
<1>1. /\ Chain \in ChainState /\ Chain.ok /\ Chain.ledger = ledger /\ Chain.rep = rep
      /\ Chain.ledger \in Ledger /\ PoolsOf(Chain.rep)
  BY ChainType DEF RuntimeInv
<1>2. t \in ChainState /\ t.ledger \in Ledger /\ PoolsOf(t.rep) /\ t.rep \in RepStorage
  BY <1>1, LedgerFields DEF Sustains, Keeps
<1>3. ledger' = t.ledger /\ rep' = t.rep
  BY DEF Commit
<1>4. RepTypeOK' /\ PoolsSound'
  BY <1>2, <1>3 DEF RepTypeOK, PoolsSound, PoolsOf
<1>5. (\A b \in Accounts : StakedIff(rep, b))' /\ TiersBut(rep, {})'
  BY <1>1, <1>3 DEF Sustains, RuntimeInv, StakedIff, TiersBut
<1>6. Newcomers'
  <2>1. ASSUME NEW b \in Accounts
        PROVE  rep'.ReputationStats[b].registered \/ rep'.ReputationStats[b] = NoStats
    <3>1. Stats(Chain, b) = rep.ReputationStats[b] /\ Stats(t, b) = rep'.ReputationStats[b]
      BY <1>1, <1>3 DEF Stats
    <3>2. /\ Stats(t, b).registered \/ Stats(t, b) = Stats(Chain, b)
          /\ Stats(Chain, b).registered => Stats(t, b).registered
      BY DEF Sustains
    <3>3. rep.ReputationStats[b].registered \/ rep.ReputationStats[b] = NoStats
      BY DEF RuntimeInv, Newcomers
    <3> QED BY <3>1, <3>2, <3>3
  <2> QED BY <2>1 DEF Newcomers
<1> QED BY <1>4, <1>5, <1>6 DEF RuntimeInv

-------------------------------------------------------------------------------
(* What each call commits *)

\* Nobody's earnings or ratings are different.
SameEarned(old, new) ==
    /\ new.total_earned = old.total_earned
    /\ new.total_ratings_received = old.total_ratings_received

\* A call that pays nobody: it may write locks, reserve, count and move jurors.
Quiet(s, t, locks) ==
    /\ Sustains(s, t) /\ OwnsKept(s, t)
    /\ t.ledger.locks = locks
    /\ t.rep.Attestations = s.rep.Attestations
    /\ \A a \in Accounts : SameEarned(Stats(s, a), Stats(t, a))

\* A lock is written and then a client's counters.
LEMMA LockedAndCounted ==
  ASSUME NEW s \in ChainState, NEW c \in Accounts, NEW id \in LockIds, NEW v \in Nat,
         NEW u, u = SetLock(s, id, c, v), NEW t, NEW st \in ReputationData,
         Recorded(u, t, [u.rep.ReputationStats EXCEPT ![c] = st], u.rep.Attestations),
         t.ok, u.ok => st.registered, SameEarned(Stats(s, c), st)
  PROVE  /\ Quiet(s, t, [s.ledger.locks EXCEPT ![c] = [@ EXCEPT ![id] = v]])
         /\ BeyondKept(s, t)
<1> DEFINE k == [s.ledger.locks EXCEPT ![c] = [@ EXCEPT ![id] = v]]
           stats == [u.rep.ReputationStats EXCEPT ![c] = st]
<1>1. /\ Keeps(s, u) /\ u.ok = s.ok /\ u.rep = s.rep
      /\ u.ledger.free = s.ledger.free /\ u.ledger.reserved = s.ledger.reserved
      /\ u.ledger.locks = k
  BY SetLockEffect
<1> HIDE DEF k
<1>2. u \in ChainState /\ Reports(u, t)
  BY <1>1 DEF Keeps, Recorded
<1>3. Keeps(u, t) /\ OwnsKept(u, t) /\ BeyondKept(u, t) /\ t.ledger.locks = u.ledger.locks
  BY <1>2, ReportsKeeps
<1>4. u.ok
  BY <1>3 DEF Keeps
<1>5. u.rep.ReputationStats \in [Accounts -> ReputationData]
  BY <1>2, RepFields
<1>6. Sustains(u, t)
  <2>1. \A b \in Accounts : /\ stats[b].registered \/ stats[b] = Stats(u, b)
                            /\ Stats(u, b).registered => stats[b].registered
    BY <1>4, <1>5 DEF Stats
  <2> HIDE DEF stats
  <2> QED BY <2>1, RecordedSustains DEF stats
<1>7. Sustains(s, t)
  <2>1. Sustains(s, u)
    BY <1>1, <1>4, CurrencySustains
  <2> QED BY <1>6, <2>1, SustainsTransitive
<1>8. OwnsKept(s, t) /\ BeyondKept(s, t)
  <2>1. OwnsKept(s, u) /\ BeyondKept(s, u)
    BY <1>1 DEF OwnsKept, BeyondKept, Owns, Beyond
  <2>2. BeyondKept(s, t)
    BY <1>3, <2>1, KeptTransitive
  <2> QED BY <1>3, <2>1, <2>2 DEF OwnsKept
<1>9. \A a \in Accounts : SameEarned(Stats(s, a), Stats(t, a))
  <2>1. t.rep.ReputationStats = stats
    BY DEF Recorded
  <2>2. \A a \in Accounts : Stats(t, a) = IF a = c THEN st ELSE Stats(s, a)
    BY <1>1, <1>5, <2>1 DEF Stats
  <2> QED BY <2>2 DEF SameEarned
<1>10. t.rep.Attestations = s.rep.Attestations
  BY <1>1 DEF Recorded
<1> QED BY <1>1, <1>3, <1>7, <1>8, <1>9, <1>10 DEF Quiet, k

\* create_project
LEMMA CreateProjectEffect ==
  ASSUME RuntimeInv, NEW c \in Accounts, NEW b \in Nat, NEW d, NextProjectId \in ProjectIds,
         CreateProject(c, b, d)
  PROVE  \E t : /\ Commit(t)
                /\ Quiet(Chain, t, [ledger.locks EXCEPT ![c] =
                                      [@ EXCEPT ![GenerateLockId(NextProjectId)] = b]])
                /\ BeyondKept(Chain, t)
<1> DEFINE id == GenerateLockId(NextProjectId)
           u  == SetLock(Chain, id, c, b)
           t  == OnProjectCreated(u, c, b)
           st == WithPosting(Stats(u, c), b)
<1>1. Commit(t)
  BY DEF CreateProject
<1>2. Chain \in ChainState /\ Chain.ledger = ledger
  BY ChainType DEF RuntimeInv
<1>3. id \in LockIds
  BY LockIdAssumption
<1> HIDE DEF id
<1>4. /\ Keeps(Chain, u) /\ u.ok = Chain.ok /\ u.rep = Chain.rep
      /\ u.ledger.free = Chain.ledger.free /\ u.ledger.reserved = Chain.ledger.reserved
      /\ u.ledger.locks = [Chain.ledger.locks EXCEPT ![c] = [@ EXCEPT ![id] = b]]
  BY <1>2, <1>3, SetLockEffect
<1>5. u \in ChainState
  BY <1>4 DEF Keeps
<1> HIDE DEF u
<1>6. /\ Recorded(u, t, [u.rep.ReputationStats EXCEPT ![c] = st], u.rep.Attestations)
      /\ t.ok <=> u.ok /\ Registered(u, c)
  BY <1>5, OnProjectCreatedRecords
<1>7. t.ok
  BY <1>1 DEF Commit
<1>8. Stats(u, c) \in ReputationData
  BY <1>5, StatsType
<1>9. st \in ReputationData
  <2>1. 0 \in Nat
    OBVIOUS
  <2> QED BY <1>8, <2>1, CountedType
<1>10. st.registered /\ SameEarned(Stats(Chain, c), st)
  BY <1>4, <1>6, <1>7, <1>8 DEF WithPosting, SameEarned, Stats, Registered, ReputationData
<1> HIDE DEF t, st
<1>11. /\ Quiet(Chain, t, [Chain.ledger.locks EXCEPT ![c] = [@ EXCEPT ![id] = b]])
       /\ BeyondKept(Chain, t)
  BY <1>2, <1>3, <1>6, <1>7, <1>9, <1>10, LockedAndCounted DEF u
<1> QED BY <1>1, <1>2, <1>11 DEF id

\* cancel_project
LEMMA CancelledEffect ==
  ASSUME RuntimeInv, NEW c \in Accounts, NEW p \in ProjectIds, Commit(Cancelled(c, p))
  PROVE  \E t : /\ Commit(t)
                /\ Quiet(Chain, t, [ledger.locks EXCEPT ![c] = [@ EXCEPT ![GenerateLockId(p)] = 0]])
                /\ BeyondKept(Chain, t)
<1> DEFINE id == GenerateLockId(p)
           u  == SetLock(Chain, id, c, 0)
           t  == OnProjectCancelled(u, c)
           st == WithFailure(Stats(u, c))
<1>1. Commit(t)
  BY RemoveLockIsSetLock DEF Cancelled
<1>2. Chain \in ChainState /\ Chain.ledger = ledger
  BY ChainType DEF RuntimeInv
<1>3. id \in LockIds /\ 0 \in Nat
  BY LockIdAssumption
<1> HIDE DEF id
<1>4. /\ Keeps(Chain, u) /\ u.ok = Chain.ok /\ u.rep = Chain.rep
      /\ u.ledger.free = Chain.ledger.free /\ u.ledger.reserved = Chain.ledger.reserved
      /\ u.ledger.locks = [Chain.ledger.locks EXCEPT ![c] = [@ EXCEPT ![id] = 0]]
  BY <1>2, <1>3, SetLockEffect
<1>5. u \in ChainState
  BY <1>4 DEF Keeps
<1> HIDE DEF u
<1>6. /\ Recorded(u, t, [u.rep.ReputationStats EXCEPT ![c] = st], u.rep.Attestations)
      /\ t.ok <=> u.ok /\ Registered(u, c)
  BY <1>5, OnProjectCancelledRecords
<1>7. t.ok
  BY <1>1 DEF Commit
<1>8. Stats(u, c) \in ReputationData
  BY <1>5, StatsType
<1>9. st \in ReputationData
  BY <1>3, <1>8, CountedType
<1>10. st.registered /\ SameEarned(Stats(Chain, c), st)
  BY <1>4, <1>6, <1>7, <1>8 DEF WithFailure, SameEarned, Stats, Registered, ReputationData
<1> HIDE DEF t, st
<1>11. /\ Quiet(Chain, t, [Chain.ledger.locks EXCEPT ![c] = [@ EXCEPT ![id] = 0]])
       /\ BeyondKept(Chain, t)
  BY <1>2, <1>3, <1>6, <1>7, <1>9, <1>10, LockedAndCounted DEF u
<1> QED BY <1>1, <1>2, <1>11 DEF id

\* register_user: a newcomer is in no tier and has earned nothing.
LEMMA RegisterUserEffect ==
  ASSUME RuntimeInv, NEW a \in Accounts, RegisterUser(a)
  PROVE  \E t : Commit(t) /\ Quiet(Chain, t, ledger.locks) /\ BeyondKept(Chain, t)
<1> DEFINE st == [NoStats EXCEPT !.registered = TRUE]
           t == SetStats(Chain, a, st)
           stats == [rep.ReputationStats EXCEPT ![a] = st]
<1>1. st \in ReputationData /\ NoStats \in ReputationData
  <2>1. 0 \in U32 /\ 0 \in Permill
    BY RepAssumption DEF U32, Permill
  <2> QED BY <2>1 DEF NoStats, ReputationData
<1>2. Commit(t) /\ rep.ReputationStats[a] = NoStats
  BY DEF RegisterUser, RuntimeInv, Newcomers
<1>3. Chain \in ChainState /\ Chain.rep = rep /\ Chain.ok /\ Chain.ledger = ledger
  BY ChainType DEF RuntimeInv
<1>4. /\ st.registered /\ SameEarned(NoStats, st)
      /\ st.projects_completed = NoStats.projects_completed /\ st.total_earned = NoStats.total_earned
      /\ st.disputes_won = NoStats.disputes_won /\ st.disputes_lost = NoStats.disputes_lost
  BY DEF NoStats, SameEarned
<1> HIDE DEF st
<1>5. CalculateTier(st) = CalculateTier(rep.ReputationStats[a])
  BY <1>1, <1>2, <1>4, SameTier
<1>6. /\ Reports(Chain, t) /\ t.ok = Chain.ok
      /\ t.rep.ReputationStats = stats
      /\ t.rep.JurorTiers = rep.JurorTiers
      /\ t.rep.JurorRegistry = rep.JurorRegistry
      /\ t.rep.Attestations = rep.Attestations
  <2> DEFINE c == Chain
  <2>1. c \in ChainState /\ c.rep = rep
    BY <1>3
  <2> HIDE DEF c
  <2>2. /\ Reports(c, SetStats(c, a, st)) /\ SetStats(c, a, st).ok = c.ok
        /\ SetStats(c, a, st).rep.ReputationStats = [c.rep.ReputationStats EXCEPT ![a] = st]
        /\ SetStats(c, a, st).rep.JurorTiers = c.rep.JurorTiers
        /\ SetStats(c, a, st).rep.JurorRegistry = c.rep.JurorRegistry
        /\ SetStats(c, a, st).rep.Attestations = c.rep.Attestations
    BY ONLY <1>1, <2>1, SetStatsReports
  <2> QED BY ONLY <2>1, <2>2 DEF c
<1> HIDE DEF t
<1>7. rep.ReputationStats \in [Accounts -> ReputationData] /\ rep.JurorRegistry \subseteq Accounts
  BY <1>3, RepFields
<1>8. \A b \in Accounts : stats[b] = IF b = a THEN st ELSE rep.ReputationStats[b]
  BY <1>7
<1> HIDE DEF stats
<1>9. TiersBut(rep, {}) => TiersBut(t.rep, {})
  BY <1>5, <1>6, <1>7, <1>8 DEF TiersBut
<1>10. Recorded(Chain, t, stats, rep.Attestations) /\ t.ok
  BY <1>3, <1>6, <1>9 DEF Recorded
<1>11. \A b \in Accounts : /\ stats[b].registered \/ stats[b] = Stats(Chain, b)
                           /\ Stats(Chain, b).registered => stats[b].registered
                           /\ SameEarned(Stats(Chain, b), stats[b])
  BY <1>2, <1>3, <1>4, <1>8 DEF Stats, SameEarned
<1>12. Sustains(Chain, t)
  BY <1>10, <1>11, RecordedSustains
<1>13. OwnsKept(Chain, t) /\ BeyondKept(Chain, t) /\ t.ledger.locks = ledger.locks
  BY <1>3, <1>6, ReportsKeeps
<1>14. \A b \in Accounts : SameEarned(Stats(Chain, b), Stats(t, b))
  BY <1>6, <1>11 DEF Stats
<1>15. Quiet(Chain, t, ledger.locks)
  BY <1>3, <1>6, <1>12, <1>13, <1>14 DEF Quiet
<1> QED BY <1>2, <1>13, <1>15

\* register_as_juror: reserve and stake appear together.
LEMMA JurorJoinsEffect ==
  ASSUME RuntimeInv, NEW a \in Accounts, RegisterAsJuror(a)
  PROVE  \E t : Commit(t) /\ Quiet(Chain, t, ledger.locks) /\ BeyondKept(Chain, t)
<1>1. PICK t : Commit(t) /\ Joined(Chain, t, a)
  BY RegisterAsJurorEffect DEF RuntimeInv
<1>2. Chain \in ChainState /\ Chain.rep = rep /\ Chain.ledger = ledger /\ Chain.ok
  BY ChainType DEF RuntimeInv
<1>3. Keeps(Chain, t) /\ t \in ChainState
  BY <1>1, <1>2 DEF Keeps, Joined
<1>4. ASSUME NEW b \in Accounts
      PROVE  /\ Beyond(t, b) = Beyond(Chain, b) /\ Owns(t, b) = Owns(Chain, b)
             /\ StakedIff(rep, b) => StakedIff(t.rep, b)
  <2>1. CASE b # a
    <3>1. SameHoldings(Chain, t, b)
      BY <1>1, <2>1 DEF Joined
    <3> QED BY <1>2, <3>1 DEF SameHoldings, StakeFrom, StakedIff, Beyond, Owns
  <2>2. CASE b = a
    <3>1. StakeFrom(rep, a) = 0
      BY <1>1, <1>2 DEF RuntimeInv, StakedIff, StakeFrom, Joined
    <3>2. JurorStake \in Nat /\ JurorStake # None
      BY RepAssumption
    <3>3. StakeFrom(t.rep, a) = JurorStake /\ StakedIff(t.rep, a)
      BY <1>1, <3>2 DEF StakeFrom, StakedIff, Joined
    <3>4. /\ t.ledger.reserved[a] = ledger.reserved[a] + JurorStake
          /\ t.ledger.free[a] = ledger.free[a] - JurorStake
      BY <1>1, <1>2 DEF Joined
    <3>5. ledger.reserved[a] \in Int /\ ledger.free[a] \in Int
      BY <1>2, StakeFromType
    <3>6. Beyond(t, a) = Beyond(Chain, a)
      BY <1>2, <3>1, <3>2, <3>3, <3>4, <3>5 DEF Beyond
    <3>7. Owns(t, a) = Owns(Chain, a)
      BY <1>2, <3>2, <3>4, <3>5 DEF Owns
    <3> QED BY <2>2, <3>3, <3>6, <3>7
  <2> QED BY <2>1, <2>2
<1>5. TiersBut(rep, {}) => TiersBut(t.rep, {})
  <2> SUFFICES ASSUME TiersBut(rep, {}), NEW b \in t.rep.JurorRegistry
               PROVE  t.rep.JurorTiers[b] <= CalculateTier(t.rep.ReputationStats[b])
    BY DEF TiersBut
  <2>1. b \in Accounts
    BY <1>3, RepFields
  <2>2. CASE b = a
    <3>1. t.rep.JurorTiers[a] = CalculateTier(t.rep.ReputationStats[a])
      BY <1>1 DEF Joined
    <3>2. CalculateTier(t.rep.ReputationStats[a]) \in Int
      BY <1>3, RepFields, CalculateTierType DEF Tiers, Ineligible, Gold
    <3> QED BY <2>2, <3>1, <3>2
  <2>3. CASE b # a
    <3>1. SameHoldings(Chain, t, b) /\ t.rep.JurorTiers[b] = rep.JurorTiers[b]
          /\ t.rep.ReputationStats = rep.ReputationStats
      BY <1>1, <1>2, <2>1, <2>3 DEF Joined
    <3>2. b \in rep.JurorRegistry
      BY <1>2, <3>1 DEF SameHoldings
    <3> QED BY <3>1, <3>2 DEF TiersBut
  <2> QED BY <2>2, <2>3
<1>6. /\ t.rep.ReputationStats = rep.ReputationStats /\ t.rep.Attestations = rep.Attestations
      /\ t.ledger.locks = ledger.locks /\ t.ok
  BY <1>1, <1>2 DEF Joined
<1>7. Sustains(Chain, t)
  BY <1>2, <1>3, <1>4, <1>5, <1>6 DEF Sustains, Stats
<1>8. \A b \in Accounts : SameEarned(Stats(Chain, b), Stats(t, b))
  BY <1>2, <1>6 DEF SameEarned, Stats
<1>9. Quiet(Chain, t, ledger.locks) /\ BeyondKept(Chain, t)
  BY <1>2, <1>4, <1>6, <1>7, <1>8 DEF Quiet, OwnsKept, BeyondKept
<1> QED BY <1>1, <1>9

\* deregister_as_juror: reserve and stake disappear together.
LEMMA JurorLeavesEffect ==
  ASSUME RuntimeInv, NEW a \in Accounts, DeregisterAsJuror(a)
  PROVE  \E t : Commit(t) /\ Quiet(Chain, t, ledger.locks) /\ BeyondKept(Chain, t)
<1>1. PICK t : Commit(t) /\ Rehomed(Chain, t, a) /\ t.ok
  BY DeregisterAsJurorEffect DEF RuntimeInv
<1>2. Chain \in ChainState /\ Chain.rep = rep /\ Chain.ledger = ledger /\ Chain.ok
  BY ChainType DEF RuntimeInv
<1>3. Reports(Chain, t)
  BY <1>1, <1>2, RehomedUndisturbed
<1>4. /\ t \in ChainState /\ Keeps(Chain, t) /\ OwnsKept(Chain, t) /\ BeyondKept(Chain, t)
      /\ t.ledger.locks = ledger.locks
  BY <1>2, <1>3, ReportsKeeps
<1>5. TiersBut(rep, {}) => TiersBut(t.rep, {})
  <2> SUFFICES ASSUME TiersBut(rep, {}), NEW b \in t.rep.JurorRegistry
               PROVE  t.rep.JurorTiers[b] <= CalculateTier(t.rep.ReputationStats[b])
    BY DEF TiersBut
  <2>1. b \in Accounts
    BY <1>4, RepFields
  <2>2. CASE b = a
    <3>1. t.rep.JurorTiers[a] = CalculateTier(t.rep.ReputationStats[a])
      BY <1>1, <2>2 DEF Rehomed, Departed, Placed
    <3>2. CalculateTier(t.rep.ReputationStats[a]) \in Int
      BY <1>4, RepFields, CalculateTierType DEF Tiers, Ineligible, Gold
    <3> QED BY <2>2, <3>1, <3>2
  <2>3. CASE b # a
    <3>1. SameHoldings(Chain, t, b) /\ t.rep.JurorTiers[b] = rep.JurorTiers[b]
          /\ t.rep.ReputationStats = rep.ReputationStats
      BY <1>1, <1>2, <2>1, <2>3 DEF Rehomed
    <3>2. b \in rep.JurorRegistry
      BY <1>2, <3>1 DEF SameHoldings
    <3> QED BY <3>1, <3>2 DEF TiersBut
  <2> QED BY <2>2, <2>3
<1>6. t.rep.ReputationStats = rep.ReputationStats /\ t.rep.Attestations = rep.Attestations
  BY <1>1, <1>2 DEF Rehomed
<1>7. \A b \in Accounts : StakedIff(rep, b) => StakedIff(t.rep, b)
  BY <1>2, <1>3 DEF Reports, Undisturbed
<1>8. Sustains(Chain, t)
  BY <1>1, <1>2, <1>4, <1>5, <1>6, <1>7 DEF Sustains, Stats
<1>9. \A b \in Accounts : SameEarned(Stats(Chain, b), Stats(t, b))
  BY <1>2, <1>6 DEF SameEarned, Stats
<1>10. Quiet(Chain, t, ledger.locks)
  BY <1>2, <1>4, <1>6, <1>8, <1>9 DEF Quiet
<1> QED BY <1>1, <1>4, <1>10

\* What b has reserved beyond its stake when who has bonded v.
Bonding(s, who, v, b) == Beyond(s, b) + (IF b = who THEN v ELSE 0)

\* A bond is reserved.
LEMMA BondEffect ==
  ASSUME NEW s \in ChainState, NEW who \in Accounts, NEW v \in Nat, NEW t,
         t = Reserve(s, who, v), t.ok
  PROVE  /\ Quiet(s, t, s.ledger.locks) /\ t.rep = s.rep
         /\ \A b \in Accounts : Beyond(t, b) = Bonding(s, who, v, b)
<1>1. /\ t \in ChainState /\ (t.ok => s.ok) /\ t.rep = s.rep
      /\ t.ledger.free = [s.ledger.free EXCEPT ![who] = @ - v]
      /\ t.ledger.reserved = [s.ledger.reserved EXCEPT ![who] = @ + v]
      /\ t.ledger.locks = s.ledger.locks
      /\ s.ledger \in Ledger /\ t.ok => t.ledger \in Ledger
  BY ReserveType
<1>2. s.ledger.free \in Entries /\ s.ledger.reserved \in Entries
  BY LedgerFields
<1>3. Sustains(s, t)
  <2>1. Keeps(s, t)
    BY <1>1 DEF Keeps
  <2> QED BY <1>1, <2>1, CurrencySustains
<1>4. ASSUME NEW b \in Accounts
      PROVE  /\ t.ledger.free[b] = IF b = who THEN s.ledger.free[b] - v ELSE s.ledger.free[b]
             /\ t.ledger.reserved[b] = IF b = who THEN s.ledger.reserved[b] + v ELSE s.ledger.reserved[b]
             /\ s.ledger.free[b] \in Int /\ s.ledger.reserved[b] \in Int
  BY <1>1, <1>2 DEF Entries
<1>5. ASSUME NEW b \in Accounts
      PROVE  Owns(t, b) = Owns(s, b)
  BY <1>4 DEF Owns
<1>6. ASSUME NEW b \in Accounts
      PROVE  Beyond(t, b) = Bonding(s, who, v, b)
  <2>1. StakeFrom(s.rep, b) \in Int
    BY StakeFromType
  <2> QED BY <1>1, <1>4, <2>1 DEF Beyond, Bonding
<1>7. \A b \in Accounts : SameEarned(Stats(s, b), Stats(t, b))
  BY <1>1 DEF SameEarned, Stats
<1> QED BY <1>1, <1>3, <1>5, <1>6, <1>7 DEF Quiet, OwnsKept

\* Storing where the selection stopped changes nothing else.
LEMMA IndexWritten ==
  ASSUME NEW s \in ChainState, s.ok, NEW next \in [PoolTiers -> Nat], NEW t,
         t = [s EXCEPT !.rep.NextJurorIndex = next]
  PROVE  /\ Quiet(s, t, s.ledger.locks) /\ t.ok
         /\ \A b \in Accounts : Beyond(t, b) = Beyond(s, b)
<1> DEFINE r == [s.rep EXCEPT !.NextJurorIndex = next]
<1>1. t = OnRep(s, s.ok, r)
  BY DEF OnRep, ChainState
<1>2. /\ r \in RepStorage /\ r.JurorRegistry = s.rep.JurorRegistry /\ r.StakeOf = s.rep.StakeOf
      /\ r.ReputationStats = s.rep.ReputationStats /\ r.JurorTiers = s.rep.JurorTiers
      /\ r.Jurors = s.rep.Jurors /\ r.Attestations = s.rep.Attestations
  BY DEF ChainState, RepStorage
<1> HIDE DEF r
<1>3. t \in ChainState /\ t.ok = s.ok /\ t.ledger = s.ledger /\ t.rep = r
  <2>1. t \in ChainState
    <3>1. s.ok \in BOOLEAN
      BY LedgerFields
    <3> QED BY ONLY <1>1, <1>2, <3>1, OnRepType
  <2>2. t.ok = s.ok /\ t.ledger = s.ledger /\ t.rep = r
    BY ONLY <1>1 DEF OnRep
  <2> QED BY <2>1, <2>2
<1>4. PoolsOf(s.rep) => PoolsOf(t.rep)
  BY <1>2, <1>3 DEF PoolsOf
<1>5. Keeps(s, t)
  BY <1>3, <1>4 DEF Keeps
<1>6. TiersBut(s.rep, {}) => TiersBut(t.rep, {})
  BY <1>2, <1>3 DEF TiersBut
<1>7. \A b \in Accounts : Stats(t, b) = Stats(s, b) /\ (StakedIff(s.rep, b) => StakedIff(t.rep, b))
  BY <1>2, <1>3 DEF Stats, StakedIff
<1>8. Sustains(s, t)
  BY <1>3, <1>5, <1>6, <1>7 DEF Sustains
<1>9. \A b \in Accounts : Owns(t, b) = Owns(s, b) /\ Beyond(t, b) = Beyond(s, b)
  BY <1>2, <1>3 DEF Owns, Beyond, StakeFrom
<1>10. \A b \in Accounts : SameEarned(Stats(s, b), Stats(t, b))
  BY <1>7 DEF SameEarned
<1> QED BY <1>2, <1>3, <1>8, <1>9, <1>10 DEF Quiet, OwnsKept

\* Quiet calls can be chained.
LEMMA QuietTransitive ==
  ASSUME NEW s, NEW t, NEW u, NEW locks, NEW more, Quiet(s, t, locks), Quiet(t, u, more)
  PROVE  Quiet(s, u, more)
<1>1. Sustains(s, u)
  BY SustainsTransitive DEF Quiet
<1>2. OwnsKept(s, u)
  BY DEF Quiet, OwnsKept
<1>3. \A a \in Accounts : SameEarned(Stats(s, a), Stats(u, a))
  BY DEF Quiet, SameEarned
<1> QED BY <1>1, <1>2, <1>3 DEF Quiet

\* The bond of an appeal, and where the selection of its jury stopped.
Appealed(s, who, v, next) == [Reserve(s, who, v) EXCEPT !.rep.NextJurorIndex = next]

\* appeal_ruling on the chain: a bond, and nothing else that matters to money.
LEMMA AppealEffect ==
  ASSUME NEW s \in ChainState, NEW who \in Accounts, NEW v \in Nat,
         NEW next \in [PoolTiers -> Nat], NEW t, t = Appealed(s, who, v, next), t.ok
  PROVE  /\ Quiet(s, t, s.ledger.locks)
         /\ \A b \in Accounts : Beyond(t, b) = Bonding(s, who, v, b)
<1> DEFINE u == Reserve(s, who, v)
<1>1. u \in ChainState
  BY ReserveType
<1>2. t = [u EXCEPT !.rep.NextJurorIndex = next]
  BY DEF Appealed
<1>3. u.ok
  BY <1>1, <1>2 DEF ChainState
<1>4. /\ Quiet(s, u, s.ledger.locks) /\ u.rep = s.rep
      /\ \A b \in Accounts : Beyond(u, b) = Bonding(s, who, v, b)
  BY <1>3, BondEffect
<1> HIDE DEF u
<1>5. /\ Quiet(u, t, u.ledger.locks) /\ t.ok
      /\ \A b \in Accounts : Beyond(t, b) = Beyond(u, b)
  BY ONLY <1>1, <1>2, <1>3, next \in [PoolTiers -> Nat], IndexWritten
<1>6. Quiet(u, t, s.ledger.locks)
  BY <1>4, <1>5 DEF Quiet
<1>7. Quiet(s, t, s.ledger.locks)
  BY <1>4, <1>6, QuietTransitive
<1> QED BY <1>4, <1>5, <1>7

\* finalize_round: votes are counted.
LEMMA FinalizeEffect ==
  ASSUME RuntimeInv, NEW votes, DOMAIN votes \in SUBSET Accounts
  PROVE  LET t == RecordVotes(votes)
         IN  Quiet(Chain, t, ledger.locks) /\ BeyondKept(Chain, t)
<1> DEFINE t == RecordVotes(votes)
<1>1. Chain \in ChainState /\ Chain.rep = rep /\ Chain.ledger = ledger /\ Chain.ok
  BY ChainType DEF RuntimeInv
<1>2. VotesCounted(Chain, t)
  BY <1>1, RecordVotesEffect
<1> HIDE DEF t
<1>3. Reports(Chain, t) /\ t.ok /\ t.rep.Attestations = Chain.rep.Attestations
      /\ (TiersBut(Chain.rep, {}) => TiersBut(t.rep, {}))
  BY <1>2 DEF VotesCounted
<1>4. /\ Keeps(Chain, t) /\ OwnsKept(Chain, t) /\ BeyondKept(Chain, t)
      /\ t.ledger.locks = Chain.ledger.locks
  BY <1>1, <1>3, ReportsKeeps
<1>5. ASSUME NEW b \in Accounts
      PROVE  /\ SameEarned(Stats(Chain, b), Stats(t, b))
             /\ Stats(t, b).registered \/ Stats(t, b) = Stats(Chain, b)
             /\ Stats(Chain, b).registered => Stats(t, b).registered
  <2>1. SameCredit(Stats(Chain, b), Stats(t, b))
    BY <1>2 DEF VotesCounted
  <2> QED BY <2>1 DEF SameCredit, SameEarned
<1>6. \A b \in Accounts : StakedIff(Chain.rep, b) => StakedIff(t.rep, b)
  BY <1>3 DEF Reports, Undisturbed
<1>7. Sustains(Chain, t)
  BY <1>3, <1>4, <1>5, <1>6 DEF Sustains
<1> QED BY <1>1, <1>3, <1>4, <1>5, <1>7 DEF Quiet, t

-------------------------------------------------------------------------------
(* Calls that pay *)

\* From s to t money may move, but no lock, attestation or credit changes.
Calm(s, t) ==
    /\ Sustains(s, t)
    /\ t.ledger.locks = s.ledger.locks
    /\ t.rep.Attestations = s.rep.Attestations
    /\ \A a \in Accounts : SameEarned(Stats(s, a), Stats(t, a))

\* f is credited with a project of value v, and nobody else.
Credited(s, t, f, v) ==
    \A a \in Accounts :
      IF a = f
      THEN /\ Stats(t, a).total_earned = Stats(s, a).total_earned + v
           /\ Stats(t, a).total_ratings_received = Sat(Stats(s, a).total_ratings_received + 1)
      ELSE SameEarned(Stats(s, a), Stats(t, a))

\* From s to t the lock id of c is lifted and f credited with project p of value v.
Closes(s, t, id, c, f, v, p) ==
    /\ Sustains(s, t)
    /\ t.ledger.locks = [s.ledger.locks EXCEPT ![c] = [@ EXCEPT ![id] = 0]]
    /\ t.rep.Attestations = s.rep.Attestations \cup {<<f, p>>}
    /\ Credited(s, t, f, v)

\* Calm calls can be chained.
LEMMA CalmTransitive ==
  ASSUME NEW s, NEW t, NEW u, Calm(s, t), Calm(t, u)
  PROVE  Calm(s, u)
<1>1. Sustains(s, u)
  BY SustainsTransitive DEF Calm
<1>2. \A a \in Accounts : SameEarned(Stats(s, a), Stats(u, a))
  BY DEF Calm, SameEarned
<1> QED BY <1>1, <1>2 DEF Calm

\* They may follow a payment.
LEMMA ThenCalm ==
  ASSUME NEW s, NEW t, NEW u, NEW id, NEW c, NEW f, NEW v, NEW p,
         Closes(s, t, id, c, f, v, p), Calm(t, u)
  PROVE  Closes(s, u, id, c, f, v, p)
<1>1. Sustains(s, u)
  BY SustainsTransitive DEF Calm, Closes
<1>2. ASSUME NEW a \in Accounts
      PROVE  IF a = f
             THEN /\ Stats(u, a).total_earned = Stats(s, a).total_earned + v
                  /\ Stats(u, a).total_ratings_received = Sat(Stats(s, a).total_ratings_received + 1)
             ELSE SameEarned(Stats(s, a), Stats(u, a))
  <2>1. /\ Stats(u, a).total_earned = Stats(t, a).total_earned
        /\ Stats(u, a).total_ratings_received = Stats(t, a).total_ratings_received
    BY DEF Calm, SameEarned
  <2>2. IF a = f
        THEN /\ Stats(t, a).total_earned = Stats(s, a).total_earned + v
             /\ Stats(t, a).total_ratings_received = Sat(Stats(s, a).total_ratings_received + 1)
        ELSE SameEarned(Stats(s, a), Stats(t, a))
    BY DEF Closes, Credited
  <2> QED BY <2>1, <2>2 DEF SameEarned
<1> QED BY <1>1, <1>2 DEF Closes, Calm, Credited

\* Moving balances is calm.
LEMMA BalancesCalm ==
  ASSUME NEW s \in ChainState, NEW t, BalancesOnly(s, t), t.ok
  PROVE  Calm(s, t)
<1>1. Keeps(s, t) /\ t.rep = s.rep /\ t.ledger.locks = s.ledger.locks
  BY BalancesOnlyKeeps DEF BalancesOnly
<1>2. Sustains(s, t)
  BY <1>1, CurrencySustains
<1> QED BY <1>1, <1>2 DEF Calm, SameEarned, Stats

\* A recorded call that credits nobody is calm and quiet.
LEMMA RecordedCalm ==
  ASSUME NEW s \in ChainState, NEW t, NEW stats, Recorded(s, t, stats, s.rep.Attestations), t.ok,
         \A b \in Accounts : /\ stats[b].registered \/ stats[b] = Stats(s, b)
                             /\ Stats(s, b).registered => stats[b].registered
                             /\ SameEarned(Stats(s, b), stats[b])
  PROVE  Calm(s, t) /\ OwnsKept(s, t) /\ BeyondKept(s, t)
<1>1. Sustains(s, t)
  BY RecordedSustains
<1>2. Reports(s, t) /\ t.rep.ReputationStats = stats /\ t.rep.Attestations = s.rep.Attestations
  BY DEF Recorded
<1>3. OwnsKept(s, t) /\ BeyondKept(s, t) /\ t.ledger.locks = s.ledger.locks
  BY <1>2, ReportsKeeps
<1> QED BY <1>1, <1>2, <1>3 DEF Calm, Stats

\* on_dispute_outcome credits nobody.
LEMMA OutcomeCalm ==
  ASSUME NEW s \in ChainState, NEW a \in Accounts, NEW b \in Accounts, NEW t,
         t = OnDisputeOutcome(s, a, b), t.ok
  PROVE  Calm(s, t) /\ OwnsKept(s, t) /\ BeyondKept(s, t)
<1> DEFINE old   == s.rep.ReputationStats
           won   == [old EXCEPT ![a] = WithWin(old[a])]
           stats == Decided(old, a, b)
<1>1. Recorded(s, t, stats, s.rep.Attestations) /\ Registered(s, a) /\ Registered(s, b)
  BY OnDisputeOutcomeRecords
<1>2. old \in [Accounts -> ReputationData]
  BY RepFields
<1>3. stats = [won EXCEPT ![b] = WithLoss(won[b])]
  BY DEF Decided
<1>4. ASSUME NEW x \in ReputationData
      PROVE  /\ WithWin(x).registered = x.registered /\ SameEarned(x, WithWin(x))
             /\ WithLoss(x).registered = x.registered /\ SameEarned(x, WithLoss(x))
             /\ WithWin(x) \in ReputationData
  <2>1. 0 \in Nat
    OBVIOUS
  <2>2. WithWin(x) \in ReputationData
    BY <1>4, <2>1, CountedType
  <2> QED BY <1>4, <2>2 DEF WithWin, WithLoss, SameEarned, ReputationData
<1>5. won \in [Accounts -> ReputationData]
  BY <1>2, <1>4
<1>6. ASSUME NEW c \in Accounts
      PROVE  /\ won[c] \in ReputationData
             /\ won[c].registered = old[c].registered /\ SameEarned(old[c], won[c])
             /\ won[c] = old[c] \/ c = a
  <2>1. won[c] = IF c = a THEN WithWin(old[a]) ELSE old[c]
    BY <1>2
  <2>2. old[c] \in ReputationData
    BY <1>2
  <2> HIDE DEF won, old
  <2> QED BY <1>4, <1>5, <2>1, <2>2 DEF SameEarned
<1>7. ASSUME NEW c \in Accounts
      PROVE  /\ stats[c].registered = won[c].registered /\ SameEarned(won[c], stats[c])
             /\ stats[c] = won[c] \/ c = b
  <2>1. stats[c] = IF c = b THEN WithLoss(won[b]) ELSE won[c]
    BY <1>3, <1>5
  <2> HIDE DEF won, old, stats
  <2> QED BY <1>4, <1>6, <2>1 DEF SameEarned
<1>8. old[a].registered /\ old[b].registered
  BY <1>1 DEF Registered, Stats
<1> HIDE DEF won, stats
<1>9. \A c \in Accounts : /\ stats[c].registered \/ stats[c] = Stats(s, c)
                          /\ Stats(s, c).registered => stats[c].registered
                          /\ SameEarned(Stats(s, c), stats[c])
  <2> TAKE c \in Accounts
  <2>1. Stats(s, c) = old[c]
    BY DEF Stats
  <2> HIDE DEF old
  <2> QED BY <1>6, <1>7, <1>8, <2>1 DEF SameEarned
<1> QED BY <1>1, <1>9, RecordedCalm

\* A payment closes the project.
LEMMA PaymentCloses ==
  ASSUME NEW s \in ChainState, NEW c \in Accounts, NEW f \in Accounts,
         NEW id \in LockIds, NEW v \in Nat, NEW rating \in Nat, NEW p \in ProjectIds,
         NEW t, t = Payment(s, id, c, f, v, rating, p), t.ok
  PROVE  /\ Closes(s, t, id, c, f, v, p) /\ BeyondKept(s, t)
         /\ \A b \in Accounts : Owns(t, b) = Paying(s, c, f, v, b)
<1> DEFINE st == WithCompletion(Stats(s, f), v, rating)
<1>1. /\ Keeps(s, t) /\ BeyondKept(s, t)
      /\ \A b \in Accounts : StakedIff(s.rep, b) => StakedIff(t.rep, b)
      /\ t.ledger.locks = [s.ledger.locks EXCEPT ![c] = [@ EXCEPT ![id] = 0]]
      /\ t.rep.Attestations = s.rep.Attestations \cup {<<f, p>>}
      /\ t.rep.ReputationStats = [s.rep.ReputationStats EXCEPT ![f] = st]
      /\ t.ok => /\ \A b \in Accounts : Owns(t, b) = Paying(s, c, f, v, b)
                 /\ Registered(s, f)
                 /\ TiersBut(s.rep, {}) => TiersBut(t.rep, {})
  BY PaymentEffect
<1>2. s.rep.ReputationStats \in [Accounts -> ReputationData] /\ Stats(s, f) \in ReputationData
  BY RepFields, StatsType
<1>3. /\ st.total_earned = Stats(s, f).total_earned + v
      /\ st.total_ratings_received = Sat(Stats(s, f).total_ratings_received + 1)
      /\ st.registered
  BY <1>1, <1>2 DEF WithCompletion, ReputationData, Registered
<1> HIDE DEF st
<1>4. \A b \in Accounts : Stats(t, b) = IF b = f THEN st ELSE Stats(s, b)
  BY <1>1, <1>2 DEF Stats
<1>5. Credited(s, t, f, v)
  BY <1>3, <1>4 DEF Credited, SameEarned
<1>6. Sustains(s, t)
  BY <1>1, <1>3, <1>4 DEF Sustains
<1> QED BY <1>1, <1>5, <1>6 DEF Closes

\* accept_work: the freelancer gets the budget, the client pays it.
LEMMA AcceptedEffect ==
  ASSUME RuntimeInv, NEW c \in Accounts, NEW p \in ProjectIds, NEW rating \in Nat,
         projects[p] \in Project, projects[p].freelancer # None, Commit(Accepted(c, p, rating))
  PROVE  \E t : LET f == projects[p].freelancer
                    v == projects[p].budget
                IN  /\ Commit(t)
                    /\ Closes(Chain, t, GenerateLockId(p), c, f, v, p)
                    /\ BeyondKept(Chain, t)
                    /\ \A b \in Accounts : Owns(t, b) = Paying(Chain, c, f, v, b)
<1> DEFINE f  == projects[p].freelancer
           v  == projects[p].budget
           id == GenerateLockId(p)
           u  == Payment(Chain, id, c, f, v, rating * 1000, p)
           t  == OnWorkAccepted(u, c)
           st == WithWork(Stats(u, c))
           stats == [u.rep.ReputationStats EXCEPT ![c] = st]
<1>1. Commit(t)
  BY DEF Accepted, Payment
<1>2. Chain \in ChainState
  BY ChainType DEF RuntimeInv
<1>3. id \in LockIds /\ f \in Accounts /\ v \in Nat /\ rating * 1000 \in Nat
  BY LockIdAssumption DEF Project
<1> HIDE DEF id, f, v
<1>4. u \in ChainState
  BY <1>2, <1>3, PaymentType
<1>5. u = Payment(Chain, id, c, f, v, rating * 1000, p)
  OBVIOUS
<1> HIDE DEF u
<1>6. /\ Recorded(u, t, stats, u.rep.Attestations)
      /\ t.ok <=> u.ok /\ Registered(u, c)
  BY <1>4, OnWorkAcceptedRecords
<1>7. t.ok /\ u.ok /\ Stats(u, c).registered
  BY <1>1, <1>6 DEF Commit, Registered
<1> HIDE DEF t
<1>8. Stats(u, c) \in ReputationData /\ u.rep.ReputationStats \in [Accounts -> ReputationData]
  BY <1>4, StatsType, RepFields
<1>9. st.registered = Stats(u, c).registered /\ SameEarned(Stats(u, c), st)
  BY <1>8 DEF WithWork, SameEarned, ReputationData
<1> HIDE DEF st
<1>10. \A b \in Accounts : stats[b] = IF b = c THEN st ELSE Stats(u, b)
  BY <1>8 DEF Stats
<1> HIDE DEF stats
<1>11. \A b \in Accounts : /\ stats[b].registered \/ stats[b] = Stats(u, b)
                           /\ Stats(u, b).registered => stats[b].registered
                           /\ SameEarned(Stats(u, b), stats[b])
  BY <1>7, <1>9, <1>10 DEF SameEarned
<1>12. Calm(u, t) /\ OwnsKept(u, t) /\ BeyondKept(u, t)
  BY <1>4, <1>6, <1>7, <1>11, RecordedCalm
<1>13. /\ Closes(Chain, u, id, c, f, v, p) /\ BeyondKept(Chain, u)
       /\ \A b \in Accounts : Owns(u, b) = Paying(Chain, c, f, v, b)
  BY <1>2, <1>3, <1>7, <1>5, PaymentCloses
<1>14. Closes(Chain, t, id, c, f, v, p)
  BY <1>12, <1>13, ThenCalm
<1>15. BeyondKept(Chain, t)
  BY <1>12, <1>13, KeptTransitive
<1>16. \A b \in Accounts : Owns(t, b) = Paying(Chain, c, f, v, b)
  BY <1>12, <1>13 DEF OwnsKept
<1> QED BY <1>1, <1>14, <1>15, <1>16 DEF id, f, v

\* on_ruling: for the freelancer it pays, for the client it counts.
LEMMA RulingEffect ==
  ASSUME NEW s \in ChainState, NEW p \in ProjectIds, projects[p] \in Project,
         projects[p].freelancer # None, NEW ruling, NEW t, t = OnRuling(s, p, ruling), t.ok
  PROVE  LET c == projects[p].client
             f == projects[p].freelancer
             v == projects[p].budget
         IN  /\ BeyondKept(s, t)
             /\ ruling = "FreelancerWins" =>
                  /\ Closes(s, t, GenerateLockId(p), c, f, v, p)
                  /\ \A b \in Accounts : Owns(t, b) = Paying(s, c, f, v, b)
             /\ ruling # "FreelancerWins" => Calm(s, t) /\ OwnsKept(s, t)
<1> DEFINE c  == projects[p].client
           f  == projects[p].freelancer
           v  == projects[p].budget
           id == GenerateLockId(p)
<1>1. id \in LockIds /\ c \in Accounts /\ f \in Accounts /\ v \in Nat /\ 3000 \in Nat
  BY LockIdAssumption DEF Project
<1>2. CASE ruling = "FreelancerWins"
  <2>1. t = Payment(s, id, c, f, v, 3000, p)
    BY <1>2 DEF OnRuling, Payment
  <2> HIDE DEF id, c, f, v
  <2>2. /\ Closes(s, t, id, c, f, v, p) /\ BeyondKept(s, t)
        /\ \A b \in Accounts : Owns(t, b) = Paying(s, c, f, v, b)
    BY <1>1, <2>1, PaymentCloses
  <2> QED BY <1>2, <2>2 DEF id, c, f, v
<1>3. CASE ruling # "FreelancerWins"
  <2>1. t = OnDisputeOutcome(s, c, f)
    BY <1>3 DEF OnRuling
  <2> HIDE DEF id, c, f, v
  <2>2. Calm(s, t) /\ OwnsKept(s, t) /\ BeyondKept(s, t)
    BY <1>1, <2>1, OutcomeCalm
  <2> QED BY <1>3, <2>2
<1> QED BY <1>2, <1>3

\* An outcome that is not an error did not come from one.
LEMMA OutcomeOk ==
  ASSUME NEW s \in ChainState, NEW a \in Accounts, NEW b \in Accounts, OnDisputeOutcome(s, a, b).ok
  PROVE  s.ok
  BY OnDisputeOutcomeRecords

\* on_ruling returns a chain state.
LEMMA RulingType ==
  ASSUME NEW s \in ChainState, NEW p \in ProjectIds, projects[p] \in Project,
         projects[p].freelancer # None, NEW ruling
  PROVE  OnRuling(s, p, ruling) \in ChainState
<1> DEFINE c  == projects[p].client
           f  == projects[p].freelancer
           v  == projects[p].budget
           id == GenerateLockId(p)
<1>1. id \in LockIds /\ c \in Accounts /\ f \in Accounts /\ v \in Nat /\ 3000 \in Nat
  BY LockIdAssumption DEF Project
<1>2. OnRuling(s, p, ruling) = IF ruling = "FreelancerWins" THEN Payment(s, id, c, f, v, 3000, p)
                               ELSE OnDisputeOutcome(s, c, f)
  BY DEF OnRuling, Payment
<1> HIDE DEF id, c, f, v
<1>3. Payment(s, id, c, f, v, 3000, p) \in ChainState
  BY <1>1, PaymentType
<1>4. OnDisputeOutcome(s, c, f) \in ChainState
  <2>1. Recorded(s, OnDisputeOutcome(s, c, f), Decided(s.rep.ReputationStats, c, f), s.rep.Attestations)
    BY <1>1, OnDisputeOutcomeRecords
  <2> QED BY <2>1 DEF Recorded, Reports, Keeps
<1> QED BY <1>2, <1>3, <1>4

\* What an enforced ruling does to locks, attestations and credits.
Enforces(s, t, p, ruling) ==
    IF ruling = "FreelancerWins"
    THEN Closes(s, t, GenerateLockId(p), projects[p].client, projects[p].freelancer,
                projects[p].budget, p)
    ELSE Calm(s, t)

\* enforce_final_ruling: after the ruling itself only balances move and disputes count.
LEMMA EnforceEffect ==
  ASSUME RuntimeInv, NEW p \in ProjectIds, projects[p] \in Project,
         AppealBonds[p] \in [Rounds -> Bond \cup {None}], ArbitrationCosts[p] \in Nat,
         JurorRewards[p] \in [Accounts -> Nat], EnforceFinalRuling(p)
  PROVE  \E t : Commit(t) /\ Enforces(Chain, t, p, disputes[p].ruling)
<1> DEFINE ruling == disputes[p].ruling
           winner == Winner(p, ruling)
           loser  == Loser(p, ruling)
           s1 == OnRuling(Chain, p, ruling)
           s2 == SettleBonds(s1, p, winner)
           s3 == PayCosts(s2, p, loser)
           s4 == PayJurors(s3, p)
           t  == OnDisputeOutcome(s4, winner, loser)
<1>1. Commit(t) /\ projects[p].freelancer # None
  BY DEF EnforceFinalRuling, UpdateProject, Enforceable, HasParties
<1>2. Chain \in ChainState
  BY ChainType DEF RuntimeInv
<1>3. winner \in Accounts /\ loser \in Accounts
  BY <1>1 DEF Winner, Loser, Client, Freelancer, Project
<1>4. s1 \in ChainState
  BY <1>1, <1>2, RulingType
<1> HIDE DEF winner, loser
<1>5. s2.slashed \in Int /\ BalancesOnly(s1, s2.s)
  <2> HIDE DEF s1
  <2> QED BY <1>3, <1>4, SettleBondsType
<1>6. s2.s \in ChainState
  BY <1>5 DEF BalancesOnly
<1>a. s1 = OnRuling(Chain, p, ruling)
  OBVIOUS
<1> HIDE DEF s1, s2
<1>7. BalancesOnly(s2.s, s3)
  BY <1>3, <1>5, <1>6, PayCostsType
<1>8. s3 \in ChainState
  BY <1>7 DEF BalancesOnly
<1> HIDE DEF s3
<1>9. BalancesOnly(s3, s4)
  BY <1>8, PayJurorsEffect
<1>10. s4 \in ChainState
  BY <1>9 DEF BalancesOnly
<1> HIDE DEF s4
<1>11. t.ok /\ s4.ok
  BY <1>1, <1>3, <1>10, OutcomeOk DEF Commit
<1>12. Calm(s4, t)
  BY <1>3, <1>10, <1>11, OutcomeCalm
<1>13. BalancesOnly(s1, s4)
  BY <1>5, <1>7, <1>9, BalancesOnlyTransitive
<1>14. s1.ok
  BY <1>11, <1>13 DEF BalancesOnly
<1>15. Calm(s1, t)
  <2>1. Calm(s1, s4)
    BY <1>4, <1>11, <1>13, BalancesCalm
  <2> QED BY <1>12, <2>1, CalmTransitive
<1> HIDE DEF t, ruling
<1>16. Enforces(Chain, t, p, ruling)
  <2>1. Enforces(Chain, s1, p, ruling)
    BY <1>1, <1>2, <1>14, <1>a, RulingEffect DEF Enforces
  <2>2. CASE ruling = "FreelancerWins"
    BY <1>15, <2>1, <2>2, ThenCalm DEF Enforces
  <2>3. CASE ruling # "FreelancerWins"
    BY <1>15, <2>1, <2>3, CalmTransitive DEF Enforces
  <2> QED BY <2>2, <2>3
<1> QED BY <1>1, <1>16 DEF ruling

-------------------------------------------------------------------------------
(* Money *)

\* What b owns after x has left one account and y has reached another.
Shift(s, from, x, to, y, b) ==
    Owns(s, b) - (IF b = from THEN x ELSE 0) + (IF b = to THEN y ELSE 0)

\* All funds of a chain state together, after that.
LEMMA TotalShifts ==
  ASSUME NEW s \in ChainState, NEW t \in ChainState, NEW from \in Accounts, NEW to \in Accounts,
         NEW x \in Int, NEW y \in Int,
         \A b \in Accounts : Owns(t, b) = Shift(s, from, x, to, y, b)
  PROVE  /\ TotalIssuance(t.ledger) = TotalIssuance(s.ledger) - x + y
         /\ TotalIssuance(s.ledger) \in Int /\ TotalIssuance(t.ledger) \in Int
<1> DEFINE f == [a \in Accounts |-> s.ledger.free[a] + s.ledger.reserved[a]]
           h == [a \in Accounts |-> t.ledger.free[a] + t.ledger.reserved[a]]
           g == [f EXCEPT ![from] = @ - x]
<1>1. IsFiniteSet(Accounts)
  BY RepAssumption
<1>2. \A a \in Accounts : f[a] = Owns(s, a) /\ h[a] = Owns(t, a)
  BY DEF Owns
<1>3. \A a \in Accounts : Owns(s, a) \in Int /\ Owns(t, a) \in Int
  BY OwnsType
<1>4. \A a \in Accounts : g[a] = IF a = from THEN f[a] - x ELSE f[a]
  OBVIOUS
<1>5. TotalIssuance(s.ledger) = SumFunctionOnSet(f, Accounts)
      /\ TotalIssuance(t.ledger) = SumFunctionOnSet(h, Accounts)
  BY DEF TotalIssuance
<1> HIDE DEF f, g, h
<1>6. IntOn(f, Accounts) /\ IntOn(g, Accounts) /\ IntOn(h, Accounts)
  BY <1>2, <1>3, <1>4 DEF IntOn
<1>7. /\ SumFunctionOnSet(g, Accounts) = SumFunctionOnSet(f, Accounts) + (g[from] - f[from])
      /\ SumFunctionOnSet(f, Accounts) \in Int /\ SumFunctionOnSet(g, Accounts) \in Int
  <2>1. g[from] \in Int /\ \A a \in Accounts \ {from} : g[a] = f[a]
    BY <1>4, <1>6 DEF IntOn
  <2> QED BY <1>1, <1>6, <2>1, SumUpdate
<1>8. ASSUME NEW a \in Accounts
      PROVE  h[a] = g[a] + (IF a = to THEN y ELSE 0)
  <2>1. Owns(t, a) = Owns(s, a) - (IF a = from THEN x ELSE 0) + (IF a = to THEN y ELSE 0)
    BY DEF Shift
  <2>2. f[a] = Owns(s, a) /\ h[a] = Owns(t, a) /\ Owns(s, a) \in Int
    BY <1>2, <1>3
  <2>3. g[a] = IF a = from THEN f[a] - x ELSE f[a]
    BY <1>4
  <2> QED BY <2>1, <2>2, <2>3
<1>9. /\ SumFunctionOnSet(h, Accounts) = SumFunctionOnSet(g, Accounts) + (h[to] - g[to])
      /\ SumFunctionOnSet(h, Accounts) \in Int
  <2>1. h[to] \in Int /\ \A a \in Accounts \ {to} : h[a] = g[a]
    BY <1>6, <1>8 DEF IntOn
  <2> QED BY <1>1, <1>6, <2>1, SumUpdate
<1>10. g[from] - f[from] = 0 - x /\ h[to] - g[to] = y
  <2>1. f[from] \in Int /\ g[to] \in Int
    BY <1>6 DEF IntOn
  <2> QED BY <1>4, <1>8, <2>1
<1> QED BY <1>5, <1>7, <1>9, <1>10

\* If everybody owns the same the total is the same.
LEMMA TotalKept ==
  ASSUME NEW s \in ChainState, NEW t \in ChainState, OwnsKept(s, t)
  PROVE  TotalIssuance(t.ledger) = TotalIssuance(s.ledger)
<1> DEFINE f == [a \in Accounts |-> s.ledger.free[a] + s.ledger.reserved[a]]
           h == [a \in Accounts |-> t.ledger.free[a] + t.ledger.reserved[a]]
<1>1. f = h
  BY DEF OwnsKept, Owns
<1> QED BY <1>1 DEF TotalIssuance

\* A payment in full.
LEMMA TotalPaid ==
  ASSUME NEW s \in ChainState, NEW t \in ChainState, NEW from \in Accounts, NEW to \in Accounts,
         NEW v \in Int, \A b \in Accounts : Owns(t, b) = Paying(s, from, to, v, b)
  PROVE  TotalIssuance(t.ledger) = TotalIssuance(s.ledger)
<1>1. \A b \in Accounts : Owns(t, b) = Shift(s, from, v, to, v, b)
  BY DEF Paying, Shift
<1>2. /\ TotalIssuance(t.ledger) = TotalIssuance(s.ledger) - v + v
      /\ TotalIssuance(s.ledger) \in Int
  BY <1>1, TotalShifts
<1> QED BY <1>2

\* From s to t no money is made, and none is lost if there is no dust.
NoneMade(s, t) ==
    /\ TotalIssuance(s.ledger) \in Int /\ TotalIssuance(t.ledger) \in Int
    /\ TotalIssuance(t.ledger) <= TotalIssuance(s.ledger)
    /\ ExistentialDeposit = 1 => TotalIssuance(t.ledger) = TotalIssuance(s.ledger)

\* The total is an integer.
LEMMA TotalType ==
  ASSUME NEW s \in ChainState
  PROVE  TotalIssuance(s.ledger) \in Int
<1>1. PalletAccount \in Accounts /\ 0 \in Int
  BY ArbAssumption
<1>2. \A b \in Accounts : Owns(s, b) = Shift(s, PalletAccount, 0, PalletAccount, 0, b)
  BY OwnsType DEF Shift
<1> QED BY <1>1, <1>2, TotalShifts

\* The steps of a call can be joined.
LEMMA NoneMadeTransitive ==
  ASSUME NEW s, NEW t, NEW u, NoneMade(s, t), NoneMade(t, u)
  PROVE  NoneMade(s, u)
  BY DEF NoneMade

\* What a bond is to a, and what its settlement takes from its appellant.
BondOf(bond, a)      == IF bond # None /\ bond.appellant = a THEN bond.amount ELSE 0
SlashOf(bond, winner) == IF bond = None \/ bond.appellant = winner THEN 0 ELSE bond.amount

\* The same for the bonds of the three rounds of a dispute.
Bonded(bonds, a)      == BondOf(bonds[1], a) + BondOf(bonds[2], a) + BondOf(bonds[3], a)
Slashed(bonds, winner) == SlashOf(bonds[1], winner) + SlashOf(bonds[2], winner) + SlashOf(bonds[3], winner)
Losses(bonds, winner, a) == IF a = winner THEN 0 ELSE Bonded(bonds, a)

\* All are natural numbers.
LEMMA BondOfType ==
  ASSUME NEW bond \in Bond \cup {None}, NEW a
  PROVE  BondOf(bond, a) \in Nat /\ SlashOf(bond, a) \in Nat
  BY DEF BondOf, SlashOf, Bond

\* One bond that is there has been settled: released by its amount, returned to the
\* winner or taken from another appellant and given to the pallet's account.
BondTaken(s, u, bond, winner) ==
    /\ BalancesOnly(s, u) /\ u.ok = s.ok
    /\ \A b \in Accounts : u.ledger.reserved[b] = s.ledger.reserved[b] - BondOf(bond, b)
    /\ \A b \in Accounts \ {PalletAccount} :
         Owns(u, b) = Owns(s, b) - (IF b = winner THEN 0 ELSE BondOf(bond, b))
    /\ s.ledger \in Ledger => NoneMade(s, u)

\* The code settles a bond like that when the reserve still holds it.
LEMMA SettleBondTakes ==
  ASSUME NEW s \in ChainState, NEW slashed \in Int, NEW bond \in Bond \cup {None},
         NEW winner \in Accounts, NEW w, w = SettleBond([s |-> s, slashed |-> slashed], bond, winner),
         \A b \in Accounts : BondOf(bond, b) <= s.ledger.reserved[b]
  PROVE  /\ w = [s |-> w.s, slashed |-> slashed + SlashOf(bond, winner)]
         /\ BondTaken(s, w.s, bond, winner)
<1> DEFINE u == w.s
           x == Forfeit(s, bond, winner)
<1>1. w = [s |-> u, slashed |-> slashed + x] /\ BondSettled(s, u, bond, x)
  BY SettleBondEffect
<1>2. PalletAccount \in Accounts /\ ExistentialDeposit \in Nat
  BY ArbAssumption, BalancesAssumption
<1>3. bond # None => bond.appellant \in Accounts /\ bond.amount \in Nat
  BY DEF Bond
<1>4. bond # None => Takeable(s, bond.appellant, bond.amount) = bond.amount
  <2>1. bond # None => bond.amount <= s.ledger.reserved[bond.appellant]
    BY <1>3 DEF BondOf
  <2> QED BY <1>3, <2>1, TakeableType
<1>5. x = SlashOf(bond, winner) /\ x \in Nat
  BY <1>3, <1>4 DEF Forfeit, SlashOf
<1>6. \A b \in Accounts : Released(s, bond, b) = BondOf(bond, b)
  BY <1>4 DEF Released, BondOf
<1>7. \A b \in Accounts : LostTo(bond, b, x) = IF b = winner THEN 0 ELSE BondOf(bond, b)
  BY <1>5 DEF LostTo, BondOf, SlashOf
<1> HIDE DEF x, u
<1>8. BalancesOnly(s, u) /\ u.ok = s.ok /\ u \in ChainState
  BY <1>1 DEF BondSettled, BalancesOnly
<1>9. ASSUME NEW b \in Accounts
      PROVE  /\ u.ledger.reserved[b] = s.ledger.reserved[b] - BondOf(bond, b)
             /\ Owns(u, b) = Owns(s, b) - LostTo(bond, b, x) + GainTo(s, b, x)
  BY <1>1, <1>6 DEF BondSettled
<1>10. ASSUME NEW b \in Accounts \ {PalletAccount}
       PROVE  Owns(u, b) = Owns(s, b) - (IF b = winner THEN 0 ELSE BondOf(bond, b))
  <2>1. GainTo(s, b, x) = 0
    BY DEF GainTo
  <2>2. Owns(s, b) \in Int /\ BondOf(bond, b) \in Nat
    BY OwnsType, BondOfType
  <2> QED BY <1>7, <1>9, <2>1, <2>2
<1>11. ASSUME s.ledger \in Ledger
       PROVE  NoneMade(s, u)
  <2> DEFINE y    == Arrives(s, x)
             from == IF bond = None THEN PalletAccount ELSE bond.appellant
  <2>1. s.ledger.free[PalletAccount] \in Nat
    BY <1>2, <1>11, LedgerFields
  <2>2. y \in Int /\ y <= x /\ (ExistentialDeposit = 1 => y = x)
    BY <1>2, <1>5, <2>1 DEF Arrives
  <2>3. from \in Accounts
    BY <1>2, <1>3
  <2>4. bond = None => x = 0
    BY <1>5 DEF SlashOf
  <2>5. \A b \in Accounts : LostTo(bond, b, x) = IF b = from THEN x ELSE 0
    BY <2>4 DEF LostTo
  <2>6. \A b \in Accounts : GainTo(s, b, x) = IF b = PalletAccount THEN y ELSE 0
    BY DEF GainTo
  <2> HIDE DEF y, from
  <2>7. \A b \in Accounts : Owns(u, b) = Shift(s, from, x, PalletAccount, y, b)
    BY <1>9, <2>5, <2>6, Zenon DEF Shift
  <2>8. /\ TotalIssuance(u.ledger) = TotalIssuance(s.ledger) - x + y
        /\ TotalIssuance(s.ledger) \in Int /\ TotalIssuance(u.ledger) \in Int
    BY <1>2, <1>5, <1>8, <2>2, <2>3, <2>7, TotalShifts
  <2> QED BY <1>5, <2>2, <2>8 DEF NoneMade
<1>12. BondTaken(s, u, bond, winner)
  BY <1>8, <1>9, <1>10, <1>11 DEF BondTaken
<1> QED BY <1>1, <1>5, <1>12 DEF u

\* The bonds of a dispute have been settled, all of them.
BondsTaken(s, u, bonds, winner) ==
    /\ BalancesOnly(s, u) /\ u.ok = s.ok
    /\ \A b \in Accounts : u.ledger.reserved[b] = s.ledger.reserved[b] - Bonded(bonds, b)
    /\ \A b \in Accounts \ {PalletAccount} : Owns(u, b) = Owns(s, b) - Losses(bonds, winner, b)
    /\ NoneMade(s, u)

\* settle_appeal_bonds does that if every reserve holds the bonds.
LEMMA SettleBondsTakes ==
  ASSUME NEW s \in ChainState, s.ok, s.ledger \in Ledger, NEW p \in ProjectIds, NEW winner \in Accounts,
         AppealBonds[p] \in [Rounds -> Bond \cup {None}],
         \A b \in Accounts : Bonded(AppealBonds[p], b) <= s.ledger.reserved[b]
  PROVE  LET u == SettleBonds(s, p, winner)
         IN  u.slashed = Slashed(AppealBonds[p], winner) /\ BondsTaken(s, u.s, AppealBonds[p], winner)
<1> DEFINE bs == AppealBonds[p]
           n  == [s |-> s, slashed |-> 0]
           u1 == SettleBond(n, bs[1], winner)
           u2 == SettleBond(u1, bs[2], winner)
           u3 == SettleBond(u2, bs[3], winner)
<1>1. bs[1] \in Bond \cup {None} /\ bs[2] \in Bond \cup {None} /\ bs[3] \in Bond \cup {None}
  BY DEF Rounds
<1>2. SettleBonds(s, p, winner) = u3
  BY DEF SettleBonds
<1>3. \A a : /\ Bonded(bs, a) = BondOf(bs[1], a) + BondOf(bs[2], a) + BondOf(bs[3], a)
             /\ BondOf(bs[1], a) \in Nat /\ BondOf(bs[2], a) \in Nat /\ BondOf(bs[3], a) \in Nat
             /\ SlashOf(bs[1], a) \in Nat /\ SlashOf(bs[2], a) \in Nat /\ SlashOf(bs[3], a) \in Nat
  BY <1>1, BondOfType DEF Bonded
<1>4. \A a : Bonded(bs, a) \in Nat
  BY <1>3
<1>5. \A b \in Accounts : s.ledger.reserved[b] \in Int /\ Bonded(bs, b) <= s.ledger.reserved[b]
  BY StakeFromType
<1>z. 0 \in Int
  OBVIOUS
<1> HIDE DEF bs
<1>6. ASSUME NEW b \in Accounts
      PROVE  BondOf(bs[1], b) <= s.ledger.reserved[b]
  <2>1. /\ Bonded(bs, b) = BondOf(bs[1], b) + BondOf(bs[2], b) + BondOf(bs[3], b)
        /\ BondOf(bs[1], b) \in Nat /\ BondOf(bs[2], b) \in Nat /\ BondOf(bs[3], b) \in Nat
    BY <1>3
  <2> QED BY <1>5, <2>1
<1>7. u1 = [s |-> u1.s, slashed |-> 0 + SlashOf(bs[1], winner)] /\ BondTaken(s, u1.s, bs[1], winner)
  BY <1>1, <1>6, <1>z, SettleBondTakes
<1> HIDE DEF u1
<1>8. /\ u1.s \in ChainState /\ u1.s.ok /\ u1.s.ledger \in Ledger
      /\ \A b \in Accounts : u1.s.ledger.reserved[b] = s.ledger.reserved[b] - BondOf(bs[1], b)
  BY <1>7 DEF BondTaken, BalancesOnly
<1>9. ASSUME NEW b \in Accounts
      PROVE  BondOf(bs[2], b) <= u1.s.ledger.reserved[b]
  <2>1. /\ Bonded(bs, b) = BondOf(bs[1], b) + BondOf(bs[2], b) + BondOf(bs[3], b)
        /\ BondOf(bs[1], b) \in Nat /\ BondOf(bs[2], b) \in Nat /\ BondOf(bs[3], b) \in Nat
    BY <1>3
  <2> QED BY <1>5, <1>8, <2>1
<1>10. 0 + SlashOf(bs[1], winner) \in Int
  BY <1>3
<1>11. /\ u2 = [s |-> u2.s, slashed |-> (0 + SlashOf(bs[1], winner)) + SlashOf(bs[2], winner)]
       /\ BondTaken(u1.s, u2.s, bs[2], winner)
  BY <1>1, <1>7, <1>8, <1>9, <1>10, SettleBondTakes
<1> HIDE DEF u2
<1>12. /\ u2.s \in ChainState /\ u2.s.ok /\ u2.s.ledger \in Ledger
       /\ \A b \in Accounts : u2.s.ledger.reserved[b] = u1.s.ledger.reserved[b] - BondOf(bs[2], b)
  BY <1>8, <1>11 DEF BondTaken, BalancesOnly
<1>13. ASSUME NEW b \in Accounts
       PROVE  BondOf(bs[3], b) <= u2.s.ledger.reserved[b]
  <2>1. /\ Bonded(bs, b) = BondOf(bs[1], b) + BondOf(bs[2], b) + BondOf(bs[3], b)
        /\ BondOf(bs[1], b) \in Nat /\ BondOf(bs[2], b) \in Nat /\ BondOf(bs[3], b) \in Nat
    BY <1>3
  <2> QED BY <1>5, <1>8, <1>12, <2>1
<1>14. (0 + SlashOf(bs[1], winner)) + SlashOf(bs[2], winner) \in Int
  BY <1>3
<1>15. /\ u3 = [s |-> u3.s, slashed |-> ((0 + SlashOf(bs[1], winner)) + SlashOf(bs[2], winner))
                                         + SlashOf(bs[3], winner)]
       /\ BondTaken(u2.s, u3.s, bs[3], winner)
  BY <1>1, <1>11, <1>12, <1>13, <1>14, SettleBondTakes
<1> HIDE DEF u3
<1>16. u3.slashed = Slashed(bs, winner)
  <2>1. u3.slashed = ((0 + SlashOf(bs[1], winner)) + SlashOf(bs[2], winner)) + SlashOf(bs[3], winner)
    BY <1>15
  <2> QED BY <1>3, <2>1 DEF Slashed
<1>17. BalancesOnly(s, u3.s) /\ u3.s.ok = s.ok
  BY <1>7, <1>11, <1>15, BalancesOnlyTransitive DEF BondTaken
<1>18. NoneMade(s, u3.s)
  BY <1>7, <1>8, <1>11, <1>12, <1>15, NoneMadeTransitive DEF BondTaken
<1>19. ASSUME NEW b \in Accounts
       PROVE  u3.s.ledger.reserved[b] = s.ledger.reserved[b] - Bonded(bs, b)
  <2>1. u3.s.ledger.reserved[b] = u2.s.ledger.reserved[b] - BondOf(bs[3], b)
    BY <1>15 DEF BondTaken
  <2> QED BY <1>3, <1>5, <1>8, <1>12, <2>1
<1>20. ASSUME NEW b \in Accounts \ {PalletAccount}
       PROVE  Owns(u3.s, b) = Owns(s, b) - Losses(bs, winner, b)
  <2>1. /\ Owns(u1.s, b) = Owns(s, b) - (IF b = winner THEN 0 ELSE BondOf(bs[1], b))
        /\ Owns(u2.s, b) = Owns(u1.s, b) - (IF b = winner THEN 0 ELSE BondOf(bs[2], b))
        /\ Owns(u3.s, b) = Owns(u2.s, b) - (IF b = winner THEN 0 ELSE BondOf(bs[3], b))
    BY <1>7, <1>11, <1>15 DEF BondTaken
  <2>2. Owns(s, b) \in Int
    BY OwnsType
  <2> QED BY <1>3, <2>1, <2>2 DEF Losses
<1> QED BY <1>2, <1>16, <1>17, <1>18, <1>19, <1>20 DEF BondsTaken, bs

\* What the bonds leave of the costs.
CostsOwed(cost, slashed) == IF cost > slashed THEN cost - slashed ELSE 0

\* The costs have been paid or not: only the loser pays, at most what is owed and what
\* the currency takes from an account it closes.
CostsPaid(s, u, loser, owed) ==
    /\ BalancesOnly(s, u) /\ u.ledger.reserved = s.ledger.reserved
    /\ NoneMade(s, u) /\ u.ok
    /\ \A b \in Accounts \ {loser, PalletAccount} : Owns(u, b) = Owns(s, b)
    /\ loser # PalletAccount => Owns(u, loser) >= Owns(s, loser) - owed - (ExistentialDeposit - 1)

\* collect_arbitration_costs does that.
LEMMA PayCostsEffect ==
  ASSUME NEW t, t.s \in ChainState, t.s.ok, t.s.ledger \in Ledger, t.slashed \in Int,
         NEW p \in ProjectIds, NEW loser \in Accounts, ArbitrationCosts[p] \in Nat
  PROVE  CostsPaid(t.s, PayCosts(t, p, loser), loser, CostsOwed(ArbitrationCosts[p], t.slashed))
<1> DEFINE s    == t.s
           cost == ArbitrationCosts[p]
           owed == cost - t.slashed
           paid == Transfer(s, loser, PalletAccount, owed, FALSE)
           u    == PayCosts(t, p, loser)
<1>1. BalancesOnly(s, u)
  BY PayCostsType
<1>2. PalletAccount \in Accounts /\ ExistentialDeposit \in Nat \ {0}
  BY ArbAssumption, BalancesAssumption
<1>3. \A b \in Accounts : Owns(s, b) \in Int /\ s.ledger.free[b] \in Nat /\ s.ledger.reserved[b] \in Nat
  BY OwnsType, LedgerFields
<1>4. CostsOwed(cost, t.slashed) \in Nat
  BY DEF CostsOwed
<1>5. ASSUME u = s
      PROVE  CostsPaid(s, u, loser, CostsOwed(cost, t.slashed))
  <2>1. NoneMade(s, u)
    BY <1>5, TotalType DEF NoneMade
  <2>2. Owns(s, loser) >= Owns(s, loser) - CostsOwed(cost, t.slashed) - (ExistentialDeposit - 1)
    <3>1. Owns(s, loser) \in Int
      BY <1>3
    <3> HIDE DEF s, cost
    <3> QED BY <1>2, <1>4, <3>1
  <2> HIDE DEF s, u, cost
  <2> QED BY <1>1, <1>5, <2>1, <2>2 DEF CostsPaid, s
<1>6. CASE cost > t.slashed /\ paid.ok
  <2>1. u = paid /\ CostsOwed(cost, t.slashed) = owed
    BY <1>6 DEF PayCosts, CostsOwed
  <2>2. owed \in Nat /\ owed # 0 /\ FALSE \in BOOLEAN
    BY <1>6
  <2> HIDE DEF s, owed, u
  <2>3. Moved(s, paid, loser, PalletAccount, owed)
    BY <1>2, <2>2, TransferEffect, Zenon DEF s
  <2>4. u \in ChainState /\ u.ok /\ u.ledger.reserved = s.ledger.reserved
    BY <1>1, <1>6, <2>1, <2>3 DEF Moved, BalancesOnly
  <2>5. CASE loser = PalletAccount
    <3>1. u = s
      BY <2>1, <2>3, <2>5 DEF Moved
    <3> QED BY <1>5, <3>1, Zenon DEF s, u
  <2>6. CASE loser # PalletAccount
    <3> DEFINE left == s.ledger.free[loser] - owed
               x    == s.ledger.free[loser] - Swept(left)
    <3>1. /\ \A b \in Accounts \ {loser, PalletAccount} : u.ledger.free[b] = s.ledger.free[b]
          /\ u.ledger.free[loser] = Swept(left) /\ left >= 0
          /\ u.ledger.free[PalletAccount] = s.ledger.free[PalletAccount] + owed
      BY <1>6, <2>1, <2>2, <2>3, <2>6 DEF Moved
    <3>2. left \in Int /\ s.ledger.free[loser] \in Nat
      BY <1>3, <2>2
    <3>3. Swept(left) \in Nat /\ Swept(left) <= left /\ left - Swept(left) <= ExistentialDeposit - 1
          /\ (ExistentialDeposit = 1 => Swept(left) = left)
      <4> HIDE DEF left
      <4> QED BY <1>2, <3>1, <3>2 DEF Swept
    <3>4. x \in Int /\ owed <= x /\ x <= owed + (ExistentialDeposit - 1)
          /\ (ExistentialDeposit = 1 => x = owed)
      <4> DEFINE y == Swept(left)
      <4>1. y \in Nat /\ y <= left /\ left - y <= ExistentialDeposit - 1
            /\ (ExistentialDeposit = 1 => y = left)
        BY <3>3
      <4> HIDE DEF y
      <4> QED BY <1>2, <2>2, <3>2, <4>1 DEF y
    <3>5. ASSUME NEW b \in Accounts
          PROVE  Owns(u, b) = Shift(s, loser, x, PalletAccount, owed, b)
      <4>1. /\ u.ledger.free[loser] = s.ledger.free[loser] - x
            /\ u.ledger.reserved[b] = s.ledger.reserved[b]
        BY <2>4, <3>1, <3>2, <3>3
      <4> HIDE DEF x
      <4>2. u.ledger.free[b] = s.ledger.free[b] - (IF b = loser THEN x ELSE 0)
                                                + (IF b = PalletAccount THEN owed ELSE 0)
        BY <1>3, <2>2, <2>6, <3>1, <3>4, <4>1
      <4> QED BY <1>3, <2>2, <3>4, <4>1, <4>2 DEF Owns, Shift
    <3> HIDE DEF x
    <3>6. NoneMade(s, u)
      <4>1. s \in ChainState /\ owed \in Int
        BY <2>2 DEF s
      <4>2. /\ TotalIssuance(u.ledger) = TotalIssuance(s.ledger) - x + owed
            /\ TotalIssuance(s.ledger) \in Int /\ TotalIssuance(u.ledger) \in Int
        <5>1. s \in ChainState /\ u \in ChainState /\ PalletAccount \in Accounts
              /\ x \in Int /\ owed \in Int
          BY <1>2, <2>4, <3>4, <4>1
        <5> QED BY ONLY <3>5, <5>1, TotalShifts
      <4> QED BY <2>2, <3>4, <4>2 DEF NoneMade
    <3>7. \A b \in Accounts \ {loser, PalletAccount} : Owns(u, b) = Owns(s, b)
      <4> TAKE b \in Accounts \ {loser, PalletAccount}
      <4>1. Owns(u, b) = Owns(s, b) - 0 + 0
        BY <3>5 DEF Shift
      <4> QED BY <1>3, <4>1
    <3>8. Owns(u, loser) >= Owns(s, loser) - owed - (ExistentialDeposit - 1)
      <4>1. Owns(u, loser) = Owns(s, loser) - x + 0 /\ Owns(s, loser) \in Int
        BY <1>3, <2>6, <3>5 DEF Shift
      <4> QED BY <1>2, <2>2, <3>4, <4>1
    <3>9. CostsPaid(s, u, loser, owed)
      BY <1>1, <2>4, <3>6, <3>7, <3>8 DEF CostsPaid
    <3> QED BY <2>1, <3>9, Zenon DEF s, u
  <2> QED BY <2>5, <2>6
<1>7. CASE ~ (cost > t.slashed /\ paid.ok)
  <2>1. u = s
    BY <1>7 DEF PayCosts
  <2> QED BY <1>5, <2>1
<1> QED BY <1>6, <1>7

\* The rewards come out of the pallet's account: nothing is made or lost.
LEMMA PayJurorsMakesNone ==
  ASSUME NEW s \in ChainState, NEW p \in ProjectIds, JurorRewards[p] \in [Accounts -> Nat]
  PROVE  LET t == PayJurors(s, p)
         IN  /\ BalancesOnly(s, t) /\ t.ledger.reserved = s.ledger.reserved
             /\ NoneMade(s, t)
             /\ \A b \in Accounts \ {PalletAccount} : Owns(t, b) >= Owns(s, b)
<1> DEFINE t == PayJurors(s, p)
           r == JurorRewards[p]
           f == [a \in Accounts |-> s.ledger.free[a] + s.ledger.reserved[a]]
           g == [a \in Accounts |-> f[a] + r[a]]
           h == [a \in Accounts |-> t.ledger.free[a] + t.ledger.reserved[a]]
<1>1. /\ BalancesOnly(s, t) /\ t.ledger.reserved = s.ledger.reserved
      /\ \A a \in Accounts : t.ledger.free[a] = Rewarded(s, p, a)
  BY PayJurorsEffect
<1>2. PalletAccount \in Accounts /\ IsFiniteSet(Accounts)
  BY ArbAssumption, RepAssumption
<1>3. \A a \in Accounts : s.ledger.free[a] \in Int /\ s.ledger.reserved[a] \in Int /\ r[a] \in Nat
  BY StakeFromType
<1>4. RewardsDue(p) = SumFunctionOnSet(r, Accounts) /\ RewardsDue(p) \in Nat
  BY <1>2, <1>3, SumNat DEF RewardsDue
<1> HIDE DEF t
<1>5. ASSUME NEW a \in Accounts
      PROVE  /\ f[a] \in Int /\ g[a] = f[a] + r[a] /\ g[a] \in Int /\ h[a] \in Int
             /\ h[a] = g[a] - (IF a = PalletAccount THEN RewardsDue(p) ELSE 0)
  BY <1>1, <1>3, <1>4 DEF Rewarded
<1>6. /\ TotalIssuance(s.ledger) = SumFunctionOnSet(f, Accounts)
      /\ TotalIssuance(t.ledger) = SumFunctionOnSet(h, Accounts)
      /\ \A a \in Accounts : Owns(s, a) = f[a] /\ Owns(t, a) = h[a]
  BY DEF TotalIssuance, Owns
<1> HIDE DEF f, g, h, r
<1>7. IntOn(f, Accounts) /\ IntOn(g, Accounts) /\ IntOn(r, Accounts)
  BY <1>3, <1>5 DEF IntOn
<1>8. SumFunctionOnSet(g, Accounts) = SumFunctionOnSet(f, Accounts) + SumFunctionOnSet(r, Accounts)
  BY <1>2, <1>5, <1>7, SumPlus
<1>9. /\ SumFunctionOnSet(h, Accounts) = SumFunctionOnSet(g, Accounts) + (h[PalletAccount] - g[PalletAccount])
      /\ SumFunctionOnSet(g, Accounts) \in Int /\ SumFunctionOnSet(h, Accounts) \in Int
  <2>1. h[PalletAccount] \in Int /\ \A a \in Accounts \ {PalletAccount} : h[a] = g[a]
    BY <1>2, <1>5
  <2> QED BY <1>2, <1>7, <2>1, SumUpdate
<1>10. h[PalletAccount] - g[PalletAccount] = 0 - SumFunctionOnSet(r, Accounts)
  BY <1>2, <1>4, <1>5
<1>11. TotalIssuance(s.ledger) \in Int
  BY TotalType
<1>12. NoneMade(s, t)
  BY <1>4, <1>6, <1>8, <1>9, <1>10, <1>11 DEF NoneMade
<1>13. \A b \in Accounts \ {PalletAccount} : Owns(t, b) >= Owns(s, b)
  BY <1>3, <1>5, <1>6
<1> QED BY <1>1, <1>12, <1>13 DEF t

\* The payouts of a dispute have been made.
PayoutsMade(s, u, bonds, cost, winner, loser) ==
    /\ BalancesOnly(s, u) /\ NoneMade(s, u)
    /\ \A b \in Accounts : u.ledger.reserved[b] = s.ledger.reserved[b] - Bonded(bonds, b)
    /\ \A b \in Accounts \ {loser, PalletAccount} : Owns(u, b) >= Owns(s, b) - Losses(bonds, winner, b)
    /\ loser # PalletAccount =>
         Owns(u, loser) >= Owns(s, loser) - Losses(bonds, winner, loser)
                           - CostsOwed(cost, Slashed(bonds, winner)) - (ExistentialDeposit - 1)

\* complete_arbitration_payouts makes them.
LEMMA PayoutsEffect ==
  ASSUME NEW s \in ChainState, s.ok, s.ledger \in Ledger, NEW p \in ProjectIds,
         NEW winner \in Accounts, NEW loser \in Accounts,
         AppealBonds[p] \in [Rounds -> Bond \cup {None}], ArbitrationCosts[p] \in Nat,
         JurorRewards[p] \in [Accounts -> Nat],
         \A b \in Accounts : Bonded(AppealBonds[p], b) <= s.ledger.reserved[b]
  PROVE  PayoutsMade(s, PayJurors(PayCosts(SettleBonds(s, p, winner), p, loser), p),
                     AppealBonds[p], ArbitrationCosts[p], winner, loser)
<1> DEFINE bs == AppealBonds[p]
           s2 == SettleBonds(s, p, winner)
           s3 == PayCosts(s2, p, loser)
           s4 == PayJurors(s3, p)
           owed == CostsOwed(ArbitrationCosts[p], Slashed(bs, winner))
<1>1. s2.slashed = Slashed(bs, winner) /\ BondsTaken(s, s2.s, bs, winner)
  BY SettleBondsTakes
<1>2. /\ bs[1] \in Bond \cup {None} /\ bs[2] \in Bond \cup {None} /\ bs[3] \in Bond \cup {None}
      /\ PalletAccount \in Accounts /\ ExistentialDeposit \in Nat
  BY ArbAssumption, BalancesAssumption DEF Rounds
<1>3. \A a : Bonded(bs, a) \in Nat /\ Slashed(bs, a) \in Nat /\ Losses(bs, winner, a) \in Nat
  <2> HIDE DEF bs
  <2> TAKE a
  <2>1. /\ BondOf(bs[1], a) \in Nat /\ BondOf(bs[2], a) \in Nat /\ BondOf(bs[3], a) \in Nat
        /\ SlashOf(bs[1], a) \in Nat /\ SlashOf(bs[2], a) \in Nat /\ SlashOf(bs[3], a) \in Nat
    BY <1>2, BondOfType
  <2>2. Bonded(bs, a) \in Nat /\ Slashed(bs, a) \in Nat
    BY <2>1 DEF Bonded, Slashed
  <2> QED BY <2>2 DEF Losses
<1> HIDE DEF s2, bs
<1>4. /\ s2.s \in ChainState /\ s2.s.ok /\ s2.s.ledger \in Ledger /\ BalancesOnly(s, s2.s)
      /\ NoneMade(s, s2.s) /\ s2.slashed \in Int
  BY <1>1, <1>3 DEF BondsTaken, BalancesOnly
<1>5. CostsPaid(s2.s, s3, loser, owed)
  BY <1>1, <1>4, PayCostsEffect
<1>6. owed \in Nat
  BY <1>3 DEF CostsOwed
<1> HIDE DEF s3, owed
<1>7. s3 \in ChainState
  BY <1>5 DEF CostsPaid, BalancesOnly
<1>8. /\ BalancesOnly(s3, s4) /\ s4.ledger.reserved = s3.ledger.reserved /\ NoneMade(s3, s4)
      /\ \A b \in Accounts \ {PalletAccount} : Owns(s4, b) >= Owns(s3, b)
  BY <1>7, PayJurorsMakesNone
<1> HIDE DEF s4
<1>9. BalancesOnly(s, s4) /\ NoneMade(s, s4) /\ s4 \in ChainState
  BY <1>4, <1>5, <1>8, BalancesOnlyTransitive, NoneMadeTransitive DEF CostsPaid, BalancesOnly
<1>10. \A b \in Accounts : s4.ledger.reserved[b] = s.ledger.reserved[b] - Bonded(bs, b)
  BY <1>1, <1>5, <1>8 DEF CostsPaid, BondsTaken
<1>11. \A b \in Accounts : /\ Owns(s, b) \in Int /\ Owns(s2.s, b) \in Int /\ Owns(s3, b) \in Int
                           /\ Owns(s4, b) \in Int
  BY <1>4, <1>7, <1>9, OwnsType
<1>12. \A b \in Accounts \ {PalletAccount} : Owns(s2.s, b) = Owns(s, b) - Losses(bs, winner, b)
  BY <1>1 DEF BondsTaken
<1>13. ASSUME NEW b \in Accounts \ {loser, PalletAccount}
       PROVE  Owns(s4, b) >= Owns(s, b) - Losses(bs, winner, b)
  <2>1. Owns(s3, b) = Owns(s2.s, b)
    BY <1>5 DEF CostsPaid
  <2> QED BY <1>8, <1>11, <1>12, <2>1
<1>14. ASSUME loser # PalletAccount
       PROVE  Owns(s4, loser) >= Owns(s, loser) - Losses(bs, winner, loser) - owed
                                 - (ExistentialDeposit - 1)
  <2>1. Owns(s3, loser) >= Owns(s2.s, loser) - owed - (ExistentialDeposit - 1)
    BY <1>5, <1>14 DEF CostsPaid
  <2>2. Owns(s4, loser) >= Owns(s3, loser) /\ Owns(s2.s, loser) = Owns(s, loser) - Losses(bs, winner, loser)
    BY <1>8, <1>12, <1>14
  <2>3. Losses(bs, winner, loser) \in Nat
    BY <1>3
  <2> QED BY <1>2, <1>6, <1>11, <2>1, <2>2, <2>3
<1>15. PayoutsMade(s, s4, bs, ArbitrationCosts[p], winner, loser)
  BY <1>9, <1>10, <1>13, <1>14 DEF PayoutsMade, owed
<1> QED BY <1>15 DEF s4, s3, s2, bs

\* What b would own after a ruling without bonds, costs and rewards.
Awarded(p, ruling, b) ==
    IF ruling = "FreelancerWins"
    THEN Paying(Chain, projects[p].client, projects[p].freelancer, projects[p].budget, b)
    ELSE Owns(Chain, b)

\* A dispute has been enforced, all money considered.
Enforced(t, p, ruling) ==
    LET bonds  == AppealBonds[p]
        winner == Winner(p, ruling)
        loser  == Loser(p, ruling)
    IN  /\ NoneMade(Chain, t)
        /\ \A b \in Accounts : Beyond(t, b) = Beyond(Chain, b) - Bonded(bonds, b)
        /\ \A b \in Accounts \ {loser, PalletAccount} :
             Owns(t, b) >= Awarded(p, ruling, b) - Losses(bonds, winner, b)
        /\ loser # PalletAccount =>
             Owns(t, loser) >= Awarded(p, ruling, loser) - Losses(bonds, winner, loser)
                               - CostsOwed(ArbitrationCosts[p], Slashed(bonds, winner))
                               - (ExistentialDeposit - 1)

\* enforce_final_ruling, all money considered, if the bonds are in the reserves.
LEMMA EnforceMoney ==
  ASSUME RuntimeInv, NEW p \in ProjectIds, projects[p] \in Project,
         AppealBonds[p] \in [Rounds -> Bond \cup {None}], ArbitrationCosts[p] \in Nat,
         JurorRewards[p] \in [Accounts -> Nat], EnforceFinalRuling(p),
         \A b \in Accounts : Bonded(AppealBonds[p], b) \in Nat /\ Bonded(AppealBonds[p], b) <= Beyond(Chain, b)
  PROVE  \E t : Commit(t) /\ t \in ChainState /\ Enforced(t, p, disputes[p].ruling)
<1> DEFINE ruling == disputes[p].ruling
           bs     == AppealBonds[p]
           cost   == ArbitrationCosts[p]
           winner == Winner(p, ruling)
           loser  == Loser(p, ruling)
           c  == projects[p].client
           f  == projects[p].freelancer
           v  == projects[p].budget
           s1 == OnRuling(Chain, p, ruling)
           s2 == SettleBonds(s1, p, winner)
           s3 == PayCosts(s2, p, loser)
           s4 == PayJurors(s3, p)
           t  == OnDisputeOutcome(s4, winner, loser)
<1>1. Commit(t) /\ f # None
  BY DEF EnforceFinalRuling, UpdateProject, Enforceable, HasParties
<1>2. Chain \in ChainState /\ Chain.ledger \in Ledger
  BY ChainType DEF RuntimeInv
<1>3. winner \in Accounts /\ loser \in Accounts /\ c \in Accounts /\ f \in Accounts /\ v \in Nat
  BY <1>1 DEF Winner, Loser, Client, Freelancer, Project
<1>4. s1 \in ChainState
  BY <1>1, <1>2, RulingType
<1>a. s1 = OnRuling(Chain, p, ruling)
  OBVIOUS
<1> HIDE DEF winner, loser
<1>5. s4 \in ChainState /\ BalancesOnly(s1, s4)
  <2> HIDE DEF s1
  <2>1. s2.slashed \in Int /\ BalancesOnly(s1, s2.s)
    BY <1>3, <1>4, SettleBondsType
  <2>2. s2.s \in ChainState
    BY <2>1 DEF BalancesOnly
  <2> HIDE DEF s2
  <2>3. BalancesOnly(s2.s, s3) /\ s3 \in ChainState
    BY <1>3, <2>1, <2>2, PayCostsType DEF BalancesOnly
  <2> HIDE DEF s3
  <2>4. BalancesOnly(s3, s4) /\ s4 \in ChainState
    BY <2>3, PayJurorsEffect DEF BalancesOnly
  <2> QED BY <2>1, <2>3, <2>4, BalancesOnlyTransitive
<1>b. s4 = PayJurors(PayCosts(SettleBonds(s1, p, winner), p, loser), p)
  OBVIOUS
<1> HIDE DEF s1, s2, s3, s4
<1>6. t.ok /\ s4.ok
  BY <1>1, <1>3, <1>5, OutcomeOk DEF Commit
<1>7. s1.ok
  BY <1>5, <1>6 DEF BalancesOnly
<1>8. Calm(s4, t) /\ OwnsKept(s4, t) /\ BeyondKept(s4, t)
  BY <1>3, <1>5, <1>6, OutcomeCalm
<1> HIDE DEF t, ruling
<1>9. /\ BeyondKept(Chain, s1)
      /\ ruling = "FreelancerWins" =>
           /\ Closes(Chain, s1, GenerateLockId(p), c, f, v, p)
           /\ \A b \in Accounts : Owns(s1, b) = Paying(Chain, c, f, v, b)
      /\ ruling # "FreelancerWins" => Calm(Chain, s1) /\ OwnsKept(Chain, s1)
  BY <1>1, <1>2, <1>7, <1>a, RulingEffect
<1>10. s1.ledger \in Ledger
  <2>1. Keeps(Chain, s1)
    BY <1>9 DEF Closes, Calm, Sustains
  <2> QED BY <1>2, <1>7, <2>1 DEF Keeps
<1>11. \A b \in Accounts : Owns(s1, b) = Awarded(p, ruling, b)
  BY <1>9 DEF Awarded, OwnsKept
<1>12. NoneMade(Chain, s1)
  <2>1. TotalIssuance(s1.ledger) = TotalIssuance(Chain.ledger)
    <3>1. CASE ruling = "FreelancerWins"
      <4>1. \A b \in Accounts : Owns(s1, b) = Paying(Chain, c, f, v, b)
        BY <1>9, <3>1
      <4>2. v \in Int
        BY <1>3
      <4> HIDE DEF c, f, v
      <4> QED BY <1>2, <1>3, <1>4, <4>1, <4>2, TotalPaid
    <3>2. CASE ruling # "FreelancerWins"
      BY <1>2, <1>4, <1>9, <3>2, TotalKept
    <3> QED BY <3>1, <3>2
  <2> QED BY <1>2, <1>4, <2>1, TotalType DEF NoneMade
<1>13. ASSUME NEW b \in Accounts
       PROVE  /\ Beyond(s1, b) = Beyond(Chain, b) /\ Bonded(bs, b) <= s1.ledger.reserved[b]
              /\ Beyond(s1, b) \in Int
  <2>1. /\ Bonded(bs, b) \in Nat /\ Bonded(bs, b) <= Beyond(Chain, b) /\ Beyond(Chain, b) \in Int
        /\ StakeFrom(s1.rep, b) \in Nat /\ s1.ledger.reserved[b] \in Int
    BY <1>2, <1>4, OwnsType, StakeFromType
  <2>2. Beyond(Chain, b) >= 0
    BY <2>1
  <2>3. Beyond(s1, b) = Beyond(Chain, b)
    BY <1>9, <2>2 DEF BeyondKept
  <2>4. Beyond(s1, b) = s1.ledger.reserved[b] - StakeFrom(s1.rep, b)
    BY DEF Beyond
  <2> HIDE DEF bs
  <2> QED BY <2>1, <2>3, <2>4
<1>14. PayoutsMade(s1, s4, bs, cost, winner, loser)
  BY <1>3, <1>4, <1>7, <1>10, <1>13, <1>b, PayoutsEffect
<1>15. ASSUME NEW b \in Accounts
       PROVE  Beyond(t, b) = Beyond(Chain, b) - Bonded(bs, b)
  <2>1. s4.ledger.reserved[b] = s1.ledger.reserved[b] - Bonded(bs, b) /\ s4.rep = s1.rep
    BY <1>14 DEF PayoutsMade, BalancesOnly
  <2>2. /\ Bonded(bs, b) \in Nat /\ Bonded(bs, b) <= Beyond(Chain, b) /\ Beyond(Chain, b) \in Int
        /\ StakeFrom(s1.rep, b) \in Nat /\ s1.ledger.reserved[b] \in Int
    BY <1>2, <1>4, OwnsType, StakeFromType
  <2>3. /\ Beyond(s1, b) = s1.ledger.reserved[b] - StakeFrom(s1.rep, b)
        /\ Beyond(s4, b) = s4.ledger.reserved[b] - StakeFrom(s1.rep, b)
    BY <2>1 DEF Beyond
  <2> HIDE DEF bs
  <2>4. Beyond(s4, b) = Beyond(Chain, b) - Bonded(bs, b) /\ Beyond(s4, b) >= 0
    BY <1>13, <2>1, <2>2, <2>3
  <2> QED BY <1>8, <2>4 DEF BeyondKept
<1>16. t \in ChainState
  BY <1>8 DEF Calm, Sustains, Keeps
<1>17. NoneMade(Chain, t)
  <2>1. NoneMade(s4, t)
    BY <1>5, <1>8, <1>16, TotalKept, TotalType DEF NoneMade
  <2> QED BY <1>12, <1>14, <2>1, NoneMadeTransitive DEF PayoutsMade
<1>18. \A b \in Accounts : Owns(t, b) = Owns(s4, b)
  BY <1>8 DEF OwnsKept
<1>c. bs = AppealBonds[p] /\ cost = ArbitrationCosts[p] /\ winner = Winner(p, ruling) /\ loser = Loser(p, ruling)
  BY DEF winner, loser
<1> HIDE DEF bs, cost
<1>19. /\ \A b \in Accounts \ {loser, PalletAccount} :
            Owns(t, b) >= Awarded(p, ruling, b) - Losses(bs, winner, b)
       /\ loser # PalletAccount =>
            Owns(t, loser) >= Awarded(p, ruling, loser) - Losses(bs, winner, loser)
                              - CostsOwed(cost, Slashed(bs, winner)) - (ExistentialDeposit - 1)
  <2>1. ASSUME NEW b \in Accounts \ {loser, PalletAccount}
        PROVE  Owns(t, b) >= Awarded(p, ruling, b) - Losses(bs, winner, b)
    <3>1. Owns(s4, b) >= Owns(s1, b) - Losses(bs, winner, b)
      BY <1>14 DEF PayoutsMade
    <3> QED BY <1>11, <1>18, <3>1
  <2>2. ASSUME loser # PalletAccount
        PROVE  Owns(t, loser) >= Awarded(p, ruling, loser) - Losses(bs, winner, loser)
                              - CostsOwed(cost, Slashed(bs, winner)) - (ExistentialDeposit - 1)
    <3>1. Owns(s4, loser) >= Owns(s1, loser) - Losses(bs, winner, loser)
                             - CostsOwed(cost, Slashed(bs, winner)) - (ExistentialDeposit - 1)
      BY <1>14, <2>2 DEF PayoutsMade
    <3>2. Owns(t, loser) = Owns(s4, loser) /\ Owns(s1, loser) = Awarded(p, ruling, loser)
      BY <1>3, <1>11, <1>18
    <3> QED BY <3>1, <3>2
  <2> QED BY <2>1, <2>2
<1>20. Enforced(t, p, ruling)
  BY <1>15, <1>17, <1>19, <1>c, Zenon DEF Enforced
<1> QED BY <1>1, <1>16, <1>20 DEF ruling
================================================================================
