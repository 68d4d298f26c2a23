------------------------------- MODULE Balances -------------------------------
(***************************************************************************)
(* The currency the three pallets share (pallet_balances, an external      *)
(* crate), as far as they use it: free and reserved balances, named locks, *)
(* transfers.  A ledger has no variables of its own: every operation is a  *)
(* transformer of a chain state s, a record with at least the fields       *)
(*    s.ok      FALSE once an operation on s has returned an error,        *)
(*    s.ledger  the balances.                                              *)
(* A dispatched call commits s only if s.ok holds at its end, because the  *)
(* runtime rolls the storage of a failed extrinsic back.                   *)
(***************************************************************************)
EXTENDS Integers

CONSTANTS
    Accounts,            \* every account that can hold a balance
    LockIds,             \* the identifiers of the locks the pallets place
    ExistentialDeposit   \* the smallest free balance of a live account

ASSUME BalancesAssumption == ExistentialDeposit \in Nat \ {0}

\* Locks do not add up: what is frozen is the largest lock.  A lock of zero is
\* the absence of a lock.
Ledger == [free     : [Accounts -> Nat],
           reserved : [Accounts -> Nat],
           locks    : [Accounts -> [LockIds -> Nat]]]

\* An account below the existential deposit does not exist and signs nothing.
CanSign(l, a) == l.free[a] >= ExistentialDeposit

\* Every lock on a leaves the amount x untouched.
WithinLocks(l, a, x) == \A id \in LockIds : x >= l.locks[a][id]

\* A reserve or a lock holds a reference on the account, so it cannot be reaped.
Pinned(l, a) == l.reserved[a] > 0 \/ \E id \in LockIds : l.locks[a][id] > 0

-------------------------------------------------------------------------------
\* LockableCurrency::set_lock: no look at the balance, it cannot fail.
SetLock(s, id, a, v) == [s EXCEPT !.ledger.locks[a][id] = v]

\* LockableCurrency::remove_lock
RemoveLock(s, id, a) == [s EXCEPT !.ledger.locks[a][id] = 0]

\* ReservableCurrency::reserve: what stays free covers the locks and the
\* existential deposit.
Reserve(s, a, v) ==
    LET left == s.ledger.free[a] - v
    IN  IF v = 0 THEN s
        ELSE [s EXCEPT !.ok = @ /\ left >= ExistentialDeposit
                                /\ WithinLocks(s.ledger, a, left),
                       !.ledger.free[a] = left,
                       !.ledger.reserved[a] = @ + v]

\* What unreserve and slash_reserved can take: they saturate silently.
Takeable(s, a, v) == IF v <= s.ledger.reserved[a] THEN v ELSE s.ledger.reserved[a]

\* ReservableCurrency::unreserve
Unreserve(s, a, v) ==
    LET x == Takeable(s, a, v)
    IN  [s EXCEPT !.ledger.reserved[a] = @ - x, !.ledger.free[a] = @ + x]

\* ReservableCurrency::slash_reserved; Takeable is the imbalance it returns.
SlashReserved(s, a, v) ==
    [s EXCEPT !.ledger.reserved[a] = @ - Takeable(s, a, v)]

\* Currency::deposit_creating: an amount too small to create the account is lost.
DepositCreating(s, a, v) ==
    IF s.ledger.free[a] + v >= ExistentialDeposit
    THEN [s EXCEPT !.ledger.free[a] = @ + v]
    ELSE s

\* Currency::transfer.  keepAlive is ExistenceRequirement::KeepAlive; without it
\* the sender may be reaped, and what it has left is then burned as dust.
Transfer(s, from, to, v, keepAlive) ==
    LET l    == s.ledger
        left == l.free[from] - v
    IN  IF v = 0 \/ from = to THEN s
        ELSE [s EXCEPT
                !.ok = /\ @
                       /\ left >= 0
                       /\ WithinLocks(l, from, left + l.reserved[from])
                       /\ (keepAlive \/ Pinned(l, from)) => left >= ExistentialDeposit
                       /\ l.free[to] + v >= ExistentialDeposit,
                !.ledger.free[from] = IF left < ExistentialDeposit THEN 0 ELSE left,
                !.ledger.free[to]   = @ + v]
===============================================================================
