---------------------------- MODULE ReputationCalls ----------------------------
(***************************************************************************)
(* The reputation pallet under arbitrary callers: users, and a caller of   *)
(* ReputationInterface that makes any call with any argument at any time.  *)
(* What holds here holds under the calls the other pallets really make.    *)
(***************************************************************************)
EXTENDS Reputation

CONSTANTS Values, Ratings    \* project values, and client ratings scaled by 1000

\* No caller rates below one star, and the genesis lists means of such ratings.
ASSUME RepInputAssumption ==
    /\ Values \subseteq Nat
    /\ Ratings \subseteq Nat \ 0..999
    /\ \A a \in Accounts : RatingInRange(InitialUsers[a])

\* A call whose error the caller propagates...
InterfaceCall(a, b) ==
    \/ \E v \in Values, r \in Ratings, p \in ProjectIds :
          Commit(OnProjectCompleted(Chain, a, v, r, p))
    \/ Commit(OnDisputeOutcome(Chain, a, b))
    \/ \E v \in Values : Commit(OnProjectCreated(Chain, a, v))
    \/ Commit(OnProjectCancelled(Chain, a))
    \/ Commit(OnWorkAccepted(Chain, a))
    \/ Commit(SlashJuror(Chain, a))

\* ...one whose error the caller ignores...
IgnoredJuryVote(a, withMajority) ==
    Commit([OnJuryVote(Chain, a, withMajority) EXCEPT !.ok = TRUE])

\* ...and the selection of a jury, which writes the round-robin indices.
SelectJury(minTier, exclude, count) ==
    LET sel == GetEligibleJurors(Chain, minTier, exclude, count)
    IN  Commit([Chain EXCEPT !.rep.NextJurorIndex = sel.next])

\* Every step that is not a vote
OtherCall ==
    \/ \E a \in Accounts : RegisterUser(a) \/ RegisterAsJuror(a) \/ DeregisterAsJuror(a)
    \/ \E a, b \in Accounts : InterfaceCall(a, b)
    \/ \E minTier \in PoolTiers, exclude \in SUBSET Accounts, count \in 1..Cardinality(Accounts) :
          SelectJury(minTier, exclude, count)

RepNext ==
    \/ OtherCall
    \/ \E a \in Accounts, withMajority \in BOOLEAN : IgnoredJuryVote(a, withMajority)

RepSpec == RepInit /\ [][RepNext]_repVars
================================================================================
