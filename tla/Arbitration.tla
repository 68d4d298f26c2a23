----------------------------- MODULE Arbitration -----------------------------
(***************************************************************************)
(* pallets/arbitration: disputes over rejected (or unreviewed) work.  An   *)
(* oracle rules first; the loser may appeal twice, to a jury chosen by the *)
(* reputation pallet; when nobody appeals in time anyone may enforce the   *)
(* ruling, which settles payment, bonds, costs and jury rewards at once.   *)
(* The module composes the three pallets: its specification is the whole   *)
(* runtime.                                                                *)
(***************************************************************************)
EXTENDS Projects

CONSTANTS
    PalletAccount,    \* account_id(): where costs and slashed bonds go
    MinJurors,        \* Config::MinJurors, the jury of round 2
    MaxJurors,        \* Config::MaxJurors, the jury of round 3
    AppealPeriod,     \* Config::AppealPeriod
    VotingPeriod      \* Config::VotingPeriod

VARIABLES
    disputes,         \* Disputes
    AppealBonds,      \* AppealBonds: by project and round
    ArbitrationCosts, \* ArbitrationCosts
    JuryFeesOwed,     \* JuryFeesOwed: by project and round
    JurorRewards      \* JurorRewards: by project

moneyVars == <<AppealBonds, ArbitrationCosts, JuryFeesOwed, JurorRewards>>
arbVars   == <<disputes, moneyVars>>
vars      == <<repVars, projVars, arbVars>>

ASSUME ArbAssumption ==
    /\ PalletAccount \in Accounts
    /\ PalletAccount \notin Clients \cup Freelancers \cup Stakers
    /\ MinJurors \in Nat \ {0}
    /\ MaxJurors \in Nat
    /\ MinJurors <= MaxJurors    \* or the jury of round 2 overflows its list
    /\ AppealPeriod \in Nat
    /\ VotingPeriod \in Nat

-------------------------------------------------------------------------------
(* Types *)

Rounds == 1..3
Votes  == {"ForClient", "ForFreelancer"}

DisputeStatus == {"AiProcessing", "Appealable", "Voting", "Finalized"}

\* jurors is the list of (juror, has voted); votes the map of the votes cast.
Dispute ==
    [status      : DisputeStatus,
     start_block : Nat,
     ruling      : Rulings \cup {None},
     round       : Rounds,
     jurors      : UNION {[J -> BOOLEAN] : J \in SUBSET Accounts},
     votes       : UNION {[J -> Votes] : J \in SUBSET Accounts}]

Bond == [appellant : Accounts, amount : Nat]
Fee  == [base : Nat, bonus : Nat]

ASSUME DisputeAssumption ==
    /\ None \notin Dispute
    /\ None \notin Bond
    /\ None \notin Rulings

NoOne   == [j \in {} |-> None]
NoFees  == [a \in Accounts |-> [base |-> 0, bonus |-> 0]]
NoBonds == [r \in Rounds |-> None]

-------------------------------------------------------------------------------
(* Amounts *)

Percent(p, percent) == (projects[p].budget * percent) \div 100

\* calculate_arbitration_cost, calculate_appeal_bond (the minimum bonds of the
\* configuration are read and dropped) and calculate_jury_fees, by round
CalculateArbitrationCost(p, round) == Percent(p, <<2, 5, 8>>[round])
CalculateAppealBond(p, round)      == Percent(p, <<5, 20, 50>>[round])
CalculateJuryFees(p, round) ==
    LET base == Percent(p, <<0, 1, 2>>[round])
    IN  [base |-> base, bonus |-> base \div 4]

Client(p)     == projects[p].client
Freelancer(p) == projects[p].freelancer
Winner(p, ruling) == IF ruling = "ClientWins" THEN Client(p) ELSE Freelancer(p)
Loser(p, ruling)  == IF ruling = "ClientWins" THEN Freelancer(p) ELSE Client(p)

-------------------------------------------------------------------------------
(* Extrinsics of the rounds *)

\* create_dispute
CreateDispute(who, p) ==
    LET bond == CalculateAppealBond(p, 1)
    IN  /\ CanSign(ledger, who)
        /\ disputes[p] = None
        /\ HasParties(p)
        /\ who = Freelancer(p)
        /\ HasEvidence(p)
        /\ MayDispute(p)
        /\ UpdateProject(p, InDispute(p), Reserve(Chain, who, bond))
        /\ AppealBonds' = [AppealBonds EXCEPT ![p][1] = [appellant |-> who, amount |-> bond]]
        /\ ArbitrationCosts' = [ArbitrationCosts EXCEPT ![p] = CalculateArbitrationCost(p, 1)]
        /\ disputes' = [disputes EXCEPT ![p] =
              [status |-> "AiProcessing", start_block |-> block, ruling |-> None,
               round |-> 1, jurors |-> NoOne, votes |-> NoOne]]
        /\ UNCHANGED <<ProjectApplicants, JuryFeesOwed, JurorRewards>>

\* Mutant: a jury's verdict for the freelancer sends the dispute back to the oracle.
WithRuling_AsksAgain(d, ruling) ==
    IF d.round > 1 /\ ruling = "FreelancerWins"
    THEN [d EXCEPT !.ruling = None, !.status = "AiProcessing", !.start_block = block]
    ELSE [d EXCEPT !.ruling = ruling, !.status = "Appealable", !.start_block = block]

\* Mutant: the appeal period begins before the ruling, with the dispute or the vote.
WithRuling_KeepsClock(d, ruling) == [d EXCEPT !.ruling = ruling, !.status = "Appealable"]

\* The oracle's ruling, or a jury's, may be appealed from now on.
WithRuling(d, ruling) ==
    [d EXCEPT !.ruling = ruling, !.status = "Appealable", !.start_block = block]

\* submit_ruling, from the oracle's origin
SubmitRuling(p, ruling) ==
    /\ disputes[p] # None
    /\ disputes[p].status = "AiProcessing"
    /\ disputes' = [disputes EXCEPT ![p] = WithRuling(@, ruling)]
    /\ UNCHANGED <<repVars, projVars, moneyVars>>

AppealDeadline(p) == disputes[p].start_block + AppealPeriod
VotingDeadline(p) == disputes[p].start_block + VotingPeriod

\* The tier and the size of the jury of a round
JuryOf(round) == IF round = 2 THEN [tier |-> Bronze, size |-> MinJurors]
                              ELSE [tier |-> Silver, size |-> MaxJurors]

\* appeal_ruling
AppealRuling(who, p) ==
    LET d     == disputes[p]
        round == d.round + 1
        bond  == CalculateAppealBond(p, round)
        jury  == JuryOf(round)
        sel   == GetEligibleJurors(Chain, jury.tier, {Client(p), Freelancer(p)}, jury.size)
        bonded == Reserve(Chain, who, bond)
    IN  /\ CanSign(ledger, who)
        /\ d # None
        /\ d.status = "Appealable"
        /\ block < AppealDeadline(p)
        /\ HasParties(p)
        /\ d.ruling # None
        /\ who = Loser(p, d.ruling)
        /\ round <= 3
        /\ Cardinality(sel.jurors) >= jury.size
        /\ Commit([bonded EXCEPT !.rep.NextJurorIndex = sel.next])
        /\ AppealBonds' = [AppealBonds EXCEPT ![p][round] = [appellant |-> who, amount |-> bond]]
        /\ ArbitrationCosts' = [ArbitrationCosts EXCEPT ![p] = @ + CalculateArbitrationCost(p, round)]
        /\ JuryFeesOwed' = [JuryFeesOwed EXCEPT ![p][round] =
              [a \in Accounts |-> IF a \in sel.jurors THEN CalculateJuryFees(p, round) ELSE @[a]]]
        /\ disputes' = [disputes EXCEPT ![p] =
              [status |-> "Voting", start_block |-> block, ruling |-> None, round |-> round,
               jurors |-> [j \in sel.jurors |-> FALSE], votes |-> NoOne]]
        /\ UNCHANGED <<projVars, JurorRewards>>

\* Mutants: a vote after the round is closed, a second vote.
MayVote_AnyTime(d, juror) == juror \in DOMAIN d.jurors /\ ~ d.jurors[juror]
MayVote_Again(d, juror)   == d.status = "Voting" /\ juror \in DOMAIN d.jurors

\* The checks of cast_vote; none is about the voting period.
MayVote(d, juror) ==
    /\ d.status = "Voting"
    /\ juror \in DOMAIN d.jurors
    /\ ~ d.jurors[juror]

\* cast_vote
CastVote(juror, p, vote) ==
    LET d == disputes[p]
    IN  /\ CanSign(ledger, juror)
        /\ d # None
        /\ MayVote(d, juror)
        /\ disputes' = [disputes EXCEPT ![p] =
              [d EXCEPT !.votes = [j \in DOMAIN @ \cup {juror} |-> IF j = juror THEN vote ELSE @[j]],
                        !.jurors[juror] = TRUE]]
        /\ UNCHANGED <<repVars, projVars, moneyVars>>

-------------------------------------------------------------------------------
(* finalize_round *)

Supporters(votes, vote) == {j \in DOMAIN votes : votes[j] = vote}

\* The freelancer wins a tie, an empty ballot included.
RoundRuling(votes) ==
    IF Cardinality(Supporters(votes, "ForFreelancer")) >= Cardinality(Supporters(votes, "ForClient"))
    THEN "FreelancerWins" ELSE "ClientWins"

WithMajority(votes, j) ==
    votes[j] = IF RoundRuling(votes) = "FreelancerWins" THEN "ForFreelancer" ELSE "ForClient"

\* award_jury_fees_for_round: the base fee for a vote, the bonus for a vote with
\* the majority, nothing for a seat without a vote.
Award(p, round, votes, j) ==
    LET fee == JuryFeesOwed[p][round][j]
    IN  fee.base + (IF WithMajority(votes, j) THEN fee.bonus ELSE 0)

\* on_jury_vote for one voter after another; the errors are ignored.
RecordVotes(votes) ==
    FoldSet(LAMBDA j, s : [OnJuryVote(s, j, WithMajority(votes, j)) EXCEPT !.ok = TRUE],
            Chain, DOMAIN votes)

\* Mutant: the round waits for the last juror's vote.
RoundOver_AllVoted(p) ==
    /\ disputes[p].status = "Voting"
    /\ block >= VotingDeadline(p)
    /\ DOMAIN disputes[p].votes = DOMAIN disputes[p].jurors

RoundOver(p) ==
    /\ disputes[p].status = "Voting"
    /\ block >= VotingDeadline(p)

FinalizeRound(p) ==
    LET d == disputes[p]
    IN  /\ d # None
        /\ RoundOver(p)
        /\ JurorRewards' = [JurorRewards EXCEPT ![p] =
              [a \in Accounts |-> IF a \in DOMAIN d.votes THEN @[a] + Award(p, d.round, d.votes, a)
                                                          ELSE @[a]]]
        /\ Commit(RecordVotes(d.votes))
        /\ disputes' = [disputes EXCEPT ![p] = WithRuling(d, RoundRuling(d.votes))]
        /\ UNCHANGED <<projVars, AppealBonds, ArbitrationCosts, JuryFeesOwed>>

-------------------------------------------------------------------------------
(* enforce_final_ruling *)

\* Mutants: the winner's bond stays reserved; a slashed bond is burned.
SettleBond_NoReturn(t, bond, winner) ==
    IF bond = None \/ bond.appellant = winner THEN t
    ELSE LET x == Takeable(t.s, bond.appellant, bond.amount)
         IN  [s |-> DepositCreating(SlashReserved(t.s, bond.appellant, bond.amount), PalletAccount, x),
              slashed |-> t.slashed + x]
SettleBond_Burns(t, bond, winner) ==
    IF bond = None THEN t
    ELSE IF bond.appellant = winner
    THEN [t EXCEPT !.s = Unreserve(t.s, winner, bond.amount)]
    ELSE [s |-> SlashReserved(t.s, bond.appellant, bond.amount), slashed |-> t.slashed + bond.amount]

\* One bond of complete_arbitration_payouts: the winner's is given back, the
\* other's is slashed and deposited in the pallet's account.  t holds the
\* chain and what has been slashed so far.
SettleBond(t, bond, winner) ==
    LET x == Takeable(t.s, bond.appellant, bond.amount)
    IN  IF bond = None THEN t
        ELSE IF bond.appellant = winner
        THEN [t EXCEPT !.s = Unreserve(t.s, winner, bond.amount)]
        ELSE [s |-> DepositCreating(SlashReserved(t.s, bond.appellant, bond.amount), PalletAccount, x),
              slashed |-> t.slashed + x]

\* The bonds of all rounds.  The code takes them in the order of a hash; they
\* commute unless a slashed bond is below the existential deposit.
SettleBonds(s, p, winner) ==
    LET none == [s |-> s, slashed |-> 0]
        b    == AppealBonds[p]
    IN  SettleBond(SettleBond(SettleBond(none, b[1], winner), b[2], winner), b[3], winner)

\* Mutant: the costs are paid in full although the slashed bonds cover them.
PayCosts_InFull(t, p, loser) ==
    LET paid == Transfer(t.s, loser, PalletAccount, ArbitrationCosts[p], FALSE)
    IN  IF paid.ok THEN paid ELSE t.s

\* The loser pays the costs its bonds did not cover; a failure is ignored.
PayCosts(t, p, loser) ==
    LET paid == Transfer(t.s, loser, PalletAccount, ArbitrationCosts[p] - t.slashed, FALSE)
    IN  IF ArbitrationCosts[p] > t.slashed /\ paid.ok THEN paid ELSE t.s

RewardsDue(p) == SumFunctionOnSet(JurorRewards[p], Accounts)

\* Mutant: the rewards are paid whatever the pallet's account holds.
PayJurors_Overdraws(s, p) ==
    LET paid == [a \in Accounts |-> s.ledger.free[a] + JurorRewards[p][a]]
    IN  [s EXCEPT !.ledger.free = [paid EXCEPT ![PalletAccount] = @ - RewardsDue(p)]]

\* pay_all_jury_rewards: transfers that keep the pallet's account alive, all of
\* which must succeed.
PayJurors(s, p) ==
    LET due  == RewardsDue(p)
        paid == [a \in Accounts |-> s.ledger.free[a] + JurorRewards[p][a]]
        left == paid[PalletAccount] - due
    IN  IF due = 0 THEN s
        ELSE [s EXCEPT !.ok = /\ @
                              /\ left >= ExistentialDeposit
                              /\ \A a \in Accounts :
                                   JurorRewards[p][a] > 0 => paid[a] >= ExistentialDeposit,
                       !.ledger.free = [paid EXCEPT ![PalletAccount] = left]]

\* complete_arbitration_payouts, without the cleanup
Payouts(s, p, winner, loser) == PayJurors(PayCosts(SettleBonds(s, p, winner), p, loser), p)

\* The checks of enforce_final_ruling
Enforceable(p) ==
    /\ disputes[p] # None
    /\ disputes[p].status = "Appealable"
    /\ block >= AppealDeadline(p)
    /\ HasParties(p)
    /\ disputes[p].ruling # None

\* Mutant: the bonds are not removed.
CleanupArbitrationStorage_KeepsBonds(p) ==
    /\ ArbitrationCosts' = [ArbitrationCosts EXCEPT ![p] = 0]
    /\ JuryFeesOwed' = [JuryFeesOwed EXCEPT ![p] = [r \in Rounds |-> NoFees]]
    /\ JurorRewards' = [JurorRewards EXCEPT ![p] = [a \in Accounts |-> 0]]
    /\ UNCHANGED AppealBonds

CleanupArbitrationStorage(p) ==
    /\ AppealBonds' = [AppealBonds EXCEPT ![p] = NoBonds]
    /\ ArbitrationCosts' = [ArbitrationCosts EXCEPT ![p] = 0]
    /\ JuryFeesOwed' = [JuryFeesOwed EXCEPT ![p] = [r \in Rounds |-> NoFees]]
    /\ JurorRewards' = [JurorRewards EXCEPT ![p] = [a \in Accounts |-> 0]]

EnforceFinalRuling(p) ==
    LET ruling  == disputes[p].ruling
        winner  == Winner(p, ruling)
        loser   == Loser(p, ruling)
    IN  /\ Enforceable(p)
        /\ \E ruled \in {OnRuling(Chain, p, ruling)} :
           \E bonds \in {SettleBonds(ruled, p, winner)} :
           \E paid \in {PayJurors(PayCosts(bonds, p, loser), p)} :
              UpdateProject(p, Settled(p), OnDisputeOutcome(paid, winner, loser))
        /\ disputes' = [disputes EXCEPT ![p] = [@ EXCEPT !.status = "Finalized"]]
        /\ CleanupArbitrationStorage(p)
        /\ UNCHANGED ProjectApplicants

-------------------------------------------------------------------------------
(* Specification of the runtime *)

ArbInit ==
    /\ ProjInit
    /\ disputes = [p \in ProjectIds |-> None]
    /\ AppealBonds = [p \in ProjectIds |-> NoBonds]
    /\ ArbitrationCosts = [p \in ProjectIds |-> 0]
    /\ JuryFeesOwed = [p \in ProjectIds |-> [r \in Rounds |-> NoFees]]
    /\ JurorRewards = [p \in ProjectIds |-> [a \in Accounts |-> 0]]

InStatus(p, status) == disputes[p] # None /\ disputes[p].status = status

DisputeDeadlines ==
    {AppealDeadline(p) : p \in {q \in ProjectIds : InStatus(q, "Appealable")}} \cup
    {VotingDeadline(p) : p \in {q \in ProjectIds : InStatus(q, "Voting")}}

NextBlock == Tick(SubmissionDeadlines \cup DisputeDeadlines) /\ UNCHANGED arbVars

OracleRules(p) == \E ruling \in Rulings : SubmitRuling(p, ruling)

DisputeStep(p) ==
    \/ \E f \in Freelancers : CreateDispute(f, p)
    \/ OracleRules(p)
    \/ \E a \in Clients \cup Freelancers : AppealRuling(a, p)
    \/ \E j \in Accounts, v \in Votes : CastVote(j, p, v)
    \/ FinalizeRound(p)
    \/ EnforceFinalRuling(p)

ArbNext ==
    \/ ProjStep /\ UNCHANGED arbVars
    \/ \E p \in ProjectIds : DisputeStep(p)
    \/ NextBlock

ArbSpec == ArbInit /\ [][ArbNext]_vars

\* Blocks keep being produced, the oracle answers every dispute, anybody (the
\* winner, in practice) closes rounds and enforces rulings, and a freelancer
\* disputes work that is not accepted.  Nothing is assumed of clients, of
\* jurors, of appellants.
Fairness ==
    /\ WF_vars(NextBlock)
    /\ \A p \in ProjectIds :
         /\ WF_vars(\E f \in Freelancers : CreateDispute(f, p))
         /\ WF_vars(OracleRules(p))
         /\ WF_vars(FinalizeRound(p))
         /\ WF_vars(EnforceFinalRuling(p))

FairSpec == ArbSpec /\ Fairness

-------------------------------------------------------------------------------
(* Safety *)

ArbTypeOK ==
    /\ ProjTypeOK
    /\ disputes \in [ProjectIds -> Dispute \cup {None}]
    /\ AppealBonds \in [ProjectIds -> [Rounds -> Bond \cup {None}]]
    /\ ArbitrationCosts \in [ProjectIds -> Nat]
    /\ JuryFeesOwed \in [ProjectIds -> [Rounds -> [Accounts -> Fee]]]
    /\ JurorRewards \in [ProjectIds -> [Accounts -> Nat]]

OpenDispute(p) == disputes[p] # None /\ disputes[p].status # "Finalized"

\* The two pallets agree on what is in dispute: a project has the status
\* InDispute exactly while the arbitration pallet has an open dispute for it,
\* and a finalized dispute is one of a completed project.  So no party can
\* accept, reject or cancel under an open dispute, and none is left behind.
DisputesMatchProjects ==
    \A p \in ProjectIds :
      /\ OpenDispute(p) <=> (projects[p] # None /\ projects[p].status = "InDispute")
      /\ InStatus(p, "Finalized") => projects[p] # None /\ projects[p].status = "Completed"

\* What an account has bonded in open disputes.
BondedBy(a) ==
    LET Amount(bond) == IF bond # None /\ bond.appellant = a THEN bond.amount ELSE 0
    IN  SumFunctionOnSet([pr \in ProjectIds \X Rounds |-> Amount(AppealBonds[pr[1]][pr[2]])],
                         ProjectIds \X Rounds)

\* Stakes and bonds share one anonymous reserve, and unreserve and slash_reserved
\* take less than asked for without an error.  They never have to: the reserve
\* of an account is its stake plus its bonds in open disputes, so no settlement
\* eats a juror's stake or another dispute's bond.
ReservesBacked ==
    \A a \in Accounts :
      ledger.reserved[a] = BondedBy(a) + (IF rep.StakeOf[a] = None THEN 0 ELSE rep.StakeOf[a])

\* The books of a dispute: while it is open there is one bond per round reached,
\* the first from the freelancer and each later one from a party, and after it
\* (or without it) no bond, cost, fee or reward is left in storage.
BooksFollowRounds ==
    \A p \in ProjectIds :
      IF OpenDispute(p)
      THEN /\ \A r \in Rounds : (AppealBonds[p][r] # None) <=> r <= disputes[p].round
           /\ AppealBonds[p][1].appellant = Freelancer(p)
           /\ \A r \in 2..disputes[p].round :
                AppealBonds[p][r].appellant \in {Client(p), Freelancer(p)}
           /\ \A a \in Accounts : JurorRewards[p][a] > 0 =>
                a \notin {Client(p), Freelancer(p)}
      ELSE /\ AppealBonds[p] = NoBonds
           /\ ArbitrationCosts[p] = 0
           /\ JuryFeesOwed[p] = [r \in Rounds |-> NoFees]
           /\ \A a \in Accounts : JurorRewards[p][a] = 0

\* A verdict is the verdict of its jury.  Once a round of votes is closed the
\* ruling on record is, until it is appealed or enforced, the count of the
\* votes on record; the votes come from seated jurors, who are not parties;
\* and a round that is still open has no ruling.
RulingIsVerdict ==
    \A p \in ProjectIds : disputes[p] # None =>
      LET d == disputes[p]
      IN  /\ d.round > 1 /\ d.status # "Voting" => d.ruling = RoundRuling(d.votes)
          /\ d.status \in {"Voting", "AiProcessing"} <=> d.ruling = None
          /\ DOMAIN d.jurors \cap {Client(p), Freelancer(p)} = {}
          /\ DOMAIN d.votes = {j \in DOMAIN d.jurors : d.jurors[j]}
          /\ d.round > 1 => Cardinality(DOMAIN d.jurors) = JuryOf(d.round).size

\* The freelancer is paid exactly if the work was accepted without a dispute or
\* the final ruling is for the freelancer.
PaidAsRuled ==
    \A p \in ProjectIds : projects[p] # None =>
      (Paid(p) <=> /\ projects[p].status = "Completed"
                   /\ disputes[p] # None => disputes[p].ruling = "FreelancerWins")

\* While a round lasts, a vote that has been cast stays as it is, and no vote is
\* added once the round has its verdict.
VotesStand ==
    [][\A p \in ProjectIds :
         disputes[p] # None /\ disputes'[p].round = disputes[p].round =>
           /\ \A j \in DOMAIN disputes[p].votes :
                j \in DOMAIN disputes'[p].votes /\ disputes'[p].votes[j] = disputes[p].votes[j]
           /\ disputes[p].status # "Voting" => disputes'[p].votes = disputes[p].votes
      ]_disputes

-------------------------------------------------------------------------------
(* What the runtime promises its users: Escrow *)

\* Deals; the absence of one is not one.
DealStages == {"Offered", "Agreed", "Delivered", "Contested", "Cancelled", "Paid", "Withheld"}
Deal == [stage : DealStages, client : Accounts, freelancer : Accounts \cup {None}, budget : Nat]

ASSUME DealAssumption == None \notin Deal

\* A project as a deal: work under review and rejected work are both delivered,
\* and a completed project has been paid or withheld.
DealStage(p) ==
    LET status == projects[p].status
    IN  CASE status = "Created"                  -> "Offered"
          [] status = "InProgress"               -> "Agreed"
          [] status \in {"InReview", "Rejected"} -> "Delivered"
          [] status = "InDispute"                -> "Contested"
          [] status = "Cancelled"                -> "Cancelled"
          [] status = "Completed"                -> IF Paid(p) THEN "Paid" ELSE "Withheld"

DealOf(p) ==
    IF projects[p] = None THEN None
    ELSE [stage |-> DealStage(p), client |-> Client(p), freelancer |-> Freelancer(p),
          budget |-> projects[p].budget]

Promise == INSTANCE Escrow WITH
    People <- Accounts, Deals <- ProjectIds, Amounts <- Budgets, House <- PalletAccount,
    Dust <- ExistentialDeposit - 1, NoDeal <- None,
    deal   <- [p \in ProjectIds |-> DealOf(p)],
    purse  <- [a \in Accounts |-> ledger.free[a] + ledger.reserved[a]]

\* The runtime implements Escrow.  Across all disputes, appeals, stakes and bonds,
\* what an account owns changes only when a project is settled: by exactly the
\* budget when the client accepts the work, and otherwise so that the winner and
\* everybody else loses nothing, and the loser no more than its bonds.
EscrowKept == Promise!EscrowSpec

DocketOf(p) ==
    IF disputes[p] = None THEN "None"
    ELSE IF disputes[p].status = "AiProcessing" THEN "Awaited" ELSE "Ruled"

OracleView == INSTANCE Docket WITH
    Cases  <- ProjectIds,
    docket <- [p \in ProjectIds |-> DocketOf(p)]

\* The runtime implements Docket, which is all the oracle's services know of it: a
\* project has at most one dispute in its life, the dispute awaits the oracle once,
\* and no appeal, vote, tie or enforcement makes it await the oracle again
\* (create_dispute, submit_ruling, and the status every other call sets).
DocketKept == OracleView!DocketSpec

-------------------------------------------------------------------------------
(* Liveness *)

Submitted(p) == projects[p] # None /\ projects[p].status \in {"InReview", "Rejected", "InDispute"}

\* Submitted work is settled in the end, whatever the client does or fails to
\* do, however often the parties appeal and whether or not a juror ever votes.
\* It needs parties that can pay.
SubmittedWorkResolves ==
    \A p \in ProjectIds : Submitted(p) ~> (Closed(p) /\ projects[p].work)

-------------------------------------------------------------------------------
(* What the documentation says and the code does not do *)

\* The lock of a completed or cancelled project is gone: ProjectStatus says of
\* Completed "Client accepted work, payment released".
LocksReleased ==
    \A p \in ProjectIds : Closed(p) => ledger.locks[Client(p)][GenerateLockId(p)] = 0

LostBy(a) == {p \in ProjectIds : InStatus(p, "Finalized") /\ Loser(p, disputes[p].ruling) = a}

\* README.md's record of "dispute outcomes": a user's lost disputes are those of
\* the genesis and one for each finalized dispute the user has lost.
DisputesCountedOnce ==
    \A a \in Accounts : rep.ReputationStats[a].disputes_lost =
                           InitialUsers[a].disputes_lost + Cardinality(LostBy(a))

\* complete_arbitration_payouts says that the pallet's account "now holds the
\* necessary funds" when it pays the jurors.
RewardsFunded ==
    \A p \in ProjectIds : Enforceable(p) =>
      LET ruling == disputes[p].ruling
          ruled  == OnRuling(Chain, p, ruling)
      IN  ruled.ok => Payouts(ruled, p, Winner(p, ruling), Loser(p, ruling)).ok
===============================================================================
