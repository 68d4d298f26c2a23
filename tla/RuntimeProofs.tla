----------------------------- MODULE RuntimeProofs -----------------------------
(***************************************************************************)
(* The theorems about the composed runtime (ArbSpec) that need the chain   *)
(* state: types, locks, payments, the books of disputes, the verdicts of   *)
(* juries, and that the runtime implements Escrow.  RuntimeLemmas says     *)
(* what each call commits; here each invariant is shown to be kept call by *)
(* call, and each call to be a step of Escrow or none.                     *)
(***************************************************************************)
EXTENDS RuntimeLemmas

-------------------------------------------------------------------------------
(* Types *)

\* The types of the books of disputes.
BooksTypeOK ==
    /\ AppealBonds \in [ProjectIds -> [Rounds -> Bond \cup {None}]]
    /\ ArbitrationCosts \in [ProjectIds -> Nat]
    /\ JuryFeesOwed \in [ProjectIds -> [Rounds -> [Accounts -> Fee]]]
    /\ JurorRewards \in [ProjectIds -> [Accounts -> Nat]]

\* The inductive invariant for types: those of control and of the books, and what the
\* calls of the reputation pallet keep.  The pools must be sound for a selection to
\* return what the books record.
TypesInv == MatchInv /\ RuntimeInv /\ BooksTypeOK

\* A percentage of a budget is a natural.
LEMMA AmountsType ==
  ASSUME NEW p \in ProjectIds, projects[p] \in Project, NEW round \in Rounds
  PROVE  /\ CalculateArbitrationCost(p, round) \in Nat
         /\ CalculateAppealBond(p, round) \in Nat
         /\ CalculateJuryFees(p, round) \in Fee
<1>1. projects[p].budget \in Nat
  BY DEF Project
<1>2. ASSUME NEW k \in Nat
      PROVE  Percent(p, k) \in Nat
  <2> DEFINE n == projects[p].budget * k
  <2>1. n \in Nat
    BY <1>1, <1>2
  <2> HIDE DEF n
  <2>2. n \div 100 \in Nat
    BY <2>1
  <2> QED BY <2>2 DEF Percent, n
<1>3. round = 1 \/ round = 2 \/ round = 3
  BY DEF Rounds
<1>4. <<2, 5, 8>>[round] \in Nat /\ <<5, 20, 50>>[round] \in Nat /\ <<0, 1, 2>>[round] \in Nat
  BY <1>3
<1>5. CalculateArbitrationCost(p, round) \in Nat /\ CalculateAppealBond(p, round) \in Nat
  BY <1>2, <1>4, Zenon DEF CalculateArbitrationCost, CalculateAppealBond
<1>6. CalculateJuryFees(p, round) \in Fee
  <2> DEFINE base == Percent(p, <<0, 1, 2>>[round])
  <2>1. base \in Nat
    BY <1>2, <1>4, Zenon
  <2>2. CalculateJuryFees(p, round) = [base |-> base, bonus |-> base \div 4]
    BY DEF CalculateJuryFees
  <2> HIDE DEF base
  <2>3. base \div 4 \in Nat
    BY <2>1
  <2> QED BY <2>1, <2>2, <2>3 DEF Fee
<1> QED BY <1>5, <1>6

\* A step that leaves the two pallets alone.
LEMMA SameRuntime ==
  ASSUME RuntimeInv, ledger' = ledger, rep' = rep
  PROVE  RuntimeInv'
<1>1. RepTypeOK' /\ PoolsSound'
  BY DEF RuntimeInv, RepTypeOK, PoolsSound
<1>2. (\A b \in Accounts : StakedIff(rep, b))' /\ TiersBut(rep, {})' /\ Newcomers'
  BY DEF RuntimeInv, StakedIff, TiersBut, Newcomers
<1> QED BY <1>1, <1>2 DEF RuntimeInv

\* The chain is committed as it was.
LEMMA CommitChain ==
  ASSUME Commit(Chain)
  PROVE  ledger' = ledger /\ rep' = rep
  BY DEF Commit, Chain

\* The steps of a client.
LEMMA ClientRuntime ==
  ASSUME TypesInv, NEW c \in Clients, ClientStep(c)
  PROVE  RuntimeInv'
<1>1. c \in Accounts /\ RuntimeInv /\ NextProjectId \in Nat
  BY ProjAssumption DEF TypesInv, MatchInv, ControlTypeOK
<1>2. ASSUME NEW p \in ProjectIds, projects[p] # None
      PROVE  projects[p] \in Project
  BY <1>2 DEF TypesInv, MatchInv, ControlTypeOK
<1>3. ASSUME NEW b \in Budgets, NEW d \in Durations, CreateProject(c, b, d)
      PROVE  RuntimeInv'
  <2>1. b \in Nat /\ NextProjectId \in ProjectIds
    BY <1>1, <1>3, ProjAssumption DEF CreateProject
  <2>2. PICK t : /\ Commit(t)
                 /\ Quiet(Chain, t, [ledger.locks EXCEPT ![c] =
                                      [@ EXCEPT ![GenerateLockId(NextProjectId)] = b]])
                 /\ BeyondKept(Chain, t)
    BY <1>1, <1>3, <2>1, CreateProjectEffect
  <2> QED BY <1>1, <2>2, CommitSustains DEF Quiet
<1>4. ASSUME NEW p \in ProjectIds, NEW f \in Freelancers, StartWork(c, p, f)
      PROVE  RuntimeInv'
  BY <1>1, <1>4, CommitChain, SameRuntime DEF StartWork, UpdateProject
<1>5. ASSUME NEW p \in ProjectIds, NEW r \in StarRatings, AcceptWork(c, p, r)
      PROVE  RuntimeInv'
  <2>1. /\ projects[p] \in Project /\ projects[p].freelancer # None /\ r \in Nat
        /\ Commit(Accepted(c, p, r))
    BY <1>2, <1>5 DEF AcceptWork, UpdateProject
  <2>2. PICK t : /\ Commit(t)
                 /\ Closes(Chain, t, GenerateLockId(p), c, projects[p].freelancer,
                           projects[p].budget, p)
    BY <1>1, <2>1, AcceptedEffect
  <2> QED BY <1>1, <2>2, CommitSustains DEF Closes
<1>6. ASSUME NEW p \in ProjectIds, RejectWork(c, p)
      PROVE  RuntimeInv'
  BY <1>1, <1>6, CommitChain, SameRuntime DEF RejectWork, UpdateProject
<1>7. ASSUME NEW p \in ProjectIds, CancelProject(c, p)
      PROVE  RuntimeInv'
  <2>1. Commit(Cancelled(c, p))
    BY <1>7 DEF CancelProject, UpdateProject
  <2>2. PICK t : /\ Commit(t)
                 /\ Quiet(Chain, t, [ledger.locks EXCEPT ![c] = [@ EXCEPT ![GenerateLockId(p)] = 0]])
                 /\ BeyondKept(Chain, t)
    BY <1>1, <2>1, CancelledEffect
  <2> QED BY <1>1, <2>2, CommitSustains DEF Quiet
<1> QED BY <1>3, <1>4, <1>5, <1>6, <1>7 DEF ClientStep

\* The steps of freelancers and stakers.
LEMMA OthersRuntime ==
  ASSUME TypesInv, \/ \E f \in Freelancers : FreelancerStep(f)
                   \/ \E a \in Stakers : StakerStep(a)
  PROVE  RuntimeInv'
<1>1. RuntimeInv
  BY DEF TypesInv
<1>2. ASSUME NEW f \in Freelancers, FreelancerStep(f)
      PROVE  RuntimeInv'
  <2>1. PICK p \in ProjectIds : ApplyForProject(f, p) \/ SubmitWork(f, p)
    BY <1>2 DEF FreelancerStep
  <2>2. CASE ApplyForProject(f, p)
    BY <1>1, <2>2, SameRuntime DEF ApplyForProject
  <2>3. CASE SubmitWork(f, p)
    BY <1>1, <2>3, CommitChain, SameRuntime DEF SubmitWork, UpdateProject
  <2> QED BY <2>1, <2>2, <2>3
<1>3. ASSUME NEW a \in Stakers, StakerStep(a)
      PROVE  RuntimeInv'
  <2>1. a \in Accounts
    BY ProjAssumption
  <2>2. \E t : Commit(t) /\ Quiet(Chain, t, ledger.locks) /\ BeyondKept(Chain, t)
    BY <1>1, <1>3, <2>1, RegisterUserEffect, JurorJoinsEffect, JurorLeavesEffect DEF StakerStep
  <2> QED BY <1>1, <2>2, CommitSustains DEF Quiet
<1> QED BY <1>2, <1>3

\* What a call on a dispute that is open finds: a project with both parties.
LEMMA PartiesFound ==
  ASSUME MatchInv, NEW p \in ProjectIds, HasParties(p)
  PROVE  /\ projects[p] \in Project
         /\ Client(p) \in Accounts /\ Freelancer(p) \in Accounts
         /\ \A ruling : Winner(p, ruling) \in Accounts /\ Loser(p, ruling) \in Accounts
<1>1. projects[p] \in Project /\ projects[p].freelancer # None
  BY DEF MatchInv, ControlTypeOK, HasParties
<1>2. Client(p) \in Accounts /\ Freelancer(p) \in Accounts
  BY <1>1 DEF Client, Freelancer, Project
<1> QED BY <1>1, <1>2 DEF Winner, Loser

\* What a call finds in the storage of disputes.
LEMMA DisputeFound ==
  ASSUME MatchInv, NEW p \in ProjectIds, disputes[p] # None
  PROVE  /\ disputes[p] \in Dispute
         /\ disputes[p].round \in Rounds
         /\ DOMAIN disputes[p].jurors \in SUBSET Accounts
         /\ DOMAIN disputes[p].votes \in SUBSET Accounts
         /\ disputes[p].jurors \in [DOMAIN disputes[p].jurors -> BOOLEAN]
         /\ disputes[p].votes \in [DOMAIN disputes[p].votes -> Votes]
<1> DEFINE d == disputes[p]
<1>1. d \in Dispute
  BY DEF MatchInv, ControlTypeOK
<1> HIDE DEF d
<1>2. /\ d.jurors \in UNION {[J -> BOOLEAN] : J \in SUBSET Accounts}
      /\ d.votes \in UNION {[J -> Votes] : J \in SUBSET Accounts}
      /\ d.round \in Rounds
  BY <1>1 DEF Dispute
<1>3. PICK J \in SUBSET Accounts : d.jurors \in [J -> BOOLEAN]
  BY <1>2
<1>4. PICK V \in SUBSET Accounts : d.votes \in [V -> Votes]
  BY <1>2
<1> QED BY <1>1, <1>2, <1>3, <1>4 DEF d

\* create_dispute and appeal_ruling, on the chain: the bond is reserved.
LEMMA DisputeBonds ==
  ASSUME TypesInv, NEW p \in ProjectIds, NEW who
  PROVE  /\ CreateDispute(who, p) =>
              /\ who \in Accounts /\ CalculateAppealBond(p, 1) \in Nat
              /\ \E t : /\ Commit(t) /\ Quiet(Chain, t, ledger.locks)
                        /\ \A b \in Accounts : Beyond(t, b) = Bonding(Chain, who, CalculateAppealBond(p, 1), b)
         /\ AppealRuling(who, p) =>
              LET round == disputes[p].round + 1
              IN  /\ who \in Accounts /\ round \in 2..3 /\ CalculateAppealBond(p, round) \in Nat
                  /\ \E t : /\ Commit(t) /\ Quiet(Chain, t, ledger.locks)
                            /\ \A b \in Accounts :
                                 Beyond(t, b) = Bonding(Chain, who, CalculateAppealBond(p, round), b)
<1>1. Chain \in ChainState /\ Chain.rep = rep /\ Chain.ledger = ledger /\ Chain.ok /\ MatchInv
  BY ChainType DEF TypesInv, RuntimeInv
<1>2. ASSUME CreateDispute(who, p)
      PROVE  /\ who \in Accounts /\ CalculateAppealBond(p, 1) \in Nat
             /\ \E t : /\ Commit(t) /\ Quiet(Chain, t, ledger.locks)
                       /\ \A b \in Accounts : Beyond(t, b) = Bonding(Chain, who, CalculateAppealBond(p, 1), b)
  <2> DEFINE v == CalculateAppealBond(p, 1)
             t == Reserve(Chain, who, v)
  <2>1. HasParties(p) /\ who = Freelancer(p) /\ Commit(t)
    BY <1>2 DEF CreateDispute, UpdateProject
  <2>2. 1 \in Rounds
    BY DEF Rounds
  <2>3. who \in Accounts /\ v \in Nat
    BY <1>1, <2>1, <2>2, PartiesFound, AmountsType
  <2>4. t.ok
    BY <2>1 DEF Commit
  <2> HIDE DEF v
  <2>5. /\ Quiet(Chain, t, Chain.ledger.locks) /\ t.rep = Chain.rep
        /\ \A b \in Accounts : Beyond(t, b) = Bonding(Chain, who, v, b)
    BY <1>1, <2>3, <2>4, BondEffect
  <2> QED BY <1>1, <2>1, <2>3, <2>5 DEF v
<1>3. ASSUME AppealRuling(who, p)
      PROVE  LET round == disputes[p].round + 1
             IN  /\ who \in Accounts /\ round \in 2..3 /\ CalculateAppealBond(p, round) \in Nat
                 /\ \E t : /\ Commit(t) /\ Quiet(Chain, t, ledger.locks)
                           /\ \A b \in Accounts :
                                Beyond(t, b) = Bonding(Chain, who, CalculateAppealBond(p, round), b)
  <2> DEFINE round == disputes[p].round + 1
             v     == CalculateAppealBond(p, round)
             jury  == JuryOf(round)
             sel   == GetEligibleJurors(Chain, jury.tier, {Client(p), Freelancer(p)}, jury.size)
             t     == [Reserve(Chain, who, v) EXCEPT !.rep.NextJurorIndex = sel.next]
  <2>1. /\ disputes[p] # None /\ HasParties(p) /\ who = Loser(p, disputes[p].ruling) /\ Commit(t)
        /\ round <= 3
    BY <1>3 DEF AppealRuling
  <2>2. disputes[p].round \in Rounds
    BY <1>1, <2>1, DisputeFound
  <2>3. round \in 2..3 /\ round \in Rounds
    BY <2>1, <2>2 DEF Rounds
  <2>4. who \in Accounts /\ projects[p] \in Project
    BY <1>1, <2>1, PartiesFound
  <2>5. v \in Nat
    BY <2>3, <2>4, AmountsType
  <2>6. sel.next \in [PoolTiers -> Nat]
    BY <1>1, GetEligibleJurorsType
  <2>7. t.ok
    BY <2>1 DEF Commit
  <2> HIDE DEF v, sel, round
  <2>8. /\ Quiet(Chain, t, Chain.ledger.locks)
        /\ \A b \in Accounts : Beyond(t, b) = Bonding(Chain, who, v, b)
    <3> DEFINE next == sel.next
    <3>1. t = Appealed(Chain, who, v, next) /\ next \in [PoolTiers -> Nat]
      BY <2>6 DEF Appealed
    <3> HIDE DEF next, t
    <3> QED BY ONLY <1>1, <2>4, <2>5, <2>7, <3>1, AppealEffect
  <2> HIDE DEF t
  <2> QED BY <1>1, <2>1, <2>3, <2>4, <2>5, <2>8 DEF v, round
<1> QED BY <1>2, <1>3

\* The steps of a dispute keep what the reputation pallet and the currency keep.
LEMMA DisputeRuntime ==
  ASSUME TypesInv, NEW p \in ProjectIds, DisputeStep(p)
  PROVE  RuntimeInv'
<1>1. MatchInv /\ RuntimeInv /\ BooksTypeOK
  BY DEF TypesInv
<1>2. ASSUME NEW who, CreateDispute(who, p) \/ AppealRuling(who, p)
      PROVE  RuntimeInv'
  <2>1. \E t : Commit(t) /\ Quiet(Chain, t, ledger.locks)
    BY <1>2, DisputeBonds
  <2> QED BY <1>1, <2>1, CommitSustains DEF Quiet
<1>3. ASSUME NEW j, NEW v, CastVote(j, p, v)
      PROVE  RuntimeInv'
  BY <1>1, <1>3, SameRuntime DEF CastVote, repVars
<1>4. ASSUME OracleRules(p)
      PROVE  RuntimeInv'
  BY <1>1, <1>4, SameRuntime DEF OracleRules, SubmitRuling, repVars
<1>5. ASSUME FinalizeRound(p)
      PROVE  RuntimeInv'
  <2>1. disputes[p] # None /\ Commit(RecordVotes(disputes[p].votes))
    BY <1>5 DEF FinalizeRound
  <2>2. DOMAIN disputes[p].votes \in SUBSET Accounts
    BY <1>1, <2>1, DisputeFound
  <2>3. Quiet(Chain, RecordVotes(disputes[p].votes), ledger.locks)
    BY <1>1, <2>2, FinalizeEffect
  <2> QED BY <1>1, <2>1, <2>3, CommitSustains DEF Quiet
<1>6. ASSUME EnforceFinalRuling(p)
      PROVE  RuntimeInv'
  <2>1. HasParties(p)
    BY <1>6 DEF EnforceFinalRuling, Enforceable
  <2>2. projects[p] \in Project
    BY <1>1, <2>1, PartiesFound
  <2>3. /\ AppealBonds[p] \in [Rounds -> Bond \cup {None}] /\ ArbitrationCosts[p] \in Nat
        /\ JurorRewards[p] \in [Accounts -> Nat]
    BY <1>1 DEF BooksTypeOK
  <2>4. PICK t : Commit(t) /\ Enforces(Chain, t, p, disputes[p].ruling)
    BY <1>1, <1>6, <2>2, <2>3, EnforceEffect
  <2> QED BY <1>1, <2>4, CommitSustains DEF Enforces, Closes, Calm
<1> QED BY <1>2, <1>3, <1>4, <1>5, <1>6 DEF DisputeStep

\* The books are rewritten at one project.
LEMMA BooksRewritten ==
  ASSUME BooksTypeOK, NEW p \in ProjectIds,
         NEW bonds \in [Rounds -> Bond \cup {None}], NEW cost \in Nat,
         NEW fees \in [Rounds -> [Accounts -> Fee]], NEW rewards \in [Accounts -> Nat],
         AppealBonds' = [AppealBonds EXCEPT ![p] = bonds],
         ArbitrationCosts' = [ArbitrationCosts EXCEPT ![p] = cost],
         JuryFeesOwed' = [JuryFeesOwed EXCEPT ![p] = fees],
         JurorRewards' = [JurorRewards EXCEPT ![p] = rewards]
  PROVE  BooksTypeOK'
  BY DEF BooksTypeOK

\* The books of one project have their types.
LEMMA BooksFound ==
  ASSUME BooksTypeOK, NEW p \in ProjectIds
  PROVE  /\ AppealBonds[p] \in [Rounds -> Bond \cup {None}]
         /\ ArbitrationCosts[p] \in Nat
         /\ JuryFeesOwed[p] \in [Rounds -> [Accounts -> Fee]]
         /\ JurorRewards[p] \in [Accounts -> Nat]
         /\ AppealBonds = [AppealBonds EXCEPT ![p] = AppealBonds[p]]
         /\ ArbitrationCosts = [ArbitrationCosts EXCEPT ![p] = ArbitrationCosts[p]]
         /\ JuryFeesOwed = [JuryFeesOwed EXCEPT ![p] = JuryFeesOwed[p]]
         /\ JurorRewards = [JurorRewards EXCEPT ![p] = JurorRewards[p]]
  BY DEF BooksTypeOK

\* An award is a natural.
LEMMA AwardType ==
  ASSUME BooksTypeOK, NEW p \in ProjectIds, NEW round \in Rounds, NEW votes, NEW j \in Accounts
  PROVE  Award(p, round, votes, j) \in Nat
<1> DEFINE fee == JuryFeesOwed[p][round][j]
<1>1. fee \in Fee
  BY DEF BooksTypeOK
<1>2. fee.base \in Nat /\ fee.bonus \in Nat
  BY <1>1 DEF Fee
<1>3. Award(p, round, votes, j) = fee.base + (IF WithMajority(votes, j) THEN fee.bonus ELSE 0)
  BY DEF Award
<1> HIDE DEF fee
<1> QED BY <1>2, <1>3

\* The steps of a dispute keep the types of the books.
LEMMA DisputeBooksType ==
  ASSUME TypesInv, NEW p \in ProjectIds, DisputeStep(p)
  PROVE  BooksTypeOK'
<1>1. MatchInv /\ RuntimeInv /\ BooksTypeOK
  BY DEF TypesInv
<1>2. /\ AppealBonds[p] \in [Rounds -> Bond \cup {None}]
      /\ ArbitrationCosts[p] \in Nat
      /\ JuryFeesOwed[p] \in [Rounds -> [Accounts -> Fee]]
      /\ JurorRewards[p] \in [Accounts -> Nat]
      /\ AppealBonds = [AppealBonds EXCEPT ![p] = AppealBonds[p]]
      /\ ArbitrationCosts = [ArbitrationCosts EXCEPT ![p] = ArbitrationCosts[p]]
      /\ JuryFeesOwed = [JuryFeesOwed EXCEPT ![p] = JuryFeesOwed[p]]
      /\ JurorRewards = [JurorRewards EXCEPT ![p] = JurorRewards[p]]
  BY <1>1, BooksFound
<1>3. ASSUME NEW who, CreateDispute(who, p)
      PROVE  BooksTypeOK'
  <2> DEFINE v == CalculateAppealBond(p, 1)
             bonds == [AppealBonds[p] EXCEPT ![1] = [appellant |-> who, amount |-> v]]
             cost == CalculateArbitrationCost(p, 1)
  <2>1. who \in Accounts /\ v \in Nat
    BY <1>3, DisputeBonds
  <2>2. 1 \in Rounds /\ HasParties(p)
    BY <1>3 DEF Rounds, CreateDispute
  <2>3. cost \in Nat
    BY <1>1, <2>2, PartiesFound, AmountsType
  <2>4. /\ AppealBonds' = [AppealBonds EXCEPT ![p] = bonds]
        /\ ArbitrationCosts' = [ArbitrationCosts EXCEPT ![p] = cost]
        /\ JuryFeesOwed' = JuryFeesOwed /\ JurorRewards' = JurorRewards
    BY <1>3 DEF CreateDispute
  <2> HIDE DEF v, cost
  <2>5. bonds \in [Rounds -> Bond \cup {None}]
    BY <1>2, <2>1, <2>2 DEF Bond
  <2> HIDE DEF bonds
  <2> QED BY <1>1, <1>2, <2>3, <2>4, <2>5, BooksRewritten
<1>4. ASSUME NEW who, AppealRuling(who, p)
      PROVE  BooksTypeOK'
  <2> DEFINE round == disputes[p].round + 1
             v     == CalculateAppealBond(p, round)
             jury  == JuryOf(round)
             sel   == GetEligibleJurors(Chain, jury.tier, {Client(p), Freelancer(p)}, jury.size)
             fee   == CalculateJuryFees(p, round)
             row   == JuryFeesOwed[p][round]
             paid  == [a \in Accounts |-> IF a \in sel.jurors THEN fee ELSE row[a]]
             bonds == [AppealBonds[p] EXCEPT ![round] = [appellant |-> who, amount |-> v]]
             more  == CalculateArbitrationCost(p, round)
             cost  == ArbitrationCosts[p] + more
             fees  == [JuryFeesOwed[p] EXCEPT ![round] = paid]
  <2>1. who \in Accounts /\ v \in Nat /\ round \in 2..3
    BY <1>4, DisputeBonds
  <2>2. round \in Rounds /\ HasParties(p)
    <3>1. round \in Rounds
      BY <2>1 DEF Rounds
    <3> QED BY <1>4, <3>1 DEF AppealRuling
  <2>3. /\ AppealBonds' = [AppealBonds EXCEPT ![p] = bonds]
        /\ ArbitrationCosts' = [ArbitrationCosts EXCEPT ![p] = cost]
        /\ JuryFeesOwed' = [JuryFeesOwed EXCEPT ![p] = fees] /\ JurorRewards' = JurorRewards
    <3>1. JurorRewards' = JurorRewards
      BY <1>4 DEF AppealRuling
    <3>2. AppealBonds' = [AppealBonds EXCEPT ![p] = bonds]
      BY <1>4 DEF AppealRuling
    <3>3. ArbitrationCosts' = [ArbitrationCosts EXCEPT ![p] = cost]
      BY <1>4 DEF AppealRuling
    <3>4. JuryFeesOwed' = [JuryFeesOwed EXCEPT ![p] = fees]
      BY <1>4 DEF AppealRuling
    <3> QED BY <3>1, <3>2, <3>3, <3>4
  <2>4. more \in Nat /\ fee \in Fee
    BY <1>1, <2>2, PartiesFound, AmountsType
  <2>5. row \in [Accounts -> Fee]
    BY <1>2, <2>2
  <2> HIDE DEF v, sel, fee, row, more
  <2>6. paid \in [Accounts -> Fee]
    BY <2>4, <2>5
  <2> HIDE DEF paid
  <2>7. bonds \in [Rounds -> Bond \cup {None}]
    BY <1>2, <2>1, <2>2 DEF Bond
  <2>8. fees \in [Rounds -> [Accounts -> Fee]] /\ cost \in Nat
    BY <1>2, <2>2, <2>4, <2>6
  <2> HIDE DEF bonds, cost, fees
  <2> QED BY <1>1, <1>2, <2>3, <2>7, <2>8, BooksRewritten
<1>5. ASSUME NEW j, NEW v, CastVote(j, p, v) \/ OracleRules(p)
      PROVE  BooksTypeOK'
  <2>1. /\ AppealBonds' = AppealBonds /\ ArbitrationCosts' = ArbitrationCosts
        /\ JuryFeesOwed' = JuryFeesOwed /\ JurorRewards' = JurorRewards
    BY <1>5 DEF CastVote, OracleRules, SubmitRuling, moneyVars
  <2> QED BY <1>1, <2>1 DEF BooksTypeOK
<1>6. ASSUME FinalizeRound(p)
      PROVE  BooksTypeOK'
  <2> DEFINE d == disputes[p]
             rewards == [a \in Accounts |-> IF a \in DOMAIN d.votes
                                            THEN JurorRewards[p][a] + Award(p, d.round, d.votes, a)
                                            ELSE JurorRewards[p][a]]
  <2>1. /\ AppealBonds' = AppealBonds /\ ArbitrationCosts' = ArbitrationCosts
        /\ JuryFeesOwed' = JuryFeesOwed /\ JurorRewards' = [JurorRewards EXCEPT ![p] = rewards]
        /\ d # None
    BY <1>6 DEF FinalizeRound
  <2>2. d.round \in Rounds
    BY <1>1, <2>1, DisputeFound
  <2>3. \A a \in Accounts : Award(p, d.round, d.votes, a) \in Nat
    BY <1>1, <2>2, AwardType
  <2> HIDE DEF d
  <2>4. rewards \in [Accounts -> Nat]
    BY <1>2, <2>3
  <2> HIDE DEF rewards
  <2> QED BY <1>1, <1>2, <2>1, <2>4, BooksRewritten
<1>7. ASSUME EnforceFinalRuling(p)
      PROVE  BooksTypeOK'
  <2> DEFINE fees == [r \in Rounds |-> NoFees]
             rewards == [a \in Accounts |-> 0]
  <2>1. /\ AppealBonds' = [AppealBonds EXCEPT ![p] = NoBonds]
        /\ ArbitrationCosts' = [ArbitrationCosts EXCEPT ![p] = 0]
        /\ JuryFeesOwed' = [JuryFeesOwed EXCEPT ![p] = fees]
        /\ JurorRewards' = [JurorRewards EXCEPT ![p] = rewards]
    BY <1>7 DEF EnforceFinalRuling, CleanupArbitrationStorage
  <2>2. NoBonds \in [Rounds -> Bond \cup {None}] /\ 0 \in Nat
    BY DEF NoBonds
  <2>3. fees \in [Rounds -> [Accounts -> Fee]] /\ rewards \in [Accounts -> Nat]
    BY DEF NoFees, Fee
  <2> HIDE DEF fees, rewards
  <2> QED BY <1>1, <2>1, <2>2, <2>3, BooksRewritten
<1> QED BY <1>3, <1>4, <1>5, <1>6, <1>7 DEF DisputeStep

\* No step of the projects pallet touches the books.
LEMMA SameBooks ==
  ASSUME BooksTypeOK, UNCHANGED arbVars
  PROVE  BooksTypeOK'
  BY DEF BooksTypeOK, arbVars, moneyVars

\* The genesis state.
LEMMA TypesInitially == ArbInit => TypesInv
<1> SUFFICES ASSUME ArbInit
             PROVE  TypesInv
  OBVIOUS
<1>1. MatchInv
  BY MatchInitially
<1>2. RepTypeOK /\ PoolsSound /\ StakesBacked /\ TierNotOverstated /\ Newcomers
  BY GenesisSound DEF ArbInit, ProjInit
<1>3. RuntimeInv
  BY <1>2 DEF RuntimeInv, StakesBacked, StakedIff, TierNotOverstated, TiersBut
<1>4. BooksTypeOK
  <2>1. NoBonds \in [Rounds -> Bond \cup {None}] /\ NoFees \in [Accounts -> Fee]
    BY DEF NoBonds, NoFees, Fee
  <2> QED BY <2>1 DEF ArbInit, BooksTypeOK
<1> QED BY <1>1, <1>3, <1>4 DEF TypesInv

\* Every step keeps the types.
LEMMA TypesKept == TypesInv /\ [ArbNext]_vars => TypesInv'
<1> SUFFICES ASSUME TypesInv, [ArbNext]_vars
             PROVE  TypesInv'
  OBVIOUS
<1>1. MatchInv'
  BY MatchKept DEF TypesInv
<1>2. RuntimeInv /\ BooksTypeOK
  BY DEF TypesInv
<1>3. CASE ProjStep /\ UNCHANGED arbVars
  <2>1. BooksTypeOK'
    BY <1>2, <1>3, SameBooks
  <2>2. RuntimeInv'
    BY <1>3, ClientRuntime, OthersRuntime DEF ProjStep
  <2> QED BY <1>1, <2>1, <2>2 DEF TypesInv
<1>4. ASSUME NEW p \in ProjectIds, DisputeStep(p)
      PROVE  TypesInv'
  BY <1>1, <1>4, DisputeRuntime, DisputeBooksType DEF TypesInv
<1>5. CASE NextBlock \/ UNCHANGED vars
  <2>1. ledger' = ledger /\ rep' = rep /\ UNCHANGED arbVars
    BY <1>5 DEF NextBlock, Tick, vars, repVars
  <2> QED BY <1>1, <1>2, <2>1, SameRuntime, SameBooks DEF TypesInv
<1> QED BY <1>3, <1>4, <1>5 DEF ArbNext

\* The chain's storage is well typed whatever the calls do, and what the reputation
\* pallet keeps for every caller it keeps for these.
THEOREM RuntimeInvariant == ArbSpec => []TypesInv
  BY TypesInitially, TypesKept, PTL DEF ArbSpec

\* Every storage item of the three pallets and of the currency keeps its type: no
\* balance, counter, tier or pool leaves its range through any sequence of calls.
THEOREM ArbTypeCorrect == ArbSpec => []ArbTypeOK
<1>1. TypesInv => ArbTypeOK
  BY DEF TypesInv, MatchInv, ControlTypeOK, RuntimeInv, BooksTypeOK, ArbTypeOK, ProjTypeOK
<1> QED BY <1>1, RuntimeInvariant, PTL

\* The part of it about the projects pallet and what it stands on.
THEOREM ProjTypeCorrect == ArbSpec => []ProjTypeOK
<1>1. TypesInv => ProjTypeOK
  BY DEF TypesInv, MatchInv, ControlTypeOK, RuntimeInv, ProjTypeOK
<1> QED BY <1>1, RuntimeInvariant, PTL

\* What the reputation pallet keeps under any caller it keeps in the runtime, where one
\* extrinsic makes several calls and finalize_round ignores errors: pools hold opted-in
\* jurors, once and in the pool of their tier, no tier is above what the record
\* justifies, and so appeal_ruling draws the right jury.
THEOREM JuriesWellDrawn == ArbSpec => [](PoolsSound /\ TierNotOverstated /\ SelectionCorrect)
<1>1. TypesInv => RepTypeOK /\ PoolsSound /\ TierNotOverstated
  BY DEF TypesInv, RuntimeInv, TiersBut, TierNotOverstated
<1>2. TypesInv => SelectionCorrect
  BY <1>1, SelectionHolds
<1> QED BY <1>1, <1>2, RuntimeInvariant, PTL

-------------------------------------------------------------------------------
(* The escrow lock and the payment *)

\* A u32 is given by its four bytes.
LEMMA LockIdsDiffer ==
  ASSUME NEW p \in ProjectIds, NEW q \in ProjectIds, GenerateLockId(p) = GenerateLockId(q)
  PROVE  p = q
<1> DEFINE p1 == p \div 256
           p2 == p1 \div 256
           p3 == p2 \div 256
           q1 == q \div 256
           q2 == q1 \div 256
           q3 == q2 \div 256
<1>1. p \in Nat /\ q \in Nat
  BY ProjAssumption
<1>2. p3 < 256 /\ q3 < 256
  BY ProjAssumption
<1>3. p % 256 = q % 256 /\ p1 % 256 = q1 % 256 /\ p2 % 256 = q2 % 256 /\ p3 % 256 = q3 % 256
  BY DEF GenerateLockId
<1>4. ASSUME NEW x \in Nat
      PROVE  x \div 256 \in Nat /\ x = 256 * (x \div 256) + (x % 256)
  OBVIOUS
<1>5. p1 \in Nat /\ q1 \in Nat /\ p = 256 * p1 + (p % 256) /\ q = 256 * q1 + (q % 256)
  BY <1>1, <1>4
<1> HIDE DEF p1, q1
<1>6. p2 \in Nat /\ q2 \in Nat /\ p1 = 256 * p2 + (p1 % 256) /\ q1 = 256 * q2 + (q1 % 256)
  BY <1>5, <1>4
<1> HIDE DEF p2, q2
<1>7. p3 \in Nat /\ q3 \in Nat /\ p2 = 256 * p3 + (p2 % 256) /\ q2 = 256 * q3 + (q2 % 256)
  BY <1>6, <1>4
<1> HIDE DEF p3, q3
<1>8. p3 = q3
  BY <1>2, <1>3, <1>7
<1>9. p2 = q2
  BY <1>3, <1>7, <1>8
<1>10. p1 = q1
  BY <1>3, <1>6, <1>9
<1> QED BY <1>3, <1>5, <1>10

\* Who has been paid for project p, and when.
SettledAs(p, pr, d, att) ==
    /\ \A a \in Accounts : <<a, p>> \in att =>
         pr # None /\ pr.freelancer = a /\ pr.status = "Completed"
    /\ pr # None =>
         (<<pr.freelancer, p>> \in att <=>
            pr.status = "Completed" /\ (d # None => d.ruling = "FreelancerWins"))

\* What is locked for project p, and on whose account.
LockedFor(p, pr, att, locks) ==
    \A a \in Accounts :
      locks[a][GenerateLockId(p)] =
        IF pr # None /\ pr.client = a /\ pr.status # "Cancelled" /\ <<pr.freelancer, p>> \notin att
        THEN pr.budget ELSE 0

EscrowAt(p) == /\ SettledAs(p, projects[p], disputes[p], rep.Attestations)
               /\ LockedFor(p, projects[p], rep.Attestations, ledger.locks)

\* The inductive invariant for locks and payments: an attestation belongs to the
\* freelancer of a completed project, so nobody is paid before a project has one.
EscrowInv == TypesInv /\ \A p \in ProjectIds : EscrowAt(p)

\* A step that leaves project q alone.
Spares(q) ==
    /\ projects'[q] = projects[q] /\ disputes'[q] = disputes[q]
    /\ \A a \in Accounts : ledger'.locks[a][GenerateLockId(q)] = ledger.locks[a][GenerateLockId(q)]
    /\ \A a : <<a, q>> \in rep'.Attestations <=> <<a, q>> \in rep.Attestations

\* It keeps what is said of q.
LEMMA SparedEscrow ==
  ASSUME NEW q \in ProjectIds, EscrowAt(q), Spares(q)
  PROVE  EscrowAt(q)'
<1>1. SettledAs(q, projects'[q], disputes'[q], rep'.Attestations)
  BY DEF EscrowAt, Spares, SettledAs
<1>2. LockedFor(q, projects'[q], rep'.Attestations, ledger'.locks)
  BY DEF EscrowAt, Spares, LockedFor
<1> QED BY <1>1, <1>2 DEF EscrowAt

\* A step that writes project p, its dispute, its lock and its attestation spares
\* the others.
LEMMA OthersSpared ==
  ASSUME TypesInv, NEW p \in ProjectIds, NEW q \in ProjectIds, q # p,
         projects'[q] = projects[q], disputes'[q] = disputes[q],
         NEW c \in Accounts, NEW v, NEW f,
         \/ ledger'.locks = ledger.locks
         \/ ledger'.locks = [ledger.locks EXCEPT ![c] = [@ EXCEPT ![GenerateLockId(p)] = v]],
         \/ rep'.Attestations = rep.Attestations
         \/ rep'.Attestations = rep.Attestations \cup {<<f, p>>}
  PROVE  Spares(q)
<1>1. ledger.locks \in [Accounts -> [LockIds -> Nat]]
  BY DEF TypesInv, RuntimeInv, RepTypeOK, Ledger
<1>2. GenerateLockId(q) # GenerateLockId(p) /\ GenerateLockId(q) \in LockIds
  BY LockIdsDiffer, LockIdAssumption
<1>3. ASSUME NEW a \in Accounts
      PROVE  ledger'.locks[a][GenerateLockId(q)] = ledger.locks[a][GenerateLockId(q)]
  <2> DEFINE k == GenerateLockId(q)
             l == GenerateLockId(p)
  <2>1. k # l /\ k \in LockIds
    BY <1>2
  <2> HIDE DEF k, l
  <2>2. CASE ledger'.locks = ledger.locks
    BY <2>2
  <2>3. CASE ledger'.locks = [ledger.locks EXCEPT ![c] = [@ EXCEPT ![l] = v]]
    <3> DEFINE L == ledger.locks
               M == [L[c] EXCEPT ![l] = v]
    <3>1. L \in [Accounts -> [LockIds -> Nat]] /\ M[k] = L[c][k]
      BY <1>1, <2>1
    <3>2. ledger'.locks = [L EXCEPT ![c] = M]
      BY <2>3
    <3> HIDE DEF L, M
    <3>3. ledger'.locks[a][k] = L[a][k]
      BY <3>1, <3>2
    <3> QED BY <3>3 DEF L, k
  <2> QED BY <2>2, <2>3 DEF k, l
<1>4. \A a : <<a, q>> \in rep'.Attestations <=> <<a, q>> \in rep.Attestations
  OBVIOUS
<1> QED BY <1>3, <1>4 DEF Spares

\* Nobody without an account is paid.
LEMMA PayeesAreAccounts ==
  ASSUME TypesInv, NEW p
  PROVE  <<None, p>> \notin rep.Attestations
<1>1. rep.Attestations \in SUBSET (Accounts \X ProjectIds)
  BY DEF TypesInv, RuntimeInv, RepTypeOK, RepStorage
<1> QED BY <1>1, ProjAssumption

\* A project that is neither completed nor cancelled is rewritten, or its dispute is,
\* and no money is paid.
LEMMA StillOpen ==
  ASSUME TypesInv, NEW p \in ProjectIds, EscrowAt(p), NEW pr, NEW new,
         projects[p] = pr, projects'[p] = new, pr # None, new \in Project,
         pr.status \notin {"Completed", "Cancelled"},
         new.status \notin {"Completed", "Cancelled"},
         new.client = pr.client, new.budget = pr.budget,
         ledger'.locks = ledger.locks, rep'.Attestations = rep.Attestations
  PROVE  EscrowAt(p)'
<1>1. new # None /\ (new.freelancer \in Accounts \/ new.freelancer = None)
  BY ProjAssumption DEF Project
<1>2. <<None, p>> \notin rep.Attestations
  BY PayeesAreAccounts
<1>3. \A a \in Accounts : <<a, p>> \notin rep.Attestations
  BY DEF EscrowAt, SettledAs
<1>4. <<new.freelancer, p>> \notin rep.Attestations
  BY <1>1, <1>2, <1>3
<1>5. projects[p] \in Project
  BY DEF TypesInv, MatchInv, ControlTypeOK
<1>6. <<pr.freelancer, p>> \notin rep.Attestations
  BY <1>2, <1>3, <1>5 DEF Project
<1>7. SettledAs(p, new, disputes'[p], rep'.Attestations)
  BY <1>1, <1>3, <1>4 DEF SettledAs
<1>8. LockedFor(p, new, rep'.Attestations, ledger'.locks)
  BY <1>1, <1>4, <1>6 DEF LockedFor, EscrowAt
<1> QED BY <1>7, <1>8 DEF EscrowAt

\* A lock is lifted or placed on c's account, where only c may have one.
LEMMA LockWritten ==
  ASSUME TypesInv, NEW p \in ProjectIds, NEW c \in Accounts, NEW v,
         ledger'.locks = [ledger.locks EXCEPT ![c] = [@ EXCEPT ![GenerateLockId(p)] = v]],
         NEW a \in Accounts
  PROVE  ledger'.locks[a][GenerateLockId(p)] = IF a = c THEN v ELSE ledger.locks[a][GenerateLockId(p)]
<1> DEFINE k == GenerateLockId(p)
           L == ledger.locks
           M == [L[c] EXCEPT ![k] = v]
<1>1. L \in [Accounts -> [LockIds -> Nat]] /\ k \in LockIds
  BY LockIdAssumption DEF TypesInv, RuntimeInv, RepTypeOK, Ledger
<1>2. ledger'.locks = [L EXCEPT ![c] = M]
  OBVIOUS
<1> HIDE DEF k, L
<1>3. M[k] = v
  BY <1>1
<1> HIDE DEF M
<1>4. ledger'.locks[a][k] = IF a = c THEN v ELSE L[a][k]
  BY <1>1, <1>2, <1>3
<1> QED BY <1>4 DEF k, L

\* The freelancer of an open project is paid and its lock lifted.
LEMMA PaidNow ==
  ASSUME TypesInv, NEW p \in ProjectIds, EscrowAt(p), NEW pr,
         projects[p] = pr, pr \in Project, pr.freelancer # None,
         pr.status \notin {"Completed", "Cancelled"},
         projects'[p] = [pr EXCEPT !.status = "Completed"],
         ledger'.locks = [ledger.locks EXCEPT ![pr.client] = [@ EXCEPT ![GenerateLockId(p)] = 0]],
         rep'.Attestations = rep.Attestations \cup {<<pr.freelancer, p>>},
         disputes'[p] # None => disputes'[p].ruling = "FreelancerWins"
  PROVE  EscrowAt(p)'
<1> DEFINE new == [pr EXCEPT !.status = "Completed"]
<1>1. new \in Project /\ new.status = "Completed" /\ new.freelancer = pr.freelancer /\ new.client = pr.client
  BY DEF Project, ProjectStatus
<1>2. new # None /\ projects[p] # None
  BY <1>1, ProjAssumption
<1>3. \A a \in Accounts : <<a, p>> \notin rep.Attestations
  BY DEF EscrowAt, SettledAs
<1> HIDE DEF new
<1>4. SettledAs(p, new, disputes'[p], rep'.Attestations)
  BY <1>1, <1>2, <1>3 DEF SettledAs
<1>5. ASSUME NEW a \in Accounts
      PROVE  ledger'.locks[a][GenerateLockId(p)] = 0
  <2>1. pr.client \in Accounts
    BY DEF Project
  <2>2. ledger'.locks[a][GenerateLockId(p)] =
          IF a = pr.client THEN 0 ELSE ledger.locks[a][GenerateLockId(p)]
    <3>1. /\ TypesInv
          /\ ledger'.locks = [ledger.locks EXCEPT ![pr.client] = [@ EXCEPT ![GenerateLockId(p)] = 0]]
      OBVIOUS
    <3> QED BY ONLY <2>1, <3>1, LockWritten
  <2>3. a # pr.client => ledger.locks[a][GenerateLockId(p)] = 0
    BY DEF EscrowAt, LockedFor
  <2> QED BY <2>2, <2>3
<1>6. <<new.freelancer, p>> \in rep'.Attestations
  BY <1>1
<1>7. LockedFor(p, new, rep'.Attestations, ledger'.locks)
  BY <1>5, <1>6 DEF LockedFor
<1>8. projects'[p] = new
  BY DEF new
<1> QED BY <1>4, <1>7, <1>8 DEF EscrowAt

\* A ruling for the client: nothing is paid, and the lock stays.
LEMMA NotPaid ==
  ASSUME TypesInv, NEW p \in ProjectIds, EscrowAt(p), NEW pr,
         projects[p] = pr, pr \in Project, pr.freelancer # None,
         pr.status \notin {"Completed", "Cancelled"},
         projects'[p] = [pr EXCEPT !.status = "Completed"],
         ledger'.locks = ledger.locks, rep'.Attestations = rep.Attestations,
         disputes'[p] # None, disputes'[p].ruling # "FreelancerWins"
  PROVE  EscrowAt(p)'
<1> DEFINE new == [pr EXCEPT !.status = "Completed"]
<1>1. /\ new \in Project /\ new.status = "Completed" /\ new.freelancer = pr.freelancer
      /\ new.client = pr.client /\ new.budget = pr.budget
  BY DEF Project, ProjectStatus
<1>2. new # None /\ projects[p] # None
  BY <1>1, ProjAssumption
<1>3. \A a \in Accounts : <<a, p>> \notin rep.Attestations
  BY DEF EscrowAt, SettledAs
<1>4. <<pr.freelancer, p>> \notin rep.Attestations
  BY <1>3 DEF Project
<1> HIDE DEF new
<1>5. SettledAs(p, new, disputes'[p], rep'.Attestations)
  BY <1>1, <1>2, <1>3, <1>4 DEF SettledAs
<1>6. LockedFor(p, new, rep'.Attestations, ledger'.locks)
  BY <1>1, <1>2, <1>4 DEF LockedFor, EscrowAt
<1>7. projects'[p] = new
  BY DEF new
<1> QED BY <1>5, <1>6, <1>7 DEF EscrowAt

\* At most the lock of p is written, and at most a payment for p is attested.
LockOf(p) ==
    \/ ledger'.locks = ledger.locks
    \/ \E c \in Accounts, v \in Nat :
         ledger'.locks = [ledger.locks EXCEPT ![c] = [@ EXCEPT ![GenerateLockId(p)] = v]]
PaymentOf(p) ==
    \/ rep'.Attestations = rep.Attestations
    \/ \E f \in Accounts : rep'.Attestations = rep.Attestations \cup {<<f, p>>}

\* One project is written, and what is said of it holds again.
LEMMA EscrowElsewhere ==
  ASSUME EscrowInv, NEW p \in ProjectIds, EscrowAt(p)',
         NEW new, projects' = [projects EXCEPT ![p] = new],
         NEW dispute, disputes' = [disputes EXCEPT ![p] = dispute],
         LockOf(p), PaymentOf(p)
  PROVE  \A q \in ProjectIds : EscrowAt(q)'
<1>1. TypesInv /\ \A q \in ProjectIds : EscrowAt(q)
  BY DEF EscrowInv
<1>2. ASSUME NEW q \in ProjectIds, q # p
      PROVE  EscrowAt(q)'
  <2>1. projects'[q] = projects[q] /\ disputes'[q] = disputes[q]
    BY <1>1, <1>2 DEF TypesInv, MatchInv, ControlTypeOK
  <2>2. PICK c \in Accounts, v \in Nat :
             \/ ledger'.locks = ledger.locks
             \/ ledger'.locks = [ledger.locks EXCEPT ![c] = [@ EXCEPT ![GenerateLockId(p)] = v]]
    BY ArbAssumption DEF LockOf
  <2>3. PICK f \in Accounts : \/ rep'.Attestations = rep.Attestations
                             \/ rep'.Attestations = rep.Attestations \cup {<<f, p>>}
    BY ArbAssumption DEF PaymentOf
  <2>4. Spares(q)
    BY <1>1, <1>2, <2>1, <2>2, <2>3, OthersSpared
  <2> QED BY <1>1, <2>4, SparedEscrow
<1> QED BY <1>2

\* A project in storage that is not in dispute has none, unless it is completed.
LEMMA Undisputed ==
  ASSUME TypesInv, NEW p \in ProjectIds
  PROVE  /\ disputes[p] # None => projects[p] # None /\ projects[p].status \in {"InDispute", "Completed"}
         /\ disputes[p] # None /\ disputes[p].status # "Finalized" =>
              projects[p] # None /\ projects[p].status = "InDispute"
         /\ projects[p] # None => projects[p] \in Project
         /\ disputes' = disputes => disputes' = [disputes EXCEPT ![p] = disputes[p]]
         /\ projects' = projects => projects' = [projects EXCEPT ![p] = projects[p]]
<1>1. Matched(projects[p], disputes[p])
  BY MatchedEverywhere DEF TypesInv, MatchInv
<1>2. (projects[p] # None => projects[p] \in Project) /\ DOMAIN projects = ProjectIds
      /\ disputes = [disputes EXCEPT ![p] = disputes[p]] /\ projects = [projects EXCEPT ![p] = projects[p]]
  BY DEF TypesInv, MatchInv, ControlTypeOK
<1> QED BY <1>1, <1>2 DEF Matched

\* A step of a project that stays open, in which nothing is paid.
LEMMA OpenRewritten ==
  ASSUME EscrowInv, NEW p \in ProjectIds, NEW new \in Project, NEW s, NEW dispute,
         projects[p] # None, UpdateProject(p, new, s),
         projects[p].status \notin {"Completed", "Cancelled"},
         new.status \notin {"Completed", "Cancelled"},
         new.client = projects[p].client, new.budget = projects[p].budget,
         disputes' = [disputes EXCEPT ![p] = dispute],
         ledger'.locks = ledger.locks, rep'.Attestations = rep.Attestations
  PROVE  \A q \in ProjectIds : EscrowAt(q)'
<1>1. TypesInv /\ \A q \in ProjectIds : EscrowAt(q)
  BY DEF EscrowInv
<1>2. projects' = [projects EXCEPT ![p] = new]
  BY DEF UpdateProject
<1>3. projects'[p] = new /\ projects[p].client \in Accounts
  BY <1>1, <1>2 DEF TypesInv, MatchInv, ControlTypeOK, Project
<1>4. EscrowAt(p)'
  BY <1>1, <1>3, StillOpen
<1>5. LockOf(p) /\ PaymentOf(p)
  BY DEF LockOf, PaymentOf
<1> QED BY <1>2, <1>4, <1>5, EscrowElsewhere

\* The steps of a client.
LEMMA ClientEscrow ==
  ASSUME EscrowInv, NEW c \in Clients, ClientStep(c), UNCHANGED arbVars
  PROVE  \A q \in ProjectIds : EscrowAt(q)'
<1>1. /\ c \in Accounts /\ TypesInv /\ RuntimeInv /\ NextProjectId \in Nat
      /\ Chain.rep = rep /\ Chain.ledger = ledger /\ disputes' = disputes
      /\ \A q \in ProjectIds : EscrowAt(q)
  BY ProjAssumption DEF EscrowInv, TypesInv, MatchInv, ControlTypeOK, Chain, arbVars
<1>2. ASSUME NEW b \in Budgets, NEW d \in Durations, CreateProject(c, b, d)
      PROVE  \A q \in ProjectIds : EscrowAt(q)'
  <2>p. PICK p \in ProjectIds : p = NextProjectId
    BY <1>1, <1>2, ProjAssumption DEF CreateProject
  <2> DEFINE new == [client |-> c, freelancer |-> None, budget |-> b,
                     status |-> "Created", duration |-> d, submission_block |-> None,
                     work |-> FALSE, dispute_info |-> None]
  <2>1. b \in Nat /\ projects' = [projects EXCEPT ![p] = new]
    BY <1>1, <1>2, <2>p, ProjAssumption DEF CreateProject
  <2>2. PICK t : /\ Commit(t)
                 /\ Quiet(Chain, t, [ledger.locks EXCEPT ![c] = [@ EXCEPT ![GenerateLockId(p)] = b]])
                 /\ BeyondKept(Chain, t)
    BY <1>1, <1>2, <2>p, <2>1, CreateProjectEffect
  <2>3. /\ ledger'.locks = [ledger.locks EXCEPT ![c] = [@ EXCEPT ![GenerateLockId(p)] = b]]
        /\ rep'.Attestations = rep.Attestations
    BY <1>1, <2>2 DEF Quiet, Commit
  <2>4. projects[p] = None /\ disputes[p] = None
    <3>1. projects[p] = None
      BY <1>1, <2>p DEF TypesInv, MatchInv, UnusedIds
    <3> QED BY <1>1, <3>1, Undisputed
  <2>5. projects'[p] = new /\ disputes'[p] = None
    BY <1>1, <2>1, <2>4 DEF TypesInv, MatchInv, ControlTypeOK
  <2>6. new \in Project
    BY <1>1, <2>1, ProjAssumption DEF Project, ProjectStatus
  <2>7. new # None /\ new.client = c /\ new.freelancer = None /\ new.status = "Created" /\ new.budget = b
    BY <2>6, ProjAssumption
  <2> HIDE DEF new
  <2>8. <<None, p>> \notin rep.Attestations
    BY <1>1, PayeesAreAccounts
  <2>9. SettledAs(p, projects[p], disputes[p], rep.Attestations)
        /\ LockedFor(p, projects[p], rep.Attestations, ledger.locks)
    BY <1>1, <2>1 DEF EscrowAt
  <2>10. SettledAs(p, new, None, rep'.Attestations)
    BY <2>3, <2>4, <2>7, <2>8, <2>9 DEF SettledAs
  <2>11. ASSUME NEW a \in Accounts
         PROVE  ledger'.locks[a][GenerateLockId(p)] = IF a = c THEN b ELSE 0
    <3>1. ledger'.locks[a][GenerateLockId(p)] = IF a = c THEN b ELSE ledger.locks[a][GenerateLockId(p)]
      BY <1>1, <2>1, <2>3, LockWritten
    <3>2. ledger.locks[a][GenerateLockId(p)] = 0
      BY <2>4, <2>9 DEF LockedFor
    <3> QED BY <3>1, <3>2
  <2>12. LockedFor(p, new, rep'.Attestations, ledger'.locks)
    BY <2>3, <2>7, <2>8, <2>11 DEF LockedFor
  <2>13. EscrowAt(p)'
    BY <2>5, <2>10, <2>12 DEF EscrowAt
  <2>14. LockOf(p) /\ PaymentOf(p)
    BY <1>1, <2>1, <2>3 DEF LockOf, PaymentOf
  <2>15. disputes' = [disputes EXCEPT ![p] = disputes[p]]
    BY <1>1, Undisputed
  <2> QED BY <2>1, <2>13, <2>14, <2>15, EscrowElsewhere
<1>3. ASSUME NEW p \in ProjectIds, NEW f \in Freelancers, StartWork(c, p, f)
      PROVE  \A q \in ProjectIds : EscrowAt(q)'
  <2> DEFINE pr == projects[p]
             new == [pr EXCEPT !.freelancer = f, !.status = "InProgress",
                               !.submission_block = block + pr.duration]
  <2>1. UpdateProject(p, new, Chain) /\ pr # None /\ pr.status = "Created"
    BY <1>3 DEF StartWork
  <2>2. /\ pr \in Project /\ f \in Accounts /\ block \in Nat
        /\ ledger' = ledger /\ rep' = rep /\ disputes' = [disputes EXCEPT ![p] = disputes[p]]
    BY <1>1, <2>1, Undisputed, CommitChain, ProjAssumption
    DEF UpdateProject, TypesInv, MatchInv, ControlTypeOK
  <2> HIDE DEF pr
  <2>a. block + pr.duration \in Nat
    BY <2>2 DEF Project
  <2>3. /\ new \in Project /\ new.status = "InProgress"
        /\ new.client = pr.client /\ new.budget = pr.budget
    BY <2>2, <2>a DEF Project, ProjectStatus
  <2> HIDE DEF new
  <2> QED BY <2>1, <2>2, <2>3, OpenRewritten DEF pr
<1>4. ASSUME NEW p \in ProjectIds, RejectWork(c, p)
      PROVE  \A q \in ProjectIds : EscrowAt(q)'
  <2> DEFINE pr == projects[p]
             new == [pr EXCEPT !.status = "Rejected",
                               !.dispute_info = IF @ = None THEN 0 ELSE @ + 1]
  <2>1. UpdateProject(p, new, Chain) /\ pr # None /\ pr.status = "InReview"
    BY <1>4 DEF RejectWork, Rejected
  <2>2. /\ pr \in Project
        /\ ledger' = ledger /\ rep' = rep /\ disputes' = [disputes EXCEPT ![p] = disputes[p]]
    BY <1>1, <2>1, Undisputed, CommitChain DEF UpdateProject
  <2> HIDE DEF pr
  <2>a. (IF pr.dispute_info = None THEN 0 ELSE pr.dispute_info + 1) \in Nat
    BY <2>2 DEF Project
  <2>3. /\ new \in Project /\ new.status = "Rejected"
        /\ new.client = pr.client /\ new.budget = pr.budget
    BY <2>2, <2>a DEF Project, ProjectStatus
  <2> HIDE DEF new
  <2> QED BY <2>1, <2>2, <2>3, OpenRewritten DEF pr
<1>5. ASSUME NEW p \in ProjectIds, NEW r \in StarRatings, AcceptWork(c, p, r)
      PROVE  \A q \in ProjectIds : EscrowAt(q)'
  <2> DEFINE pr == projects[p]
             new == [pr EXCEPT !.status = "Completed"]
  <2>1. /\ pr # None /\ pr.status = "InReview" /\ pr.freelancer # None /\ pr.client = c
        /\ r \in Nat /\ projects' = [projects EXCEPT ![p] = new] /\ Commit(Accepted(c, p, r))
    BY <1>5 DEF AcceptWork, UpdateProject, Settled
  <2>2. /\ pr \in Project /\ disputes' = [disputes EXCEPT ![p] = disputes[p]] /\ disputes[p] = None
    BY <1>1, <2>1, Undisputed
  <2>3. PICK t : /\ Commit(t)
                 /\ Closes(Chain, t, GenerateLockId(p), c, pr.freelancer, pr.budget, p)
    BY <1>1, <2>1, <2>2, AcceptedEffect
  <2>4. /\ ledger'.locks = [ledger.locks EXCEPT ![pr.client] = [@ EXCEPT ![GenerateLockId(p)] = 0]]
        /\ rep'.Attestations = rep.Attestations \cup {<<pr.freelancer, p>>}
    BY <1>1, <2>1, <2>3 DEF Closes, Commit
  <2>5. projects'[p] = new /\ disputes'[p] = None /\ pr.client \in Accounts
    BY <1>1, <2>1, <2>2 DEF TypesInv, MatchInv, ControlTypeOK
  <2>6. projects[p] = pr
    OBVIOUS
  <2> HIDE DEF pr
  <2>7. EscrowAt(p)'
    <3>1. TypesInv /\ EscrowAt(p)
      BY <1>1
    <3> QED BY ONLY <2>1, <2>2, <2>4, <2>5, <2>6, <3>1, PaidNow
  <2> HIDE DEF new
  <2>8. LockOf(p) /\ PaymentOf(p)
    BY <2>1, <2>2, <2>4, <2>5 DEF LockOf, PaymentOf, Project
  <2> QED BY <2>1, <2>2, <2>7, <2>8, EscrowElsewhere
<1>6. ASSUME NEW p \in ProjectIds, CancelProject(c, p)
      PROVE  \A q \in ProjectIds : EscrowAt(q)'
  <2> DEFINE pr == projects[p]
             new == [pr EXCEPT !.status = "Cancelled"]
  <2>1. /\ pr # None /\ pr.status \in {"Created", "InProgress"} /\ pr.client = c
        /\ projects' = [projects EXCEPT ![p] = new] /\ Commit(Cancelled(c, p))
    BY <1>6 DEF CancelProject, UpdateProject, MayCancel
  <2>2. /\ pr \in Project /\ disputes' = [disputes EXCEPT ![p] = disputes[p]] /\ disputes[p] = None
    BY <1>1, <2>1, Undisputed
  <2>3. PICK t : /\ Commit(t)
                 /\ Quiet(Chain, t, [ledger.locks EXCEPT ![c] = [@ EXCEPT ![GenerateLockId(p)] = 0]])
                 /\ BeyondKept(Chain, t)
    BY <1>1, <2>1, CancelledEffect
  <2>4. /\ ledger'.locks = [ledger.locks EXCEPT ![c] = [@ EXCEPT ![GenerateLockId(p)] = 0]]
        /\ rep'.Attestations = rep.Attestations
    BY <1>1, <2>1, <2>3 DEF Quiet, Commit
  <2>5. projects'[p] = new /\ disputes'[p] = None
    BY <1>1, <2>1, <2>2 DEF TypesInv, MatchInv, ControlTypeOK
  <2>6. SettledAs(p, pr, None, rep.Attestations) /\ LockedFor(p, pr, rep.Attestations, ledger.locks)
    BY <1>1, <2>2 DEF EscrowAt
  <2>7. <<None, p>> \notin rep.Attestations
    BY <1>1, PayeesAreAccounts
  <2> HIDE DEF pr
  <2>8. /\ new \in Project /\ new.status = "Cancelled" /\ new.client = c
        /\ new.freelancer = pr.freelancer
    BY <2>1, <2>2 DEF Project, ProjectStatus
  <2>9. new # None
    BY <2>8, ProjAssumption
  <2> HIDE DEF new
  <2>10. \A a \in Accounts : <<a, p>> \notin rep.Attestations
    BY <2>1, <2>6 DEF SettledAs
  <2>11. <<new.freelancer, p>> \notin rep.Attestations
    BY <2>2, <2>7, <2>8, <2>10 DEF Project
  <2>12. SettledAs(p, new, None, rep'.Attestations)
    BY <2>4, <2>8, <2>10, <2>11 DEF SettledAs
  <2>13. ASSUME NEW a \in Accounts
         PROVE  ledger'.locks[a][GenerateLockId(p)] = 0
    <3>1. ledger'.locks[a][GenerateLockId(p)] = IF a = c THEN 0 ELSE ledger.locks[a][GenerateLockId(p)]
      <4>1. TypesInv /\ c \in Accounts
        BY <1>1
      <4> QED BY ONLY <2>4, <4>1, LockWritten
    <3>2. a # c => ledger.locks[a][GenerateLockId(p)] = 0
      BY <2>1, <2>6 DEF LockedFor
    <3> QED BY <3>1, <3>2
  <2>14. LockedFor(p, new, rep'.Attestations, ledger'.locks)
    BY <2>8, <2>13 DEF LockedFor
  <2>15. EscrowAt(p)'
    BY <2>5, <2>12, <2>14 DEF EscrowAt
  <2>16. LockOf(p) /\ PaymentOf(p)
    BY <1>1, <2>4 DEF LockOf, PaymentOf
  <2> QED BY <2>1, <2>2, <2>15, <2>16, EscrowElsewhere
<1> QED BY <1>2, <1>3, <1>4, <1>5, <1>6 DEF ClientStep

\* A step that writes no project, dispute, lock or attestation.
LEMMA NothingPaid ==
  ASSUME EscrowInv, projects' = projects, disputes' = disputes,
         ledger'.locks = ledger.locks, rep'.Attestations = rep.Attestations
  PROVE  \A q \in ProjectIds : EscrowAt(q)'
<1> SUFFICES ASSUME NEW q \in ProjectIds
             PROVE  EscrowAt(q)'
  OBVIOUS
<1>1. EscrowAt(q) /\ Spares(q)
  BY DEF EscrowInv, Spares
<1> QED BY <1>1, SparedEscrow

\* The steps of freelancers and stakers.
LEMMA OthersEscrow ==
  ASSUME EscrowInv, UNCHANGED arbVars,
         \/ \E f \in Freelancers : FreelancerStep(f)
         \/ \E a \in Stakers : StakerStep(a)
  PROVE  \A q \in ProjectIds : EscrowAt(q)'
<1>1. /\ TypesInv /\ RuntimeInv /\ Chain.rep = rep /\ Chain.ledger = ledger /\ disputes' = disputes
  BY DEF EscrowInv, TypesInv, Chain, arbVars
<1>2. ASSUME NEW f \in Freelancers, NEW p \in ProjectIds, ApplyForProject(f, p)
      PROVE  \A q \in ProjectIds : EscrowAt(q)'
  BY <1>1, <1>2, NothingPaid DEF ApplyForProject
<1>3. ASSUME NEW f \in Freelancers, NEW p \in ProjectIds, SubmitWork(f, p)
      PROVE  \A q \in ProjectIds : EscrowAt(q)'
  <2> DEFINE pr == projects[p]
             new == [pr EXCEPT !.work = TRUE, !.status = "InReview"]
  <2>1. UpdateProject(p, new, Chain) /\ pr # None /\ pr.status = "InProgress"
    BY <1>3 DEF SubmitWork
  <2>2. /\ pr \in Project
        /\ ledger' = ledger /\ rep' = rep /\ disputes' = [disputes EXCEPT ![p] = disputes[p]]
    BY <1>1, <2>1, Undisputed, CommitChain DEF UpdateProject
  <2> HIDE DEF pr
  <2>3. /\ new \in Project /\ new.status = "InReview"
        /\ new.client = pr.client /\ new.budget = pr.budget
    BY <2>2 DEF Project, ProjectStatus
  <2> HIDE DEF new
  <2> QED BY <2>1, <2>2, <2>3, OpenRewritten DEF pr
<1>4. ASSUME NEW a \in Stakers, StakerStep(a)
      PROVE  \A q \in ProjectIds : EscrowAt(q)'
  <2>1. a \in Accounts
    BY ProjAssumption
  <2>2. \E t : Commit(t) /\ Quiet(Chain, t, ledger.locks) /\ BeyondKept(Chain, t)
    BY <1>1, <1>4, <2>1, RegisterUserEffect, JurorJoinsEffect, JurorLeavesEffect DEF StakerStep
  <2>3. ledger'.locks = ledger.locks /\ rep'.Attestations = rep.Attestations
    BY <1>1, <2>2 DEF Quiet, Commit
  <2>4. projects' = projects
    BY <1>4 DEF StakerStep, projVars
  <2> QED BY <1>1, <2>3, <2>4, NothingPaid
<1> QED BY <1>2, <1>3, <1>4 DEF FreelancerStep

\* An open dispute is rewritten.
LEMMA DisputeMoves ==
  ASSUME EscrowInv, NEW p \in ProjectIds, NEW dispute,
         disputes[p] # None, disputes[p].status # "Finalized",
         projects' = projects, disputes' = [disputes EXCEPT ![p] = dispute],
         ledger'.locks = ledger.locks, rep'.Attestations = rep.Attestations
  PROVE  \A q \in ProjectIds : EscrowAt(q)'
<1> DEFINE pr == projects[p]
<1>1. TypesInv /\ EscrowAt(p)
  BY DEF EscrowInv
<1>2. pr # None /\ pr.status = "InDispute" /\ pr \in Project /\ projects' = [projects EXCEPT ![p] = pr]
  BY <1>1, Undisputed
<1>3. projects[p] = pr /\ projects'[p] = pr
  OBVIOUS
<1> HIDE DEF pr
<1>4. EscrowAt(p)'
  BY <1>1, <1>2, <1>3, StillOpen
<1>5. LockOf(p) /\ PaymentOf(p)
  BY DEF LockOf, PaymentOf
<1> QED BY <1>2, <1>4, <1>5, EscrowElsewhere

\* The steps of a dispute.
LEMMA DisputeEscrow ==
  ASSUME EscrowInv, NEW p \in ProjectIds, DisputeStep(p)
  PROVE  \A q \in ProjectIds : EscrowAt(q)'
<1>1. /\ TypesInv /\ MatchInv /\ RuntimeInv /\ BooksTypeOK
      /\ Chain.rep = rep /\ Chain.ledger = ledger /\ EscrowAt(p)
  BY DEF EscrowInv, TypesInv, Chain
<1>2. ASSUME NEW who, CreateDispute(who, p)
      PROVE  \A q \in ProjectIds : EscrowAt(q)'
  <2> DEFINE pr == projects[p]
             new == [pr EXCEPT !.status = "InDispute"]
             s   == Reserve(Chain, who, CalculateAppealBond(p, 1))
  <2>1. UpdateProject(p, new, s) /\ pr # None /\ pr.status \in {"Rejected", "InReview"}
    BY <1>2 DEF CreateDispute, MayDispute, InDispute
  <2>2. pr \in Project
    BY <1>1, <2>1, Undisputed
  <2>3. \E t : Commit(t) /\ Quiet(Chain, t, ledger.locks)
    BY <1>1, <1>2, DisputeBonds
  <2>4. ledger'.locks = ledger.locks /\ rep'.Attestations = rep.Attestations
    BY <1>1, <2>3 DEF Quiet, Commit
  <2>5. PICK dispute : disputes' = [disputes EXCEPT ![p] = dispute]
    BY <1>2 DEF CreateDispute
  <2>6. projects[p] = pr
    OBVIOUS
  <2> HIDE DEF pr, s
  <2>7. /\ new \in Project /\ new.status = "InDispute"
        /\ new.client = pr.client /\ new.budget = pr.budget
    BY <2>2 DEF Project, ProjectStatus
  <2> HIDE DEF new
  <2> QED BY <2>1, <2>4, <2>5, <2>6, <2>7, OpenRewritten
<1>3. ASSUME NEW who, AppealRuling(who, p)
      PROVE  \A q \in ProjectIds : EscrowAt(q)'
  <2>1. \E t : Commit(t) /\ Quiet(Chain, t, ledger.locks)
    BY <1>1, <1>3, DisputeBonds
  <2>2. ledger'.locks = ledger.locks /\ rep'.Attestations = rep.Attestations
    BY <1>1, <2>1 DEF Quiet, Commit
  <2>3. disputes[p] # None /\ disputes[p].status = "Appealable" /\ projects' = projects
    BY <1>3 DEF AppealRuling, projVars
  <2>4. PICK dispute : disputes' = [disputes EXCEPT ![p] = dispute]
    BY <1>3 DEF AppealRuling
  <2> QED BY <2>2, <2>3, <2>4, DisputeMoves
<1>4. ASSUME NEW j, NEW v, CastVote(j, p, v) \/ OracleRules(p)
      PROVE  \A q \in ProjectIds : EscrowAt(q)'
  <2>1. /\ disputes[p] # None /\ disputes[p].status # "Finalized" /\ projects' = projects
        /\ ledger' = ledger /\ rep' = rep
    BY <1>4 DEF CastVote, MayVote, OracleRules, SubmitRuling, projVars, repVars
  <2>2. PICK dispute : disputes' = [disputes EXCEPT ![p] = dispute]
    BY <1>4 DEF CastVote, OracleRules, SubmitRuling
  <2> QED BY <2>1, <2>2, DisputeMoves
<1>5. ASSUME FinalizeRound(p)
      PROVE  \A q \in ProjectIds : EscrowAt(q)'
  <2>1. /\ disputes[p] # None /\ disputes[p].status = "Voting" /\ projects' = projects
        /\ Commit(RecordVotes(disputes[p].votes))
    BY <1>5 DEF FinalizeRound, RoundOver, projVars
  <2>2. DOMAIN disputes[p].votes \in SUBSET Accounts
    BY <1>1, <2>1, DisputeFound
  <2>3. Quiet(Chain, RecordVotes(disputes[p].votes), ledger.locks)
    BY <1>1, <2>2, FinalizeEffect
  <2>4. ledger'.locks = ledger.locks /\ rep'.Attestations = rep.Attestations
    BY <1>1, <2>1, <2>3 DEF Quiet, Commit
  <2>5. PICK dispute : disputes' = [disputes EXCEPT ![p] = dispute]
    BY <1>5 DEF FinalizeRound
  <2> QED BY <2>1, <2>4, <2>5, DisputeMoves
<1>6. ASSUME EnforceFinalRuling(p)
      PROVE  \A q \in ProjectIds : EscrowAt(q)'
  <2> DEFINE pr == projects[p]
             d == disputes[p]
             new == [pr EXCEPT !.status = "Completed"]
             closed == [d EXCEPT !.status = "Finalized"]
  <2>1. /\ pr # None /\ pr.freelancer # None /\ d # None /\ d.status = "Appealable" /\ HasParties(p)
        /\ projects' = [projects EXCEPT ![p] = new]
    BY <1>6 DEF EnforceFinalRuling, Enforceable, HasParties, UpdateProject, Settled
  <2>a. disputes' = [disputes EXCEPT ![p] = closed]
    BY <1>6 DEF EnforceFinalRuling
  <2>2. pr \in Project /\ pr.status = "InDispute" /\ pr.client \in Accounts /\ pr.freelancer \in Accounts
    BY <1>1, <2>1, Undisputed DEF Project
  <2>3. d \in Dispute
    BY <1>1, <2>1, DisputeFound
  <2>4. projects'[p] = new /\ disputes'[p] = closed
    BY <1>1, <2>1, <2>a DEF MatchInv, ControlTypeOK
  <2>5. /\ AppealBonds[p] \in [Rounds -> Bond \cup {None}] /\ ArbitrationCosts[p] \in Nat
        /\ JurorRewards[p] \in [Accounts -> Nat]
    BY <1>1 DEF BooksTypeOK
  <2>6. PICK t : Commit(t) /\ Enforces(Chain, t, p, d.ruling)
    BY <1>1, <1>6, <2>2, <2>5, EnforceEffect
  <2>7. ledger' = t.ledger /\ rep' = t.rep
    BY <2>6 DEF Commit
  <2>8. projects[p] = pr
    OBVIOUS
  <2>9. IF d.ruling = "FreelancerWins"
        THEN /\ ledger'.locks = [ledger.locks EXCEPT ![pr.client] = [@ EXCEPT ![GenerateLockId(p)] = 0]]
             /\ rep'.Attestations = rep.Attestations \cup {<<pr.freelancer, p>>}
        ELSE ledger'.locks = ledger.locks /\ rep'.Attestations = rep.Attestations
    BY <1>1, <2>6, <2>7 DEF Enforces, Closes, Calm
  <2> HIDE DEF d
  <2>10. closed \in Dispute /\ closed.ruling = d.ruling
    BY <2>3 DEF Dispute, DisputeStatus
  <2>11. closed # None
    BY <2>10, DisputeAssumption
  <2> HIDE DEF pr, closed
  <2>12. EscrowAt(p)'
    <3>1. CASE d.ruling = "FreelancerWins"
      <4>1. disputes'[p] # None => disputes'[p].ruling = "FreelancerWins"
        BY <2>4, <2>10, <3>1
      <4>2. /\ ledger'.locks = [ledger.locks EXCEPT ![pr.client] = [@ EXCEPT ![GenerateLockId(p)] = 0]]
            /\ rep'.Attestations = rep.Attestations \cup {<<pr.freelancer, p>>}
        BY <2>9, <3>1
      <4>3. pr.status \notin {"Completed", "Cancelled"}
        BY <2>2
      <4> QED BY <1>1, <2>1, <2>2, <2>4, <2>8, <4>1, <4>2, <4>3, PaidNow
    <3>2. CASE d.ruling # "FreelancerWins"
      <4>1. disputes'[p] # None /\ disputes'[p].ruling # "FreelancerWins"
        BY <2>4, <2>10, <2>11, <3>2
      <4>2. ledger'.locks = ledger.locks /\ rep'.Attestations = rep.Attestations
        BY <2>9, <3>2
      <4>3. pr.status \notin {"Completed", "Cancelled"}
        BY <2>2
      <4> QED BY <1>1, <2>1, <2>2, <2>4, <2>8, <4>1, <4>2, <4>3, NotPaid
    <3> QED BY <3>1, <3>2
  <2>13. LockOf(p) /\ PaymentOf(p)
    BY <2>2, <2>9 DEF LockOf, PaymentOf
  <2> HIDE DEF new
  <2> QED BY <2>1, <2>a, <2>12, <2>13, EscrowElsewhere
<1> QED BY <1>2, <1>3, <1>4, <1>5, <1>6 DEF DisputeStep

\* The invariant of locks and payments holds in every state of the runtime.
THEOREM EscrowInvariant == ArbSpec => []EscrowInv
<1>1. ArbInit => EscrowInv
  <2> SUFFICES ASSUME ArbInit
               PROVE  EscrowInv
    OBVIOUS
  <2>1. TypesInv
    BY TypesInitially
  <2>2. /\ projects = [p \in ProjectIds |-> None] /\ rep.Attestations = {}
        /\ ledger.locks = [a \in Accounts |-> [id \in LockIds |-> 0]]
    BY DEF ArbInit, ProjInit, RepInit
  <2>3. \A p \in ProjectIds : EscrowAt(p)
    BY <2>2, LockIdAssumption DEF EscrowAt, SettledAs, LockedFor
  <2> QED BY <2>1, <2>3 DEF EscrowInv
<1>2. EscrowInv /\ [ArbNext]_vars => EscrowInv'
  <2> SUFFICES ASSUME EscrowInv, [ArbNext]_vars
               PROVE  EscrowInv'
    OBVIOUS
  <2>1. TypesInv'
    BY TypesKept DEF EscrowInv
  <2>2. CASE ProjStep /\ UNCHANGED arbVars
    <3>1. \A q \in ProjectIds : EscrowAt(q)'
      BY <2>2, ClientEscrow, OthersEscrow DEF ProjStep
    <3> QED BY <2>1, <3>1 DEF EscrowInv
  <2>3. ASSUME NEW p \in ProjectIds, DisputeStep(p)
        PROVE  EscrowInv'
    <3>1. \A q \in ProjectIds : EscrowAt(q)'
      BY <2>3, DisputeEscrow
    <3> QED BY <2>1, <3>1 DEF EscrowInv
  <2>4. CASE NextBlock \/ UNCHANGED vars
    <3>1. ledger' = ledger /\ rep' = rep /\ projects' = projects /\ disputes' = disputes
      BY <2>4 DEF NextBlock, Tick, vars, repVars, projVars, arbVars
    <3>2. \A q \in ProjectIds : EscrowAt(q)'
      BY <3>1, NothingPaid
    <3> QED BY <2>1, <3>2 DEF EscrowInv
  <2> QED BY <2>2, <2>3, <2>4 DEF ArbNext
<1> QED BY <1>1, <1>2, PTL DEF ArbSpec

\* create_project locks exactly the budget on the client's account, and the lock stays
\* until cancel_project, accept_work or on_ruling for the freelancer lifts it; no call
\* for another project, no stake and no bond touches it, for any number of projects and
\* whatever the four bytes of their identifiers are.
THEOREM LocksFollowProjects == ArbSpec => []LocksTrackProjects
<1>1. EscrowInv => LocksTrackProjects
  BY DEF EscrowInv, EscrowAt, LockedFor, LocksTrackProjects, Paid
<1> QED BY <1>1, EscrowInvariant, PTL

\* accept_work and a ruling for the freelancer pay, once; nothing else does.
THEOREM FreelancerPaidAsRuled == ArbSpec => []PaidAsRuled
<1>1. EscrowInv => PaidAsRuled
  BY DEF EscrowInv, EscrowAt, SettledAs, PaidAsRuled, Paid
<1> QED BY <1>1, EscrowInvariant, PTL

-------------------------------------------------------------------------------
(* Verdicts *)

\* What is on record of a dispute between parties.
VerdictOn(d, parties) ==
    /\ d.round > 1 /\ d.status # "Voting" => d.ruling = RoundRuling(d.votes)
    /\ d.status \in {"Voting", "AiProcessing"} <=> d.ruling = None
    /\ DOMAIN d.jurors \cap parties = {}
    /\ d.round > 1 => Cardinality(DOMAIN d.jurors) = JuryOf(d.round).size

Parties(p) == {Client(p), Freelancer(p)}

\* The inductive invariant for verdicts.  A selection needs sound pools to seat a full
\* jury, and the parties of a dispute stay who they are because its project has passed
\* the stage at which the freelancer is chosen.
VerdictInv ==
    /\ TypesInv /\ StagesFollowed /\ BallotsKept
    /\ \A p \in ProjectIds : disputes[p] # None => VerdictOn(disputes[p], Parties(p))

\* A verdict is one of the two rulings.
LEMMA VerdictIsRuling ==
  ASSUME NEW votes
  PROVE  RoundRuling(votes) \in Rulings /\ RoundRuling(votes) # None
<1>1. RoundRuling(votes) \in Rulings
  BY DEF RoundRuling, Rulings
<1> QED BY <1>1, DisputeAssumption

\* A project with a dispute has both parties.
LEMMA DisputedHasParties ==
  ASSUME TypesInv, StagesFollowed, NEW p \in ProjectIds, disputes[p] # None
  PROVE  HasParties(p)
<1>1. projects[p] # None /\ projects[p].status \in {"InDispute", "Completed"}
  BY Undisputed
<1>2. Staged(projects[p], ProjectApplicants[p])
  BY <1>1 DEF StagesFollowed
<1> QED BY <1>1, <1>2 DEF Staged, HasParties

\* get_eligible_jurors seats nobody it was told to leave out, and no more than asked.
LEMMA JurySeated ==
  ASSUME TypesInv, NEW round \in 2..3, NEW parties, NEW sel,
         sel = GetEligibleJurors(Chain, JuryOf(round).tier, parties, JuryOf(round).size),
         Cardinality(sel.jurors) >= JuryOf(round).size
  PROVE  sel.jurors \cap parties = {} /\ Cardinality(sel.jurors) = JuryOf(round).size
<1> DEFINE tier == JuryOf(round).tier
           size == JuryOf(round).size
           P(t) == Offered(Chain, tier, t, parties)
           all  == P(Bronze) \cup P(Silver) \cup P(Gold)
<1>1. tier \in PoolTiers /\ size \in Nat
  BY ArbAssumption DEF JuryOf, PoolTiers, Bronze, Silver, Gold
<1>2. Chain \in ChainState /\ PoolsOf(Chain.rep)
  BY ChainType DEF TypesInv, RuntimeInv
<1> HIDE DEF tier, size
<1>3. sel = GetEligibleJurors(Chain, tier, parties, size)
  BY DEF tier, size
<1>4. BestFirst(P(Gold), P(Silver), P(Bronze), sel.jurors, size)
  BY <1>1, <1>2, <1>3, GetEligibleJurorsCorrect
<1>5. /\ sel.jurors \subseteq all
      /\ Cardinality(sel.jurors) = IF Cardinality(all) < size THEN Cardinality(all) ELSE size
  BY <1>4 DEF BestFirst
<1>6. sel.jurors \cap parties = {}
  BY <1>5 DEF Offered, Eligible
<1>7. IsFiniteSet(all)
  <2>1. all \subseteq Accounts
    BY DEF Offered, Eligible
  <2> QED BY <2>1, RepAssumption, FS_Subset
<1>8. Cardinality(all) \in Nat
  BY <1>7, FS_CardinalityType
<1>9. Cardinality(sel.jurors) >= size
  BY DEF size
<1> HIDE DEF all
<1>10. Cardinality(sel.jurors) = size
  BY <1>1, <1>5, <1>8, <1>9
<1> QED BY <1>6, <1>10 DEF size

\* The steps of a dispute: what is on record afterwards is again a verdict, or none.
LEMMA DisputeVerdict ==
  ASSUME VerdictInv, NEW p \in ProjectIds, DisputeStep(p)
  PROVE  /\ HasParties(p) /\ VerdictOn(disputes'[p], Parties(p))
         /\ \A q \in ProjectIds \ {p} : disputes'[q] = disputes[q]
<1> DEFINE d == disputes[p]
<1>1. TypesInv /\ MatchInv /\ StagesFollowed /\ DOMAIN disputes = ProjectIds
  BY DEF VerdictInv, TypesInv, MatchInv, ControlTypeOK
<1>2. ASSUME d # None
      PROVE  /\ HasParties(p) /\ d \in Dispute /\ d.round \in Rounds
             /\ DOMAIN d.jurors \in SUBSET Accounts /\ VerdictOn(d, Parties(p))
  BY <1>1, <1>2, DisputedHasParties, DisputeFound DEF VerdictInv
<1>3. ASSUME NEW new, disputes' = [disputes EXCEPT ![p] = new]
      PROVE  disputes'[p] = new /\ \A q \in ProjectIds \ {p} : disputes'[q] = disputes[q]
  BY <1>1, <1>3
<1>4. ASSUME NEW who, CreateDispute(who, p)
      PROVE  /\ HasParties(p) /\ VerdictOn(disputes'[p], Parties(p))
             /\ \A q \in ProjectIds \ {p} : disputes'[q] = disputes[q]
  <2> DEFINE new == [status |-> "AiProcessing", start_block |-> block, ruling |-> None,
                     round |-> 1, jurors |-> NoOne, votes |-> NoOne]
  <2>1. HasParties(p) /\ disputes' = [disputes EXCEPT ![p] = new]
    BY <1>4 DEF CreateDispute
  <2>2. VerdictOn(new, Parties(p))
    BY DEF VerdictOn, NoOne
  <2> HIDE DEF new
  <2> QED BY <1>3, <2>1, <2>2
<1> HIDE DEF d
<1>5. ASSUME d # None, d.status # "Finalized",
             NEW ruling, ruling # None, d.round > 1 => ruling = RoundRuling(d.votes),
             disputes' = [disputes EXCEPT ![p] = WithRuling(d, ruling)]
      PROVE  /\ HasParties(p) /\ VerdictOn(disputes'[p], Parties(p))
             /\ \A q \in ProjectIds \ {p} : disputes'[q] = disputes[q]
  <2> DEFINE new == WithRuling(d, ruling)
  <2>1. /\ new.ruling = ruling /\ new.status = "Appealable" /\ new.round = d.round
        /\ new.jurors = d.jurors /\ new.votes = d.votes
    BY <1>2, <1>5 DEF WithRuling, Dispute
  <2> HIDE DEF new
  <2>2. VerdictOn(new, Parties(p))
    BY <1>2, <1>5, <2>1 DEF VerdictOn
  <2> QED BY <1>2, <1>3, <1>5, <2>2 DEF new
<1>6. ASSUME OracleRules(p)
      PROVE  /\ HasParties(p) /\ VerdictOn(disputes'[p], Parties(p))
             /\ \A q \in ProjectIds \ {p} : disputes'[q] = disputes[q]
  <2>1. PICK ruling \in Rulings : SubmitRuling(p, ruling)
    BY <1>6 DEF OracleRules
  <2>2. /\ d # None /\ d.status = "AiProcessing"
        /\ disputes' = [disputes EXCEPT ![p] = WithRuling(d, ruling)]
    BY <2>1 DEF SubmitRuling, d
  <2>3. ruling # None
    BY DisputeAssumption
  <2>4. ~ (d.round > 1)
    BY <1>2, <2>2, VerdictIsRuling DEF VerdictOn
  <2> QED BY <1>5, <2>2, <2>3, <2>4
<1>7. ASSUME FinalizeRound(p)
      PROVE  /\ HasParties(p) /\ VerdictOn(disputes'[p], Parties(p))
             /\ \A q \in ProjectIds \ {p} : disputes'[q] = disputes[q]
  <2> DEFINE ruling == RoundRuling(d.votes)
  <2>1. /\ d # None /\ d.status = "Voting"
        /\ disputes' = [disputes EXCEPT ![p] = WithRuling(d, ruling)]
    BY <1>7 DEF FinalizeRound, RoundOver, d
  <2>2. ruling # None /\ (d.round > 1 => ruling = RoundRuling(d.votes))
    BY VerdictIsRuling
  <2> HIDE DEF ruling
  <2> QED BY <1>5, <2>1, <2>2
<1>8. ASSUME NEW who, AppealRuling(who, p)
      PROVE  /\ HasParties(p) /\ VerdictOn(disputes'[p], Parties(p))
             /\ \A q \in ProjectIds \ {p} : disputes'[q] = disputes[q]
  <2> DEFINE round == d.round + 1
             jury  == JuryOf(round)
             sel   == GetEligibleJurors(Chain, jury.tier, Parties(p), jury.size)
             seats == [j \in sel.jurors |-> FALSE]
             new   == [status |-> "Voting", start_block |-> block, ruling |-> None, round |-> round,
                       jurors |-> seats, votes |-> NoOne]
  <2>1. /\ d # None /\ round <= 3 /\ Cardinality(sel.jurors) >= jury.size
        /\ disputes' = [disputes EXCEPT ![p] = new]
    BY <1>8 DEF AppealRuling, d, Parties
  <2>2. d.round \in Rounds
    BY <1>2, <2>1
  <2>3. round \in 2..3
    BY <2>1, <2>2 DEF Rounds
  <2> HIDE DEF round
  <2>4. sel.jurors \cap Parties(p) = {} /\ Cardinality(sel.jurors) = jury.size
    BY <1>1, <2>1, <2>3, JurySeated
  <2>5. DOMAIN seats = sel.jurors
    OBVIOUS
  <2> HIDE DEF seats, sel
  <2>6. /\ new.status = "Voting" /\ new.ruling = None /\ new.round = round /\ new.jurors = seats
    OBVIOUS
  <2> HIDE DEF new
  <2>7. VerdictOn(new, Parties(p))
    BY <2>4, <2>5, <2>6 DEF VerdictOn
  <2> QED BY <1>2, <1>3, <2>1, <2>7
<1>9. ASSUME NEW j, NEW v, CastVote(j, p, v)
      PROVE  /\ HasParties(p) /\ VerdictOn(disputes'[p], Parties(p))
             /\ \A q \in ProjectIds \ {p} : disputes'[q] = disputes[q]
  <2> DEFINE votes == [i \in DOMAIN d.votes \cup {j} |-> IF i = j THEN v ELSE d.votes[i]]
             seats == [d.jurors EXCEPT ![j] = TRUE]
             new   == [d EXCEPT !.votes = votes, !.jurors = seats]
  <2>1. d # None /\ d.status = "Voting" /\ disputes' = [disputes EXCEPT ![p] = new]
    BY <1>9 DEF CastVote, MayVote, d
  <2>2. DOMAIN seats = DOMAIN d.jurors
    OBVIOUS
  <2> HIDE DEF votes, seats
  <2>3. /\ new.status = d.status /\ new.ruling = d.ruling /\ new.round = d.round
        /\ new.jurors = seats
    BY <1>2, <2>1 DEF Dispute
  <2> HIDE DEF new
  <2>4. VerdictOn(new, Parties(p))
    BY <1>2, <2>1, <2>2, <2>3 DEF VerdictOn
  <2> QED BY <1>2, <1>3, <2>1, <2>4
<1>10. ASSUME EnforceFinalRuling(p)
       PROVE  /\ HasParties(p) /\ VerdictOn(disputes'[p], Parties(p))
              /\ \A q \in ProjectIds \ {p} : disputes'[q] = disputes[q]
  <2> DEFINE new == [d EXCEPT !.status = "Finalized"]
  <2>1. d # None /\ d.status = "Appealable" /\ disputes' = [disputes EXCEPT ![p] = new]
    BY <1>10 DEF EnforceFinalRuling, Enforceable, d
  <2>2. /\ new.status = "Finalized" /\ new.ruling = d.ruling /\ new.round = d.round
        /\ new.jurors = d.jurors /\ new.votes = d.votes
    BY <1>2, <2>1 DEF Dispute
  <2> HIDE DEF new
  <2>3. VerdictOn(new, Parties(p))
    BY <1>2, <2>1, <2>2 DEF VerdictOn
  <2> QED BY <1>2, <1>3, <2>1, <2>3
<1> QED BY <1>4, <1>6, <1>7, <1>8, <1>9, <1>10 DEF DisputeStep

\* The parties of a project stay who they are.
LEMMA PartiesStay ==
  ASSUME MatchInv, StagesFollowed, [ArbNext]_vars, NEW p \in ProjectIds, HasParties(p)
  PROVE  Client(p)' = Client(p) /\ Freelancer(p)' = Freelancer(p) /\ projects'[p].budget = projects[p].budget
<1>1. SettlesOnce \/ projects' = projects
  BY StepsFollowStages
<1>2. CASE SettlesOnce
  BY <1>2 DEF SettlesOnce, HasParties, Client, Freelancer
<1>3. CASE projects' = projects
  BY <1>3 DEF Client, Freelancer
<1> QED BY <1>1, <1>2, <1>3

\* The invariant of verdicts holds in every state of the runtime.
THEOREM VerdictInvariant == ArbSpec => []VerdictInv
<1>1. ArbInit => VerdictInv
  BY TypesInitially DEF ArbInit, ProjInit, VerdictInv, StagesFollowed, BallotsKept
<1>2. VerdictInv /\ [ArbNext]_vars => VerdictInv'
  <2> SUFFICES ASSUME VerdictInv, [ArbNext]_vars
               PROVE  VerdictInv'
    OBVIOUS
  <2>1. TypesInv' /\ StagesFollowed' /\ BallotsKept' /\ TypesInv /\ MatchInv /\ StagesFollowed
    BY TypesKept, StepsFollowStages, StepsKeepVotes DEF VerdictInv, TypesInv
  <2>2. ASSUME NEW p \in ProjectIds, HasParties(p)
        PROVE  Parties(p)' = Parties(p)
    BY <2>1, <2>2, PartiesStay DEF Parties
  <2>3. ASSUME NEW q \in ProjectIds, disputes'[q] # None, disputes'[q] = disputes[q]
        PROVE  VerdictOn(disputes'[q], Parties(q)')
    <3>1. HasParties(q) /\ VerdictOn(disputes[q], Parties(q))
      BY <2>1, <2>3, DisputedHasParties DEF VerdictInv
    <3> QED BY <2>2, <2>3, <3>1
  <2>4. ASSUME NEW q \in ProjectIds, disputes'[q] # None
        PROVE  VerdictOn(disputes'[q], Parties(q)')
    <3>1. ASSUME NEW p \in ProjectIds, DisputeStep(p)
          PROVE  VerdictOn(disputes'[q], Parties(q)')
      <4>1. /\ HasParties(p) /\ VerdictOn(disputes'[p], Parties(p))
            /\ \A r \in ProjectIds \ {p} : disputes'[r] = disputes[r]
        BY <3>1, DisputeVerdict
      <4>2. CASE q = p
        BY <2>2, <4>1, <4>2
      <4>3. CASE q # p
        BY <2>3, <2>4, <4>1, <4>3
      <4> QED BY <4>2, <4>3
    <3>2. CASE (ProjStep /\ UNCHANGED arbVars) \/ NextBlock \/ UNCHANGED vars
      <4>1. disputes' = disputes
        BY <3>2 DEF NextBlock, arbVars, vars
      <4> QED BY <2>3, <2>4, <4>1
    <3> QED BY <3>1, <3>2 DEF ArbNext
  <2> QED BY <2>1, <2>4 DEF VerdictInv
<1> QED BY <1>1, <1>2, PTL DEF ArbSpec

\* finalize_round records the count of the votes on record, which come from seated
\* jurors; appeal_ruling seats a jury of exactly the round's size, without the
\* parties, whatever the pools and the round-robin indices were; and a round that is
\* open has no ruling.
THEOREM RulingsAreVerdicts == ArbSpec => []RulingIsVerdict
<1>1. VerdictInv => RulingIsVerdict
  BY DEF VerdictInv, VerdictOn, Parties, BallotsKept, BallotKept, RulingIsVerdict
<1> QED BY <1>1, VerdictInvariant, PTL

-------------------------------------------------------------------------------
(* The books of disputes *)

\* The books of one dispute, between the client c and the freelancer f.
BooksOn(d, bonds, cost, fees, rewards, c, f) ==
    IF d # None /\ d.status # "Finalized"
    THEN /\ \A r \in Rounds : (bonds[r] # None) <=> r <= d.round
         /\ bonds[1].appellant = f
         /\ \A r \in 2..d.round : bonds[r].appellant \in {c, f}
         /\ \A a \in Accounts : rewards[a] > 0 => a \notin {c, f}
    ELSE /\ bonds = NoBonds /\ cost = 0
         /\ fees = [r \in Rounds |-> NoFees]
         /\ \A a \in Accounts : rewards[a] = 0

BooksAt(p) == BooksOn(disputes[p], AppealBonds[p], ArbitrationCosts[p], JuryFeesOwed[p],
                      JurorRewards[p], Client(p), Freelancer(p))

\* The inductive invariant for the books: only jurors are rewarded, and who votes is
\* a juror, so verdicts are part of it.
BooksInv == VerdictInv /\ \A p \in ProjectIds : BooksAt(p)

\* The books of project q are left alone.
SparesBooks(q) ==
    /\ disputes'[q] = disputes[q] /\ AppealBonds'[q] = AppealBonds[q]
    /\ ArbitrationCosts'[q] = ArbitrationCosts[q] /\ JuryFeesOwed'[q] = JuryFeesOwed[q]
    /\ JurorRewards'[q] = JurorRewards[q]

\* The steps of a dispute write no other books, and close their own properly.
LEMMA DisputeBooks ==
  ASSUME BooksInv, NEW p \in ProjectIds, DisputeStep(p)
  PROVE  /\ BooksOn(disputes'[p], AppealBonds'[p], ArbitrationCosts'[p], JuryFeesOwed'[p],
                    JurorRewards'[p], Client(p), Freelancer(p))
         /\ \A q \in ProjectIds \ {p} : SparesBooks(q)
<1> DEFINE d == disputes[p]
           c == Client(p)
           f == Freelancer(p)
           new == disputes'[p]
           Goal == /\ BooksOn(new, AppealBonds'[p], ArbitrationCosts'[p],
                              JuryFeesOwed'[p], JurorRewards'[p], c, f)
                   /\ \A q \in ProjectIds \ {p} : SparesBooks(q)
<1>1. /\ TypesInv /\ MatchInv /\ BooksTypeOK /\ VerdictInv /\ DOMAIN disputes = ProjectIds
      /\ BooksOn(d, AppealBonds[p], ArbitrationCosts[p], JuryFeesOwed[p], JurorRewards[p], c, f)
  BY DEF BooksInv, VerdictInv, TypesInv, MatchInv, ControlTypeOK, BooksAt
<1>2. /\ \A q \in ProjectIds \ {p} : disputes'[q] = disputes[q]
      /\ VerdictOn(new, Parties(p)) /\ HasParties(p)
  BY <1>1, DisputeVerdict
<1>3. /\ DOMAIN AppealBonds = ProjectIds /\ DOMAIN ArbitrationCosts = ProjectIds
      /\ DOMAIN JuryFeesOwed = ProjectIds /\ DOMAIN JurorRewards = ProjectIds
      /\ AppealBonds[p] \in [Rounds -> Bond \cup {None}] /\ JurorRewards[p] \in [Accounts -> Nat]
  BY <1>1 DEF BooksTypeOK
<1>4. d # None => d \in Dispute /\ d.round \in Rounds
  BY <1>1, DisputeFound
<1>a. (new # None /\ new.status # "Finalized") <=> (projects'[p] # None /\ projects'[p].status = "InDispute")
  <2>1. MatchInv'
    BY <1>1, MatchKept DEF ArbNext
  <2> QED BY <2>1 DEF MatchInv, DisputesMatchProjects, OpenDispute
<1>b. ASSUME d # None, d.status # "Finalized", projects' = projects
      PROVE  new # None /\ new.status # "Finalized"
  BY <1>1, <1>a, <1>b, Undisputed
<1>5. ASSUME NEW who, CreateDispute(who, p)
      PROVE  Goal
  <2> DEFINE bond == [appellant |-> who, amount |-> CalculateAppealBond(p, 1)]
             cost == CalculateArbitrationCost(p, 1)
             bonds == [AppealBonds[p] EXCEPT ![1] = bond]
  <2>1. /\ d = None /\ who = f
        /\ AppealBonds' = [AppealBonds EXCEPT ![p] = bonds]
        /\ ArbitrationCosts' = [ArbitrationCosts EXCEPT ![p] = cost]
        /\ JuryFeesOwed' = JuryFeesOwed /\ JurorRewards' = JurorRewards
    BY <1>5 DEF CreateDispute
  <2>2. new.round = 1 /\ new.status = "AiProcessing"
    BY <1>1, <1>5 DEF CreateDispute
  <2>3. bond # None
    <3>1. who \in Accounts /\ CalculateAppealBond(p, 1) \in Nat
      BY <1>1, <1>5, DisputeBonds
    <3>2. bond \in Bond
      BY <3>1 DEF Bond
    <3> QED BY <3>2, DisputeAssumption
  <2>4. bond.appellant = f
    BY <2>1
  <2>5. AppealBonds[p] = NoBonds /\ \A a \in Accounts : JurorRewards[p][a] = 0
    BY <1>1, <2>1 DEF BooksOn
  <2> HIDE DEF bond, cost
  <2>6. \A r \in Rounds : bonds[r] = IF r = 1 THEN bond ELSE None
    BY <2>5 DEF NoBonds, Rounds
  <2>7. AppealBonds'[p] = bonds /\ JurorRewards'[p] = JurorRewards[p]
    BY <1>3, <2>1
  <2>8. \A q \in ProjectIds \ {p} : SparesBooks(q)
    BY <1>2, <1>3, <2>1 DEF SparesBooks
  <2> HIDE DEF bonds, new, c, f
  <2>9. BooksOn(new, bonds, ArbitrationCosts'[p], JuryFeesOwed'[p], JurorRewards[p], c, f)
    <3>1. \A r \in Rounds : (bonds[r] # None) <=> r <= new.round
      BY <2>2, <2>3, <2>6 DEF Rounds
    <3>2. bonds[1].appellant = f
      BY <2>4, <2>6 DEF Rounds
    <3>3. \A r \in 2..new.round : bonds[r].appellant \in {c, f}
      BY <2>2
    <3>4. new # None
      <4> DEFINE pr == InDispute(p)
      <4>1. projects' = [projects EXCEPT ![p] = pr]
        BY <1>5 DEF CreateDispute, UpdateProject
      <4>2. projects[p] \in Project /\ DOMAIN projects = ProjectIds
        BY <1>1, <1>2, PartiesFound DEF MatchInv, ControlTypeOK
      <4>3. pr \in Project /\ pr.status = "InDispute"
        BY <4>2 DEF InDispute, Project, ProjectStatus
      <4> HIDE DEF pr
      <4>4. projects'[p] = pr /\ pr # None
        BY <4>1, <4>2, <4>3, ProjAssumption
      <4> QED BY <1>a, <4>3, <4>4 DEF new
    <3> QED BY <2>2, <2>5, <3>1, <3>2, <3>3, <3>4 DEF BooksOn
  <2> QED BY <2>7, <2>8, <2>9
<1>6. ASSUME NEW who, AppealRuling(who, p)
      PROVE  Goal
  <2> DEFINE round == d.round + 1
             v    == CalculateAppealBond(p, round)
             bond == [appellant |-> who, amount |-> v]
             bonds == [AppealBonds[p] EXCEPT ![round] = bond]
  <2>1. /\ d # None /\ d.status = "Appealable" /\ projects' = projects /\ who \in {c, f}
        /\ JurorRewards' = JurorRewards
    BY <1>6 DEF AppealRuling, projVars, Loser
  <2>2. AppealBonds' = [AppealBonds EXCEPT ![p] = bonds]
    BY <1>6 DEF AppealRuling
  <2>3. \E x : ArbitrationCosts' = [ArbitrationCosts EXCEPT ![p] = x]
    BY <1>6 DEF AppealRuling
  <2>4. \E x : JuryFeesOwed' = [JuryFeesOwed EXCEPT ![p] = x]
    BY <1>6 DEF AppealRuling
  <2>5. new.round = round
    BY <1>1, <1>6 DEF AppealRuling
  <2>6. who \in Accounts /\ v \in Nat /\ round \in 2..3
    BY <1>1, <1>6, DisputeBonds
  <2> HIDE DEF v
  <2>7. bond \in Bond
    BY <2>6 DEF Bond
  <2>8. bond # None /\ bond.appellant = who
    BY <2>7, DisputeAssumption
  <2>9. new # None /\ new.status # "Finalized"
    BY <1>b, <2>1
  <2>10. AppealBonds'[p] = bonds /\ JurorRewards'[p] = JurorRewards[p]
    BY <1>3, <2>1, <2>2
  <2>11. \A q \in ProjectIds \ {p} : SparesBooks(q)
    BY <1>2, <1>3, <2>1, <2>2, <2>3, <2>4 DEF SparesBooks
  <2>12. /\ \A r \in Rounds : (AppealBonds[p][r] # None) <=> r <= d.round
         /\ AppealBonds[p][1].appellant = f
         /\ \A r \in 2..d.round : AppealBonds[p][r].appellant \in {c, f}
         /\ \A a \in Accounts : JurorRewards[p][a] > 0 => a \notin {c, f}
    BY <1>1, <2>1 DEF BooksOn
  <2> HIDE DEF bond, d, new, c, f
  <2>13. \A r \in Rounds : bonds[r] = IF r = round THEN bond ELSE AppealBonds[p][r]
    BY <1>3
  <2> HIDE DEF bonds
  <2>14. d.round \in Rounds
    BY <1>4, <2>1
  <2>15. \A r \in Rounds : (bonds[r] # None) <=> r <= new.round
    BY <2>5, <2>8, <2>12, <2>13, <2>14 DEF Rounds
  <2>16. bonds[1].appellant = f
    BY <2>6, <2>12, <2>13 DEF Rounds
  <2>17. \A r \in 2..new.round : bonds[r].appellant \in {c, f}
    <3> SUFFICES ASSUME NEW r \in 2..new.round
                 PROVE  bonds[r].appellant \in {c, f}
      OBVIOUS
    <3>1. r \in Rounds
      BY <2>5, <2>6 DEF Rounds
    <3>2. CASE r = round
      BY <2>1, <2>8, <2>13, <3>1, <3>2
    <3>3. CASE r # round
      <4>1. r \in 2..d.round
        BY <2>5, <2>6, <2>14, <3>3 DEF Rounds
      <4> QED BY <2>12, <2>13, <3>1, <3>3, <4>1
    <3> QED BY <3>2, <3>3
  <2>18. BooksOn(new, bonds, ArbitrationCosts'[p], JuryFeesOwed'[p], JurorRewards[p], c, f)
    BY <2>9, <2>12, <2>15, <2>16, <2>17 DEF BooksOn
  <2> QED BY <2>10, <2>11, <2>18
<1>7. ASSUME d # None, d.status # "Finalized", new.round = d.round,
             projects' = projects, AppealBonds' = AppealBonds, ArbitrationCosts' = ArbitrationCosts,
             JuryFeesOwed' = JuryFeesOwed,
             \A q \in ProjectIds \ {p} : JurorRewards'[q] = JurorRewards[q],
             \A a \in Accounts : JurorRewards'[p][a] > 0 => a \notin {c, f}
      PROVE  Goal
  <2>1. new # None /\ new.status # "Finalized"
    BY <1>b, <1>7
  <2>2. \A q \in ProjectIds \ {p} : SparesBooks(q)
    BY <1>2, <1>7 DEF SparesBooks
  <2> HIDE DEF d, new, c, f
  <2>3. BooksOn(new, AppealBonds[p], ArbitrationCosts[p], JuryFeesOwed[p], JurorRewards'[p], c, f)
    BY <1>1, <1>7, <2>1 DEF BooksOn
  <2> QED BY <1>7, <2>2, <2>3
<1>8. ASSUME NEW j, NEW v, CastVote(j, p, v) \/ OracleRules(p)
      PROVE  Goal
  <2>1. /\ d # None /\ d.status # "Finalized"
        /\ projects' = projects /\ AppealBonds' = AppealBonds /\ ArbitrationCosts' = ArbitrationCosts
        /\ JuryFeesOwed' = JuryFeesOwed /\ JurorRewards' = JurorRewards
    BY <1>8 DEF CastVote, MayVote, OracleRules, SubmitRuling, projVars, moneyVars
  <2>2. new.round = d.round
    <3>1. CASE CastVote(j, p, v)
      <4>1. \E x, y : disputes' = [disputes EXCEPT ![p] = [d EXCEPT !.votes = x, !.jurors = y]]
        BY <3>1 DEF CastVote
      <4> QED BY <1>1, <1>4, <2>1, <4>1 DEF Dispute
    <3>2. CASE OracleRules(p)
      <4>1. \E x : disputes' = [disputes EXCEPT ![p] = WithRuling(d, x)]
        BY <3>2 DEF OracleRules, SubmitRuling
      <4> QED BY <1>1, <1>4, <2>1, <4>1 DEF Dispute, WithRuling
    <3> QED BY <1>8, <3>1, <3>2
  <2>3. \A a \in Accounts : JurorRewards[p][a] > 0 => a \notin {c, f}
    BY <1>1, <2>1 DEF BooksOn
  <2> QED BY <1>7, <2>1, <2>2, <2>3
<1>9. ASSUME FinalizeRound(p)
      PROVE  Goal
  <2> DEFINE rewards == [a \in Accounts |-> IF a \in DOMAIN d.votes
                                            THEN JurorRewards[p][a] + Award(p, d.round, d.votes, a)
                                            ELSE JurorRewards[p][a]]
  <2>1. /\ d # None /\ d.status = "Voting" /\ projects' = projects
        /\ AppealBonds' = AppealBonds /\ ArbitrationCosts' = ArbitrationCosts
        /\ JuryFeesOwed' = JuryFeesOwed /\ JurorRewards' = [JurorRewards EXCEPT ![p] = rewards]
        /\ disputes' = [disputes EXCEPT ![p] = WithRuling(d, RoundRuling(d.votes))]
    BY <1>9 DEF FinalizeRound, RoundOver, projVars
  <2>2. new.round = d.round
    BY <1>1, <1>4, <2>1 DEF WithRuling, Dispute
  <2>3. /\ \A q \in ProjectIds \ {p} : JurorRewards'[q] = JurorRewards[q]
        /\ JurorRewards'[p] = rewards
    BY <1>3, <2>1
  <2>4. \A a \in DOMAIN d.votes : a \notin {c, f}
    <3>1. BallotKept(d) /\ VerdictOn(d, Parties(p))
      BY <1>1, <2>1 DEF VerdictInv, BallotsKept
    <3> QED BY <3>1 DEF BallotKept, VerdictOn, Parties
  <2>5. \A a \in Accounts : JurorRewards[p][a] > 0 => a \notin {c, f}
    BY <1>1, <2>1 DEF BooksOn
  <2>6. \A a \in Accounts : JurorRewards'[p][a] > 0 => a \notin {c, f}
    BY <2>3, <2>4, <2>5
  <2> HIDE DEF rewards
  <2> QED BY <1>7, <2>1, <2>2, <2>3, <2>6
<1>10. ASSUME EnforceFinalRuling(p)
       PROVE  Goal
  <2> DEFINE none == [a \in Accounts |-> 0]
             fees == [r \in Rounds |-> NoFees]
  <2>1. /\ AppealBonds' = [AppealBonds EXCEPT ![p] = NoBonds]
        /\ ArbitrationCosts' = [ArbitrationCosts EXCEPT ![p] = 0]
        /\ JuryFeesOwed' = [JuryFeesOwed EXCEPT ![p] = fees]
        /\ JurorRewards' = [JurorRewards EXCEPT ![p] = none]
    BY <1>10 DEF EnforceFinalRuling, CleanupArbitrationStorage
  <2>2. d # None /\ disputes' = [disputes EXCEPT ![p] = [d EXCEPT !.status = "Finalized"]]
    BY <1>10 DEF EnforceFinalRuling, Enforceable
  <2>3. new.status = "Finalized"
    BY <1>1, <1>4, <2>2 DEF Dispute
  <2>4. \A q \in ProjectIds \ {p} : SparesBooks(q)
    BY <1>2, <1>3, <2>1 DEF SparesBooks
  <2>5. /\ AppealBonds'[p] = NoBonds /\ ArbitrationCosts'[p] = 0 /\ JuryFeesOwed'[p] = fees
        /\ \A a \in Accounts : JurorRewards'[p][a] = 0
    BY <1>3, <2>1
  <2> HIDE DEF new, c, f, fees
  <2>6. BooksOn(new, NoBonds, 0, fees, JurorRewards'[p], c, f)
    BY <2>3, <2>5 DEF BooksOn, fees
  <2> QED BY <2>4, <2>5, <2>6
<1> QED BY <1>5, <1>6, <1>8, <1>9, <1>10 DEF DisputeStep

\* The invariant of the books holds in every state of the runtime.
THEOREM BooksInvariant == ArbSpec => []BooksInv
<1>1. ArbInit => BooksInv
  <2> SUFFICES ASSUME ArbInit
               PROVE  BooksInv
    OBVIOUS
  <2>1. VerdictInv
    BY TypesInitially DEF ArbInit, ProjInit, VerdictInv, StagesFollowed, BallotsKept
  <2>2. \A p \in ProjectIds : BooksAt(p)
    BY DEF ArbInit, BooksAt, BooksOn
  <2> QED BY <2>1, <2>2 DEF BooksInv
<1>2. VerdictInv /\ BooksInv /\ [ArbNext]_vars /\ VerdictInv' => BooksInv'
  <2> SUFFICES ASSUME BooksInv, [ArbNext]_vars, VerdictInv'
               PROVE  \A q \in ProjectIds : BooksAt(q)'
    BY DEF BooksInv
  <2>1. TypesInv /\ MatchInv /\ StagesFollowed /\ \A p \in ProjectIds : BooksAt(p)
    BY DEF BooksInv, VerdictInv, TypesInv
  <2>2. ASSUME NEW q \in ProjectIds, SparesBooks(q)
        PROVE  BooksAt(q)'
    <3>1. CASE disputes[q] # None
      <4>1. HasParties(q)
        BY <2>1, <3>1, DisputedHasParties
      <4>2. Client(q)' = Client(q) /\ Freelancer(q)' = Freelancer(q)
        BY <2>1, <4>1, PartiesStay
      <4>3. BooksAt(q)
        BY <2>1
      <4> QED BY <2>2, <4>2, <4>3 DEF BooksAt, SparesBooks
    <3>2. CASE disputes[q] = None
      <4>1. BooksAt(q)
        BY <2>1
      <4> QED BY <2>2, <3>2, <4>1 DEF BooksAt, SparesBooks, BooksOn
    <3> QED BY <3>1, <3>2
  <2>3. ASSUME NEW p \in ProjectIds, DisputeStep(p)
        PROVE  \A q \in ProjectIds : BooksAt(q)'
    <3>1. /\ BooksOn(disputes'[p], AppealBonds'[p], ArbitrationCosts'[p], JuryFeesOwed'[p],
                     JurorRewards'[p], Client(p), Freelancer(p))
          /\ \A q \in ProjectIds \ {p} : SparesBooks(q)
      BY <2>3, DisputeBooks
    <3>2. HasParties(p)
      BY <2>3, DisputeVerdict DEF BooksInv
    <3>3. Client(p)' = Client(p) /\ Freelancer(p)' = Freelancer(p)
      BY <2>1, <3>2, PartiesStay
    <3>4. BooksAt(p)'
      BY <3>1, <3>3 DEF BooksAt
    <3> QED BY <2>2, <3>1, <3>4
  <2>4. CASE (ProjStep /\ UNCHANGED arbVars) \/ NextBlock \/ UNCHANGED vars
    <3>1. UNCHANGED arbVars
      BY <2>4 DEF NextBlock, vars
    <3>2. \A q \in ProjectIds : SparesBooks(q)
      BY <3>1 DEF SparesBooks, arbVars, moneyVars
    <3> QED BY <2>2, <3>2
  <2> QED BY <2>3, <2>4 DEF ArbNext
<1> QED BY <1>1, <1>2, VerdictInvariant, PTL DEF ArbSpec

\* While a dispute is open there is one bond per round reached, from the right party,
\* and only people who are not parties have rewards due; after cleanup_arbitration_storage,
\* and before create_dispute, nothing is left in the books.
THEOREM BooksFollowTheRounds == ArbSpec => []BooksFollowRounds
<1>1. BooksInv => BooksFollowRounds
  <2> SUFFICES ASSUME BooksInv, NEW p \in ProjectIds
               PROVE  BooksOn(disputes[p], AppealBonds[p], ArbitrationCosts[p], JuryFeesOwed[p],
                              JurorRewards[p], Client(p), Freelancer(p))
    BY DEF BooksFollowRounds, BooksOn, OpenDispute
  <2> QED BY DEF BooksInv, BooksAt
<1> QED BY <1>1, BooksInvariant, PTL

-------------------------------------------------------------------------------
(* Earnings *)

\* No payment is attested, and nobody's earnings or ratings change.
Uncredited ==
    /\ rep'.Attestations = rep.Attestations
    /\ \A a \in Accounts : SameEarned(rep.ReputationStats[a], rep'.ReputationStats[a])

\* The freelancer of the open project p is credited with its budget and one rating.
CreditedFor(p) ==
    /\ projects[p] # None /\ projects[p].status \notin {"Completed", "Cancelled"}
    /\ Freelancer(p) \in Accounts
    /\ rep'.Attestations = rep.Attestations \cup {<<Freelancer(p), p>>}
    /\ \A a \in Accounts :
         IF a = Freelancer(p)
         THEN /\ rep'.ReputationStats[a].total_earned =
                   rep.ReputationStats[a].total_earned + projects[p].budget
              /\ rep'.ReputationStats[a].total_ratings_received =
                   Sat(rep.ReputationStats[a].total_ratings_received + 1)
         ELSE SameEarned(rep.ReputationStats[a], rep'.ReputationStats[a])

\* The commit of a call that pays nobody, and of one that closes p.
LEMMA CommitCredits ==
  ASSUME NEW t, Commit(t), NEW p
  PROVE  /\ \A locks : Quiet(Chain, t, locks) => Uncredited
         /\ Calm(Chain, t) => Uncredited
         /\ \A id, c : /\ Closes(Chain, t, id, c, Freelancer(p), projects[p].budget, p)
                       /\ projects[p] # None /\ projects[p].status \notin {"Completed", "Cancelled"}
                       /\ Freelancer(p) \in Accounts
                       => CreditedFor(p)
<1>1. rep' = t.rep /\ Chain.rep = rep
  BY DEF Commit, Chain
<1>2. \A a : Stats(t, a) = rep'.ReputationStats[a] /\ Stats(Chain, a) = rep.ReputationStats[a]
  BY <1>1 DEF Stats
<1>3. \A locks : Quiet(Chain, t, locks) => Uncredited
  BY <1>1, <1>2 DEF Quiet, Uncredited
<1>4. Calm(Chain, t) => Uncredited
  BY <1>1, <1>2 DEF Calm, Uncredited
<1>5. ASSUME NEW id, NEW c, Closes(Chain, t, id, c, Freelancer(p), projects[p].budget, p),
             projects[p] # None, projects[p].status \notin {"Completed", "Cancelled"},
             Freelancer(p) \in Accounts
      PROVE  CreditedFor(p)
  <2>1. rep'.Attestations = rep.Attestations \cup {<<Freelancer(p), p>>}
    BY <1>1, <1>5 DEF Closes
  <2>2. ASSUME NEW a \in Accounts
        PROVE  IF a = Freelancer(p)
               THEN /\ rep'.ReputationStats[a].total_earned =
                         rep.ReputationStats[a].total_earned + projects[p].budget
                    /\ rep'.ReputationStats[a].total_ratings_received =
                         Sat(rep.ReputationStats[a].total_ratings_received + 1)
               ELSE SameEarned(rep.ReputationStats[a], rep'.ReputationStats[a])
    <3>1. Credited(Chain, t, Freelancer(p), projects[p].budget)
      BY <1>5 DEF Closes
    <3> QED BY <1>2, <3>1, Zenon DEF Credited
  <2> QED BY <1>5, <2>1, <2>2 DEF CreditedFor
<1> QED BY <1>3, <1>4, <1>5

\* A step that does not touch the reputation pallet credits nobody.
LEMMA SameCredits ==
  ASSUME rep' = rep
  PROVE  Uncredited
  BY DEF Uncredited, SameEarned

\* Every step credits nobody, or the freelancer of one open project.
LEMMA CreditSteps ==
  ASSUME TypesInv, [ArbNext]_vars
  PROVE  Uncredited \/ \E p \in ProjectIds : CreditedFor(p)
<1>1. MatchInv /\ RuntimeInv /\ BooksTypeOK /\ NextProjectId \in Nat
  BY DEF TypesInv, MatchInv, ControlTypeOK
<1>2. ASSUME NEW c \in Clients, NEW b \in Budgets, NEW d \in Durations, CreateProject(c, b, d)
      PROVE  Uncredited
  <2>1. c \in Accounts /\ b \in Nat /\ NextProjectId \in ProjectIds
    BY <1>1, <1>2, ProjAssumption DEF CreateProject
  <2>2. PICK t : /\ Commit(t)
                 /\ Quiet(Chain, t, [ledger.locks EXCEPT ![c] =
                                      [@ EXCEPT ![GenerateLockId(NextProjectId)] = b]])
                 /\ BeyondKept(Chain, t)
    BY <1>1, <1>2, <2>1, CreateProjectEffect
  <2> QED BY <2>2, CommitCredits
<1>3. ASSUME NEW c \in Clients, NEW p \in ProjectIds, CancelProject(c, p)
      PROVE  Uncredited
  <2>1. c \in Accounts /\ Commit(Cancelled(c, p))
    BY <1>3, ProjAssumption DEF CancelProject, UpdateProject
  <2>2. PICK t : /\ Commit(t)
                 /\ Quiet(Chain, t, [ledger.locks EXCEPT ![c] = [@ EXCEPT ![GenerateLockId(p)] = 0]])
                 /\ BeyondKept(Chain, t)
    BY <1>1, <2>1, CancelledEffect
  <2> QED BY <2>2, CommitCredits
<1>4. ASSUME NEW c \in Clients, NEW p \in ProjectIds, NEW r \in StarRatings, AcceptWork(c, p, r)
      PROVE  CreditedFor(p)
  <2>1. /\ projects[p] # None /\ projects[p].status = "InReview" /\ projects[p].freelancer # None
        /\ c \in Accounts /\ r \in Nat /\ Commit(Accepted(c, p, r))
    BY <1>4, ProjAssumption DEF AcceptWork, UpdateProject
  <2>2. projects[p] \in Project
    BY <2>1, Undisputed
  <2>3. PICK t : /\ Commit(t)
                 /\ Closes(Chain, t, GenerateLockId(p), c, projects[p].freelancer,
                           projects[p].budget, p)
    BY <1>1, <2>1, <2>2, AcceptedEffect
  <2>4. Freelancer(p) \in Accounts /\ Freelancer(p) = projects[p].freelancer
    BY <2>1, <2>2 DEF Freelancer, Project
  <2> QED BY <2>1, <2>3, <2>4, CommitCredits
<1>5. ASSUME NEW p \in ProjectIds, EnforceFinalRuling(p)
      PROVE  Uncredited \/ CreditedFor(p)
  <2>1. HasParties(p) /\ disputes[p] # None /\ disputes[p].status = "Appealable"
    BY <1>5 DEF EnforceFinalRuling, Enforceable
  <2>2. projects[p] \in Project /\ projects[p] # None /\ projects[p].status = "InDispute"
    BY <2>1, Undisputed
  <2>3. Freelancer(p) \in Accounts /\ Freelancer(p) = projects[p].freelancer
    BY <1>1, <2>1, PartiesFound DEF Freelancer
  <2>4. /\ AppealBonds[p] \in [Rounds -> Bond \cup {None}] /\ ArbitrationCosts[p] \in Nat
        /\ JurorRewards[p] \in [Accounts -> Nat]
    BY <1>1 DEF BooksTypeOK
  <2>5. PICK t : Commit(t) /\ Enforces(Chain, t, p, disputes[p].ruling)
    BY <1>1, <1>5, <2>2, <2>4, EnforceEffect
  <2>6. CASE disputes[p].ruling = "FreelancerWins"
    <3>1. Closes(Chain, t, GenerateLockId(p), projects[p].client, Freelancer(p), projects[p].budget, p)
      BY <2>3, <2>5, <2>6 DEF Enforces
    <3> QED BY <2>2, <2>3, <2>5, <3>1, CommitCredits
  <2>7. CASE disputes[p].ruling # "FreelancerWins"
    BY <2>5, <2>7, CommitCredits DEF Enforces
  <2> QED BY <2>6, <2>7
<1>6. ASSUME NEW p \in ProjectIds, NEW who, CreateDispute(who, p) \/ AppealRuling(who, p)
      PROVE  Uncredited
  <2>1. \E t : Commit(t) /\ Quiet(Chain, t, ledger.locks)
    BY <1>6, DisputeBonds
  <2> QED BY <2>1, CommitCredits
<1>7. ASSUME NEW p \in ProjectIds, FinalizeRound(p)
      PROVE  Uncredited
  <2>1. disputes[p] # None /\ Commit(RecordVotes(disputes[p].votes))
    BY <1>7 DEF FinalizeRound
  <2>2. DOMAIN disputes[p].votes \in SUBSET Accounts
    BY <1>1, <2>1, DisputeFound
  <2>3. Quiet(Chain, RecordVotes(disputes[p].votes), ledger.locks)
    BY <1>1, <2>2, FinalizeEffect
  <2> QED BY <2>1, <2>3, CommitCredits
<1>8. ASSUME NEW a \in Stakers, StakerStep(a)
      PROVE  Uncredited
  <2>1. a \in Accounts
    BY ProjAssumption
  <2>2. \E t : Commit(t) /\ Quiet(Chain, t, ledger.locks) /\ BeyondKept(Chain, t)
    BY <1>1, <1>8, <2>1, RegisterUserEffect, JurorJoinsEffect, JurorLeavesEffect DEF StakerStep
  <2> QED BY <2>2, CommitCredits
<1>9. ASSUME NEW c, NEW p, NEW f,
             StartWork(c, p, f) \/ RejectWork(c, p) \/ ApplyForProject(f, p) \/ SubmitWork(f, p)
      PROVE  Uncredited
  <2>1. rep' = rep
    BY <1>9, CommitChain DEF StartWork, RejectWork, ApplyForProject, SubmitWork, UpdateProject
  <2> QED BY <2>1, SameCredits
<1>10. ASSUME NEW p, NEW j, NEW v, CastVote(j, p, v) \/ OracleRules(p)
       PROVE  Uncredited
  BY <1>10, SameCredits DEF CastVote, OracleRules, SubmitRuling, repVars
<1>11. CASE NextBlock \/ UNCHANGED vars
  BY <1>11, SameCredits DEF NextBlock, Tick, vars, repVars
<1>12. CASE ProjStep
  BY <1>12, <1>2, <1>3, <1>4, <1>8, <1>9 DEF ProjStep, ClientStep, FreelancerStep
<1>13. ASSUME NEW p \in ProjectIds, DisputeStep(p)
       PROVE  Uncredited \/ CreditedFor(p)
  BY <1>13, <1>5, <1>6, <1>7, <1>10 DEF DisputeStep
<1> QED BY <1>11, <1>12, <1>13 DEF ArbNext

\* The genesis leaves room in every u32 for one rating per project.
RatingsFit ==
    \A a \in Accounts : InitialUsers[a].total_ratings_received + MaxProjects <= U32Max

\* The inductive invariant for earnings: who has been paid for a project is the
\* freelancer of a completed one, so no project is added to anybody's twice.
EarningsInv == EscrowInv /\ StagesFollowed /\ EarningsExplained

\* What is on record of an account paid by the projects of a set.
EarnedFrom(st, genesis, paid, prs) ==
    /\ st.total_earned = genesis.total_earned
                         + SumFunctionOnSet([p \in paid |-> prs[p].budget], paid)
    /\ st.total_ratings_received = genesis.total_ratings_received + Cardinality(paid)

\* There are MaxProjects identifiers, so no account is paid more often.
LEMMA FewProjects ==
  /\ IsFiniteSet(ProjectIds) /\ Cardinality(ProjectIds) = MaxProjects
  /\ \A S \in SUBSET ProjectIds : /\ IsFiniteSet(S) /\ Cardinality(S) \in Nat
                                  /\ Cardinality(S) <= MaxProjects
<1>1. ProjectIds = 0..(MaxProjects - 1) /\ MaxProjects \in Nat /\ MaxProjects - 1 \in Int
  BY ProjAssumption
<1>2. IsFiniteSet(0..(MaxProjects - 1)) /\ Cardinality(0..(MaxProjects - 1)) = MaxProjects
  BY <1>1, FS_Interval
<1>3. IsFiniteSet(ProjectIds) /\ Cardinality(ProjectIds) = MaxProjects
  BY <1>1, <1>2
<1>4. \A S \in SUBSET ProjectIds : /\ IsFiniteSet(S) /\ Cardinality(S) <= Cardinality(ProjectIds)
                                   /\ Cardinality(S) \in Nat
  BY <1>3, FS_Subset, FS_CardinalityType
<1> QED BY <1>3, <1>4

\* Budgets that stay the same add up to the same.
LEMMA EarnedSame ==
  ASSUME NEW paid \in SUBSET ProjectIds, NEW prs, NEW new, NEW st, NEW genesis,
         \A p \in paid : prs[p].budget \in Nat /\ new[p].budget = prs[p].budget,
         EarnedFrom(st, genesis, paid, prs)
  PROVE  EarnedFrom(st, genesis, paid, new)
<1> DEFINE f == [p \in paid |-> prs[p].budget]
           g == [p \in paid |-> new[p].budget]
<1>1. f = g
  OBVIOUS
<1> QED BY <1>1 DEF EarnedFrom

\* One more project adds its budget and one rating.
LEMMA EarnedMore ==
  ASSUME NEW paid \in SUBSET ProjectIds, NEW prs, NEW st, NEW now, NEW genesis,
         NEW p \in ProjectIds, p \notin paid,
         \A q \in paid \cup {p} : prs[q].budget \in Nat,
         genesis.total_earned \in Nat, genesis.total_ratings_received \in Nat,
         EarnedFrom(st, genesis, paid, prs),
         now.total_earned = st.total_earned + prs[p].budget,
         now.total_ratings_received = st.total_ratings_received + 1
  PROVE  EarnedFrom(now, genesis, paid \cup {p}, prs)
<1> DEFINE all == paid \cup {p}
           f == [q \in paid |-> prs[q].budget]
           g == [q \in all |-> prs[q].budget]
<1>1. IsFiniteSet(paid) /\ Cardinality(paid) \in Nat /\ IsFiniteSet(all)
  BY FewProjects
<1>2. Cardinality(all) = Cardinality(paid) + 1
  BY <1>1, FS_AddElement
<1>3. IntOn(g, all) /\ IntOn(f, paid) /\ all \ {p} = paid /\ p \in all /\ g[p] = prs[p].budget
  BY DEF IntOn
<1>4. \A q \in paid : g[q] = f[q]
  OBVIOUS
<1> HIDE DEF f, g
<1>5. SumFunctionOnSet(g, paid) = SumFunctionOnSet(f, paid)
  BY <1>1, <1>3, <1>4, SumSame
<1> HIDE DEF all
<1>6. /\ SumFunctionOnSet(g, all) = g[p] + SumFunctionOnSet(g, all \ {p})
      /\ SumFunctionOnSet(g, all \ {p}) \in Int
  BY <1>1, <1>3, SumRemove
<1>7. /\ SumFunctionOnSet(g, all) = SumFunctionOnSet(f, paid) + prs[p].budget
      /\ SumFunctionOnSet(f, paid) \in Int /\ prs[p].budget \in Nat
  <2>1. prs[p].budget \in Nat
    OBVIOUS
  <2>2. SumFunctionOnSet(g, all \ {p}) = SumFunctionOnSet(f, paid)
    BY <1>3, <1>5, Zenon
  <2>3. /\ SumFunctionOnSet(g, all) = prs[p].budget + SumFunctionOnSet(f, paid)
        /\ SumFunctionOnSet(f, paid) \in Int
    BY <1>3, <1>6, <2>2, Zenon
  <2> QED BY <2>1, <2>3
<1>8. /\ st.total_earned = genesis.total_earned + SumFunctionOnSet(f, paid)
      /\ st.total_ratings_received = genesis.total_ratings_received + Cardinality(paid)
  BY DEF EarnedFrom, f
<1>9. /\ now.total_earned = genesis.total_earned + SumFunctionOnSet(g, all)
      /\ now.total_ratings_received = genesis.total_ratings_received + Cardinality(all)
  BY <1>1, <1>2, <1>7, <1>8
<1> QED BY <1>9 DEF EarnedFrom, g, all

\* EarningsExplained, account by account.
LEMMA ExplainedByAccount ==
  /\ EarningsExplained <=>
       \A a \in Accounts : EarnedFrom(rep.ReputationStats[a], InitialUsers[a], PaidProjects(a), projects)
  /\ EarningsExplained' <=>
       \A a \in Accounts : EarnedFrom(rep'.ReputationStats[a], InitialUsers[a], PaidProjects(a)', projects')
  BY DEF EarningsExplained, EarnedFrom

\* A step keeps the budgets of the projects that paid, and credits at most one more.
LEMMA EarningsKept ==
  ASSUME RatingsFit, EarningsInv, [ArbNext]_vars
  PROVE  EarningsExplained'
<1>1. TypesInv /\ MatchInv /\ \A p \in ProjectIds : EscrowAt(p)
  BY DEF EarningsInv, EscrowInv, TypesInv
<1>2. \A p \in ProjectIds : projects[p] # None => projects[p] \in Project /\ projects[p].budget \in Nat
  BY <1>1 DEF MatchInv, ControlTypeOK, Project
<1>3. \A p \in ProjectIds : projects[p] # None => projects'[p].budget = projects[p].budget
  <2>1. SettlesOnce \/ projects' = projects
    BY <1>1, StepsFollowStages DEF EarningsInv
  <2> QED BY <2>1 DEF SettlesOnce
<1>4. \A a \in Accounts : /\ PaidProjects(a) \in SUBSET ProjectIds
                          /\ \A p \in PaidProjects(a) :
                               projects[p] # None /\ projects[p].status = "Completed"
  BY <1>1 DEF EscrowAt, SettledAs, PaidProjects
<1>5. \A a \in Accounts :
        /\ InitialUsers[a].total_earned \in Nat /\ InitialUsers[a].total_ratings_received \in Nat
        /\ InitialUsers[a].total_ratings_received + MaxProjects <= U32Max
  BY RepAssumption DEF RatingsFit, ReputationData, U32
<1>6. ASSUME NEW a \in Accounts
      PROVE  EarnedFrom(rep.ReputationStats[a], InitialUsers[a], PaidProjects(a), projects')
  <2>1. EarnedFrom(rep.ReputationStats[a], InitialUsers[a], PaidProjects(a), projects)
    BY ExplainedByAccount DEF EarningsInv
  <2> QED BY <1>2, <1>3, <1>4, <2>1, EarnedSame
<1>7. ASSUME NEW a \in Accounts, SameEarned(rep.ReputationStats[a], rep'.ReputationStats[a]),
             PaidProjects(a)' = PaidProjects(a)
      PROVE  EarnedFrom(rep'.ReputationStats[a], InitialUsers[a], PaidProjects(a)', projects')
  BY <1>6, <1>7 DEF EarnedFrom, SameEarned
<1>8. CASE Uncredited
  <2>1. \A a \in Accounts : PaidProjects(a)' = PaidProjects(a)
    BY <1>8 DEF Uncredited, PaidProjects
  <2> QED BY <1>7, <1>8, <2>1, ExplainedByAccount DEF Uncredited
<1>9. ASSUME NEW p \in ProjectIds, CreditedFor(p)
      PROVE  EarningsExplained'
  <2> DEFINE f == Freelancer(p)
  <2>1. f \in Accounts /\ projects[p] # None /\ projects[p].status # "Completed"
    BY <1>9 DEF CreditedFor
  <2>2. p \notin PaidProjects(f)
    BY <1>4, <2>1
  <2>3. \A a \in Accounts : PaidProjects(a)' = IF a = f THEN PaidProjects(f) \cup {p} ELSE PaidProjects(a)
    BY <1>9 DEF CreditedFor, PaidProjects
  <2>4. /\ rep'.ReputationStats[f].total_earned = rep.ReputationStats[f].total_earned + projects[p].budget
        /\ rep'.ReputationStats[f].total_ratings_received =
             Sat(rep.ReputationStats[f].total_ratings_received + 1)
        /\ \A a \in Accounts \ {f} : SameEarned(rep.ReputationStats[a], rep'.ReputationStats[a])
    BY <1>9, <2>1 DEF CreditedFor
  <2> HIDE DEF f
  <2>5. PaidProjects(f) \in SUBSET ProjectIds /\ PaidProjects(f) \cup {p} \in SUBSET ProjectIds
    BY <1>4, <2>1
  <2>6. Cardinality(PaidProjects(f)) + 1 <= MaxProjects /\ Cardinality(PaidProjects(f)) \in Nat
    <3>1. /\ IsFiniteSet(PaidProjects(f)) /\ Cardinality(PaidProjects(f)) \in Nat
          /\ Cardinality(PaidProjects(f) \cup {p}) <= MaxProjects
      BY <2>5, FewProjects
    <3>2. Cardinality(PaidProjects(f) \cup {p}) = Cardinality(PaidProjects(f)) + 1
      BY <2>2, <3>1, FS_AddElement
    <3> QED BY <3>1, <3>2
  <2>7. EarnedFrom(rep.ReputationStats[f], InitialUsers[f], PaidProjects(f), projects')
    BY <1>6, <2>1
  <2>8. rep'.ReputationStats[f].total_ratings_received = rep.ReputationStats[f].total_ratings_received + 1
    <3>1. rep.ReputationStats[f].total_ratings_received =
            InitialUsers[f].total_ratings_received + Cardinality(PaidProjects(f))
      BY <2>7 DEF EarnedFrom
    <3>2. U32Max \in Nat /\ MaxProjects \in Nat
      BY RepAssumption, ProjAssumption
    <3> QED BY <1>5, <2>1, <2>4, <2>6, <3>1, <3>2 DEF Sat
  <2>9. rep'.ReputationStats[f].total_earned = rep.ReputationStats[f].total_earned + projects'[p].budget
    BY <1>3, <2>1, <2>4
  <2>10. \A q \in PaidProjects(f) \cup {p} : projects'[q].budget \in Nat
    BY <1>2, <1>3, <1>4, <2>1, <2>5
  <2>11. EarnedFrom(rep'.ReputationStats[f], InitialUsers[f], PaidProjects(f) \cup {p}, projects')
    BY <1>5, <2>1, <2>2, <2>5, <2>7, <2>8, <2>9, <2>10, EarnedMore
  <2>12. \A a \in Accounts :
           EarnedFrom(rep'.ReputationStats[a], InitialUsers[a], PaidProjects(a)', projects')
    BY <1>7, <2>3, <2>4, <2>11
  <2> QED BY <2>12, ExplainedByAccount
<1> QED BY <1>1, <1>8, <1>9, CreditSteps

\* accept_work and on_ruling credit a freelancer once per project they pay, and nothing
\* else credits anybody, as long as no counter of ratings reaches the end of its u32.
THEOREM EarningsFollowPayments ==
  ASSUME RatingsFit
  PROVE  ArbSpec => []EarningsExplained
<1>1. ArbInit => EarningsExplained
  <2> SUFFICES ASSUME ArbInit
               PROVE  EarningsExplained
    OBVIOUS
  <2>1. rep.Attestations = {} /\ rep.ReputationStats = InitialUsers
    BY DEF ArbInit, ProjInit, RepInit
  <2>2. \A a \in Accounts : PaidProjects(a) = {}
    BY <2>1 DEF PaidProjects
  <2>3. Cardinality({}) = 0 /\ IsFiniteSet({})
    BY FS_EmptySet
  <2>4. \A f : SumFunctionOnSet(f, {}) = 0
    BY <2>3, SumStep DEF IntOn
  <2>5. ASSUME NEW a \in Accounts
        PROVE  EarnedFrom(rep.ReputationStats[a], InitialUsers[a], PaidProjects(a), projects)
    <3>1. InitialUsers[a].total_earned \in Nat /\ InitialUsers[a].total_ratings_received \in Nat
      BY RepAssumption DEF ReputationData, U32
    <3> QED BY <2>1, <2>2, <2>3, <2>4, <3>1 DEF EarnedFrom
  <2> QED BY <2>5, ExplainedByAccount
<1>2. EscrowInv /\ StagesFollowed /\ EarningsExplained /\ [ArbNext]_vars => EarningsExplained'
  BY EarningsKept DEF EarningsInv
<1> QED BY <1>1, <1>2, EscrowInvariant, StagesInvariant, PTL DEF ArbSpec

-------------------------------------------------------------------------------
(* Reserves *)

BondTables == [ProjectIds -> [Rounds -> Bond \cup {None}]]

\* What a has bonded in every dispute and round, and that together.
BondTable(bonds, a) == [pr \in ProjectIds \X Rounds |-> BondOf(bonds[pr[1]][pr[2]], a)]
BondTotal(bonds, a) == SumFunctionOnSet(BondTable(bonds, a), ProjectIds \X Rounds)

\* One bond is entered.
WithBond(bonds, p, r, bond) == [bonds EXCEPT ![p] = [@ EXCEPT ![r] = bond]]

\* Those of a dispute are removed.
WithoutBonds(bonds, p) == [bonds EXCEPT ![p] = NoBonds]

\* BondedBy is this total.
LEMMA BondedByIsTotal ==
  ASSUME NEW a
  PROVE  BondedBy(a) = BondTotal(AppealBonds, a) /\ BondedBy(a)' = BondTotal(AppealBonds', a)
  BY DEF BondedBy, BondTotal, BondTable, BondOf

\* It is a natural number.
LEMMA BondTotalType ==
  ASSUME NEW bonds \in BondTables, NEW a
  PROVE  /\ IsFiniteSet(ProjectIds \X Rounds)
         /\ \A pr \in ProjectIds \X Rounds : BondTable(bonds, a)[pr] \in Nat
         /\ BondTotal(bonds, a) \in Nat
<1>1. IsFiniteSet(Rounds)
  <2>1. 1 \in Int /\ 3 \in Int
    OBVIOUS
  <2>2. ASSUME NEW i \in Int, NEW j \in Int
        PROVE  IsFiniteSet(i..j)
    BY FS_Interval
  <2>3. IsFiniteSet(1..3)
    BY <2>1, <2>2, Zenon
  <2> QED BY <2>3 DEF Rounds
<1>2. IsFiniteSet(ProjectIds \X Rounds)
  BY <1>1, FewProjects, FS_Product
<1>3. ASSUME NEW pr \in ProjectIds \X Rounds
      PROVE  BondTable(bonds, a)[pr] \in Nat
  <2>1. bonds[pr[1]][pr[2]] \in Bond \cup {None}
    BY DEF BondTables
  <2>2. BondOf(bonds[pr[1]][pr[2]], a) \in Nat
    BY <2>1, BondOfType
  <2> QED BY <2>2 DEF BondTable
<1> QED BY <1>2, <1>3, SumNat DEF BondTotal

\* Writing the bond of one round changes it by the difference.
LEMMA BondWritten ==
  ASSUME NEW old \in BondTables, NEW p \in ProjectIds, NEW r \in Rounds, NEW bond \in Bond \cup {None},
         NEW new, new = WithBond(old, p, r, bond), NEW a
  PROVE  /\ new \in BondTables
         /\ BondTotal(new, a) = BondTotal(old, a) + (BondOf(bond, a) - BondOf(old[p][r], a))
<1> DEFINE S == ProjectIds \X Rounds
           f == BondTable(old, a)
           g == BondTable(new, a)
<1>1. new \in BondTables /\ new[p][r] = bond
  BY DEF BondTables, WithBond
<1>2. ASSUME NEW pr \in S
      PROVE  pr # <<p, r>> => new[pr[1]][pr[2]] = old[pr[1]][pr[2]]
  <2>1. PICK q \in ProjectIds, k \in Rounds : pr = <<q, k>>
    OBVIOUS
  <2>2. q # p \/ k # r => new[q][k] = old[q][k]
    BY DEF BondTables, WithBond
  <2> QED BY <2>1, <2>2
<1>3. /\ IsFiniteSet(S) /\ \A pr \in S : f[pr] \in Nat /\ g[pr] \in Nat
  BY <1>1, BondTotalType
<1>4. <<p, r>> \in S /\ f[<<p, r>>] = BondOf(old[p][r], a) /\ g[<<p, r>>] = BondOf(bond, a)
  BY <1>1 DEF BondTable
<1>5. \A pr \in S \ {<<p, r>>} : g[pr] = f[pr]
  BY <1>2 DEF BondTable
<1>6. BondTotal(old, a) = SumFunctionOnSet(f, S) /\ BondTotal(new, a) = SumFunctionOnSet(g, S)
  BY DEF BondTotal
<1> HIDE DEF S, f, g
<1>7. IntOn(f, S) /\ g[<<p, r>>] \in Int
  BY <1>3, <1>4 DEF IntOn
<1>8. SumFunctionOnSet(g, S) = SumFunctionOnSet(f, S) + (g[<<p, r>>] - f[<<p, r>>])
  BY <1>3, <1>4, <1>5, <1>7, SumUpdate
<1> QED BY <1>1, <1>4, <1>6, <1>8

\* Removing the bonds of a dispute takes them away, and they were part of it.
LEMMA BondsRemoved ==
  ASSUME NEW old \in BondTables, NEW p \in ProjectIds,
         NEW new, new = WithoutBonds(old, p), NEW a
  PROVE  /\ BondTotal(new, a) = BondTotal(old, a) - Bonded(old[p], a)
         /\ Bonded(old[p], a) \in Nat /\ Bonded(old[p], a) <= BondTotal(old, a)
<1> DEFINE b1 == WithBond(old, p, 1, None)
           b2 == WithBond(b1, p, 2, None)
           b3 == WithBond(b2, p, 3, None)
<1>1. /\ 1 \in Rounds /\ 2 \in Rounds /\ 3 \in Rounds /\ None \in Bond \cup {None}
      /\ \A r \in Rounds : r = 1 \/ r = 2 \/ r = 3
  BY DEF Rounds
<1>2. BondOf(None, a) = 0
  BY DEF BondOf
<1>3. b1 \in BondTables /\ b2 \in BondTables /\ b3 \in BondTables
  BY <1>1 DEF BondTables, WithBond
<1>4. b1[p][2] = old[p][2] /\ b2[p][3] = old[p][3]
  BY <1>1 DEF BondTables, WithBond
<1>5. b3 = new
  <2>1. new \in BondTables
    BY DEF BondTables, NoBonds, WithoutBonds
  <2>2. \A q \in ProjectIds, r \in Rounds : b3[q][r] = new[q][r]
    <3> TAKE q \in ProjectIds, r \in Rounds
    <3>1. CASE q # p
      BY <3>1 DEF BondTables, WithBond, WithoutBonds
    <3>2. CASE q = p
      BY <1>1, <3>2 DEF BondTables, NoBonds, WithBond, WithoutBonds
    <3> QED BY <3>1, <3>2
  <2> HIDE DEF b3
  <2> QED BY <1>3, <2>1, <2>2 DEF BondTables
<1>6. BondTotal(b1, a) = BondTotal(old, a) + (BondOf(None, a) - BondOf(old[p][1], a))
  BY <1>1, BondWritten
<1>7. BondTotal(b2, a) = BondTotal(b1, a) + (BondOf(None, a) - BondOf(b1[p][2], a))
  <2> HIDE DEF b1
  <2> QED BY <1>1, <1>3, BondWritten
<1>8. BondTotal(b3, a) = BondTotal(b2, a) + (BondOf(None, a) - BondOf(b2[p][3], a))
  <2> HIDE DEF b1, b2
  <2> QED BY <1>1, <1>3, BondWritten
<1>9. BondTotal(old, a) \in Nat /\ BondTotal(b3, a) \in Nat
  BY <1>3, BondTotalType
<1>10. BondOf(old[p][1], a) \in Nat /\ BondOf(old[p][2], a) \in Nat /\ BondOf(old[p][3], a) \in Nat
  BY <1>1, BondOfType DEF BondTables
<1> HIDE DEF b1, b2, b3
<1>11. Bonded(old[p], a) = BondOf(old[p][1], a) + BondOf(old[p][2], a) + BondOf(old[p][3], a)
  BY DEF Bonded
<1>12. BondTotal(b3, a) = BondTotal(old, a) - Bonded(old[p], a) /\ Bonded(old[p], a) \in Nat
  BY <1>2, <1>4, <1>6, <1>7, <1>8, <1>9, <1>10, <1>11
<1> QED BY <1>5, <1>9, <1>12

\* The chain state a step ends in.
StepsTo(t) == t \in ChainState /\ ledger' = t.ledger /\ rep' = t.rep

\* A step that leaves the bonds alone, one that enters a bond, and one that settles
\* the bonds of a dispute.
BondsAlone ==
    /\ AppealBonds' = AppealBonds
    /\ \E t : StepsTo(t) /\ NoneMade(Chain, t) /\ BeyondKept(Chain, t)

BondEntered ==
    \E p \in ProjectIds, r \in Rounds, who \in Accounts, v \in Nat :
      /\ AppealBonds[p][r] = None
      /\ AppealBonds' = WithBond(AppealBonds, p, r, [appellant |-> who, amount |-> v])
      /\ \E t : /\ StepsTo(t) /\ NoneMade(Chain, t)
                /\ \A b \in Accounts : Beyond(t, b) = Bonding(Chain, who, v, b)

BondsOut ==
    \E p \in ProjectIds :
      /\ AppealBonds' = WithoutBonds(AppealBonds, p)
      /\ \E t : /\ StepsTo(t) /\ NoneMade(Chain, t)
                /\ \A b \in Accounts : Beyond(t, b) = Beyond(Chain, b) - Bonded(AppealBonds[p], b)

\* A call that pays nobody.
LEMMA QuietMoney ==
  ASSUME RuntimeInv, NEW t, Commit(t), NEW locks, Quiet(Chain, t, locks)
  PROVE  StepsTo(t) /\ NoneMade(Chain, t)
<1>1. Chain \in ChainState
  BY ChainType DEF RuntimeInv
<1>2. t \in ChainState /\ OwnsKept(Chain, t)
  BY DEF Quiet, Sustains, Keeps
<1>3. NoneMade(Chain, t)
  BY <1>1, <1>2, TotalKept, TotalType DEF NoneMade
<1> QED BY <1>2, <1>3 DEF StepsTo, Commit

\* A step without any call.
LEMMA StillMoney ==
  ASSUME RuntimeInv, ledger' = ledger, rep' = rep
  PROVE  \E t : StepsTo(t) /\ NoneMade(Chain, t) /\ BeyondKept(Chain, t) /\ OwnsKept(Chain, t)
<1>1. Chain \in ChainState /\ Chain.ledger = ledger /\ Chain.rep = rep
  BY ChainType DEF RuntimeInv
<1>2. StepsTo(Chain)
  BY <1>1 DEF StepsTo
<1>3. NoneMade(Chain, Chain)
  BY <1>1, TotalType DEF NoneMade
<1> QED BY <1>2, <1>3 DEF BeyondKept, OwnsKept

\* The reserves, told by what lies beyond the stakes.
LEMMA BackedIsBeyond ==
  ASSUME RuntimeInv, BooksTypeOK
  PROVE  /\ ReservesBacked <=> \A a \in Accounts : Beyond(Chain, a) = BondTotal(AppealBonds, a)
         /\ AppealBonds \in BondTables
<1>1. Chain \in ChainState /\ Chain.ledger = ledger /\ Chain.rep = rep
  BY ChainType DEF RuntimeInv
<1>2. AppealBonds \in BondTables
  BY DEF BooksTypeOK, BondTables
<1>3. ASSUME NEW a \in Accounts
      PROVE  ledger.reserved[a] = BondedBy(a) + (IF rep.StakeOf[a] = None THEN 0 ELSE rep.StakeOf[a])
             <=> Beyond(Chain, a) = BondTotal(AppealBonds, a)
  <2>1. BondedBy(a) = BondTotal(AppealBonds, a) /\ BondTotal(AppealBonds, a) \in Nat
    BY <1>2, BondedByIsTotal, BondTotalType
  <2>2. StakeFrom(rep, a) \in Nat /\ ledger.reserved[a] \in Int
    BY <1>1, StakeFromType
  <2>3. Beyond(Chain, a) = ledger.reserved[a] - StakeFrom(rep, a)
    BY <1>1 DEF Beyond
  <2>4. StakeFrom(rep, a) = IF rep.StakeOf[a] = None THEN 0 ELSE rep.StakeOf[a]
    BY DEF StakeFrom
  <2> QED BY <2>1, <2>2, <2>3, <2>4
<1> QED BY <1>2, <1>3 DEF ReservesBacked

\* The bonds of one dispute are in the reserves.
LEMMA BondsAreThere ==
  ASSUME RuntimeInv, BooksTypeOK, ReservesBacked, NEW p \in ProjectIds, NEW a \in Accounts
  PROVE  /\ Bonded(AppealBonds[p], a) \in Nat /\ Bonded(AppealBonds[p], a) <= Beyond(Chain, a)
<1> DEFINE new == WithoutBonds(AppealBonds, p)
<1>1. AppealBonds \in BondTables /\ Beyond(Chain, a) = BondTotal(AppealBonds, a)
  BY BackedIsBeyond
<1>2. /\ Bonded(AppealBonds[p], a) \in Nat /\ Bonded(AppealBonds[p], a) <= BondTotal(AppealBonds, a)
  BY <1>1, BondsRemoved
<1> QED BY <1>1, <1>2

\* Each of the three kinds keeps the reserves backed.
LEMMA BackingKept ==
  ASSUME RuntimeInv, BooksTypeOK, RuntimeInv', BooksTypeOK', ReservesBacked,
         BondsAlone \/ BondEntered \/ BondsOut
  PROVE  ReservesBacked'
<1>1. /\ \A a \in Accounts : Beyond(Chain, a) = BondTotal(AppealBonds, a) /\ BondTotal(AppealBonds, a) \in Nat
      /\ AppealBonds \in BondTables
  BY BackedIsBeyond, BondTotalType
<1>2. ASSUME NEW t, StepsTo(t), \A a \in Accounts : Beyond(t, a) = BondTotal(AppealBonds', a)
      PROVE  ReservesBacked'
  <2>1. AppealBonds' \in BondTables
    BY DEF BooksTypeOK, BondTables
  <2>2. ASSUME NEW a \in Accounts
        PROVE  ledger'.reserved[a] = BondedBy(a)' + (IF rep'.StakeOf[a] = None THEN 0 ELSE rep'.StakeOf[a])
    <3>1. BondedBy(a)' = BondTotal(AppealBonds', a) /\ BondTotal(AppealBonds', a) \in Nat
      BY <2>1, BondedByIsTotal, BondTotalType
    <3>2. StakeFrom(rep', a) \in Nat /\ ledger'.reserved[a] \in Int
      BY <1>2, StakeFromType DEF StepsTo
    <3>3. Beyond(t, a) = ledger'.reserved[a] - StakeFrom(rep', a)
      BY <1>2 DEF Beyond, StepsTo
    <3>4. StakeFrom(rep', a) = IF rep'.StakeOf[a] = None THEN 0 ELSE rep'.StakeOf[a]
      BY DEF StakeFrom
    <3>5. Beyond(t, a) = BondTotal(AppealBonds', a)
      BY <1>2
    <3> QED BY <3>1, <3>2, <3>3, <3>4, <3>5
  <2> QED BY <2>2 DEF ReservesBacked
<1>3. CASE BondsAlone
  <2>1. PICK t : StepsTo(t) /\ BeyondKept(Chain, t)
    BY <1>3 DEF BondsAlone
  <2>2. \A a \in Accounts : Beyond(t, a) = BondTotal(AppealBonds', a)
    BY <1>1, <1>3, <2>1 DEF BondsAlone, BeyondKept
  <2> QED BY <1>2, <2>1, <2>2
<1>4. CASE BondEntered
  <2>1. PICK p \in ProjectIds, r \in Rounds, who \in Accounts, v \in Nat :
           /\ AppealBonds[p][r] = None
           /\ AppealBonds' = WithBond(AppealBonds, p, r, [appellant |-> who, amount |-> v])
           /\ \E t : StepsTo(t) /\ \A b \in Accounts : Beyond(t, b) = Bonding(Chain, who, v, b)
    BY <1>4 DEF BondEntered
  <2>2. PICK t : StepsTo(t) /\ \A b \in Accounts : Beyond(t, b) = Bonding(Chain, who, v, b)
    BY <2>1
  <2> DEFINE bond == [appellant |-> who, amount |-> v]
  <2>3. bond \in Bond /\ bond # None
    BY DisputeAssumption DEF Bond
  <2>4. \A a : BondOf(bond, a) = (IF a = who THEN v ELSE 0) /\ BondOf(None, a) = 0
    BY <2>3 DEF BondOf
  <2> HIDE DEF bond
  <2>5. ASSUME NEW a \in Accounts
        PROVE  Beyond(t, a) = BondTotal(AppealBonds', a)
    <3>1. AppealBonds' = WithBond(AppealBonds, p, r, bond)
      BY <2>1 DEF bond
    <3>2. BondTotal(AppealBonds', a) = BondTotal(AppealBonds, a) + (BondOf(bond, a) - BondOf(AppealBonds[p][r], a))
      BY <1>1, <2>3, <3>1, BondWritten
    <3>3. BondTotal(AppealBonds', a) = BondTotal(AppealBonds, a) + ((IF a = who THEN v ELSE 0) - 0)
      BY <2>1, <2>4, <3>2
    <3>4. Beyond(t, a) = Beyond(Chain, a) + (IF a = who THEN v ELSE 0)
      BY <2>2 DEF Bonding
    <3>5. Beyond(Chain, a) = BondTotal(AppealBonds, a) /\ BondTotal(AppealBonds, a) \in Nat
      BY <1>1
    <3> QED BY <3>3, <3>4, <3>5
  <2> QED BY <1>2, <2>2, <2>5
<1>5. CASE BondsOut
  <2>1. PICK p \in ProjectIds :
           /\ AppealBonds' = WithoutBonds(AppealBonds, p)
           /\ \E t : /\ StepsTo(t)
                     /\ \A b \in Accounts : Beyond(t, b) = Beyond(Chain, b) - Bonded(AppealBonds[p], b)
    BY <1>5 DEF BondsOut
  <2>2. PICK t : /\ StepsTo(t)
                 /\ \A b \in Accounts : Beyond(t, b) = Beyond(Chain, b) - Bonded(AppealBonds[p], b)
    BY <2>1
  <2>3. ASSUME NEW a
        PROVE  BondTotal(AppealBonds', a) = BondTotal(AppealBonds, a) - Bonded(AppealBonds[p], a)
    BY <1>1, <2>1, BondsRemoved
  <2>4. \A a \in Accounts : Beyond(t, a) = BondTotal(AppealBonds', a)
    BY <1>1, <2>2, <2>3
  <2> QED BY <1>2, <2>2, <2>4
<1> QED BY <1>3, <1>4, <1>5

\* The inductive invariant for money: the settlement of a dispute finds every bond in
\* the reserve of its appellant because reserves are stakes and bonds and nothing else,
\* and a round is bonded once because the books follow the rounds.
MoneyInv == BooksInv /\ ReservesBacked

\* A dispute that is bonded for a round had no bond for it.
LEMMA BondingRound ==
  ASSUME BooksInv, NEW p \in ProjectIds, NEW who, CreateDispute(who, p) \/ AppealRuling(who, p)
  PROVE  BondEntered
<1>1. TypesInv /\ MatchInv /\ RuntimeInv /\ BooksTypeOK /\ BooksAt(p)
  BY DEF BooksInv, VerdictInv, TypesInv
<1>2. DOMAIN AppealBonds = ProjectIds
  BY <1>1 DEF BooksTypeOK
<1>3. CASE CreateDispute(who, p)
  <2> DEFINE v == CalculateAppealBond(p, 1)
  <2>1. /\ disputes[p] = None
        /\ AppealBonds' = WithBond(AppealBonds, p, 1, [appellant |-> who, amount |-> v])
    BY <1>3 DEF CreateDispute, WithBond
  <2>2. /\ who \in Accounts /\ v \in Nat
        /\ \E t : /\ Commit(t) /\ Quiet(Chain, t, ledger.locks)
                  /\ \A b \in Accounts : Beyond(t, b) = Bonding(Chain, who, v, b)
    BY <1>1, <1>3, DisputeBonds
  <2>3. 1 \in Rounds /\ AppealBonds[p][1] = None
    BY <1>1, <2>1 DEF BooksAt, BooksOn, NoBonds, Rounds
  <2> HIDE DEF v
  <2>4. \E t : /\ StepsTo(t) /\ NoneMade(Chain, t)
               /\ \A b \in Accounts : Beyond(t, b) = Bonding(Chain, who, v, b)
    BY <1>1, <2>2, QuietMoney
  <2> QED BY <2>1, <2>2, <2>3, <2>4 DEF BondEntered
<1>4. CASE AppealRuling(who, p)
  <2> DEFINE round == disputes[p].round + 1
             v     == CalculateAppealBond(p, round)
  <2>1. /\ disputes[p] # None /\ disputes[p].status = "Appealable"
        /\ AppealBonds' = WithBond(AppealBonds, p, round, [appellant |-> who, amount |-> v])
    BY <1>4 DEF AppealRuling, WithBond
  <2>2. /\ who \in Accounts /\ round \in 2..3 /\ v \in Nat
        /\ \E t : /\ Commit(t) /\ Quiet(Chain, t, ledger.locks)
                  /\ \A b \in Accounts : Beyond(t, b) = Bonding(Chain, who, v, b)
    BY <1>1, <1>4, DisputeBonds
  <2>3. round \in Rounds /\ AppealBonds[p][round] = None
    <3>1. disputes[p].round \in Rounds
      BY <1>1, <2>1, DisputeFound
    <3>2. round \in Rounds /\ ~ (round <= disputes[p].round)
      BY <2>2, <3>1 DEF Rounds
    <3>3. \A r \in Rounds : (AppealBonds[p][r] # None) <=> r <= disputes[p].round
      BY <1>1, <2>1 DEF BooksAt, BooksOn
    <3> QED BY <3>2, <3>3
  <2> HIDE DEF v, round
  <2>4. \E t : /\ StepsTo(t) /\ NoneMade(Chain, t)
               /\ \A b \in Accounts : Beyond(t, b) = Bonding(Chain, who, v, b)
    BY <1>1, <2>2, QuietMoney
  <2> QED BY <2>1, <2>2, <2>3, <2>4 DEF BondEntered
<1> QED BY <1>3, <1>4

\* Every step is one of the three kinds.
LEMMA MoneySteps ==
  ASSUME MoneyInv, [ArbNext]_vars
  PROVE  BondsAlone \/ BondEntered \/ BondsOut
<1>1. /\ TypesInv /\ MatchInv /\ RuntimeInv /\ BooksTypeOK /\ NextProjectId \in Nat
      /\ BooksInv /\ ReservesBacked /\ Chain \in ChainState
  BY ChainType DEF MoneyInv, BooksInv, VerdictInv, TypesInv, MatchInv, ControlTypeOK, RuntimeInv
<1>2. ASSUME NEW t, Commit(t), NEW locks, Quiet(Chain, t, locks), BeyondKept(Chain, t),
             AppealBonds' = AppealBonds
      PROVE  BondsAlone
  BY <1>1, <1>2, QuietMoney DEF BondsAlone
<1>3. ASSUME ledger' = ledger, rep' = rep, AppealBonds' = AppealBonds
      PROVE  BondsAlone
  BY <1>1, <1>3, StillMoney DEF BondsAlone
<1>4. ASSUME NEW c \in Clients, ClientStep(c), UNCHANGED arbVars
      PROVE  BondsAlone
  <2>1. c \in Accounts /\ AppealBonds' = AppealBonds
    BY <1>4, ProjAssumption DEF arbVars, moneyVars
  <2>2. ASSUME NEW b \in Budgets, NEW d \in Durations, CreateProject(c, b, d)
        PROVE  BondsAlone
    <3>1. b \in Nat /\ NextProjectId \in ProjectIds
      BY <1>1, <2>2, ProjAssumption DEF CreateProject
    <3>2. PICK t : /\ Commit(t)
                   /\ Quiet(Chain, t, [ledger.locks EXCEPT ![c] =
                                        [@ EXCEPT ![GenerateLockId(NextProjectId)] = b]])
                   /\ BeyondKept(Chain, t)
      BY <1>1, <2>1, <2>2, <3>1, CreateProjectEffect
    <3> QED BY <1>2, <2>1, <3>2
  <2>3. ASSUME NEW p \in ProjectIds, CancelProject(c, p)
        PROVE  BondsAlone
    <3>1. Commit(Cancelled(c, p))
      BY <2>3 DEF CancelProject, UpdateProject
    <3>2. PICK t : /\ Commit(t)
                   /\ Quiet(Chain, t, [ledger.locks EXCEPT ![c] = [@ EXCEPT ![GenerateLockId(p)] = 0]])
                   /\ BeyondKept(Chain, t)
      BY <1>1, <2>1, <3>1, CancelledEffect
    <3> QED BY <1>2, <2>1, <3>2
  <2>4. ASSUME NEW p \in ProjectIds, NEW r \in StarRatings, AcceptWork(c, p, r)
        PROVE  BondsAlone
    <3>1. /\ projects[p] # None /\ projects[p].status = "InReview" /\ projects[p].freelancer # None
          /\ r \in Nat /\ Commit(Accepted(c, p, r))
      BY <2>4 DEF AcceptWork, UpdateProject
    <3>2. projects[p] \in Project
      BY <1>1, <3>1, Undisputed
    <3>3. PICK t : /\ Commit(t)
                   /\ Closes(Chain, t, GenerateLockId(p), c, projects[p].freelancer,
                             projects[p].budget, p)
                   /\ BeyondKept(Chain, t)
                   /\ \A b \in Accounts :
                        Owns(t, b) = Paying(Chain, c, projects[p].freelancer, projects[p].budget, b)
      BY <1>1, <2>1, <3>1, <3>2, AcceptedEffect
    <3>4. t \in ChainState
      BY <3>3 DEF Closes, Sustains, Keeps
    <3>5. projects[p].freelancer \in Accounts /\ projects[p].budget \in Int
      BY <3>1, <3>2 DEF Project
    <3>6. TotalIssuance(t.ledger) = TotalIssuance(Chain.ledger)
      BY <1>1, <2>1, <3>3, <3>4, <3>5, TotalPaid
    <3>7. NoneMade(Chain, t) /\ StepsTo(t)
      BY <1>1, <3>3, <3>4, <3>6, TotalType DEF NoneMade, StepsTo, Commit
    <3> QED BY <2>1, <3>3, <3>7 DEF BondsAlone
  <2>5. ASSUME NEW p, NEW f, StartWork(c, p, f) \/ RejectWork(c, p)
        PROVE  BondsAlone
    <3>1. ledger' = ledger /\ rep' = rep
      BY <2>5, CommitChain DEF StartWork, RejectWork, UpdateProject
    <3> QED BY <1>3, <2>1, <3>1
  <2> QED BY <1>4, <2>2, <2>3, <2>4, <2>5 DEF ClientStep
<1>5. ASSUME NEW f \in Freelancers, FreelancerStep(f), UNCHANGED arbVars
      PROVE  BondsAlone
  <2>1. ledger' = ledger /\ rep' = rep /\ AppealBonds' = AppealBonds
    BY <1>5, CommitChain DEF FreelancerStep, ApplyForProject, SubmitWork, UpdateProject, arbVars, moneyVars
  <2> QED BY <1>3, <2>1
<1>6. ASSUME NEW a \in Stakers, StakerStep(a), UNCHANGED arbVars
      PROVE  BondsAlone
  <2>1. a \in Accounts /\ AppealBonds' = AppealBonds
    BY <1>6, ProjAssumption DEF arbVars, moneyVars
  <2>2. PICK t : Commit(t) /\ Quiet(Chain, t, ledger.locks) /\ BeyondKept(Chain, t)
    BY <1>1, <1>6, <2>1, RegisterUserEffect, JurorJoinsEffect, JurorLeavesEffect DEF StakerStep
  <2> QED BY <1>2, <2>1, <2>2
<1>7. ASSUME NEW p \in ProjectIds, FinalizeRound(p)
      PROVE  BondsAlone
  <2>1. disputes[p] # None /\ Commit(RecordVotes(disputes[p].votes)) /\ AppealBonds' = AppealBonds
    BY <1>7 DEF FinalizeRound
  <2>2. DOMAIN disputes[p].votes \in SUBSET Accounts
    BY <1>1, <2>1, DisputeFound
  <2>3. /\ Quiet(Chain, RecordVotes(disputes[p].votes), ledger.locks)
        /\ BeyondKept(Chain, RecordVotes(disputes[p].votes))
    BY <1>1, <2>2, FinalizeEffect
  <2> QED BY <1>2, <2>1, <2>3
<1>8. ASSUME NEW p \in ProjectIds, EnforceFinalRuling(p)
      PROVE  BondsOut
  <2>1. HasParties(p) /\ AppealBonds' = WithoutBonds(AppealBonds, p)
    BY <1>8 DEF EnforceFinalRuling, Enforceable, CleanupArbitrationStorage, WithoutBonds
  <2>2. projects[p] \in Project
    BY <1>1, <2>1, PartiesFound
  <2>3. /\ AppealBonds[p] \in [Rounds -> Bond \cup {None}] /\ ArbitrationCosts[p] \in Nat
        /\ JurorRewards[p] \in [Accounts -> Nat]
    BY <1>1 DEF BooksTypeOK
  <2>4. \A b \in Accounts : /\ Bonded(AppealBonds[p], b) \in Nat
                            /\ Bonded(AppealBonds[p], b) <= Beyond(Chain, b)
    BY <1>1, BondsAreThere
  <2>5. PICK t : Commit(t) /\ t \in ChainState /\ Enforced(t, p, disputes[p].ruling)
    BY <1>1, <1>8, <2>2, <2>3, <2>4, EnforceMoney
  <2>6. /\ StepsTo(t) /\ NoneMade(Chain, t)
        /\ \A b \in Accounts : Beyond(t, b) = Beyond(Chain, b) - Bonded(AppealBonds[p], b)
    BY <2>5 DEF StepsTo, Commit, Enforced
  <2> QED BY <2>1, <2>6 DEF BondsOut
<1>9. ASSUME NEW p, NEW j, NEW v, CastVote(j, p, v) \/ OracleRules(p)
      PROVE  BondsAlone
  <2>1. ledger' = ledger /\ rep' = rep /\ AppealBonds' = AppealBonds
    BY <1>9 DEF CastVote, OracleRules, SubmitRuling, repVars, moneyVars
  <2> QED BY <1>3, <2>1
<1>10. CASE NextBlock \/ UNCHANGED vars
  <2>1. ledger' = ledger /\ rep' = rep /\ AppealBonds' = AppealBonds
    BY <1>10 DEF NextBlock, Tick, vars, repVars, arbVars, moneyVars
  <2> QED BY <1>3, <2>1
<1>11. CASE ProjStep /\ UNCHANGED arbVars
  BY <1>4, <1>5, <1>6, <1>11 DEF ProjStep
<1>12. ASSUME NEW p \in ProjectIds, DisputeStep(p)
       PROVE  BondsAlone \/ BondEntered \/ BondsOut
  BY <1>1, <1>7, <1>8, <1>9, <1>12, BondingRound DEF DisputeStep
<1> QED BY <1>10, <1>11, <1>12 DEF ArbNext

\* No bonds are no amount.
LEMMA NoBondsTotal ==
  ASSUME NEW bonds, bonds = [p \in ProjectIds |-> NoBonds], NEW a
  PROVE  BondTotal(bonds, a) = 0
<1> DEFINE S == ProjectIds \X Rounds
           f == BondTable(bonds, a)
<1>1. bonds \in BondTables
  BY DEF BondTables, NoBonds
<1>2. IsFiniteSet(S) /\ BondTotal(bonds, a) \in Nat
  BY <1>1, BondTotalType
<1>3. \A pr \in S : f[pr] = 0
  BY DEF BondTable, NoBonds, BondOf
<1>4. BondTotal(bonds, a) = SumFunctionOnSet(f, S)
  BY DEF BondTotal
<1> HIDE DEF S, f
<1>5. IntOn(f, S) /\ \A pr \in S : f[pr] = f[pr] + f[pr]
  BY <1>3 DEF IntOn
<1>6. SumFunctionOnSet(f, S) = SumFunctionOnSet(f, S) + SumFunctionOnSet(f, S)
  BY <1>2, <1>5, SumPlus
<1>7. SumFunctionOnSet(f, S) \in Nat
  BY <1>2, <1>4, Zenon
<1> DEFINE n == SumFunctionOnSet(f, S)
<1>8. n \in Nat /\ n = n + n
  BY <1>6, <1>7, Zenon
<1> HIDE DEF n
<1>9. n = 0
  BY <1>8
<1> QED BY <1>4, <1>9, Zenon DEF n

\* At genesis only stakes are reserved, and nothing has been made or lost.
LEMMA MoneyInitially == ArbInit => ReservesBacked /\ TotalIssuance(ledger) = InitialIssuance
<1> SUFFICES ASSUME ArbInit
             PROVE  ReservesBacked /\ TotalIssuance(ledger) = InitialIssuance
  OBVIOUS
<1>1. TypesInv /\ RuntimeInv /\ BooksTypeOK /\ RepInit
  BY TypesInitially DEF TypesInv, ArbInit, ProjInit
<1>2. Chain \in ChainState /\ Chain.ledger = ledger /\ Chain.rep = rep
  BY <1>1, ChainType DEF RuntimeInv
<1>3. AppealBonds = [p \in ProjectIds |-> NoBonds]
  BY DEF ArbInit
<1>4. JurorStake \in Nat /\ JurorStake # None /\ InitialFree \in [Accounts -> Nat]
  BY RepAssumption
<1>5. ASSUME NEW a \in Accounts
      PROVE  /\ ledger.reserved[a] = IF a \in StakedAtGenesis THEN JurorStake ELSE 0
             /\ ledger.free[a] = IF a \in StakedAtGenesis THEN InitialFree[a] - JurorStake ELSE InitialFree[a]
             /\ rep.StakeOf[a] = IF a \in StakedAtGenesis THEN JurorStake ELSE None
  BY <1>1 DEF RepInit
<1>6. ReservesBacked
  <2>1. ASSUME NEW a \in Accounts
        PROVE  Beyond(Chain, a) = BondTotal(AppealBonds, a)
    <3>1. BondTotal(AppealBonds, a) = 0
      BY <1>3, NoBondsTotal
    <3>2. StakeFrom(rep, a) = ledger.reserved[a] /\ ledger.reserved[a] \in Nat
      BY <1>4, <1>5 DEF StakeFrom
    <3> QED BY <1>2, <3>1, <3>2 DEF Beyond
  <2> QED BY <1>1, <2>1, BackedIsBeyond
<1>7. [a \in Accounts |-> ledger.free[a] + ledger.reserved[a]] = InitialFree
  <2>1. ASSUME NEW a \in Accounts
        PROVE  ledger.free[a] + ledger.reserved[a] = InitialFree[a]
    <3>1. InitialFree[a] \in Nat
      BY <1>4
    <3>2. CASE a \in StakedAtGenesis
      <4>1. ledger.free[a] = InitialFree[a] - JurorStake /\ ledger.reserved[a] = JurorStake
        BY <1>5, <3>2
      <4> QED BY <1>4, <3>1, <4>1
    <3>3. CASE a \notin StakedAtGenesis
      <4>1. ledger.free[a] = InitialFree[a] /\ ledger.reserved[a] = 0
        BY <1>5, <3>3
      <4> QED BY <3>1, <4>1
    <3> QED BY <3>2, <3>3
  <2> QED BY <1>4, <2>1
<1> QED BY <1>6, <1>7 DEF TotalIssuance, InitialIssuance

\* The invariant of money holds in every state of the runtime.
THEOREM MoneyInvariant == ArbSpec => []MoneyInv
<1>1. ArbInit => ReservesBacked
  BY MoneyInitially
<1>2. BooksInv /\ BooksInv' /\ ReservesBacked /\ [ArbNext]_vars => ReservesBacked'
  <2> SUFFICES ASSUME BooksInv, BooksInv', ReservesBacked, [ArbNext]_vars
               PROVE  ReservesBacked'
    OBVIOUS
  <2>1. RuntimeInv /\ BooksTypeOK /\ RuntimeInv' /\ BooksTypeOK'
    BY DEF BooksInv, VerdictInv, TypesInv
  <2>2. BondsAlone \/ BondEntered \/ BondsOut
    BY MoneySteps DEF MoneyInv
  <2> QED BY <2>1, <2>2, BackingKept
<1> QED BY <1>1, <1>2, BooksInvariant, PTL DEF ArbSpec, MoneyInv

\* reserve, unreserve and slash_reserved of stakes and bonds never take what belongs
\* to another purpose: an account's reserve is its stake and its bonds in open disputes.
THEOREM ReservesAreBacked == ArbSpec => []ReservesBacked
<1>1. MoneyInv => ReservesBacked
  BY DEF MoneyInv
<1> QED BY <1>1, MoneyInvariant, PTL

\* Payments, bonds, slashing, costs and rewards only move what is there: with an
\* existential deposit of one unit no call of the runtime makes or loses money.
THEOREM FundsAreConserved == ArbSpec => []FundsConserved
<1>1. ArbInit => FundsConserved
  BY MoneyInitially DEF FundsConserved
<1>2. MoneyInv /\ FundsConserved /\ [ArbNext]_vars => FundsConserved'
  <2> SUFFICES ASSUME MoneyInv, FundsConserved, [ArbNext]_vars, ExistentialDeposit = 1
               PROVE  TotalIssuance(ledger') = InitialIssuance
    BY DEF FundsConserved
  <2>1. BondsAlone \/ BondEntered \/ BondsOut
    BY MoneySteps
  <2>2. PICK t : StepsTo(t) /\ NoneMade(Chain, t)
    BY <2>1 DEF BondsAlone, BondEntered, BondsOut
  <2>3. TotalIssuance(t.ledger) = TotalIssuance(Chain.ledger) /\ t.ledger = ledger' /\ Chain.ledger = ledger
    BY <2>2 DEF NoneMade, StepsTo, Chain
  <2> QED BY <2>3 DEF FundsConserved
<1> QED BY <1>1, <1>2, MoneyInvariant, PTL DEF ArbSpec


-------------------------------------------------------------------------------
(* The promise: Escrow *)

\* The parties of a project are clients and freelancers, never the pallet's account.
PartiesOn(pr, applicants) ==
    /\ applicants \subseteq Freelancers
    /\ pr # None => pr.client \in Clients /\ pr.freelancer \in Freelancers \cup {None}

PartiesKnown == \A p \in ProjectIds : PartiesOn(projects[p], ProjectApplicants[p])

\* The part of a budget that is the bond of a round, and the costs up to a round.
Share(budget, percent) == (budget * percent) \div 100
BondIn(budget, round)  == Share(budget, <<5, 20, 50>>[round])
CostUpTo(budget, round) ==
    Share(budget, 2) + (IF round >= 2 THEN Share(budget, 5) ELSE 0)
                     + (IF round >= 3 THEN Share(budget, 8) ELSE 0)

\* What an open dispute has in its books.
AmountsOn(d, bonds, cost, budget) ==
    d # None /\ d.status # "Finalized" =>
      /\ \A r \in Rounds : bonds[r] # None => bonds[r].amount = BondIn(budget, r)
      /\ cost = CostUpTo(budget, d.round)

AmountsAt(p) == AmountsOn(disputes[p], AppealBonds[p], ArbitrationCosts[p], projects[p].budget)

\* The invariant under which the runtime keeps what Escrow promises: besides that of
\* money and that of payments, the bonds and costs are the percentages of the budget
\* their rounds ask for, so that nobody loses more than they come to.
PromiseInv ==
    /\ MoneyInv /\ EscrowInv /\ PartiesKnown
    /\ \A p \in ProjectIds : AmountsAt(p)

\* Percentages of a budget, and how far they add up.
LEMMA Shares ==
  ASSUME NEW b \in Nat
  PROVE  /\ Share(b, 5) \in Nat /\ Share(b, 20) \in Nat /\ Share(b, 50) \in Nat
         /\ Share(b, 2) \in Nat /\ Share(b, 8) \in Nat /\ Share(b, 75) \in Nat
         /\ Share(b, 5) + Share(b, 20) + Share(b, 50) <= Share(b, 75)
         /\ Share(b, 2) + Share(b, 5) + Share(b, 8) <= Share(b, 75)
  BY DEF Share

\* The bonds and costs of the code are these.
LEMMA SharesAreAmounts ==
  ASSUME NEW p, projects[p].budget \in Nat
  PROVE  /\ \A r \in Rounds : CalculateAppealBond(p, r) = BondIn(projects[p].budget, r)
         /\ CalculateArbitrationCost(p, 1) = CostUpTo(projects[p].budget, 1)
         /\ \A r \in 2..3 : CostUpTo(projects[p].budget, r - 1) + CalculateArbitrationCost(p, r)
                              = CostUpTo(projects[p].budget, r)
<1> DEFINE b == projects[p].budget
<1>1. Share(b, 2) \in Nat /\ Share(b, 5) \in Nat /\ Share(b, 8) \in Nat
  BY Shares
<1>2. \A n : Percent(p, n) = Share(b, n)
  BY DEF Percent, Share
<1>3. \A r \in Rounds : CalculateAppealBond(p, r) = BondIn(b, r)
  BY <1>2 DEF CalculateAppealBond, BondIn
<1>4. /\ CalculateArbitrationCost(p, 1) = Share(b, 2)
      /\ CalculateArbitrationCost(p, 2) = Share(b, 5)
      /\ CalculateArbitrationCost(p, 3) = Share(b, 8)
  BY <1>2 DEF CalculateArbitrationCost
<1>5. /\ CostUpTo(b, 1) = Share(b, 2)
      /\ CostUpTo(b, 2) = Share(b, 2) + Share(b, 5)
      /\ CostUpTo(b, 3) = Share(b, 2) + Share(b, 5) + Share(b, 8)
  <2> HIDE DEF b
  <2> QED BY <1>1 DEF CostUpTo
<1>6. \A r \in 2..3 : CostUpTo(b, r - 1) + CalculateArbitrationCost(p, r) = CostUpTo(b, r)
  <2> TAKE r \in 2..3
  <2>1. r = 2 \/ r = 3
    OBVIOUS
  <2>2. CostUpTo(b, 1) + CalculateArbitrationCost(p, 2) = CostUpTo(b, 2)
    BY <1>4, <1>5
  <2>3. CostUpTo(b, 2) + CalculateArbitrationCost(p, 3) = CostUpTo(b, 3)
    BY <1>4, <1>5
  <2> QED BY <2>1, <2>2, <2>3
<1> QED BY <1>3, <1>4, <1>5, <1>6

\* A step rewrites one project and its applicants.
LEMMA PartiesRewritten ==
  ASSUME TypesInv, PartiesKnown, NEW p \in ProjectIds, NEW new,
         projects' = [projects EXCEPT ![p] = new], PartiesOn(new, ProjectApplicants'[p]),
         \A q \in ProjectIds \ {p} : ProjectApplicants'[q] = ProjectApplicants[q]
  PROVE  PartiesKnown'
<1>1. projects'[p] = new /\ \A q \in ProjectIds \ {p} : projects'[q] = projects[q]
  BY DEF TypesInv, MatchInv, ControlTypeOK
<1> QED BY <1>1 DEF PartiesKnown

\* Clients post, freelancers apply, and a freelancer is chosen among those who applied.
LEMMA PartiesStayKnown ==
  ASSUME TypesInv, PartiesKnown, [ArbNext]_vars
  PROVE  PartiesKnown'
<1>1. /\ MatchInv /\ NextProjectId \in Nat /\ DOMAIN projects = ProjectIds
      /\ DOMAIN ProjectApplicants = ProjectIds
  BY DEF TypesInv, MatchInv, ControlTypeOK
<1>2. ASSUME projects' = projects, ProjectApplicants' = ProjectApplicants
      PROVE  PartiesKnown'
  BY <1>2 DEF PartiesKnown
<1>3. ASSUME NEW p \in ProjectIds, projects[p] # None, NEW new, NEW s, UpdateProject(p, new, s),
             ProjectApplicants' = ProjectApplicants, new.client = projects[p].client,
             new.freelancer = projects[p].freelancer
      PROVE  PartiesKnown'
  <2>1. projects' = [projects EXCEPT ![p] = new]
    BY <1>3 DEF UpdateProject
  <2>2. PartiesOn(new, ProjectApplicants'[p])
    BY <1>3 DEF PartiesKnown, PartiesOn
  <2> QED BY <1>3, <2>1, <2>2, PartiesRewritten
<1>4. ASSUME NEW c \in Clients, NEW b, NEW d, CreateProject(c, b, d)
      PROVE  PartiesKnown'
  <2> DEFINE p   == NextProjectId
             new == [client |-> c, freelancer |-> None, budget |-> b,
                     status |-> "Created", duration |-> d, submission_block |-> None,
                     work |-> FALSE, dispute_info |-> None]
  <2>1. projects' = [projects EXCEPT ![p] = new] /\ ProjectApplicants' = ProjectApplicants
    BY <1>4 DEF CreateProject
  <2>2. p \in ProjectIds
    BY <1>1, <1>4, ProjAssumption DEF CreateProject
  <2>3. PartiesOn(new, ProjectApplicants'[p])
    BY <2>1, <2>2 DEF PartiesKnown, PartiesOn
  <2> HIDE DEF new, p
  <2> QED BY <2>1, <2>2, <2>3, PartiesRewritten
<1>5. ASSUME NEW c, NEW p \in ProjectIds, NEW f, StartWork(c, p, f)
      PROVE  PartiesKnown'
  <2> DEFINE new == [projects[p] EXCEPT !.freelancer = f, !.status = "InProgress",
                                        !.submission_block = block + projects[p].duration]
  <2>1. /\ projects[p] # None /\ f \in ProjectApplicants[p]
        /\ projects' = [projects EXCEPT ![p] = new]
        /\ ProjectApplicants' = [ProjectApplicants EXCEPT ![p] = {}]
    BY <1>5 DEF StartWork, UpdateProject
  <2>2. projects[p] \in Project
    BY <2>1, Undisputed
  <2>3. new.client = projects[p].client /\ new.freelancer = f
    BY <2>2 DEF Project
  <2> HIDE DEF new
  <2>4. PartiesOn(new, ProjectApplicants'[p])
    BY <1>1, <2>1, <2>3 DEF PartiesKnown, PartiesOn
  <2>5. \A q \in ProjectIds \ {p} : ProjectApplicants'[q] = ProjectApplicants[q]
    BY <1>1, <2>1
  <2> QED BY <2>1, <2>4, <2>5, PartiesRewritten
<1>6. ASSUME NEW f \in Freelancers, NEW p \in ProjectIds, ApplyForProject(f, p)
      PROVE  PartiesKnown'
  <2>1. projects' = projects /\ ProjectApplicants' = [ProjectApplicants EXCEPT ![p] = @ \cup {f}]
    BY <1>6 DEF ApplyForProject
  <2> QED BY <1>1, <2>1 DEF PartiesKnown, PartiesOn
<1>7. ASSUME NEW p \in ProjectIds, projects[p] # None
      PROVE  LET pr == projects[p]
             IN  /\ Settled(p).client = pr.client /\ Settled(p).freelancer = pr.freelancer
                 /\ Rejected(p).client = pr.client /\ Rejected(p).freelancer = pr.freelancer
                 /\ InDispute(p).client = pr.client /\ InDispute(p).freelancer = pr.freelancer
                 /\ [pr EXCEPT !.status = "Cancelled"].client = pr.client
                 /\ [pr EXCEPT !.status = "Cancelled"].freelancer = pr.freelancer
                 /\ [pr EXCEPT !.work = TRUE, !.status = "InReview"].client = pr.client
                 /\ [pr EXCEPT !.work = TRUE, !.status = "InReview"].freelancer = pr.freelancer
  <2>1. projects[p] \in Project
    BY <1>7, Undisputed
  <2> QED BY <2>1 DEF Project, Settled, Rejected, InDispute
<1>8. ASSUME NEW c, NEW r, NEW p \in ProjectIds,
             AcceptWork(c, p, r) \/ RejectWork(c, p) \/ CancelProject(c, p) \/ SubmitWork(c, p)
      PROVE  PartiesKnown'
  <2>1. projects[p] # None /\ ProjectApplicants' = ProjectApplicants
    BY <1>8 DEF AcceptWork, RejectWork, CancelProject, SubmitWork
  <2>2. CASE AcceptWork(c, p, r)
    BY <1>3, <1>7, <2>1, <2>2 DEF AcceptWork
  <2>3. CASE RejectWork(c, p)
    BY <1>3, <1>7, <2>1, <2>3 DEF RejectWork
  <2>4. CASE CancelProject(c, p)
    BY <1>3, <1>7, <2>1, <2>4 DEF CancelProject
  <2>5. CASE SubmitWork(c, p)
    BY <1>3, <1>7, <2>1, <2>5 DEF SubmitWork
  <2> QED BY <1>8, <2>2, <2>3, <2>4, <2>5
<1>9. ASSUME NEW p \in ProjectIds, NEW f, CreateDispute(f, p) \/ EnforceFinalRuling(p)
      PROVE  PartiesKnown'
  <2>1. projects[p] # None /\ ProjectApplicants' = ProjectApplicants
    BY <1>9 DEF CreateDispute, EnforceFinalRuling, Enforceable, HasParties
  <2>2. \E s : UpdateProject(p, InDispute(p), s) \/ UpdateProject(p, Settled(p), s)
    BY <1>9 DEF CreateDispute, EnforceFinalRuling
  <2> QED BY <1>3, <1>7, <2>1, <2>2
<1>10. ASSUME NEW p \in ProjectIds, DisputeStep(p)
       PROVE  PartiesKnown'
  <2>1. CASE \E f \in Freelancers : CreateDispute(f, p)
    BY <1>9, <2>1
  <2>2. CASE EnforceFinalRuling(p)
    BY <1>9, <2>2
  <2>3. CASE \/ OracleRules(p) \/ FinalizeRound(p)
             \/ \E a \in Clients \cup Freelancers : AppealRuling(a, p)
             \/ \E j \in Accounts, v \in Votes : CastVote(j, p, v)
    <3>1. UNCHANGED projVars
      BY <2>3 DEF OracleRules, SubmitRuling, FinalizeRound, AppealRuling, CastVote
    <3> QED BY <1>2, <3>1 DEF projVars
  <2> QED BY <1>10, <2>1, <2>2, <2>3 DEF DisputeStep
<1>11. CASE NextBlock \/ UNCHANGED vars \/ \E a \in Stakers : StakerStep(a)
  BY <1>2, <1>11 DEF NextBlock, Tick, vars, projVars, StakerStep
<1>12. CASE ProjStep
  BY <1>12, <1>4, <1>5, <1>6, <1>8, <1>11 DEF ProjStep, ClientStep, FreelancerStep
<1> QED BY <1>10, <1>11, <1>12 DEF ArbNext

\* The steps of a dispute enter the amounts of their round.
LEMMA DisputeAmounts ==
  ASSUME BooksInv, NEW p \in ProjectIds, AmountsAt(p), DisputeStep(p)
  PROVE  AmountsOn(disputes'[p], AppealBonds'[p], ArbitrationCosts'[p], projects[p].budget)
<1> DEFINE d   == disputes[p]
           new == disputes'[p]
           v   == projects[p].budget
           bs  == AppealBonds[p]
           Goal == AmountsOn(new, AppealBonds'[p], ArbitrationCosts'[p], v)
<1>1. /\ TypesInv /\ MatchInv /\ BooksTypeOK /\ BooksAt(p) /\ DOMAIN disputes = ProjectIds
      /\ AmountsOn(d, bs, ArbitrationCosts[p], v)
  BY DEF BooksInv, VerdictInv, TypesInv, MatchInv, ControlTypeOK, AmountsAt
<1>2. HasParties(p)
  BY DisputeVerdict DEF BooksInv
<1>3. v \in Nat
  BY <1>1, <1>2, PartiesFound DEF Project
<1>4. /\ DOMAIN AppealBonds = ProjectIds /\ DOMAIN ArbitrationCosts = ProjectIds
      /\ bs \in [Rounds -> Bond \cup {None}]
  BY <1>1 DEF BooksTypeOK
<1>5. d # None => d.round \in Rounds
  BY <1>1, DisputeFound
<1>6. ASSUME NEW who, CreateDispute(who, p)
      PROVE  Goal
  <2> DEFINE bond  == [appellant |-> who, amount |-> CalculateAppealBond(p, 1)]
             bonds == [bs EXCEPT ![1] = bond]
  <2>1. /\ d = None
        /\ AppealBonds' = [AppealBonds EXCEPT ![p] = bonds]
        /\ ArbitrationCosts' = [ArbitrationCosts EXCEPT ![p] = CalculateArbitrationCost(p, 1)]
    BY <1>6 DEF CreateDispute
  <2>2. new.round = 1
    BY <1>1, <1>6 DEF CreateDispute
  <2>3. bs = NoBonds
    BY <1>1, <2>1 DEF BooksAt, BooksOn
  <2>4. AppealBonds'[p] = bonds /\ ArbitrationCosts'[p] = CalculateArbitrationCost(p, 1)
    BY <1>4, <2>1
  <2>5. 1 \in Rounds /\ bond.amount = BondIn(v, 1) /\ CalculateArbitrationCost(p, 1) = CostUpTo(v, 1)
    BY <1>3, SharesAreAmounts DEF Rounds
  <2> HIDE DEF bond, new, v
  <2>6. \A r \in Rounds : bonds[r] = IF r = 1 THEN bond ELSE None
    BY <2>3 DEF NoBonds
  <2> HIDE DEF bonds
  <2> QED BY <2>2, <2>4, <2>5, <2>6 DEF AmountsOn
<1>7. ASSUME NEW who, AppealRuling(who, p)
      PROVE  Goal
  <2> DEFINE round == d.round + 1
             bond  == [appellant |-> who, amount |-> CalculateAppealBond(p, round)]
             bonds == [bs EXCEPT ![round] = bond]
             cost  == ArbitrationCosts[p] + CalculateArbitrationCost(p, round)
  <2>1. /\ d # None /\ d.status = "Appealable"
        /\ AppealBonds' = [AppealBonds EXCEPT ![p] = bonds]
        /\ ArbitrationCosts' = [ArbitrationCosts EXCEPT ![p] = cost]
    BY <1>7 DEF AppealRuling
  <2>2. new.round = round
    BY <1>1, <1>7 DEF AppealRuling
  <2>3. round \in 2..3 /\ round \in Rounds /\ round - 1 = d.round
    <3>1. round \in 2..3
      BY <1>1, <1>7, DisputeBonds
    <3> QED BY <1>5, <2>1, <3>1 DEF Rounds
  <2>4. AppealBonds'[p] = bonds /\ ArbitrationCosts'[p] = cost
    BY <1>4, <2>1
  <2>5. /\ \A r \in Rounds : bs[r] # None => bs[r].amount = BondIn(v, r)
        /\ ArbitrationCosts[p] = CostUpTo(v, d.round)
    BY <1>1, <2>1 DEF AmountsOn
  <2>6. /\ \A r \in Rounds : CalculateAppealBond(p, r) = BondIn(v, r)
        /\ \A r \in 2..3 : CostUpTo(v, r - 1) + CalculateArbitrationCost(p, r) = CostUpTo(v, r)
    BY <1>3, SharesAreAmounts
  <2>7. bond.amount = BondIn(v, round) /\ cost = CostUpTo(v, round)
    <3>1. CostUpTo(v, round - 1) + CalculateArbitrationCost(p, round) = CostUpTo(v, round)
      BY <2>3, <2>6
    <3> QED BY <2>3, <2>5, <2>6, <3>1
  <2> HIDE DEF bond, new, v, cost, round, bs
  <2>8. \A r \in Rounds : bonds[r] = IF r = round THEN bond ELSE bs[r]
    BY <1>4, <2>3
  <2> HIDE DEF bonds
  <2> QED BY <2>2, <2>4, <2>5, <2>7, <2>8 DEF AmountsOn
<1>8. ASSUME EnforceFinalRuling(p)
      PROVE  Goal
  <2>1. d # None /\ disputes' = [disputes EXCEPT ![p] = [d EXCEPT !.status = "Finalized"]]
    BY <1>8 DEF EnforceFinalRuling, Enforceable
  <2>2. new.status = "Finalized"
    BY <1>1, <2>1, DisputeFound DEF Dispute
  <2> HIDE DEF new
  <2> QED BY <2>2 DEF AmountsOn
<1>9. ASSUME d # None, d.status # "Finalized", new.round = d.round,
             AppealBonds' = AppealBonds, ArbitrationCosts' = ArbitrationCosts
      PROVE  Goal
  BY <1>1, <1>9 DEF AmountsOn
<1>10. ASSUME NEW j, NEW vote, CastVote(j, p, vote) \/ OracleRules(p) \/ FinalizeRound(p)
       PROVE  Goal
  <2>1. /\ d # None /\ d.status # "Finalized"
        /\ AppealBonds' = AppealBonds /\ ArbitrationCosts' = ArbitrationCosts
    BY <1>10 DEF CastVote, MayVote, OracleRules, SubmitRuling, FinalizeRound, RoundOver, moneyVars
  <2>2. d \in Dispute
    BY <1>1, <2>1, DisputeFound
  <2>3. \A r : WithRuling(d, r).round = d.round
    BY <2>2 DEF WithRuling, Dispute
  <2>4. CASE OracleRules(p) \/ FinalizeRound(p)
    <3>1. \E r : disputes' = [disputes EXCEPT ![p] = WithRuling(d, r)]
      BY <2>4 DEF OracleRules, SubmitRuling, FinalizeRound
    <3>2. new.round = d.round
      BY <1>1, <2>3, <3>1
    <3> QED BY <1>9, <2>1, <3>2
  <2>5. CASE CastVote(j, p, vote)
    <3> DEFINE e == [d EXCEPT !.votes = [i \in DOMAIN @ \cup {j} |-> IF i = j THEN vote ELSE @[i]],
                              !.jurors[j] = TRUE]
    <3>1. disputes' = [disputes EXCEPT ![p] = e]
      BY <2>5 DEF CastVote
    <3>2. e.round = d.round
      BY <2>2 DEF Dispute
    <3> HIDE DEF e
    <3>3. new.round = d.round
      BY <1>1, <3>1, <3>2
    <3> QED BY <1>9, <2>1, <3>3
  <2> QED BY <1>10, <2>4, <2>5
<1>11. \/ \E f \in Freelancers : CreateDispute(f, p)
       \/ \E a \in Clients \cup Freelancers : AppealRuling(a, p)
       \/ EnforceFinalRuling(p)
       \/ \E j \in Accounts, vote \in Votes : CastVote(j, p, vote) \/ OracleRules(p) \/ FinalizeRound(p)
  <2>1. \E j \in Accounts, vote \in Votes : TRUE
    BY ArbAssumption DEF Votes
  <2> HIDE DEF d
  <2> QED BY <2>1 DEF DisputeStep
<1> QED BY <1>6, <1>7, <1>8, <1>10, <1>11

\* The invariant of the promise holds in every state of the runtime.
THEOREM PromiseInvariant == ArbSpec => []PromiseInv
<1> DEFINE Amounts == \A p \in ProjectIds : AmountsAt(p)
<1>1. ArbInit => PartiesKnown /\ Amounts
  BY DEF ArbInit, ProjInit, PartiesKnown, PartiesOn, AmountsAt, AmountsOn
<1>2. TypesInv /\ PartiesKnown /\ [ArbNext]_vars => PartiesKnown'
  BY PartiesStayKnown
<1>3. BooksInv /\ Amounts /\ [ArbNext]_vars => Amounts'
  <2> SUFFICES ASSUME BooksInv, Amounts, [ArbNext]_vars
               PROVE  \A q \in ProjectIds : AmountsAt(q)'
    OBVIOUS
  <2>1. TypesInv /\ MatchInv /\ StagesFollowed
    BY DEF BooksInv, VerdictInv, TypesInv
  <2>2. ASSUME NEW q \in ProjectIds, SparesBooks(q)
        PROVE  AmountsAt(q)'
    <3>1. AmountsOn(disputes'[q], AppealBonds'[q], ArbitrationCosts'[q], projects[q].budget)
      BY <2>2 DEF AmountsAt, SparesBooks
    <3>2. CASE disputes[q] # None
      <4>1. projects'[q].budget = projects[q].budget
        BY <2>1, <3>2, DisputedHasParties, PartiesStay
      <4> QED BY <3>1, <4>1 DEF AmountsAt
    <3>3. CASE disputes[q] = None
      BY <2>2, <3>3 DEF AmountsAt, AmountsOn, SparesBooks
    <3> QED BY <3>2, <3>3
  <2>3. ASSUME NEW p \in ProjectIds, DisputeStep(p)
        PROVE  \A q \in ProjectIds : AmountsAt(q)'
    <3>1. \A q \in ProjectIds \ {p} : SparesBooks(q)
      BY <2>3, DisputeBooks
    <3>2. AmountsOn(disputes'[p], AppealBonds'[p], ArbitrationCosts'[p], projects[p].budget)
      BY <2>3, DisputeAmounts
    <3>3. HasParties(p)
      BY <2>3, DisputeVerdict DEF BooksInv
    <3>4. projects'[p].budget = projects[p].budget
      BY <2>1, <3>3, PartiesStay
    <3>5. AmountsAt(p)'
      BY <3>2, <3>4 DEF AmountsAt
    <3> QED BY <2>2, <3>1, <3>5
  <2>4. CASE (ProjStep /\ UNCHANGED arbVars) \/ NextBlock \/ UNCHANGED vars
    <3>1. UNCHANGED arbVars
      BY <2>4 DEF NextBlock, vars
    <3>2. \A q \in ProjectIds : SparesBooks(q)
      BY <3>1 DEF SparesBooks, arbVars, moneyVars
    <3> QED BY <2>2, <3>2
  <2> QED BY <2>3, <2>4 DEF ArbNext
<1> HIDE DEF Amounts
<1>4. PromiseInv <=> MoneyInv /\ EscrowInv /\ PartiesKnown /\ Amounts
  BY DEF PromiseInv, Amounts
<1>5. MoneyInv => BooksInv
  BY DEF MoneyInv
<1>6. EscrowInv => TypesInv
  BY DEF EscrowInv
<1> QED BY <1>1, <1>2, <1>3, <1>4, <1>5, <1>6, MoneyInvariant, EscrowInvariant, PTL DEF ArbSpec

\* The deal a project stands for, with the payments att on record.
StageOf(pr, p, att) ==
    CASE pr.status = "Created"                  -> "Offered"
      [] pr.status = "InProgress"               -> "Agreed"
      [] pr.status \in {"InReview", "Rejected"} -> "Delivered"
      [] pr.status = "InDispute"                -> "Contested"
      [] pr.status = "Cancelled"                -> "Cancelled"
      [] pr.status = "Completed"                -> IF <<pr.freelancer, p>> \in att THEN "Paid" ELSE "Withheld"

DealFor(pr, p, att) ==
    IF pr = None THEN None
    ELSE [stage |-> StageOf(pr, p, att), client |-> pr.client, freelancer |-> pr.freelancer,
          budget |-> pr.budget]

\* What the runtime shows of itself as an escrow.
TheDeals  == [p \in ProjectIds |-> DealOf(p)]
ThePurses == [a \in Accounts |-> ledger.free[a] + ledger.reserved[a]]

\* DealOf says the same.
LEMMA DealIsFor ==
  ASSUME NEW p \in ProjectIds
  PROVE  /\ TheDeals[p] = DealFor(projects[p], p, rep.Attestations)
         /\ TheDeals'[p] = DealFor(projects'[p], p, rep'.Attestations)
<1>1. TheDeals[p] = DealOf(p) /\ TheDeals'[p] = DealOf(p)'
  BY DEF TheDeals
<1>2. DealOf(p) = DealFor(projects[p], p, rep.Attestations)
  BY DEF DealOf, DealStage, DealFor, StageOf, Client, Freelancer, Paid
<1>3. DealOf(p)' = DealFor(projects'[p], p, rep'.Attestations)
  BY DEF DealOf, DealStage, DealFor, StageOf, Client, Freelancer, Paid
<1> QED BY <1>1, <1>2, <1>3

\* The stage a status stands for.
LEMMA StageIs ==
  ASSUME NEW pr \in Project, NEW p, NEW att
  PROVE  /\ StageOf(pr, p, att) \in DealStages
         /\ pr.status = "Created" => StageOf(pr, p, att) = "Offered"
         /\ pr.status = "InProgress" => StageOf(pr, p, att) = "Agreed"
         /\ pr.status \in {"InReview", "Rejected"} => StageOf(pr, p, att) = "Delivered"
         /\ pr.status = "InDispute" => StageOf(pr, p, att) = "Contested"
         /\ pr.status = "Cancelled" => StageOf(pr, p, att) = "Cancelled"
         /\ pr.status = "Completed" =>
              StageOf(pr, p, att) = IF <<pr.freelancer, p>> \in att THEN "Paid" ELSE "Withheld"
<1>1. pr.status \in {"Created", "InProgress", "InReview", "Rejected", "InDispute", "Cancelled", "Completed"}
  BY DEF Project, ProjectStatus
<1> QED BY <1>1 DEF StageOf, DealStages

\* The deal of a project is a deal.
LEMMA DealFields ==
  ASSUME NEW pr \in Project, NEW p, NEW att
  PROVE  /\ DealFor(pr, p, att) # None /\ pr # None
         /\ DealFor(pr, p, att) = [stage |-> StageOf(pr, p, att), client |-> pr.client,
                                   freelancer |-> pr.freelancer, budget |-> pr.budget]
<1> DEFINE st == StageOf(pr, p, att)
<1>1. st \in DealStages
  BY StageIs
<1> HIDE DEF st
<1>2. pr # None
  BY ProjAssumption
<1>3. DealFor(pr, p, att) = [stage |-> st, client |-> pr.client,
                             freelancer |-> pr.freelancer, budget |-> pr.budget]
  BY <1>2 DEF DealFor, st
<1>4. DealFor(pr, p, att) \in Deal
  BY <1>1, <1>3 DEF Deal, Project
<1>5. DealFor(pr, p, att) # None
  BY <1>4, DealAssumption
<1> QED BY <1>2, <1>3, <1>5 DEF st

\* A step that rewrites project p, and pays for no other, changes one deal.
LEMMA OneDealMoves ==
  ASSUME TypesInv, NEW p \in ProjectIds, NEW new, projects' = [projects EXCEPT ![p] = new],
         \A q \in ProjectIds \ {p} : \A a : <<a, q>> \in rep'.Attestations <=> <<a, q>> \in rep.Attestations
  PROVE  TheDeals' = [TheDeals EXCEPT ![p] = DealFor(new, p, rep'.Attestations)]
<1>1. projects'[p] = new /\ \A q \in ProjectIds \ {p} : projects'[q] = projects[q]
  BY DEF TypesInv, MatchInv, ControlTypeOK
<1>2. ASSUME NEW q \in ProjectIds, q # p
      PROVE  TheDeals'[q] = TheDeals[q]
  <2>1. \A a : <<a, q>> \in rep'.Attestations <=> <<a, q>> \in rep.Attestations
    BY <1>2
  <2>2. DealFor(projects[q], q, rep'.Attestations) = DealFor(projects[q], q, rep.Attestations)
    BY <2>1 DEF DealFor, StageOf
  <2> QED BY <1>1, <1>2, <2>2, DealIsFor
<1>3. TheDeals'[p] = DealFor(new, p, rep'.Attestations)
  BY <1>1, DealIsFor
<1>4. DOMAIN TheDeals = ProjectIds /\ DOMAIN TheDeals' = ProjectIds
      /\ TheDeals = [q \in ProjectIds |-> TheDeals[q]] /\ TheDeals' = [q \in ProjectIds |-> TheDeals'[q]]
  BY DEF TheDeals
<1> QED BY <1>2, <1>3, <1>4

\* A step that rewrites no project and pays for none changes no deal.
LEMMA NoDealMoves ==
  ASSUME projects' = projects, rep'.Attestations = rep.Attestations
  PROVE  TheDeals' = TheDeals
<1>1. \A q \in ProjectIds : TheDeals'[q] = TheDeals[q]
  BY DealIsFor
<1>2. TheDeals = [q \in ProjectIds |-> TheDeals[q]] /\ TheDeals' = [q \in ProjectIds |-> TheDeals'[q]]
  BY DEF TheDeals
<1> QED BY <1>1, <1>2

\* Purses are what accounts own.
LEMMA PursesAreOwned ==
  ASSUME NEW a \in Accounts
  PROVE  /\ ThePurses[a] = Owns(Chain, a)
         /\ \A t : StepsTo(t) => ThePurses'[a] = Owns(t, a)
  BY DEF ThePurses, Owns, Chain, StepsTo

\* A call that pays nobody leaves purses and payments alone.
LEMMA QuietPurses ==
  ASSUME TypesInv, NEW t, Commit(t), NEW locks, Quiet(Chain, t, locks)
  PROVE  ThePurses' = ThePurses /\ rep'.Attestations = rep.Attestations
<1>1. StepsTo(t) /\ OwnsKept(Chain, t) /\ rep'.Attestations = rep.Attestations
  BY QuietMoney DEF TypesInv, Quiet, Commit, Chain
<1>2. \A a \in Accounts : ThePurses'[a] = ThePurses[a]
  BY <1>1, PursesAreOwned DEF OwnsKept
<1>3. ThePurses = [a \in Accounts |-> ThePurses[a]] /\ ThePurses' = [a \in Accounts |-> ThePurses'[a]]
  BY DEF ThePurses
<1> QED BY <1>1, <1>2, <1>3

\* The steps of Escrow, told of these deals and purses.
EntersDeal(p, from, to) ==
    /\ TheDeals[p] # None
    /\ TheDeals[p].stage \in from
    /\ TheDeals' = [TheDeals EXCEPT ![p] = [@ EXCEPT !.stage = to]]

\* Escrow's Enter is EntersDeal.
LEMMA EnterIs ==
  ASSUME NEW p, NEW from, NEW to
  PROVE  Promise!Enter(p, from, to) <=> EntersDeal(p, from, to)
  BY DEF Promise!Enter, EntersDeal, TheDeals

\* The deal of a project that is there.
LEMMA DealNow ==
  ASSUME TypesInv, NEW p \in ProjectIds, projects[p] # None
  PROVE  /\ TheDeals[p] # None
         /\ TheDeals[p] = [stage |-> StageOf(projects[p], p, rep.Attestations), client |-> projects[p].client,
                           freelancer |-> projects[p].freelancer, budget |-> projects[p].budget]
<1> DEFINE pr == projects[p]
<1>1. pr \in Project /\ TheDeals[p] = DealFor(pr, p, rep.Attestations)
  BY Undisputed, DealIsFor
<1> HIDE DEF pr
<1>2. /\ DealFor(pr, p, rep.Attestations) # None
      /\ DealFor(pr, p, rep.Attestations) =
           [stage |-> StageOf(pr, p, rep.Attestations), client |-> pr.client,
            freelancer |-> pr.freelancer, budget |-> pr.budget]
  BY <1>1, DealFields
<1> QED BY <1>1, <1>2, Zenon DEF pr

\* A project that is rewritten without changing its parties and its budget enters a stage.
LEMMA DealEnters ==
  ASSUME TypesInv, NEW p \in ProjectIds, projects[p] # None, NEW new \in Project,
         projects' = [projects EXCEPT ![p] = new],
         new.client = projects[p].client, new.freelancer = projects[p].freelancer,
         new.budget = projects[p].budget,
         \A q \in ProjectIds \ {p} : \A a : <<a, q>> \in rep'.Attestations <=> <<a, q>> \in rep.Attestations,
         NEW from, StageOf(projects[p], p, rep.Attestations) \in from,
         NEW to, to = StageOf(new, p, rep'.Attestations)
  PROVE  /\ EntersDeal(p, from, to)
         /\ to = StageOf(projects[p], p, rep.Attestations) => TheDeals' = TheDeals
<1> DEFINE old  == projects[p]
           deal == TheDeals[p]
           next == DealFor(new, p, rep'.Attestations)
           st   == StageOf(old, p, rep.Attestations)
<1>1. old \in Project
  BY Undisputed
<1>2. /\ deal # None
      /\ deal = [stage |-> st, client |-> old.client,
                 freelancer |-> old.freelancer, budget |-> old.budget]
  BY DealNow
<1>3. next = [stage |-> to, client |-> new.client,
              freelancer |-> new.freelancer, budget |-> new.budget]
  BY DealFields
<1>4. TheDeals' = [TheDeals EXCEPT ![p] = next]
  BY OneDealMoves
<1>5. TheDeals = [TheDeals EXCEPT ![p] = deal]
  BY DEF TheDeals
<1> HIDE DEF deal, next, st, old
<1>6. next = [deal EXCEPT !.stage = to]
  BY <1>2, <1>3 DEF old
<1>7. deal.stage = st
  BY <1>2
<1>8. EntersDeal(p, from, to)
  BY <1>2, <1>4, <1>6, <1>7 DEF EntersDeal, deal, st, old
<1>9. to = st => next = deal
  BY <1>2, <1>3 DEF old
<1> QED BY <1>4, <1>5, <1>8, <1>9 DEF st, old

\* create_project is an offer.
LEMMA CreateIsOffer ==
  ASSUME TypesInv, NEW c \in Clients, NEW b \in Budgets, NEW d \in Durations, CreateProject(c, b, d)
  PROVE  \E p \in ProjectIds : Promise!Offer(p)
<1> DEFINE p   == NextProjectId
           new == [client |-> c, freelancer |-> None, budget |-> b,
                   status |-> "Created", duration |-> d, submission_block |-> None,
                   work |-> FALSE, dispute_info |-> None]
<1>1. /\ NextProjectId \in Nat /\ RuntimeInv /\ c \in Accounts /\ b \in Nat
      /\ \A q \in ProjectIds : q >= NextProjectId => projects[q] = None
  BY ProjAssumption DEF TypesInv, MatchInv, ControlTypeOK, UnusedIds
<1>2. p \in ProjectIds /\ projects[p] = None
  BY <1>1, ProjAssumption DEF CreateProject
<1>3. projects' = [projects EXCEPT ![p] = new]
  BY DEF CreateProject
<1>4. new \in Project
  BY <1>1, ProjAssumption DEF Project, ProjectStatus
<1>5. ThePurses' = ThePurses /\ rep'.Attestations = rep.Attestations
  BY <1>1, <1>2, CreateProjectEffect, QuietPurses
<1>6. TheDeals' = [TheDeals EXCEPT ![p] = DealFor(new, p, rep'.Attestations)]
  <2> HIDE DEF new
  <2> QED BY <1>2, <1>3, <1>5, OneDealMoves
<1>7. DealFor(new, p, rep'.Attestations) = [stage |-> "Offered", client |-> c,
                                            freelancer |-> None, budget |-> b]
  <2>1. new.status = "Created" /\ new.client = c /\ new.freelancer = None /\ new.budget = b
    OBVIOUS
  <2> HIDE DEF new
  <2>2. StageOf(new, p, rep'.Attestations) = "Offered"
    BY <2>1 DEF StageOf
  <2>3. DealFor(new, p, rep'.Attestations) =
           [stage |-> StageOf(new, p, rep'.Attestations), client |-> new.client,
            freelancer |-> new.freelancer, budget |-> new.budget]
    BY <1>4, DealFields
  <2> QED BY <2>1, <2>2, <2>3, Zenon
<1>8. TheDeals[p] = None
  BY <1>2, DealIsFor DEF DealFor
<1> HIDE DEF new, p
<1>9. Promise!Offer(p)
  BY <1>1, <1>5, <1>6, <1>7, <1>8 DEF Promise!Offer, TheDeals, ThePurses
<1> QED BY <1>2, <1>9 DEF p

\* start_work is the agreement.
LEMMA StartIsAgree ==
  ASSUME TypesInv, NEW c, NEW p \in ProjectIds, NEW f, StartWork(c, p, f)
  PROVE  Promise!Agree(p)
<1> DEFINE pr  == projects[p]
           new == [pr EXCEPT !.freelancer = f, !.status = "InProgress",
                             !.submission_block = block + pr.duration]
           deal == TheDeals[p]
           next == DealFor(new, p, rep'.Attestations)
<1>1. /\ pr # None /\ pr.status = "Created" /\ f \in ProjectApplicants[p]
      /\ projects' = [projects EXCEPT ![p] = new] /\ ledger' = ledger /\ rep' = rep
  BY CommitChain DEF StartWork, UpdateProject
<1>2. pr \in Project /\ f \in Accounts /\ block \in Nat
  BY <1>1, Undisputed DEF TypesInv, MatchInv, ControlTypeOK
<1>3. /\ new \in Project /\ new.status = "InProgress" /\ new.freelancer = f
      /\ new.client = pr.client /\ new.budget = pr.budget
  <2>1. block + pr.duration \in Nat
    BY <1>2 DEF Project
  <2> QED BY <1>2, <2>1 DEF Project, ProjectStatus
<1>4. TheDeals' = [TheDeals EXCEPT ![p] = next]
  <2> HIDE DEF new
  <2> QED BY <1>1, OneDealMoves
<1>5. /\ deal # None
      /\ deal = [stage |-> StageOf(pr, p, rep.Attestations), client |-> pr.client,
                 freelancer |-> pr.freelancer, budget |-> pr.budget]
  BY <1>1, DealNow
<1> HIDE DEF new, pr
<1>6. StageOf(pr, p, rep.Attestations) = "Offered"
  BY <1>1, <1>2, StageIs
<1>7. StageOf(new, p, rep'.Attestations) = "Agreed"
  BY <1>3, StageIs
<1>8. next = [stage |-> StageOf(new, p, rep'.Attestations), client |-> new.client,
              freelancer |-> new.freelancer, budget |-> new.budget]
  BY <1>3, DealFields
<1>9. ThePurses' = ThePurses
  BY <1>1 DEF ThePurses
<1> HIDE DEF deal, next
<1>10. next = [deal EXCEPT !.stage = "Agreed", !.freelancer = f] /\ deal.stage = "Offered"
  <2>1. deal = [stage |-> "Offered", client |-> pr.client,
                freelancer |-> pr.freelancer, budget |-> pr.budget]
    BY <1>5, <1>6, Zenon
  <2>2. next = [stage |-> "Agreed", client |-> pr.client, freelancer |-> f, budget |-> pr.budget]
    BY <1>3, <1>7, <1>8, Zenon
  <2> DEFINE mid == [stage |-> "Agreed", client |-> pr.client,
                     freelancer |-> pr.freelancer, budget |-> pr.budget]
  <2>3. mid = [deal EXCEPT !.stage = "Agreed"]
    BY <2>1
  <2>4. next = [mid EXCEPT !.freelancer = f]
    BY <2>2
  <2>5. [deal EXCEPT !.stage = "Agreed", !.freelancer = f] = [[deal EXCEPT !.stage = "Agreed"] EXCEPT !.freelancer = f]
    OBVIOUS
  <2>6. deal.stage = "Offered"
    BY <2>1
  <2> HIDE DEF mid
  <2> QED BY <2>3, <2>4, <2>5, <2>6, Zenon
<1> QED BY <1>2, <1>4, <1>5, <1>9, <1>10 DEF Promise!Agree, TheDeals, ThePurses, deal

\* submit_work delivers, reject_work changes nothing that was promised.
LEMMA ReviewIsDelivered ==
  ASSUME TypesInv, NEW who, NEW p \in ProjectIds
  PROVE  /\ SubmitWork(who, p) => Promise!Deliver(p)
         /\ RejectWork(who, p) => TheDeals' = TheDeals /\ ThePurses' = ThePurses
<1> DEFINE pr  == projects[p]
<1>1. ASSUME SubmitWork(who, p)
      PROVE  Promise!Deliver(p)
  <2> DEFINE new == [pr EXCEPT !.work = TRUE, !.status = "InReview"]
  <2>1. /\ pr # None /\ pr.status = "InProgress" /\ projects' = [projects EXCEPT ![p] = new]
        /\ ledger' = ledger /\ rep' = rep
    BY <1>1, CommitChain DEF SubmitWork, UpdateProject
  <2>2. pr \in Project
    BY <2>1, Undisputed
  <2>3. /\ new \in Project /\ new.status = "InReview" /\ new.freelancer = pr.freelancer
        /\ new.client = pr.client /\ new.budget = pr.budget
    BY <2>2 DEF Project, ProjectStatus
  <2> HIDE DEF new
  <2>4. StageOf(pr, p, rep.Attestations) \in {"Agreed"} /\ "Delivered" = StageOf(new, p, rep'.Attestations)
    <3>1. StageOf(pr, p, rep.Attestations) = "Agreed"
      BY ONLY <2>1, <2>2, StageIs
    <3>2. StageOf(new, p, rep'.Attestations) = "Delivered"
      BY ONLY <2>3, StageIs
    <3> QED BY <3>1, <3>2
  <2>5. EntersDeal(p, {"Agreed"}, "Delivered")
    BY <2>1, <2>3, <2>4, DealEnters
  <2>6. ThePurses' = ThePurses
    BY <2>1 DEF ThePurses
  <2> QED BY <2>5, <2>6, EnterIs DEF Promise!Deliver, ThePurses
<1>2. ASSUME RejectWork(who, p)
      PROVE  TheDeals' = TheDeals /\ ThePurses' = ThePurses
  <2> DEFINE new == Rejected(p)
  <2>1. /\ pr # None /\ pr.status = "InReview" /\ projects' = [projects EXCEPT ![p] = new]
        /\ ledger' = ledger /\ rep' = rep
    BY <1>2, CommitChain DEF RejectWork, UpdateProject
  <2>2. pr \in Project
    BY <2>1, Undisputed
  <2>3. /\ new \in Project /\ new.status = "Rejected" /\ new.freelancer = pr.freelancer
        /\ new.client = pr.client /\ new.budget = pr.budget
    <3> DEFINE n == IF pr.dispute_info = None THEN 0 ELSE pr.dispute_info + 1
    <3>1. n \in Nat
      BY <2>2 DEF Project
    <3>2. new = [pr EXCEPT !.status = "Rejected", !.dispute_info = n]
      BY <2>2 DEF Rejected, Project
    <3> HIDE DEF n, new
    <3> QED BY <2>2, <3>1, <3>2 DEF Project, ProjectStatus
  <2> HIDE DEF new
  <2>4. /\ StageOf(pr, p, rep.Attestations) = "Delivered" /\ "Delivered" = StageOf(new, p, rep'.Attestations)
        /\ StageOf(pr, p, rep.Attestations) \in {"Delivered"}
    <3>1. StageOf(pr, p, rep.Attestations) = "Delivered"
      BY ONLY <2>1, <2>2, StageIs
    <3>2. StageOf(new, p, rep'.Attestations) = "Delivered"
      BY ONLY <2>3, StageIs
    <3> QED BY <3>1, <3>2
  <2>5. TheDeals' = TheDeals
    BY <2>1, <2>3, <2>4, DealEnters
  <2> QED BY <2>1, <2>5 DEF ThePurses
<1> QED BY <1>1, <1>2

\* cancel_project withdraws the offer.
LEMMA CancelIsWithdraw ==
  ASSUME TypesInv, NEW c \in Clients, NEW p \in ProjectIds, CancelProject(c, p)
  PROVE  Promise!Withdraw(p)
<1> DEFINE pr  == projects[p]
           new == [pr EXCEPT !.status = "Cancelled"]
<1>1. /\ pr # None /\ pr.status \in {"Created", "InProgress"}
      /\ projects' = [projects EXCEPT ![p] = new] /\ Commit(Cancelled(c, p))
      /\ c \in Accounts /\ RuntimeInv
  BY ProjAssumption DEF CancelProject, MayCancel, UpdateProject, TypesInv
<1>2. pr \in Project
  BY <1>1, Undisputed
<1>3. /\ new \in Project /\ new.status = "Cancelled" /\ new.freelancer = pr.freelancer
      /\ new.client = pr.client /\ new.budget = pr.budget
  BY <1>2 DEF Project, ProjectStatus
<1>4. ThePurses' = ThePurses /\ rep'.Attestations = rep.Attestations
  BY <1>1, CancelledEffect, QuietPurses
<1> HIDE DEF new
<1>5. StageOf(pr, p, rep.Attestations) \in {"Offered", "Agreed"} /\ "Cancelled" = StageOf(new, p, rep'.Attestations)
  <2> HIDE DEF pr
  <2> QED BY <1>1, <1>2, <1>3, StageIs
<1>6. EntersDeal(p, {"Offered", "Agreed"}, "Cancelled")
  BY <1>1, <1>3, <1>4, <1>5, DealEnters
<1> QED BY <1>4, <1>6, EnterIs DEF Promise!Withdraw, ThePurses

\* create_dispute contests what was delivered.
LEMMA DisputeIsContest ==
  ASSUME TypesInv, NEW who, NEW p \in ProjectIds, CreateDispute(who, p)
  PROVE  Promise!Contest(p)
<1> DEFINE pr  == projects[p]
           new == InDispute(p)
<1>1. /\ pr # None /\ pr.status \in {"Rejected", "InReview"}
      /\ projects' = [projects EXCEPT ![p] = new]
  BY DEF CreateDispute, MayDispute, UpdateProject
<1>2. pr \in Project
  BY <1>1, Undisputed
<1>3. /\ new \in Project /\ new.status = "InDispute" /\ new.freelancer = pr.freelancer
      /\ new.client = pr.client /\ new.budget = pr.budget
  BY <1>2 DEF Project, ProjectStatus, InDispute
<1>4. ThePurses' = ThePurses /\ rep'.Attestations = rep.Attestations
  BY DisputeBonds, QuietPurses
<1> HIDE DEF new
<1>5. StageOf(pr, p, rep.Attestations) \in {"Delivered"} /\ "Contested" = StageOf(new, p, rep'.Attestations)
  <2> HIDE DEF pr
  <2>1. pr.status \in {"InReview", "Rejected"}
    BY <1>1
  <2>2. StageOf(pr, p, rep.Attestations) = "Delivered"
    BY <1>2, <2>1, StageIs
  <2>3. StageOf(new, p, rep'.Attestations) = "Contested"
    BY <1>3, StageIs
  <2> QED BY <2>2, <2>3
<1>6. EntersDeal(p, {"Delivered"}, "Contested")
  BY <1>1, <1>3, <1>4, <1>5, DealEnters
<1> QED BY <1>4, <1>6, EnterIs DEF Promise!Contest, ThePurses

\* accept_work pays.
LEMMA AcceptIsPay ==
  ASSUME TypesInv, NEW c \in Clients, NEW p \in ProjectIds, NEW r, r \in Nat, AcceptWork(c, p, r)
  PROVE  Promise!Pay(p)
<1> DEFINE pr   == projects[p]
           new  == Settled(p)
           deal == TheDeals[p]
<1>1. /\ pr # None /\ pr.status = "InReview" /\ pr.freelancer # None /\ pr.client = c
      /\ projects' = [projects EXCEPT ![p] = new] /\ Commit(Accepted(c, p, r))
      /\ c \in Accounts /\ RuntimeInv
  BY ProjAssumption DEF AcceptWork, UpdateProject, TypesInv
<1>2. pr \in Project /\ pr.freelancer \in Accounts /\ pr.budget \in Nat
  <2>1. pr \in Project
    BY <1>1, Undisputed
  <2> QED BY <1>1, <2>1 DEF Project
<1>3. /\ new \in Project /\ new.status = "Completed" /\ new.freelancer = pr.freelancer
      /\ new.client = pr.client /\ new.budget = pr.budget
  BY <1>2 DEF Project, ProjectStatus, Settled
<1>4. PICK t : /\ Commit(t)
               /\ Closes(Chain, t, GenerateLockId(p), c, pr.freelancer, pr.budget, p)
               /\ \A b \in Accounts : Owns(t, b) = Paying(Chain, c, pr.freelancer, pr.budget, b)
  BY <1>1, <1>2, AcceptedEffect
<1>5. rep'.Attestations = rep.Attestations \cup {<<pr.freelancer, p>>} /\ StepsTo(t)
  BY <1>4 DEF Closes, Commit, Chain, StepsTo, Sustains, Keeps
<1>6. /\ deal = [stage |-> StageOf(pr, p, rep.Attestations), client |-> pr.client,
                 freelancer |-> pr.freelancer, budget |-> pr.budget]
  BY <1>1, DealNow
<1> HIDE DEF new, pr, deal
<1>7. StageOf(pr, p, rep.Attestations) \in {"Delivered"} /\ "Paid" = StageOf(new, p, rep'.Attestations)
  <2>1. pr.status \in {"InReview", "Rejected"} /\ <<new.freelancer, p>> \in rep'.Attestations
    BY <1>1, <1>3, <1>5
  <2>2. StageOf(pr, p, rep.Attestations) = "Delivered"
    BY <1>2, <2>1, StageIs
  <2>3. StageOf(new, p, rep'.Attestations) = "Paid"
    BY <1>3, <2>1, StageIs
  <2> QED BY <2>2, <2>3
<1>8. EntersDeal(p, {"Delivered"}, "Paid")
  <2>1. \A q \in ProjectIds \ {p} : \A a : <<a, q>> \in rep'.Attestations <=> <<a, q>> \in rep.Attestations
    BY <1>5
  <2> QED BY <1>1, <1>3, <1>7, <2>1, DealEnters DEF pr
<1>9. deal.client = c /\ deal.freelancer = pr.freelancer /\ deal.budget = pr.budget
  BY <1>1, <1>6
<1>10. \A a \in Accounts : ThePurses'[a] = ThePurses[a] - (IF a = deal.client THEN deal.budget ELSE 0)
                                                        + (IF a = deal.freelancer THEN deal.budget ELSE 0)
  <2> TAKE a \in Accounts
  <2>1. ThePurses[a] = Owns(Chain, a) /\ ThePurses'[a] = Owns(t, a)
    BY <1>5, PursesAreOwned
  <2>2. Owns(t, a) = Paying(Chain, c, pr.freelancer, pr.budget, a)
    BY <1>4
  <2> QED BY <1>9, <2>1, <2>2, Zenon DEF Paying
<1>11. ThePurses' = [a \in Accounts |-> ThePurses'[a]]
  BY DEF ThePurses
<1>12. ThePurses' = [a \in Accounts |-> ThePurses[a] - (IF a = deal.client THEN deal.budget ELSE 0)
                                                     + (IF a = deal.freelancer THEN deal.budget ELSE 0)]
  BY <1>10, <1>11
<1>13. Promise!Enter(p, {"Delivered"}, "Paid")
  BY <1>8, EnterIs
<1> QED BY <1>12, <1>13 DEF Promise!Pay, Promise!Paying, TheDeals, ThePurses, deal

\* A decision of Escrow, told of these deals and purses.
Decides(p, to, loser, base) ==
  /\ EntersDeal(p, {"Contested"}, to)
  /\ SumFunctionOnSet(ThePurses', Accounts) <= SumFunctionOnSet(ThePurses, Accounts)
  /\ \A a \in Accounts \ {loser, PalletAccount} : ThePurses'[a] >= base[a]
  /\ ThePurses'[loser] >= base[loser] - Share(TheDeals[p].budget, 75) - (ExistentialDeposit - 1)

\* Escrow adds up as the runtime does.
LEMMA WealthIs ==
  ASSUME NEW f, NEW S
  PROVE  Promise!SumFunctionOnSet(f, S) = SumFunctionOnSet(f, S)
  BY DEF Promise!SumFunctionOnSet, Promise!FoldFunctionOnSet, Promise!MapThenFoldSet,
         SumFunctionOnSet, FoldFunctionOnSet, MapThenFoldSet

\* The branches of the two decisions.
LEMMA Taken ==
  ASSUME NEW x, NEW y
  PROVE  (IF "Paid" = "Paid" THEN x ELSE y) = x /\ (IF "Withheld" = "Paid" THEN x ELSE y) = y
  OBVIOUS

\* Escrow's Decide is Decides, for either party.
LEMMA DecideIs ==
  ASSUME NEW p
  PROVE  /\ Decides(p, "Paid", TheDeals[p].client,
                    [a \in Accounts |-> ThePurses[a]
                              - (IF a = TheDeals[p].client THEN TheDeals[p].budget ELSE 0)
                              + (IF a = TheDeals[p].freelancer THEN TheDeals[p].budget ELSE 0)])
              => Promise!Decide(p, "Paid")
         /\ Decides(p, "Withheld", TheDeals[p].freelancer, ThePurses) => Promise!Decide(p, "Withheld")
<1> DEFINE c == TheDeals[p].client
           f == TheDeals[p].freelancer
           v == TheDeals[p].budget
           base == Promise!Paying(c, f, v)
           loser(to) == IF to = "Paid" THEN c ELSE f
           after(to) == IF to = "Paid" THEN base ELSE ThePurses
<1>1. ASSUME NEW to
      PROVE Promise!Decide(p, to) <=>
             /\ Promise!Enter(p, {"Contested"}, to)
             /\ Promise!Wealth(ThePurses') <= Promise!Wealth(ThePurses)
             /\ \A a \in Accounts \ {loser(to), PalletAccount} : ThePurses'[a] >= after(to)[a]
             /\ ThePurses'[loser(to)] >= after(to)[loser(to)] - Promise!MaxPenalty(v) - (ExistentialDeposit - 1)
  BY Zenon DEF Promise!Decide, TheDeals, ThePurses, c, f, v, base
<1>2. base = [a \in Accounts |-> ThePurses[a] - (IF a = c THEN v ELSE 0) + (IF a = f THEN v ELSE 0)]
  BY DEF Promise!Paying, ThePurses, base
<1>3. Promise!MaxPenalty(v) = Share(v, 75)
  BY DEF Promise!MaxPenalty, Share
<1>4. Promise!Wealth(ThePurses') = SumFunctionOnSet(ThePurses', Accounts)
      /\ Promise!Wealth(ThePurses) = SumFunctionOnSet(ThePurses, Accounts)
  BY WealthIs DEF Promise!Wealth
<1>5. loser("Paid") = c /\ after("Paid") = base /\ loser("Withheld") = f /\ after("Withheld") = ThePurses
  BY Taken
<1>6. Promise!Decide(p, "Paid") <=>
             /\ Promise!Enter(p, {"Contested"}, "Paid")
             /\ Promise!Wealth(ThePurses') <= Promise!Wealth(ThePurses)
             /\ \A a \in Accounts \ {c, PalletAccount} : ThePurses'[a] >= base[a]
             /\ ThePurses'[c] >= base[c] - Promise!MaxPenalty(v) - (ExistentialDeposit - 1)
  <2> HIDE DEF loser, after
  <2>1. Promise!Decide(p, "Paid") <=>
             /\ Promise!Enter(p, {"Contested"}, "Paid")
             /\ Promise!Wealth(ThePurses') <= Promise!Wealth(ThePurses)
             /\ \A a \in Accounts \ {loser("Paid"), PalletAccount} : ThePurses'[a] >= after("Paid")[a]
             /\ ThePurses'[loser("Paid")] >= after("Paid")[loser("Paid")] - Promise!MaxPenalty(v) - (ExistentialDeposit - 1)
    BY <1>1, Zenon
  <2> QED BY <1>5, <2>1, Zenon
<1>7. Promise!Decide(p, "Withheld") <=>
             /\ Promise!Enter(p, {"Contested"}, "Withheld")
             /\ Promise!Wealth(ThePurses') <= Promise!Wealth(ThePurses)
             /\ \A a \in Accounts \ {f, PalletAccount} : ThePurses'[a] >= ThePurses[a]
             /\ ThePurses'[f] >= ThePurses[f] - Promise!MaxPenalty(v) - (ExistentialDeposit - 1)
  <2> HIDE DEF loser, after
  <2>1. Promise!Decide(p, "Withheld") <=>
             /\ Promise!Enter(p, {"Contested"}, "Withheld")
             /\ Promise!Wealth(ThePurses') <= Promise!Wealth(ThePurses)
             /\ \A a \in Accounts \ {loser("Withheld"), PalletAccount} : ThePurses'[a] >= after("Withheld")[a]
             /\ ThePurses'[loser("Withheld")] >= after("Withheld")[loser("Withheld")] - Promise!MaxPenalty(v) - (ExistentialDeposit - 1)
    BY <1>1, Zenon
  <2> QED BY <1>5, <2>1, Zenon
<1> HIDE DEF base, loser, after
<1>8. Decides(p, "Paid", c, base) => Promise!Decide(p, "Paid")
  BY <1>3, <1>4, <1>6, EnterIs, Zenon DEF Decides
<1>9. Decides(p, "Withheld", f, ThePurses) => Promise!Decide(p, "Withheld")
  BY <1>3, <1>4, <1>7, EnterIs, Zenon DEF Decides
<1> QED BY <1>2, <1>8, <1>9, Zenon

\* The bonds slashed and the costs left are at most the bonds of the three rounds
\* together, the loser bears them alone, and nobody else loses a bond.
LEMMA PenaltyBounded ==
  ASSUME NEW bonds, NEW w, NEW l, NEW v \in Nat, NEW cost \in Nat, cost <= Share(v, 75),
         \A r \in Rounds : bonds[r] # None => bonds[r].appellant \in {w, l} /\ bonds[r].amount = BondIn(v, r)
  PROVE  /\ Losses(bonds, w, l) \in Nat /\ CostsOwed(cost, Slashed(bonds, w)) \in Nat
         /\ Losses(bonds, w, l) + CostsOwed(cost, Slashed(bonds, w)) <= Share(v, 75)
         /\ \A b : b # l => Losses(bonds, w, b) = 0
<1>1. /\ BondIn(v, 1) \in Nat /\ BondIn(v, 2) \in Nat /\ BondIn(v, 3) \in Nat /\ Share(v, 75) \in Nat
      /\ BondIn(v, 1) + BondIn(v, 2) + BondIn(v, 3) <= Share(v, 75)
  BY Shares DEF BondIn
<1>2. ASSUME NEW r \in Rounds
      PROVE  /\ SlashOf(bonds[r], w) \in {0, BondIn(v, r)}
             /\ l # w => BondOf(bonds[r], l) = SlashOf(bonds[r], w)
             /\ \A b : b \notin {w, l} => BondOf(bonds[r], b) = 0
             /\ l = w => SlashOf(bonds[r], w) = 0
  <2>1. CASE bonds[r] = None
    BY <2>1 DEF SlashOf, BondOf
  <2>2. CASE bonds[r] # None
    <3>1. bonds[r].appellant \in {w, l} /\ bonds[r].amount = BondIn(v, r)
      BY <2>2
    <3> QED BY <2>2, <3>1 DEF SlashOf, BondOf
  <2> QED BY <2>1, <2>2
<1>3. 1 \in Rounds /\ 2 \in Rounds /\ 3 \in Rounds
  BY DEF Rounds
<1> DEFINE x1 == SlashOf(bonds[1], w)
           x2 == SlashOf(bonds[2], w)
           x3 == SlashOf(bonds[3], w)
<1>4. x1 \in {0, BondIn(v, 1)} /\ x2 \in {0, BondIn(v, 2)} /\ x3 \in {0, BondIn(v, 3)}
  BY <1>2, <1>3
<1>5. Slashed(bonds, w) = x1 + x2 + x3
  BY DEF Slashed
<1>6. Losses(bonds, w, l) = x1 + x2 + x3
  <2>1. CASE l = w
    BY <1>2, <1>3, <2>1 DEF Losses
  <2>2. CASE l # w
    BY <1>2, <1>3, <2>2 DEF Losses, Bonded
  <2> QED BY <2>1, <2>2
<1>7. ASSUME NEW b, b # l
      PROVE  Losses(bonds, w, b) = 0
  BY <1>2, <1>3, <1>7 DEF Losses, Bonded
<1> HIDE DEF x1, x2, x3
<1>8. x1 + x2 + x3 \in Nat /\ x1 + x2 + x3 <= Share(v, 75)
  BY <1>1, <1>4
<1> DEFINE x == x1 + x2 + x3
           m == Share(v, 75)
<1>9. x \in Nat /\ x <= m /\ m \in Nat /\ cost <= m
  BY <1>1, <1>8
<1> HIDE DEF x, m
<1>10. CostsOwed(cost, x) \in Nat /\ x + CostsOwed(cost, x) <= m
  BY <1>9 DEF CostsOwed
<1> QED BY <1>5, <1>6, <1>7, <1>9, <1>10 DEF x, m

\* The costs of all rounds are less than that.
LEMMA CostsBounded ==
  ASSUME NEW v \in Nat, NEW r \in Rounds
  PROVE  CostUpTo(v, r) <= Share(v, 75)
<1>1. /\ Share(v, 2) \in Nat /\ Share(v, 5) \in Nat /\ Share(v, 8) \in Nat /\ Share(v, 75) \in Nat
      /\ Share(v, 2) + Share(v, 5) + Share(v, 8) <= Share(v, 75)
  BY Shares
<1> QED BY <1>1 DEF CostUpTo, Rounds

\* The books of a dispute about to be enforced.
LEMMA BooksBeforeEnforcing ==
  ASSUME PromiseInv, NEW p \in ProjectIds, Enforceable(p)
  PROVE  /\ projects[p] \in Project /\ projects[p].status = "InDispute"
         /\ projects[p].client \in Accounts \ {PalletAccount}
         /\ projects[p].freelancer \in Accounts \ {PalletAccount}
         /\ disputes[p].ruling \in {"ClientWins", "FreelancerWins"}
         /\ <<projects[p].freelancer, p>> \notin rep.Attestations
         /\ ArbitrationCosts[p] \in Nat /\ ArbitrationCosts[p] <= Share(projects[p].budget, 75)
         /\ \A r \in Rounds : AppealBonds[p][r] # None =>
              /\ AppealBonds[p][r].appellant \in {projects[p].client, projects[p].freelancer}
              /\ AppealBonds[p][r].amount = BondIn(projects[p].budget, r)
<1> DEFINE pr == projects[p]
           d  == disputes[p]
<1>1. /\ TypesInv /\ EscrowAt(p) /\ BooksAt(p) /\ AmountsAt(p) /\ PartiesOn(pr, ProjectApplicants[p])
  BY DEF PromiseInv, MoneyInv, EscrowInv, BooksInv, PartiesKnown
<1>2. d # None /\ d.status = "Appealable" /\ d.ruling # None /\ pr.freelancer # None
  BY DEF Enforceable, HasParties
<1>3. pr # None /\ pr \in Project /\ pr.status = "InDispute" /\ d \in Dispute
  <2>1. pr # None /\ pr \in Project /\ pr.status = "InDispute"
    BY <1>1, <1>2, Undisputed
  <2>2. d \in Dispute
    BY <1>1, <1>2, DisputeFound DEF TypesInv
  <2> QED BY <2>1, <2>2
<1>4. pr.client \in Clients /\ pr.freelancer \in Freelancers /\ pr.client \in Accounts /\ pr.freelancer \in Accounts
      /\ pr.budget \in Nat
  BY <1>1, <1>2, <1>3 DEF PartiesOn, Project
<1>5. d.ruling \in {"ClientWins", "FreelancerWins"} /\ d.round \in Rounds
  BY <1>2, <1>3 DEF Dispute, Rulings
<1>6. <<pr.freelancer, p>> \notin rep.Attestations
  BY <1>1, <1>3 DEF EscrowAt, SettledAs
<1>7. ArbitrationCosts[p] = CostUpTo(pr.budget, d.round) /\ ArbitrationCosts[p] \in Nat
  <2>1. ArbitrationCosts[p] \in Nat
    BY <1>1 DEF TypesInv, BooksTypeOK
  <2> QED BY <1>1, <1>2, <2>1 DEF AmountsAt, AmountsOn
<1>8. ASSUME NEW r \in Rounds, AppealBonds[p][r] # None
      PROVE  AppealBonds[p][r].appellant \in {pr.client, pr.freelancer}
  <2>1. /\ r <= d.round /\ AppealBonds[p][1].appellant = pr.freelancer
        /\ \A q \in 2..d.round : AppealBonds[p][q].appellant \in {pr.client, pr.freelancer}
    BY <1>1, <1>2, <1>8 DEF BooksAt, BooksOn, Client, Freelancer
  <2>2. r = 1 \/ r \in 2..d.round
    BY <1>5, <2>1 DEF Rounds
  <2> QED BY <2>1, <2>2
<1>9. \A r \in Rounds : AppealBonds[p][r] # None => AppealBonds[p][r].amount = BondIn(pr.budget, r)
  BY <1>1, <1>2 DEF AmountsAt, AmountsOn
<1>10. ArbitrationCosts[p] <= Share(pr.budget, 75)
  BY <1>4, <1>5, <1>7, CostsBounded
<1> QED BY <1>3, <1>4, <1>5, <1>6, <1>7, <1>8, <1>9, <1>10, ArbAssumption

\* enforce_final_ruling is a decision: for the freelancer, who is paid, or for the
\* client, who keeps the budget.
LEMMA EnforceIsDecide ==
  ASSUME PromiseInv, NEW p \in ProjectIds, EnforceFinalRuling(p)
  PROVE  Promise!Decide(p, "Paid") \/ Promise!Decide(p, "Withheld")
<1> DEFINE pr     == projects[p]
           new    == Settled(p)
           ruling == disputes[p].ruling
           bonds  == AppealBonds[p]
           cost   == ArbitrationCosts[p]
           c      == pr.client
           f      == pr.freelancer
           v      == pr.budget
           winner == Winner(p, ruling)
           loser  == Loser(p, ruling)
<1>1. TypesInv /\ RuntimeInv /\ BooksTypeOK /\ ReservesBacked
  BY DEF PromiseInv, MoneyInv, EscrowInv, TypesInv
<1>2. Enforceable(p) /\ projects' = [projects EXCEPT ![p] = new]
  BY DEF EnforceFinalRuling, UpdateProject
<1>3. /\ pr \in Project /\ pr.status = "InDispute"
      /\ c \in Accounts \ {PalletAccount} /\ f \in Accounts \ {PalletAccount} /\ v \in Nat
      /\ ruling \in {"ClientWins", "FreelancerWins"} /\ <<f, p>> \notin rep.Attestations
      /\ cost \in Nat /\ cost <= Share(v, 75)
      /\ \A r \in Rounds : bonds[r] # None => bonds[r].appellant \in {c, f} /\ bonds[r].amount = BondIn(v, r)
  <2>1. pr \in Project
    BY <1>2, BooksBeforeEnforcing
  <2>2. v \in Nat
    BY <2>1 DEF Project
  <2> QED BY <1>2, <2>1, <2>2, BooksBeforeEnforcing
<1>4. /\ new \in Project /\ new.status = "Completed" /\ new.freelancer = f
      /\ new.client = c /\ new.budget = v
  BY <1>3 DEF Project, ProjectStatus, Settled
<1>5. /\ bonds \in [Rounds -> Bond \cup {None}] /\ JurorRewards[p] \in [Accounts -> Nat]
      /\ \A b \in Accounts : Bonded(bonds, b) \in Nat /\ Bonded(bonds, b) <= Beyond(Chain, b)
  BY <1>1, BondsAreThere DEF BooksTypeOK
<1>6. PICK t : Commit(t) /\ t \in ChainState /\ Enforced(t, p, ruling)
  BY <1>1, <1>3, <1>5, EnforceMoney
<1>7. PICK u : Commit(u) /\ Enforces(Chain, u, p, ruling)
  BY <1>1, <1>3, <1>5, EnforceEffect
<1>8. StepsTo(t)
  BY <1>6 DEF StepsTo, Commit
<1>9. /\ ruling = "FreelancerWins" => rep'.Attestations = rep.Attestations \cup {<<f, p>>}
      /\ ruling # "FreelancerWins" => rep'.Attestations = rep.Attestations
  BY <1>7 DEF Enforces, Closes, Calm, Commit, Chain
<1>10. projects[p] # None /\ StageOf(projects[p], p, rep.Attestations) \in {"Contested"}
  <2>1. pr # None
    BY <1>3, ProjAssumption
  <2> QED BY <1>3, <2>1, StageIs
<1>11. \A q \in ProjectIds \ {p} : \A a : <<a, q>> \in rep'.Attestations <=> <<a, q>> \in rep.Attestations
  BY <1>9
<1>12. TheDeals[p].client = c /\ TheDeals[p].freelancer = f /\ TheDeals[p].budget = v
  <2> DEFINE st   == StageOf(pr, p, rep.Attestations)
             deal == TheDeals[p]
  <2>1. deal = [stage |-> st, client |-> c, freelancer |-> f, budget |-> v]
    BY <1>1, <1>10, DealNow
  <2> HIDE DEF st, deal, c, f, v
  <2>2. deal.client = c /\ deal.freelancer = f /\ deal.budget = v
    BY <2>1
  <2> QED BY <2>2 DEF deal
<1>13. SumFunctionOnSet(ThePurses', Accounts) <= SumFunctionOnSet(ThePurses, Accounts)
  <2>1. TotalIssuance(ledger) = SumFunctionOnSet(ThePurses, Accounts)
    BY DEF TotalIssuance, ThePurses
  <2>2. TotalIssuance(ledger') = SumFunctionOnSet(ThePurses', Accounts)
    BY DEF TotalIssuance, ThePurses
  <2>3. TotalIssuance(t.ledger) <= TotalIssuance(Chain.ledger)
    BY <1>6, Zenon DEF Enforced, NoneMade
  <2>4. t.ledger = ledger' /\ Chain.ledger = ledger
    BY <1>8 DEF StepsTo, Chain
  <2> QED BY <2>1, <2>2, <2>3, <2>4, Zenon
<1>14. \A b \in Accounts : /\ ThePurses[b] = Owns(Chain, b) /\ ThePurses'[b] = Owns(t, b)
                           /\ Owns(Chain, b) \in Int /\ Owns(t, b) \in Int
  <2>1. Chain \in ChainState
    BY <1>1, ChainType DEF RuntimeInv
  <2> QED BY <1>6, <1>8, <2>1, PursesAreOwned, OwnsType
<1>15. /\ Losses(bonds, winner, loser) \in Nat /\ CostsOwed(cost, Slashed(bonds, winner)) \in Nat
       /\ Losses(bonds, winner, loser) + CostsOwed(cost, Slashed(bonds, winner)) <= Share(v, 75)
       /\ \A b : b # loser => Losses(bonds, winner, b) = 0
       /\ Share(v, 75) \in Nat
  <2>1. {winner, loser} = {c, f}
    BY <1>3 DEF Winner, Loser, Client, Freelancer
  <2>2. \A r \in Rounds : bonds[r] # None => bonds[r].appellant \in {winner, loser} /\ bonds[r].amount = BondIn(v, r)
    BY <1>3, <2>1
  <2>3. Share(v, 75) \in Nat
    BY <1>3, Shares
  <2> HIDE DEF winner, loser, bonds, cost, v
  <2> QED BY <1>3, <2>2, <2>3, PenaltyBounded
<1>16. loser \in {c, f} /\ loser \in Accounts /\ loser # PalletAccount
  BY <1>3 DEF Loser, Client, Freelancer
<1>17. /\ \A b \in Accounts \ {loser, PalletAccount} : ThePurses'[b] >= Awarded(p, ruling, b)
       /\ ThePurses'[loser] >= Awarded(p, ruling, loser) - Share(v, 75) - (ExistentialDeposit - 1)
       /\ \A b \in Accounts : Awarded(p, ruling, b) \in Int
  <2>1. \A b \in Accounts : Awarded(p, ruling, b) \in Int
    BY <1>3, <1>14 DEF Awarded, Paying
  <2>2. ASSUME NEW b \in Accounts \ {loser, PalletAccount}
        PROVE  ThePurses'[b] >= Awarded(p, ruling, b)
    <3>1. Owns(t, b) >= Awarded(p, ruling, b) - Losses(bonds, winner, b)
      BY <1>6 DEF Enforced
    <3>2. Losses(bonds, winner, b) = 0
      BY <1>15
    <3> HIDE DEF bonds, winner, loser, ruling
    <3> QED BY <1>14, <2>1, <3>1, <3>2
  <2>3. Owns(t, loser) >= Awarded(p, ruling, loser) - Losses(bonds, winner, loser)
                               - CostsOwed(cost, Slashed(bonds, winner)) - (ExistentialDeposit - 1)
    BY <1>6, <1>16 DEF Enforced
  <2>4. ExistentialDeposit \in Nat
    BY BalancesAssumption
  <2> HIDE DEF bonds, winner, loser, ruling, cost, v
  <2>5. /\ ThePurses'[loser] = Owns(t, loser) /\ Owns(t, loser) \in Int /\ Awarded(p, ruling, loser) \in Int
    BY <1>14, <1>16, <2>1
  <2> DEFINE o == Owns(t, loser)
             w == Awarded(p, ruling, loser)
             l == Losses(bonds, winner, loser)
             k == CostsOwed(cost, Slashed(bonds, winner))
             m == Share(v, 75)
  <2>6. o >= w - l - k - (ExistentialDeposit - 1) /\ l + k <= m /\ l \in Nat /\ k \in Nat /\ m \in Nat
        /\ o \in Int /\ w \in Int
    BY <1>15, <2>3, <2>5
  <2> HIDE DEF o, w, l, k, m
  <2>7. o >= w - m - (ExistentialDeposit - 1)
    BY <2>4, <2>6
  <2>8. ThePurses'[loser] >= Awarded(p, ruling, loser) - Share(v, 75) - (ExistentialDeposit - 1)
    BY <2>5, <2>7, Zenon DEF o, w, m
  <2> QED BY <2>1, <2>2, <2>8
<1>18. CASE ruling = "FreelancerWins"
  <2>1. loser = c
    BY <1>18 DEF Loser, Client
  <2>2. "Paid" = StageOf(new, p, rep'.Attestations)
    <3> HIDE DEF new
    <3>1. <<new.freelancer, p>> \in rep'.Attestations
      BY <1>4, <1>9, <1>18
    <3> QED BY <1>4, <3>1, StageIs
  <2> DEFINE base == [a \in Accounts |-> ThePurses[a]
                        - (IF a = TheDeals[p].client THEN TheDeals[p].budget ELSE 0)
                        + (IF a = TheDeals[p].freelancer THEN TheDeals[p].budget ELSE 0)]
  <2>3. \A b \in Accounts : base[b] = Awarded(p, ruling, b)
    <3>1. ASSUME NEW b \in Accounts
          PROVE  base[b] = Awarded(p, ruling, b)
      <4>1. Awarded(p, ruling, b) = Owns(Chain, b) - (IF b = c THEN v ELSE 0) + (IF b = f THEN v ELSE 0)
        BY <1>18 DEF Awarded, Paying
      <4>2. base[b] = ThePurses[b] - (IF b = TheDeals[p].client THEN TheDeals[p].budget ELSE 0)
                        + (IF b = TheDeals[p].freelancer THEN TheDeals[p].budget ELSE 0)
        OBVIOUS
      <4> QED BY <1>12, <1>14, <4>1, <4>2, Zenon
    <3> QED BY <3>1
  <2> HIDE DEF new
  <2>4. EntersDeal(p, {"Contested"}, "Paid")
    BY <1>1, <1>2, <1>4, <1>10, <1>11, <2>2, DealEnters
  <2> HIDE DEF base, loser
  <2>5. /\ \A a \in Accounts \ {TheDeals[p].client, PalletAccount} : ThePurses'[a] >= base[a]
        /\ ThePurses'[TheDeals[p].client] >= base[TheDeals[p].client] - Share(TheDeals[p].budget, 75)
                                               - (ExistentialDeposit - 1)
    <3>1. \A a \in Accounts \ {c, PalletAccount} : ThePurses'[a] >= base[a]
      BY <1>17, <2>1, <2>3
    <3>2. ThePurses'[c] >= base[c] - Share(v, 75) - (ExistentialDeposit - 1)
      <4>1. base[c] = Awarded(p, ruling, loser)
        BY <1>16, <2>1, <2>3
      <4> QED BY <1>17, <2>1, <4>1, Zenon
    <3> QED BY <1>12, <3>1, <3>2, Zenon
  <2>6. Decides(p, "Paid", TheDeals[p].client, base)
    BY <1>13, <2>4, <2>5, Zenon DEF Decides
  <2> QED BY <2>6, DecideIs DEF base
<1>19. CASE ruling # "FreelancerWins"
  <2>1. loser = f
    BY <1>3, <1>19 DEF Loser, Freelancer
  <2>2. "Withheld" = StageOf(new, p, rep'.Attestations)
    <3> HIDE DEF new
    <3>1. <<new.freelancer, p>> \notin rep'.Attestations
      BY <1>3, <1>4, <1>9, <1>19
    <3> QED BY <1>4, <3>1, StageIs
  <2>3. \A b \in Accounts : ThePurses[b] = Awarded(p, ruling, b)
    BY <1>14, <1>19 DEF Awarded
  <2> HIDE DEF new
  <2>4. EntersDeal(p, {"Contested"}, "Withheld")
    BY <1>1, <1>2, <1>4, <1>10, <1>11, <2>2, DealEnters
  <2> HIDE DEF loser
  <2>5. /\ \A a \in Accounts \ {TheDeals[p].freelancer, PalletAccount} : ThePurses'[a] >= ThePurses[a]
        /\ ThePurses'[TheDeals[p].freelancer] >= ThePurses[TheDeals[p].freelancer]
                          - Share(TheDeals[p].budget, 75) - (ExistentialDeposit - 1)
    <3>1. \A a \in Accounts \ {f, PalletAccount} : ThePurses'[a] >= ThePurses[a]
      BY <1>17, <2>1, <2>3
    <3>2. ThePurses'[f] >= ThePurses[f] - Share(v, 75) - (ExistentialDeposit - 1)
      <4>1. ThePurses[f] = Awarded(p, ruling, loser)
        BY <1>16, <2>1, <2>3
      <4> QED BY <1>17, <2>1, <4>1, Zenon
    <3> QED BY <1>12, <3>1, <3>2, Zenon
  <2>6. Decides(p, "Withheld", TheDeals[p].freelancer, ThePurses)
    BY <1>13, <2>4, <2>5, Zenon DEF Decides
  <2> QED BY <2>6, DecideIs
<1> QED BY <1>18, <1>19

\* What Escrow sees of a step that pays nobody and rewrites no project.
EscrowStill == TheDeals' = TheDeals /\ ThePurses' = ThePurses

\* Every step of the runtime is a step of Escrow or leaves what it shows alone.
LEMMA EscrowSteps ==
  ASSUME PromiseInv, [ArbNext]_vars
  PROVE  Promise!EscrowNext \/ EscrowStill
<1>1. TypesInv /\ MatchInv /\ RuntimeInv
  BY DEF PromiseInv, EscrowInv, TypesInv
<1>2. ASSUME ledger' = ledger, rep' = rep, projects' = projects
      PROVE  EscrowStill
  BY <1>2, NoDealMoves DEF EscrowStill, ThePurses
<1>3. ASSUME NEW t, Commit(t), NEW locks, Quiet(Chain, t, locks), projects' = projects
      PROVE  EscrowStill
  BY <1>1, <1>3, QuietPurses, NoDealMoves DEF EscrowStill
<1>4. ASSUME NEW c \in Clients, ClientStep(c)
      PROVE  Promise!EscrowNext \/ EscrowStill
  <2>1. ASSUME NEW b \in Budgets, NEW d \in Durations, CreateProject(c, b, d)
        PROVE  Promise!EscrowNext
    <3>1. PICK p \in ProjectIds : Promise!Offer(p)
      BY <1>1, <2>1, CreateIsOffer
    <3> QED BY <3>1 DEF Promise!EscrowNext
  <2>2. ASSUME NEW p \in ProjectIds, NEW f \in Freelancers, StartWork(c, p, f)
        PROVE  Promise!EscrowNext
    <3>1. Promise!Agree(p)
      BY <1>1, <2>2, StartIsAgree
    <3> QED BY <3>1 DEF Promise!EscrowNext
  <2>3. ASSUME NEW p \in ProjectIds, NEW r \in StarRatings, AcceptWork(c, p, r)
        PROVE  Promise!EscrowNext
    <3>1. r \in Nat
      BY <2>3 DEF AcceptWork
    <3>2. Promise!Pay(p)
      BY <1>1, <2>3, <3>1, AcceptIsPay
    <3> QED BY <3>2 DEF Promise!EscrowNext
  <2>4. ASSUME NEW p \in ProjectIds, RejectWork(c, p)
        PROVE  EscrowStill
    BY <1>1, <2>4, ReviewIsDelivered DEF EscrowStill
  <2>5. ASSUME NEW p \in ProjectIds, CancelProject(c, p)
        PROVE  Promise!EscrowNext
    <3>1. Promise!Withdraw(p)
      BY <1>1, <2>5, CancelIsWithdraw
    <3> QED BY <3>1 DEF Promise!EscrowNext
  <2> QED BY <1>4, <2>1, <2>2, <2>3, <2>4, <2>5 DEF ClientStep
<1>5. ASSUME NEW f \in Freelancers, FreelancerStep(f)
      PROVE  Promise!EscrowNext \/ EscrowStill
  <2>1. ASSUME NEW p \in ProjectIds, ApplyForProject(f, p)
        PROVE  EscrowStill
    BY <1>2, <2>1 DEF ApplyForProject
  <2>2. ASSUME NEW p \in ProjectIds, SubmitWork(f, p)
        PROVE  Promise!EscrowNext
    <3>1. Promise!Deliver(p)
      BY <1>1, <2>2, ReviewIsDelivered
    <3> QED BY <3>1 DEF Promise!EscrowNext
  <2> QED BY <1>5, <2>1, <2>2 DEF FreelancerStep
<1>6. ASSUME NEW a \in Stakers, StakerStep(a)
      PROVE  EscrowStill
  <2>1. a \in Accounts /\ projects' = projects
    BY <1>6, ProjAssumption DEF StakerStep, projVars
  <2>2. PICK t : Commit(t) /\ Quiet(Chain, t, ledger.locks)
    BY <1>1, <1>6, <2>1, RegisterUserEffect, JurorJoinsEffect, JurorLeavesEffect DEF StakerStep
  <2> QED BY <1>3, <2>1, <2>2
<1>7. ASSUME NEW p \in ProjectIds, DisputeStep(p)
      PROVE  Promise!EscrowNext \/ EscrowStill
  <2>1. ASSUME NEW f \in Freelancers, CreateDispute(f, p)
        PROVE  Promise!EscrowNext
    <3>1. Promise!Contest(p)
      BY <1>1, <2>1, DisputeIsContest
    <3> QED BY <3>1 DEF Promise!EscrowNext
  <2>2. ASSUME NEW j, NEW v, CastVote(j, p, v) \/ OracleRules(p)
        PROVE  EscrowStill
    <3>1. ledger' = ledger /\ rep' = rep /\ projects' = projects
      BY <2>2 DEF CastVote, OracleRules, SubmitRuling, repVars, projVars
    <3> QED BY <1>2, <3>1
  <2>3. ASSUME NEW a \in Clients \cup Freelancers, AppealRuling(a, p)
        PROVE  EscrowStill
    <3>1. PICK t : Commit(t) /\ Quiet(Chain, t, ledger.locks)
      BY <1>1, <2>3, DisputeBonds
    <3>2. projects' = projects
      BY <2>3 DEF AppealRuling, projVars
    <3> QED BY <1>3, <3>1, <3>2
  <2>4. ASSUME FinalizeRound(p)
        PROVE  EscrowStill
    <3>1. disputes[p] # None /\ Commit(RecordVotes(disputes[p].votes)) /\ projects' = projects
      BY <2>4 DEF FinalizeRound, projVars
    <3>2. DOMAIN disputes[p].votes \in SUBSET Accounts
      BY <1>1, <3>1, DisputeFound
    <3>3. Quiet(Chain, RecordVotes(disputes[p].votes), ledger.locks)
      BY <1>1, <3>2, FinalizeEffect
    <3> QED BY <1>3, <3>1, <3>3
  <2>5. ASSUME EnforceFinalRuling(p)
        PROVE  Promise!EscrowNext
    <3>1. Promise!Decide(p, "Paid") \/ Promise!Decide(p, "Withheld")
      BY <2>5, EnforceIsDecide
    <3> QED BY <3>1 DEF Promise!EscrowNext
  <2> QED BY <1>7, <2>1, <2>2, <2>3, <2>4, <2>5 DEF DisputeStep
<1>8. CASE NextBlock \/ UNCHANGED vars
  <2>1. ledger' = ledger /\ rep' = rep /\ projects' = projects
    BY <1>8 DEF NextBlock, Tick, vars, repVars, projVars
  <2> QED BY <1>2, <2>1
<1>9. CASE ProjStep
  BY <1>4, <1>5, <1>6, <1>9 DEF ProjStep
<1> QED BY <1>7, <1>8, <1>9 DEF ArbNext

\* The runtime implements Escrow, whatever the budgets, the stakes, the juries and
\* the appeals: a project is settled once, by its client or by enforce_final_ruling;
\* accept_work moves exactly the budget; an enforced ruling costs the winner and
\* everybody else nothing, the loser at most its bonds and what dust its account is
\* closed with, and makes no money; no other call changes what an account owns.
THEOREM EscrowImplemented == ArbSpec => EscrowKept
<1>1. ArbInit => Promise!EscrowInit
  <2> SUFFICES ASSUME ArbInit
               PROVE  Promise!EscrowInit
    OBVIOUS
  <2>1. ledger.free \in [Accounts -> Nat] /\ ledger.reserved \in [Accounts -> Nat]
    <3>1. RuntimeInv
      BY TypesInitially DEF TypesInv
    <3>2. ledger \in Ledger
      BY <3>1, ChainType DEF RuntimeInv, Chain
    <3> QED BY <3>2 DEF Ledger
  <2>2. ThePurses \in [Accounts -> Nat]
    BY <2>1 DEF ThePurses
  <2>3. projects = [p \in ProjectIds |-> None]
    BY DEF ArbInit, ProjInit
  <2>4. TheDeals = [p \in ProjectIds |-> None]
    BY <2>3 DEF TheDeals, DealOf
  <2> QED BY <2>2, <2>4 DEF Promise!EscrowInit, TheDeals, ThePurses
<1>2. PromiseInv /\ [ArbNext]_vars
        => [Promise!EscrowNext]_(<<[p \in ProjectIds |-> DealOf(p)],
                                   [a \in Accounts |-> ledger.free[a] + ledger.reserved[a]]>>)
  BY EscrowSteps DEF EscrowStill, TheDeals, ThePurses
<1> QED BY <1>1, <1>2, PromiseInvariant, PTL
        DEF ArbSpec, EscrowKept, Promise!EscrowSpec, Promise!escrowVars

===============================================================================
