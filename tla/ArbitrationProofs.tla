-------------------------- MODULE ArbitrationProofs --------------------------
(***************************************************************************)
(* Proofs about the composed runtime, for all parameters:                  *)
(*   - the projects and the arbitration pallets agree on what is in        *)
(*     dispute (PalletsAgree),                                             *)
(*   - the stages of a project are followed (StagesCohere),                *)
(*   - a closed project stays closed (SettledOnce),                        *)
(*   - votes stand (VotesStandAlways),                                     *)
(*   - appeals and enforcements keep their time (AppealsInTime),           *)
(*   - the runtime implements Docket (DocketImplemented).                  *)
(* The arguments are about control only.  They hold whatever the calls to  *)
(* the reputation pallet and to the currency return, as long as an error   *)
(* rolls the call back, so they need no types of their storage.            *)
(***************************************************************************)
EXTENDS RulingRecord, TLAPS

\* The types of the storage of the two pallets, as far as control goes.
ControlTypeOK ==
    /\ projects \in [ProjectIds -> Project \cup {None}]
    /\ NextProjectId \in 0..MaxProjects
    /\ ProjectApplicants \in [ProjectIds -> SUBSET Accounts]
    /\ block \in Nat
    /\ disputes \in [ProjectIds -> Dispute \cup {None}]

\* Identifiers are given out in order.
UnusedIds == \A p \in ProjectIds : p >= NextProjectId => projects[p] = None

\* The inductive invariant.  A new project must not meet an old dispute: there is
\* none without a project, which is what UnusedIds adds.
MatchInv == ControlTypeOK /\ UnusedIds /\ DisputesMatchProjects

\* Where the two pallets stand on one project.
Matched(project, dispute) ==
    /\ (dispute # None /\ dispute.status # "Finalized")
         <=> (project # None /\ project.status = "InDispute")
    /\ (dispute # None /\ dispute.status = "Finalized")
         => project # None /\ project.status = "Completed"

\* DisputesMatchProjects says so of every project.
LEMMA MatchedEverywhere ==
  DisputesMatchProjects <=> \A p \in ProjectIds : Matched(projects[p], disputes[p])
  BY DEF DisputesMatchProjects, OpenDispute, InStatus, Matched

\* A project is rewritten without touching its dispute.
LEMMA ProjectRewritten ==
  ASSUME MatchInv, NEW p \in ProjectIds, NEW new \in Project, NEW s,
         projects[p] # None,
         projects[p].status \notin {"InDispute", "Completed"},
         new.status # "InDispute",
         UpdateProject(p, new, s),
         ProjectApplicants' \in [ProjectIds -> SUBSET Accounts],
         disputes' = disputes
  PROVE  MatchInv'
<1>1. /\ projects' = [projects EXCEPT ![p] = new]
      /\ NextProjectId' = NextProjectId /\ block' = block
  BY DEF UpdateProject
<1>2. ControlTypeOK'
  BY <1>1 DEF MatchInv, ControlTypeOK
<1>3. UnusedIds'
  BY <1>1 DEF MatchInv, ControlTypeOK, UnusedIds
<1>4. ASSUME NEW q \in ProjectIds
      PROVE  Matched(projects'[q], disputes'[q])
  <2>1. Matched(projects[q], disputes[q])
    BY MatchedEverywhere DEF MatchInv
  <2>2. CASE q # p
    <3>1. projects'[q] = projects[q]
      BY <1>1, <2>2 DEF MatchInv, ControlTypeOK
    <3> QED BY <2>1, <3>1
  <2>3. CASE q = p
    <3>1. projects'[q] = new /\ new # None
      BY <1>1, <2>3, ProjAssumption DEF MatchInv, ControlTypeOK
    <3> QED BY <2>1, <2>3, <3>1 DEF Matched
  <2> QED BY <2>2, <2>3
<1> QED BY <1>2, <1>3, <1>4 DEF MatchInv, DisputesMatchProjects, OpenDispute, InStatus, Matched

\* create_project keeps the invariant: its identifier is fresh.
LEMMA CreateProjectMatches ==
  ASSUME MatchInv, NEW c \in Accounts, NEW b \in Nat, NEW d \in Nat,
         CreateProject(c, b, d), disputes' = disputes
  PROVE  MatchInv'
<1> DEFINE p == NextProjectId
           new == [client |-> c, freelancer |-> None, budget |-> b,
                   status |-> "Created", duration |-> d, submission_block |-> None,
                   work |-> FALSE, dispute_info |-> None]
<1>1. /\ projects' = [projects EXCEPT ![p] = new] /\ NextProjectId' = p + 1
      /\ ProjectApplicants' = ProjectApplicants /\ block' = block /\ p < MaxProjects
  BY DEF CreateProject
<1>2. new \in Project /\ new.status = "Created"
  BY DEF Project, ProjectStatus
<1>3. p \in ProjectIds /\ p \in Nat /\ projects[p] = None
  BY <1>1, ProjAssumption DEF MatchInv, ControlTypeOK, UnusedIds
<1> HIDE DEF new
<1>4. ControlTypeOK'
  BY <1>1, <1>2, <1>3, ProjAssumption DEF MatchInv, ControlTypeOK
<1>5. UnusedIds'
  BY <1>1, <1>3, ProjAssumption DEF MatchInv, ControlTypeOK, UnusedIds
<1>6. ASSUME NEW q \in ProjectIds
      PROVE  Matched(projects'[q], disputes'[q])
  <2>1. Matched(projects[q], disputes[q])
    BY MatchedEverywhere DEF MatchInv
  <2>2. CASE q # p
    <3>1. projects'[q] = projects[q]
      BY <1>1, <2>2 DEF MatchInv, ControlTypeOK
    <3> QED BY <2>1, <3>1
  <2>3. CASE q = p
    <3>1. projects'[q] = new /\ new # None
      BY <1>1, <1>2, <2>3, ProjAssumption DEF MatchInv, ControlTypeOK
    <3> QED BY <1>2, <1>3, <2>1, <2>3, <3>1 DEF Matched
  <2> QED BY <2>2, <2>3
<1> QED BY <1>4, <1>5, <1>6 DEF MatchInv, DisputesMatchProjects, OpenDispute, InStatus, Matched

\* The steps of a client keep the invariant.
LEMMA ClientStepMatches ==
  ASSUME MatchInv, NEW c \in Clients, ClientStep(c), disputes' = disputes
  PROVE  MatchInv'
<1> USE DEF MatchInv, ControlTypeOK
<1>1. ASSUME NEW b \in Budgets, NEW d \in Durations, CreateProject(c, b, d)
      PROVE  MatchInv'
  <2>1. c \in Accounts /\ b \in Nat /\ d \in Nat
    BY ProjAssumption
  <2> HIDE DEF MatchInv, ControlTypeOK
  <2> QED BY <1>1, <2>1, CreateProjectMatches
<1>2. ASSUME NEW p \in ProjectIds, NEW f \in Freelancers, StartWork(c, p, f)
      PROVE  MatchInv'
  <2> DEFINE new == [projects[p] EXCEPT !.freelancer = f, !.status = "InProgress",
                                        !.submission_block = block + projects[p].duration]
  <2>1. projects[p] \in Project /\ projects[p] # None /\ projects[p].status = "Created"
    BY <1>2 DEF StartWork
  <2>2. f \in Accounts /\ block + projects[p].duration \in Nat
    BY <2>1, ProjAssumption DEF Project
  <2>3. new \in Project /\ new.status = "InProgress"
    BY <2>1, <2>2 DEF Project, ProjectStatus
  <2>4. UpdateProject(p, new, Chain) /\ ProjectApplicants' = [ProjectApplicants EXCEPT ![p] = {}]
    BY <1>2 DEF StartWork
  <2>5. ProjectApplicants' \in [ProjectIds -> SUBSET Accounts]
    BY <2>4
  <2> HIDE DEF MatchInv, ControlTypeOK, new
  <2> QED BY <2>1, <2>3, <2>4, <2>5, ProjectRewritten
<1>3. ASSUME NEW p \in ProjectIds, NEW r \in StarRatings, AcceptWork(c, p, r)
      PROVE  MatchInv'
  <2> DEFINE new == Settled(p)
  <2>1. projects[p] \in Project /\ projects[p] # None /\ projects[p].status = "InReview"
    BY <1>3 DEF AcceptWork
  <2>2. new \in Project /\ new.status = "Completed"
    BY <2>1 DEF Project, ProjectStatus, Settled
  <2>3. UpdateProject(p, new, Accepted(c, p, r)) /\ ProjectApplicants' = ProjectApplicants
    BY <1>3 DEF AcceptWork
  <2>4. ProjectApplicants' \in [ProjectIds -> SUBSET Accounts]
    BY <2>3
  <2> HIDE DEF MatchInv, ControlTypeOK, new
  <2> QED BY <2>1, <2>2, <2>3, <2>4, ProjectRewritten
<1>4. ASSUME NEW p \in ProjectIds, RejectWork(c, p)
      PROVE  MatchInv'
  <2> DEFINE new == Rejected(p)
             n == IF projects[p].dispute_info = None THEN 0 ELSE projects[p].dispute_info + 1
  <2>1. projects[p] \in Project /\ projects[p] # None /\ projects[p].status = "InReview"
    BY <1>4 DEF RejectWork
  <2>2. n \in Nat
    BY <2>1 DEF Project
  <2>3. new = [projects[p] EXCEPT !.status = "Rejected", !.dispute_info = n]
    BY DEF Rejected
  <2>4. UpdateProject(p, new, Chain) /\ ProjectApplicants' = ProjectApplicants
    BY <1>4 DEF RejectWork
  <2> HIDE DEF n, new
  <2>5. new \in Project /\ new.status = "Rejected"
    BY <2>1, <2>2, <2>3 DEF Project, ProjectStatus
  <2>6. ProjectApplicants' \in [ProjectIds -> SUBSET Accounts]
    BY <2>4
  <2> HIDE DEF MatchInv, ControlTypeOK
  <2> QED BY <2>1, <2>4, <2>5, <2>6, ProjectRewritten
<1>5. ASSUME NEW p \in ProjectIds, CancelProject(c, p)
      PROVE  MatchInv'
  <2> DEFINE new == [projects[p] EXCEPT !.status = "Cancelled"]
  <2>1. /\ projects[p] \in Project /\ projects[p] # None
        /\ projects[p].status \in {"Created", "InProgress"}
    BY <1>5 DEF CancelProject, MayCancel
  <2>2. new \in Project /\ new.status = "Cancelled"
    BY <2>1 DEF Project, ProjectStatus
  <2>3. UpdateProject(p, new, Cancelled(c, p)) /\ ProjectApplicants' = ProjectApplicants
    BY <1>5 DEF CancelProject
  <2>4. ProjectApplicants' \in [ProjectIds -> SUBSET Accounts]
    BY <2>3
  <2> HIDE DEF MatchInv, ControlTypeOK, new
  <2> QED BY <2>1, <2>2, <2>3, <2>4, ProjectRewritten
<1> HIDE DEF MatchInv, ControlTypeOK
<1> QED BY <1>1, <1>2, <1>3, <1>4, <1>5 DEF ClientStep

\* The steps of a freelancer keep the invariant.
LEMMA FreelancerStepMatches ==
  ASSUME MatchInv, NEW f \in Freelancers, FreelancerStep(f), disputes' = disputes
  PROVE  MatchInv'
<1> USE DEF MatchInv, ControlTypeOK
<1>1. ASSUME NEW p \in ProjectIds, ApplyForProject(f, p)
      PROVE  MatchInv'
  <2>1. /\ ProjectApplicants' = [ProjectApplicants EXCEPT ![p] = @ \cup {f}]
        /\ UNCHANGED <<projects, NextProjectId, block>> /\ f \in Accounts
    BY <1>1, ProjAssumption DEF ApplyForProject
  <2>2. ControlTypeOK'
    BY <2>1
  <2> QED BY <2>1, <2>2 DEF UnusedIds, DisputesMatchProjects, OpenDispute, InStatus
<1>2. ASSUME NEW p \in ProjectIds, SubmitWork(f, p)
      PROVE  MatchInv'
  <2> DEFINE new == [projects[p] EXCEPT !.work = TRUE, !.status = "InReview"]
  <2>1. projects[p] \in Project /\ projects[p] # None /\ projects[p].status = "InProgress"
    BY <1>2 DEF SubmitWork
  <2>2. new \in Project /\ new.status = "InReview"
    BY <2>1 DEF Project, ProjectStatus
  <2>3. UpdateProject(p, new, Chain) /\ ProjectApplicants' = ProjectApplicants
    BY <1>2 DEF SubmitWork
  <2>4. ProjectApplicants' \in [ProjectIds -> SUBSET Accounts]
    BY <2>3
  <2> HIDE DEF MatchInv, ControlTypeOK, new
  <2> QED BY <2>1, <2>2, <2>3, <2>4, ProjectRewritten
<1> HIDE DEF MatchInv, ControlTypeOK
<1> QED BY <1>1, <1>2 DEF FreelancerStep

\* The steps that leave both pallets alone keep the invariant.
LEMMA OthersMatch ==
  ASSUME MatchInv, block' \in Nat,
         UNCHANGED <<projects, NextProjectId, ProjectApplicants, disputes>>
  PROVE  MatchInv'
  BY DEF MatchInv, ControlTypeOK, UnusedIds, DisputesMatchProjects, OpenDispute, InStatus

\* A dispute is rewritten within its stages and the project is not touched.
LEMMA DisputeRewritten ==
  ASSUME MatchInv, NEW p \in ProjectIds, NEW new \in Dispute,
         OpenDispute(p), new.status # "Finalized",
         disputes' = [disputes EXCEPT ![p] = new],
         UNCHANGED projVars
  PROVE  MatchInv'
<1>1. UNCHANGED <<projects, NextProjectId, ProjectApplicants, block>>
  BY DEF projVars
<1>2. ControlTypeOK'
  BY <1>1 DEF MatchInv, ControlTypeOK
<1>3. UnusedIds'
  BY <1>1 DEF MatchInv, UnusedIds
<1>4. ASSUME NEW q \in ProjectIds
      PROVE  Matched(projects'[q], disputes'[q])
  <2>1. Matched(projects[q], disputes[q])
    BY MatchedEverywhere DEF MatchInv
  <2>2. CASE q # p
    <3>1. disputes'[q] = disputes[q]
      BY <2>2 DEF MatchInv, ControlTypeOK
    <3> QED BY <1>1, <2>1, <3>1
  <2>3. CASE q = p
    <3>1. disputes'[q] = new /\ new # None
      BY <2>3, DisputeAssumption DEF MatchInv, ControlTypeOK
    <3> QED BY <1>1, <2>1, <2>3, <3>1 DEF Matched, OpenDispute
  <2> QED BY <2>2, <2>3
<1> QED BY <1>2, <1>3, <1>4 DEF MatchInv, DisputesMatchProjects, OpenDispute, InStatus, Matched

\* The project and its dispute change together.
LEMMA BothRewritten ==
  ASSUME MatchInv, NEW p \in ProjectIds, NEW project \in Project, NEW dispute \in Dispute,
         NEW s, projects[p] # None, Matched(project, dispute),
         UpdateProject(p, project, s),
         disputes' = [disputes EXCEPT ![p] = dispute],
         ProjectApplicants' = ProjectApplicants
  PROVE  MatchInv'
<1>1. /\ projects' = [projects EXCEPT ![p] = project]
      /\ NextProjectId' = NextProjectId /\ block' = block
  BY DEF UpdateProject
<1>2. ControlTypeOK'
  BY <1>1 DEF MatchInv, ControlTypeOK
<1>3. UnusedIds'
  BY <1>1 DEF MatchInv, ControlTypeOK, UnusedIds
<1>4. ASSUME NEW q \in ProjectIds
      PROVE  Matched(projects'[q], disputes'[q])
  <2>1. Matched(projects[q], disputes[q])
    BY MatchedEverywhere DEF MatchInv
  <2>2. CASE q # p
    <3>1. projects'[q] = projects[q] /\ disputes'[q] = disputes[q]
      BY <1>1, <2>2 DEF MatchInv, ControlTypeOK
    <3> QED BY <2>1, <3>1
  <2>3. CASE q = p
    BY <1>1, <2>3 DEF MatchInv, ControlTypeOK
  <2> QED BY <2>2, <2>3
<1> QED BY <1>2, <1>3, <1>4 DEF MatchInv, DisputesMatchProjects, OpenDispute, InStatus, Matched

-------------------------------------------------------------------------------
(* The steps of a dispute *)

\* A pool adds accounts to the jurors chosen so far.
LEMMA PoolAddsAccounts ==
  ASSUME NEW s, NEW sel, NEW tier, NEW exclude, NEW count,
         sel.jurors \subseteq Accounts
  PROVE  SelectFromPool(s, sel, tier, exclude, count).jurors \subseteq Accounts
<1> DEFINE pool == s.rep.Jurors[tier]
           n == Len(pool)
           round == [i \in 1..n |-> pool[((sel.next[tier] + i - 1) % n) + 1]]
           Taken(k) == sel.jurors \cup {a \in Accounts \ exclude : \E i \in 1..k : round[i] = a}
           stops == {k \in 0..n : Cardinality(Taken(k)) = count} \cup {n}
           attempts == CHOOSE k \in stops : \A j \in stops : k <= j
           next == [sel.next EXCEPT ![tier] = (@ + attempts) % n]
           stay == Cardinality(sel.jurors) >= count \/ n = 0
<1>1. SelectFromPool(s, sel, tier, exclude, count) =
         IF stay THEN sel ELSE [jurors |-> Taken(attempts), next |-> next]
  BY DEF SelectFromPool
<1>2. \A k : Taken(k) \subseteq Accounts
  OBVIOUS
<1> HIDE DEF Taken, attempts, next, stay
<1>3. [jurors |-> Taken(attempts), next |-> next].jurors = Taken(attempts)
  OBVIOUS
<1> QED BY <1>1, <1>2, <1>3

\* The jurors chosen are accounts.
LEMMA JurorsAreAccounts ==
  ASSUME NEW s, NEW minTier, NEW exclude, NEW count
  PROVE  GetEligibleJurors(s, minTier, exclude, count).jurors \subseteq Accounts
<1> DEFINE Pool(sel, tier) == IF minTier <= tier
                              THEN SelectFromPool(s, sel, tier, exclude, count)
                              ELSE sel
           none == [jurors |-> {}, next |-> s.rep.NextJurorIndex]
<1>1. none.jurors \subseteq Accounts
  OBVIOUS
<1>2. \A sel, tier : sel.jurors \subseteq Accounts => Pool(sel, tier).jurors \subseteq Accounts
  BY PoolAddsAccounts
<1>3. GetEligibleJurors(s, minTier, exclude, count) = Pool(Pool(Pool(none, Gold), Silver), Bronze)
  BY DEF GetEligibleJurors
<1> HIDE DEF Pool, none
<1> QED BY <1>1, <1>2, <1>3

\* create_dispute opens the dispute and marks the project in one call.
LEMMA CreateDisputeMatches ==
  ASSUME MatchInv, NEW p \in ProjectIds, NEW who, CreateDispute(who, p)
  PROVE  MatchInv'
<1> DEFINE d == [status |-> "AiProcessing", start_block |-> block, ruling |-> None,
                 round |-> 1, jurors |-> NoOne, votes |-> NoOne]
           pr == InDispute(p)
<1>1. /\ projects[p] # None
      /\ \E s : UpdateProject(p, pr, s)
      /\ disputes' = [disputes EXCEPT ![p] = d] /\ ProjectApplicants' = ProjectApplicants
  BY DEF CreateDispute, HasParties
<1>2. projects[p] \in Project /\ block \in Nat
  BY <1>1 DEF MatchInv, ControlTypeOK
<1>3. pr \in Project /\ pr.status = "InDispute"
  BY <1>2 DEF Project, ProjectStatus, InDispute
<1>4. NoOne \in [{} -> BOOLEAN] /\ NoOne \in [{} -> Votes]
  BY DEF NoOne
<1> HIDE DEF NoOne
<1>5. /\ NoOne \in UNION {[J -> BOOLEAN] : J \in SUBSET Accounts}
      /\ NoOne \in UNION {[J -> Votes] : J \in SUBSET Accounts}
  BY <1>4
<1>6. d \in Dispute /\ d.status = "AiProcessing"
  BY <1>2, <1>5 DEF Dispute, DisputeStatus, Rounds
<1>7. pr # None /\ d # None
  BY <1>3, <1>6, ProjAssumption, DisputeAssumption
<1> HIDE DEF d, pr
<1>8. Matched(pr, d)
  BY <1>3, <1>6, <1>7 DEF Matched
<1> QED BY <1>1, <1>3, <1>6, <1>8, BothRewritten

\* submit_ruling moves an open dispute on.
LEMMA SubmitRulingMatches ==
  ASSUME MatchInv, NEW p \in ProjectIds, NEW ruling \in Rulings, SubmitRuling(p, ruling)
  PROVE  MatchInv'
<1> DEFINE new == [disputes[p] EXCEPT !.ruling = ruling, !.status = "Appealable",
                                      !.start_block = block]
<1>1. /\ disputes[p] # None /\ disputes[p].status = "AiProcessing"
      /\ disputes' = [disputes EXCEPT ![p] = new] /\ UNCHANGED projVars
  BY DEF SubmitRuling, WithRuling
<1>2. disputes[p] \in Dispute /\ block \in Nat
  BY <1>1 DEF MatchInv, ControlTypeOK
<1>3. new \in Dispute /\ new.status = "Appealable"
  BY <1>2 DEF Dispute, DisputeStatus
<1>4. OpenDispute(p)
  BY <1>1 DEF OpenDispute
<1> HIDE DEF new
<1> QED BY <1>1, <1>3, <1>4, DisputeRewritten

\* appeal_ruling starts the next round of an open dispute.
LEMMA AppealRulingMatches ==
  ASSUME MatchInv, NEW p \in ProjectIds, NEW who, AppealRuling(who, p)
  PROVE  MatchInv'
<1> DEFINE round == disputes[p].round + 1
           jury == JuryOf(round)
           sel == GetEligibleJurors(Chain, jury.tier, {Client(p), Freelancer(p)}, jury.size)
           seats == [j \in sel.jurors |-> FALSE]
           new == [status |-> "Voting", start_block |-> block, ruling |-> None, round |-> round,
                   jurors |-> seats, votes |-> NoOne]
<1>1. /\ disputes[p] # None /\ disputes[p].status = "Appealable" /\ round <= 3
      /\ disputes' = [disputes EXCEPT ![p] = new] /\ UNCHANGED projVars
  BY DEF AppealRuling
<1>2. disputes[p] \in Dispute /\ block \in Nat
  BY <1>1 DEF MatchInv, ControlTypeOK
<1>3. round \in Rounds
  BY <1>1, <1>2 DEF Dispute, Rounds
<1>4. sel.jurors \subseteq Accounts
  BY JurorsAreAccounts
<1> HIDE DEF sel, round
<1>5. seats \in [sel.jurors -> BOOLEAN]
  OBVIOUS
<1>6. NoOne \in [{} -> Votes]
  BY DEF NoOne
<1> HIDE DEF seats, NoOne
<1>7. /\ seats \in UNION {[J -> BOOLEAN] : J \in SUBSET Accounts}
      /\ NoOne \in UNION {[J -> Votes] : J \in SUBSET Accounts}
  BY <1>4, <1>5, <1>6
<1>8. new \in Dispute /\ new.status = "Voting"
  BY <1>2, <1>3, <1>7 DEF Dispute, DisputeStatus
<1>9. OpenDispute(p)
  BY <1>1 DEF OpenDispute
<1> HIDE DEF new
<1> QED BY <1>1, <1>8, <1>9, DisputeRewritten

\* cast_vote adds a vote to an open dispute.
LEMMA CastVoteMatches ==
  ASSUME MatchInv, NEW p \in ProjectIds, NEW j \in Accounts, NEW v \in Votes, CastVote(j, p, v)
  PROVE  MatchInv'
<1> DEFINE d == disputes[p]
           votes == [i \in DOMAIN d.votes \cup {j} |-> IF i = j THEN v ELSE d.votes[i]]
           seats == [d.jurors EXCEPT ![j] = TRUE]
           new == [d EXCEPT !.votes = votes, !.jurors = seats]
<1>1. /\ d # None /\ d.status = "Voting" /\ UNCHANGED projVars
      /\ disputes' = [disputes EXCEPT ![p] =
            [d EXCEPT !.votes = [i \in DOMAIN @ \cup {j} |-> IF i = j THEN v ELSE @[i]],
                      !.jurors[j] = TRUE]]
  BY DEF CastVote, MayVote
<1>2. d \in Dispute
  BY <1>1 DEF MatchInv, ControlTypeOK
<1>3. [d EXCEPT !.votes = [i \in DOMAIN @ \cup {j} |-> IF i = j THEN v ELSE @[i]],
                !.jurors[j] = TRUE] = new
  BY <1>2 DEF Dispute
<1>4. PICK J \in SUBSET Accounts : d.votes \in [J -> Votes]
  BY <1>2 DEF Dispute
<1>5. PICK K \in SUBSET Accounts : d.jurors \in [K -> BOOLEAN]
  BY <1>2 DEF Dispute
<1>6. votes \in [J \cup {j} -> Votes] /\ J \cup {j} \in SUBSET Accounts
  BY <1>4
<1>7. seats \in [K -> BOOLEAN]
  BY <1>5
<1> HIDE DEF votes, seats
<1>8. /\ votes \in UNION {[I -> Votes] : I \in SUBSET Accounts}
      /\ seats \in UNION {[I -> BOOLEAN] : I \in SUBSET Accounts}
  BY <1>5, <1>6, <1>7
<1>9. new \in Dispute /\ new.status = "Voting"
  BY <1>1, <1>2, <1>8 DEF Dispute
<1>10. OpenDispute(p)
  BY <1>1 DEF OpenDispute
<1>11. disputes' = [disputes EXCEPT ![p] = new]
  BY <1>1, <1>3
<1> HIDE DEF new, d
<1> QED BY <1>1, <1>9, <1>10, <1>11, DisputeRewritten

\* finalize_round gives an open dispute its verdict.
LEMMA FinalizeRoundMatches ==
  ASSUME MatchInv, NEW p \in ProjectIds, FinalizeRound(p)
  PROVE  MatchInv'
<1> DEFINE r == RoundRuling(disputes[p].votes)
           new == [disputes[p] EXCEPT !.ruling = r, !.status = "Appealable", !.start_block = block]
<1>1. /\ disputes[p] # None /\ disputes[p].status = "Voting"
      /\ disputes' = [disputes EXCEPT ![p] = new] /\ UNCHANGED projVars
  BY DEF FinalizeRound, RoundOver, WithRuling
<1>2. disputes[p] \in Dispute /\ block \in Nat
  BY <1>1 DEF MatchInv, ControlTypeOK
<1>3. r \in Rulings
  BY DEF RoundRuling, Rulings
<1> HIDE DEF r
<1>4. new \in Dispute /\ new.status = "Appealable"
  BY <1>2, <1>3 DEF Dispute, DisputeStatus
<1>5. OpenDispute(p)
  BY <1>1 DEF OpenDispute
<1> HIDE DEF new
<1> QED BY <1>1, <1>4, <1>5, DisputeRewritten

\* enforce_final_ruling closes the dispute and completes the project in one call.
LEMMA EnforceMatches ==
  ASSUME MatchInv, NEW p \in ProjectIds, EnforceFinalRuling(p)
  PROVE  MatchInv'
<1> DEFINE d == [disputes[p] EXCEPT !.status = "Finalized"]
           pr == Settled(p)
<1>1. /\ projects[p] # None /\ disputes[p] # None
      /\ \E s : UpdateProject(p, pr, s)
      /\ disputes' = [disputes EXCEPT ![p] = d] /\ ProjectApplicants' = ProjectApplicants
  BY DEF EnforceFinalRuling, Enforceable, HasParties
<1>2. projects[p] \in Project /\ disputes[p] \in Dispute
  BY <1>1 DEF MatchInv, ControlTypeOK
<1>3. pr \in Project /\ pr.status = "Completed"
  BY <1>2 DEF Project, ProjectStatus, Settled
<1>4. d \in Dispute /\ d.status = "Finalized"
  BY <1>2 DEF Dispute, DisputeStatus
<1>5. pr # None /\ d # None
  BY <1>3, <1>4, ProjAssumption, DisputeAssumption
<1> HIDE DEF d, pr
<1>6. Matched(pr, d)
  BY <1>3, <1>4, <1>5 DEF Matched
<1> QED BY <1>1, <1>3, <1>4, <1>6, BothRewritten

-------------------------------------------------------------------------------
(* The invariant *)

\* The genesis has no project and no dispute.
LEMMA MatchInitially == ArbInit => MatchInv
<1> SUFFICES ASSUME ArbInit PROVE MatchInv
  OBVIOUS
<1>1. ControlTypeOK
  BY ProjAssumption DEF ArbInit, ProjInit, ControlTypeOK
<1>2. UnusedIds /\ DisputesMatchProjects
  BY DEF ArbInit, ProjInit, UnusedIds, DisputesMatchProjects, OpenDispute, InStatus
<1> QED BY <1>1, <1>2 DEF MatchInv

\* Every step of the runtime keeps the invariant.
LEMMA MatchKept == MatchInv /\ [ArbNext]_vars => MatchInv'
<1> SUFFICES ASSUME MatchInv, [ArbNext]_vars PROVE MatchInv'
  OBVIOUS
<1>1. CASE ProjStep /\ UNCHANGED arbVars
  <2>1. disputes' = disputes
    BY <1>1 DEF arbVars
  <2>2. ASSUME NEW a \in Stakers, StakerStep(a)
        PROVE  MatchInv'
    BY <2>1, <2>2, OthersMatch DEF StakerStep, projVars, MatchInv, ControlTypeOK
  <2> QED BY <1>1, <2>1, <2>2, ClientStepMatches, FreelancerStepMatches DEF ProjStep
<1>2. ASSUME NEW p \in ProjectIds, DisputeStep(p)
      PROVE  MatchInv'
  BY <1>2, CreateDisputeMatches, SubmitRulingMatches, AppealRulingMatches, CastVoteMatches,
     FinalizeRoundMatches, EnforceMatches DEF DisputeStep, OracleRules
<1>3. CASE NextBlock
  <2>1. block' = block + 1 /\ UNCHANGED <<projects, NextProjectId, ProjectApplicants, disputes>>
    BY <1>3 DEF NextBlock, Tick, arbVars
  <2> QED BY <2>1, OthersMatch DEF MatchInv, ControlTypeOK
<1>4. CASE UNCHANGED vars
  <2>1. UNCHANGED <<projects, NextProjectId, ProjectApplicants, block, disputes>>
    BY <1>4 DEF vars, projVars, arbVars
  <2> QED BY <2>1, OthersMatch DEF MatchInv, ControlTypeOK
<1> QED BY <1>1, <1>2, <1>3, <1>4 DEF ArbNext

\* The inductive invariant holds in every state of the runtime.
THEOREM ControlInvariant == ArbSpec => []MatchInv
<1>1. ArbInit => MatchInv
  BY MatchInitially
<1>2. MatchInv /\ [ArbNext]_vars => MatchInv'
  BY MatchKept
<1> QED BY <1>1, <1>2, PTL DEF ArbSpec

\* create_dispute, on_ruling and every other call keep the two pallets in
\* agreement on what is in dispute, for all parameters and any number of
\* projects, accounts and jurors.
THEOREM PalletsAgree == ArbSpec => []DisputesMatchProjects
<1>1. MatchInv => DisputesMatchProjects
  BY DEF MatchInv
<1> QED BY <1>1, ControlInvariant, PTL

-------------------------------------------------------------------------------
(* The stages of a project *)

\* The stages, strengthened by what the next stage relies on: work in progress
\* has no applicants left, and work in review was never rejected.
Staged(pr, applicants) ==
    /\ (pr.freelancer = None) <=> (pr.submission_block = None)
    /\ pr.status \in {"InReview", "Rejected", "InDispute", "Completed"} => pr.work
    /\ pr.status = "Created" => pr.freelancer = None
    /\ pr.status = "InProgress" => pr.freelancer # None /\ ~ pr.work /\ applicants = {}
    /\ pr.work => pr.freelancer # None /\ applicants = {}
    /\ pr.status \in {"Created", "InProgress", "InReview"} => pr.dispute_info = None
    /\ pr.status = "Rejected" => pr.dispute_info = 0

StagesFollowed ==
    \A p \in ProjectIds : projects[p] # None => Staged(projects[p], ProjectApplicants[p])

\* The terms of a project: client, budget and, once chosen, freelancer.
KeepsTerms(old, new) ==
    /\ new.client = old.client
    /\ new.budget = old.budget
    /\ old.freelancer # None => new.freelancer = old.freelancer

\* The step ProjectsSettleOnce asks for.
SettlesOnce ==
    \A p \in ProjectIds : projects[p] # None =>
      /\ Closed(p) => projects'[p] = projects[p]
      /\ projects'[p].client = projects[p].client
      /\ projects'[p].budget = projects[p].budget
      /\ projects[p].freelancer # None => projects'[p].freelancer = projects[p].freelancer

\* A step that leaves the projects alone.
LEMMA NoneRewritten ==
  ASSUME StagesFollowed, projects' = projects, ProjectApplicants' = ProjectApplicants
  PROVE  StagesFollowed' /\ SettlesOnce
  BY DEF StagesFollowed, SettlesOnce

\* A step that rewrites one project, new or not closed, and its applicants.
LEMMA OneRewritten ==
  ASSUME MatchInv, StagesFollowed,
         NEW p \in ProjectIds, NEW new, NEW applicants,
         projects' = [projects EXCEPT ![p] = new],
         ProjectApplicants' = [ProjectApplicants EXCEPT ![p] = applicants],
         projects[p] # None => ~ Closed(p) /\ KeepsTerms(projects[p], new),
         Staged(new, applicants)
  PROVE  StagesFollowed' /\ SettlesOnce
<1>1. ASSUME NEW q \in ProjectIds
      PROVE  /\ q = p => projects'[q] = new /\ ProjectApplicants'[q] = applicants
             /\ q # p => projects'[q] = projects[q] /\ ProjectApplicants'[q] = ProjectApplicants[q]
  BY DEF MatchInv, ControlTypeOK
<1>2. StagesFollowed'
  BY <1>1 DEF StagesFollowed
<1>3. ASSUME NEW q \in ProjectIds, projects[q] # None
      PROVE  /\ Closed(q) => projects'[q] = projects[q]
             /\ KeepsTerms(projects[q], projects'[q])
  BY <1>1, <1>3 DEF KeepsTerms
<1> QED BY <1>2, <1>3 DEF SettlesOnce, KeepsTerms

\* The same for a call that leaves the applicants alone.
LEMMA OnlyProjectRewritten ==
  ASSUME MatchInv, StagesFollowed,
         NEW p \in ProjectIds, NEW new,
         projects' = [projects EXCEPT ![p] = new],
         ProjectApplicants' = ProjectApplicants,
         projects[p] # None => ~ Closed(p) /\ KeepsTerms(projects[p], new),
         Staged(new, ProjectApplicants[p])
  PROVE  StagesFollowed' /\ SettlesOnce
<1>1. ProjectApplicants' = [ProjectApplicants EXCEPT ![p] = ProjectApplicants[p]]
  BY DEF MatchInv, ControlTypeOK
<1> QED BY <1>1, OneRewritten

\* What is known of a project a call has found in storage.
LEMMA Found ==
  ASSUME MatchInv, StagesFollowed, NEW p \in ProjectIds, projects[p] # None
  PROVE  /\ projects[p] \in Project
         /\ Staged(projects[p], ProjectApplicants[p])
         /\ Closed(p) <=> projects[p].status \in {"Completed", "Cancelled"}
  BY DEF MatchInv, ControlTypeOK, StagesFollowed, Closed

\* The steps of a client.
LEMMA ClientStages ==
  ASSUME MatchInv, StagesFollowed, NEW c \in Clients, ClientStep(c)
  PROVE  StagesFollowed' /\ SettlesOnce
<1>1. ASSUME NEW b, NEW d, CreateProject(c, b, d)
      PROVE  StagesFollowed' /\ SettlesOnce
  <2> DEFINE new == [client |-> c, freelancer |-> None, budget |-> b,
                     status |-> "Created", duration |-> d, submission_block |-> None,
                     work |-> FALSE, dispute_info |-> None]
  <2>1. /\ NextProjectId < MaxProjects /\ ProjectApplicants' = ProjectApplicants
        /\ projects' = [projects EXCEPT ![NextProjectId] = new]
    BY <1>1 DEF CreateProject
  <2>2. NextProjectId \in ProjectIds /\ projects[NextProjectId] = None
    BY <2>1, ProjAssumption DEF MatchInv, ControlTypeOK, UnusedIds
  <2>3. Staged(new, ProjectApplicants[NextProjectId])
    BY DEF Staged
  <2> HIDE DEF new
  <2> QED BY <2>1, <2>2, <2>3, OnlyProjectRewritten
<1>2. ASSUME NEW p \in ProjectIds, NEW f \in Freelancers, StartWork(c, p, f)
      PROVE  StagesFollowed' /\ SettlesOnce
  <2> DEFINE until == block + projects[p].duration
             new == [projects[p] EXCEPT !.freelancer = f, !.status = "InProgress",
                                        !.submission_block = until]
  <2>1. /\ projects[p] # None /\ projects[p].status = "Created"
        /\ projects' = [projects EXCEPT ![p] = new]
        /\ ProjectApplicants' = [ProjectApplicants EXCEPT ![p] = {}]
    BY <1>2 DEF StartWork, UpdateProject
  <2>2. /\ projects[p] \in Project /\ Staged(projects[p], ProjectApplicants[p]) /\ ~ Closed(p)
    BY <2>1, Found
  <2>3. until \in Nat
    BY <2>2 DEF MatchInv, ControlTypeOK, Project
  <2>4. f # None /\ until # None
    BY <2>3, ProjAssumption, RepAssumption
  <2> HIDE DEF until
  <2>5. KeepsTerms(projects[p], new)
    BY <2>1, <2>2 DEF KeepsTerms, Project, Staged
  <2>6. Staged(new, {})
    BY <2>1, <2>2, <2>4 DEF Project, Staged
  <2> HIDE DEF new
  <2> QED BY <2>1, <2>2, <2>5, <2>6, OneRewritten
<1>3. ASSUME NEW p \in ProjectIds, NEW r, AcceptWork(c, p, r)
      PROVE  StagesFollowed' /\ SettlesOnce
  <2> DEFINE new == Settled(p)
  <2>1. /\ projects[p] # None /\ projects[p].status = "InReview"
        /\ projects' = [projects EXCEPT ![p] = new] /\ ProjectApplicants' = ProjectApplicants
    BY <1>3 DEF AcceptWork, UpdateProject
  <2>2. projects[p] \in Project /\ Staged(projects[p], ProjectApplicants[p]) /\ ~ Closed(p)
    BY <2>1, Found
  <2>3. KeepsTerms(projects[p], new) /\ Staged(new, ProjectApplicants[p])
    BY <2>1, <2>2 DEF Settled, KeepsTerms, Project, Staged
  <2> HIDE DEF new
  <2> QED BY <2>1, <2>2, <2>3, OnlyProjectRewritten
<1>4. ASSUME NEW p \in ProjectIds, RejectWork(c, p)
      PROVE  StagesFollowed' /\ SettlesOnce
  <2> DEFINE new == [projects[p] EXCEPT !.status = "Rejected", !.dispute_info = 0]
  <2>1. /\ projects[p] # None /\ projects[p].status = "InReview"
        /\ projects' = [projects EXCEPT ![p] = Rejected(p)]
        /\ ProjectApplicants' = ProjectApplicants
    BY <1>4 DEF RejectWork, UpdateProject
  <2>2. projects[p] \in Project /\ Staged(projects[p], ProjectApplicants[p]) /\ ~ Closed(p)
    BY <2>1, Found
  <2>3. Rejected(p) = new
    BY <2>1, <2>2 DEF Rejected, Staged
  <2>4. KeepsTerms(projects[p], new) /\ Staged(new, ProjectApplicants[p])
    BY <2>1, <2>2 DEF KeepsTerms, Project, Staged
  <2> HIDE DEF new
  <2> QED BY <2>1, <2>2, <2>3, <2>4, OnlyProjectRewritten
<1>5. ASSUME NEW p \in ProjectIds, CancelProject(c, p)
      PROVE  StagesFollowed' /\ SettlesOnce
  <2> DEFINE new == [projects[p] EXCEPT !.status = "Cancelled"]
  <2>1. /\ projects[p] # None /\ projects[p].status \in {"Created", "InProgress"}
        /\ projects' = [projects EXCEPT ![p] = new] /\ ProjectApplicants' = ProjectApplicants
    BY <1>5 DEF CancelProject, MayCancel, UpdateProject
  <2>2. projects[p] \in Project /\ Staged(projects[p], ProjectApplicants[p]) /\ ~ Closed(p)
    BY <2>1, Found
  <2>3. KeepsTerms(projects[p], new) /\ Staged(new, ProjectApplicants[p])
    BY <2>1, <2>2 DEF KeepsTerms, Project, Staged
  <2> HIDE DEF new
  <2> QED BY <2>1, <2>2, <2>3, OnlyProjectRewritten
<1> QED BY <1>1, <1>2, <1>3, <1>4, <1>5 DEF ClientStep

\* The steps of a freelancer.
LEMMA FreelancerStages ==
  ASSUME MatchInv, StagesFollowed, NEW f \in Freelancers, FreelancerStep(f)
  PROVE  StagesFollowed' /\ (SettlesOnce \/ projects' = projects)
<1>1. ASSUME NEW p \in ProjectIds, ApplyForProject(f, p)
      PROVE  StagesFollowed' /\ projects' = projects
  <2>1. /\ projects[p] # None /\ projects[p].status = "Created" /\ projects' = projects
        /\ ProjectApplicants' = [ProjectApplicants EXCEPT ![p] = ProjectApplicants[p] \cup {f}]
    BY <1>1 DEF ApplyForProject
  <2>2. \A q \in ProjectIds : q # p => ProjectApplicants'[q] = ProjectApplicants[q]
    BY <2>1 DEF MatchInv, ControlTypeOK
  <2>3. projects[p] \in Project /\ Staged(projects[p], ProjectApplicants[p])
    BY <2>1, Found
  <2>4. Staged(projects[p], ProjectApplicants'[p])
    BY <2>1, <2>3 DEF Staged, Project
  <2> QED BY <2>1, <2>2, <2>4 DEF StagesFollowed
<1>2. ASSUME NEW p \in ProjectIds, SubmitWork(f, p)
      PROVE  StagesFollowed' /\ SettlesOnce
  <2> DEFINE new == [projects[p] EXCEPT !.work = TRUE, !.status = "InReview"]
  <2>1. /\ projects[p] # None /\ projects[p].status = "InProgress"
        /\ projects' = [projects EXCEPT ![p] = new] /\ ProjectApplicants' = ProjectApplicants
    BY <1>2 DEF SubmitWork, UpdateProject
  <2>2. projects[p] \in Project /\ Staged(projects[p], ProjectApplicants[p]) /\ ~ Closed(p)
    BY <2>1, Found
  <2>3. KeepsTerms(projects[p], new) /\ Staged(new, ProjectApplicants[p])
    BY <2>1, <2>2 DEF KeepsTerms, Project, Staged
  <2> HIDE DEF new
  <2> QED BY <2>1, <2>2, <2>3, OnlyProjectRewritten
<1> QED BY <1>1, <1>2 DEF FreelancerStep

\* The steps of a dispute.  enforce_final_ruling looks at the dispute and not at
\* the status of the project: that it is not closed is DisputesMatchProjects.
LEMMA DisputeStages ==
  ASSUME MatchInv, StagesFollowed, NEW p \in ProjectIds, DisputeStep(p)
  PROVE  StagesFollowed' /\ (SettlesOnce \/ projects' = projects)
<1>1. ASSUME NEW f, CreateDispute(f, p)
      PROVE  StagesFollowed' /\ SettlesOnce
  <2> DEFINE new == InDispute(p)
  <2>1. /\ projects[p] # None /\ projects[p].status \in {"Rejected", "InReview"}
        /\ projects' = [projects EXCEPT ![p] = new] /\ ProjectApplicants' = ProjectApplicants
    BY <1>1 DEF CreateDispute, MayDispute, UpdateProject
  <2>2. projects[p] \in Project /\ Staged(projects[p], ProjectApplicants[p]) /\ ~ Closed(p)
    BY <2>1, Found
  <2>3. KeepsTerms(projects[p], new) /\ Staged(new, ProjectApplicants[p])
    BY <2>1, <2>2 DEF InDispute, KeepsTerms, Project, Staged
  <2> HIDE DEF new
  <2> QED BY <2>1, <2>2, <2>3, OnlyProjectRewritten
<1>2. ASSUME EnforceFinalRuling(p)
      PROVE  StagesFollowed' /\ SettlesOnce
  <2> DEFINE new == Settled(p)
  <2>1. /\ disputes[p] # None /\ disputes[p].status = "Appealable"
        /\ projects' = [projects EXCEPT ![p] = new] /\ ProjectApplicants' = ProjectApplicants
    BY <1>2 DEF EnforceFinalRuling, Enforceable, UpdateProject
  <2>2. projects[p] # None /\ projects[p].status = "InDispute"
    BY <2>1 DEF MatchInv, DisputesMatchProjects, OpenDispute
  <2>3. projects[p] \in Project /\ Staged(projects[p], ProjectApplicants[p]) /\ ~ Closed(p)
    BY <2>2, Found
  <2>4. KeepsTerms(projects[p], new) /\ Staged(new, ProjectApplicants[p])
    BY <2>2, <2>3 DEF Settled, KeepsTerms, Project, Staged
  <2> HIDE DEF new
  <2> QED BY <2>1, <2>3, <2>4, OnlyProjectRewritten
<1>3. ASSUME \/ OracleRules(p)
             \/ \E a \in Clients \cup Freelancers : AppealRuling(a, p)
             \/ \E j \in Accounts, v \in Votes : CastVote(j, p, v)
             \/ FinalizeRound(p)
      PROVE  StagesFollowed' /\ projects' = projects
  <2>1. projects' = projects /\ ProjectApplicants' = ProjectApplicants
    BY <1>3 DEF OracleRules, SubmitRuling, AppealRuling, CastVote, FinalizeRound, projVars
  <2> QED BY <2>1, NoneRewritten
<1> QED BY <1>1, <1>2, <1>3 DEF DisputeStep

\* Every step keeps the stages and settles a project at most once.
LEMMA StepsFollowStages ==
  MatchInv /\ StagesFollowed /\ [ArbNext]_vars => StagesFollowed' /\ [SettlesOnce]_projects
<1> SUFFICES ASSUME MatchInv, StagesFollowed, [ArbNext]_vars
             PROVE  StagesFollowed' /\ (SettlesOnce \/ projects' = projects)
  OBVIOUS
<1>1. CASE ProjStep /\ UNCHANGED arbVars
  <2>1. ASSUME NEW a \in Stakers, StakerStep(a)
        PROVE  projects' = projects /\ ProjectApplicants' = ProjectApplicants
    BY <2>1 DEF StakerStep, projVars
  <2> QED BY <1>1, <2>1, NoneRewritten, ClientStages, FreelancerStages DEF ProjStep
<1>2. CASE \E p \in ProjectIds : DisputeStep(p)
  BY <1>2, DisputeStages
<1>3. CASE NextBlock \/ UNCHANGED vars
  <2>1. projects' = projects /\ ProjectApplicants' = ProjectApplicants
    BY <1>3 DEF NextBlock, Tick, vars, projVars
  <2> QED BY <2>1, NoneRewritten
<1> QED BY <1>1, <1>2, <1>3 DEF ArbNext

\* The strengthened stages hold in every state.
THEOREM StagesInvariant == ArbSpec => []StagesFollowed
<1>1. ArbInit => StagesFollowed
  BY DEF ArbInit, ProjInit, StagesFollowed
<1> QED BY <1>1, StepsFollowStages, ControlInvariant, PTL DEF ArbSpec

\* The status, the work, the freelancer and the deadline of a project agree in
\* every state of the runtime, disputes included.
THEOREM StagesCohere == ArbSpec => []StageCoherent
<1>1. StagesFollowed => StageCoherent
  BY DEF StagesFollowed, Staged, StageCoherent
<1> QED BY <1>1, StagesInvariant, PTL

\* No call of any pallet reopens, pays again or otherwise changes a closed
\* project, and none changes the client, the budget or the chosen freelancer.
THEOREM SettledOnce == ArbSpec => ProjectsSettleOnce
<1>1. MatchInv /\ StagesFollowed /\ [ArbNext]_vars => [SettlesOnce]_projects
  BY StepsFollowStages
<1> QED BY <1>1, ControlInvariant, StagesInvariant, PTL DEF ArbSpec, ProjectsSettleOnce, SettlesOnce

-------------------------------------------------------------------------------
(* Votes *)

\* The map of votes and the marks in the jurors' list of one dispute agree.
BallotKept(d) == DOMAIN d.votes = {j \in DOMAIN d.jurors : d.jurors[j]}

BallotsKept == \A p \in ProjectIds : disputes[p] # None => BallotKept(disputes[p])

\* A dispute moves on within its round: no vote changes or is lost, and none is
\* added unless the round is open.
RoundMovesOn(d, new) ==
    new.round = d.round =>
      /\ \A j \in DOMAIN d.votes : j \in DOMAIN new.votes /\ new.votes[j] = d.votes[j]
      /\ d.status # "Voting" => new.votes = d.votes

\* The step VotesStand asks for.
VotesStay ==
    \A p \in ProjectIds :
      disputes[p] # None /\ disputes'[p].round = disputes[p].round =>
        /\ \A j \in DOMAIN disputes[p].votes :
             j \in DOMAIN disputes'[p].votes /\ disputes'[p].votes[j] = disputes[p].votes[j]
        /\ disputes[p].status # "Voting" => disputes'[p].votes = disputes[p].votes

\* A step that rewrites one dispute, new or moving on.
LEMMA OneDisputeMoves ==
  ASSUME MatchInv, BallotsKept, NEW p \in ProjectIds, NEW new,
         disputes' = [disputes EXCEPT ![p] = new],
         BallotKept(new),
         disputes[p] # None => RoundMovesOn(disputes[p], new)
  PROVE  BallotsKept' /\ VotesStay
<1>1. ASSUME NEW q \in ProjectIds
      PROVE  /\ q = p => disputes'[q] = new
             /\ q # p => disputes'[q] = disputes[q]
  BY DEF MatchInv, ControlTypeOK
<1>2. BallotsKept'
  BY <1>1 DEF BallotsKept
<1>3. ASSUME NEW q \in ProjectIds, disputes[q] # None
      PROVE  RoundMovesOn(disputes[q], disputes'[q])
  BY <1>1, <1>3 DEF RoundMovesOn
<1> QED BY <1>2, <1>3 DEF VotesStay, RoundMovesOn

\* A step that changes neither the votes nor the jurors of a dispute.
LEMMA SameBallot ==
  ASSUME MatchInv, BallotsKept, NEW p \in ProjectIds, NEW new,
         disputes' = [disputes EXCEPT ![p] = new], disputes[p] # None,
         new.votes = disputes[p].votes, new.jurors = disputes[p].jurors
  PROVE  BallotsKept' /\ VotesStay
<1>1. BallotKept(new)
  BY DEF BallotsKept, BallotKept
<1>2. RoundMovesOn(disputes[p], new)
  BY DEF RoundMovesOn
<1> QED BY <1>1, <1>2, OneDisputeMoves

\* cast_vote: a juror who has voted is marked, so a vote is never replaced.
LEMMA CastVoteStays ==
  ASSUME MatchInv, BallotsKept, NEW p \in ProjectIds, NEW j, NEW v, CastVote(j, p, v)
  PROVE  BallotsKept' /\ VotesStay
<1> DEFINE d == disputes[p]
           votes == [i \in DOMAIN d.votes \cup {j} |-> IF i = j THEN v ELSE d.votes[i]]
           seats == [d.jurors EXCEPT ![j] = TRUE]
           new == [d EXCEPT !.votes = votes, !.jurors = seats]
<1>1. /\ d # None /\ d.status = "Voting" /\ j \in DOMAIN d.jurors /\ ~ d.jurors[j]
      /\ disputes' = [disputes EXCEPT ![p] =
            [d EXCEPT !.votes = [i \in DOMAIN @ \cup {j} |-> IF i = j THEN v ELSE @[i]],
                      !.jurors[j] = TRUE]]
  BY DEF CastVote, MayVote
<1>2. d \in Dispute
  BY <1>1 DEF MatchInv, ControlTypeOK
<1>3. disputes' = [disputes EXCEPT ![p] = new]
  BY <1>1, <1>2 DEF Dispute
<1>4. /\ new.votes = votes /\ new.jurors = seats /\ new.round = d.round
  BY <1>2 DEF Dispute
<1>5. BallotKept(d)
  BY <1>1 DEF BallotsKept
<1>6. PICK K \in SUBSET Accounts : d.jurors \in [K -> BOOLEAN]
  BY <1>2 DEF Dispute
<1>7. DOMAIN votes = DOMAIN d.votes \cup {j}
  OBVIOUS
<1>8. DOMAIN seats = DOMAIN d.jurors /\ \A i \in DOMAIN seats : seats[i] <=> (i = j \/ d.jurors[i])
  BY <1>1, <1>6
<1>9. \A i \in DOMAIN d.votes : i \in DOMAIN votes /\ votes[i] = d.votes[i]
  BY <1>1, <1>5 DEF BallotKept
<1> HIDE DEF votes, seats, d
<1>10. BallotKept(new)
  BY <1>1, <1>4, <1>5, <1>7, <1>8 DEF BallotKept
<1>11. RoundMovesOn(d, new)
  BY <1>1, <1>4, <1>9 DEF RoundMovesOn
<1> HIDE DEF new
<1> QED BY <1>3, <1>10, <1>11, OneDisputeMoves DEF d

\* A round that has just started has no votes.
LEMMA NewBallot ==
  ASSUME NEW J
  PROVE  DOMAIN NoOne = {j \in J : [i \in J |-> FALSE][j]}
  BY DEF NoOne

\* The steps of a dispute.
LEMMA DisputeStepVotes ==
  ASSUME MatchInv, BallotsKept, NEW p \in ProjectIds, DisputeStep(p)
  PROVE  BallotsKept' /\ VotesStay
<1>1. ASSUME NEW f, CreateDispute(f, p)
      PROVE  BallotsKept' /\ VotesStay
  <2> DEFINE new == [status |-> "AiProcessing", start_block |-> block, ruling |-> None,
                     round |-> 1, jurors |-> NoOne, votes |-> NoOne]
  <2>1. disputes[p] = None /\ disputes' = [disputes EXCEPT ![p] = new]
    BY <1>1 DEF CreateDispute
  <2>2. BallotKept(new)
    BY DEF BallotKept, NoOne
  <2> HIDE DEF new
  <2> QED BY <2>1, <2>2, OneDisputeMoves
<1>2. ASSUME NEW ruling, SubmitRuling(p, ruling)
      PROVE  BallotsKept' /\ VotesStay
  <2> DEFINE new == [disputes[p] EXCEPT !.ruling = ruling, !.status = "Appealable",
                                        !.start_block = block]
  <2>1. disputes[p] # None /\ disputes' = [disputes EXCEPT ![p] = new]
    BY <1>2 DEF SubmitRuling, WithRuling
  <2>2. disputes[p] \in Dispute
    BY <2>1 DEF MatchInv, ControlTypeOK
  <2>3. new.votes = disputes[p].votes /\ new.jurors = disputes[p].jurors
    BY <2>2 DEF Dispute
  <2> HIDE DEF new
  <2> QED BY <2>1, <2>3, SameBallot
<1>3. ASSUME NEW who, AppealRuling(who, p)
      PROVE  BallotsKept' /\ VotesStay
  <2> DEFINE round == disputes[p].round + 1
             jury == JuryOf(round)
             sel == GetEligibleJurors(Chain, jury.tier, {Client(p), Freelancer(p)}, jury.size)
             seats == [j \in sel.jurors |-> FALSE]
             new == [status |-> "Voting", start_block |-> block, ruling |-> None, round |-> round,
                     jurors |-> seats, votes |-> NoOne]
  <2>1. disputes[p] # None /\ disputes' = [disputes EXCEPT ![p] = new]
    BY <1>3 DEF AppealRuling
  <2>2. disputes[p] \in Dispute
    BY <2>1 DEF MatchInv, ControlTypeOK
  <2>3. round # disputes[p].round
    BY <2>2 DEF Dispute, Rounds
  <2> HIDE DEF round, sel
  <2>4. DOMAIN seats = sel.jurors
    OBVIOUS
  <2>5. new.round = round /\ new.jurors = seats /\ new.votes = NoOne
    OBVIOUS
  <2>6. BallotKept(new)
    BY <2>4, <2>5, NewBallot DEF BallotKept
  <2> HIDE DEF new
  <2>7. RoundMovesOn(disputes[p], new)
    BY <2>3, <2>5 DEF RoundMovesOn
  <2> QED BY <2>1, <2>6, <2>7, OneDisputeMoves
<1>4. ASSUME FinalizeRound(p)
      PROVE  BallotsKept' /\ VotesStay
  <2> DEFINE r == RoundRuling(disputes[p].votes)
             new == [disputes[p] EXCEPT !.ruling = r, !.status = "Appealable", !.start_block = block]
  <2>1. disputes[p] # None /\ disputes' = [disputes EXCEPT ![p] = new]
    BY <1>4 DEF FinalizeRound, WithRuling
  <2>2. disputes[p] \in Dispute
    BY <2>1 DEF MatchInv, ControlTypeOK
  <2> HIDE DEF r
  <2>3. new.votes = disputes[p].votes /\ new.jurors = disputes[p].jurors
    BY <2>2 DEF Dispute
  <2> HIDE DEF new
  <2> QED BY <2>1, <2>3, SameBallot
<1>5. ASSUME EnforceFinalRuling(p)
      PROVE  BallotsKept' /\ VotesStay
  <2> DEFINE new == [disputes[p] EXCEPT !.status = "Finalized"]
  <2>1. disputes[p] # None /\ disputes' = [disputes EXCEPT ![p] = new]
    BY <1>5 DEF EnforceFinalRuling, Enforceable
  <2>2. disputes[p] \in Dispute
    BY <2>1 DEF MatchInv, ControlTypeOK
  <2>3. new.votes = disputes[p].votes /\ new.jurors = disputes[p].jurors
    BY <2>2 DEF Dispute
  <2> HIDE DEF new
  <2> QED BY <2>1, <2>3, SameBallot
<1> QED BY <1>1, <1>2, <1>3, <1>4, <1>5, CastVoteStays DEF DisputeStep, OracleRules

\* Every step keeps the ballots and the votes.
LEMMA StepsKeepVotes ==
  MatchInv /\ BallotsKept /\ [ArbNext]_vars => BallotsKept' /\ [VotesStay]_disputes
<1> SUFFICES ASSUME MatchInv, BallotsKept, [ArbNext]_vars
             PROVE  BallotsKept' /\ (VotesStay \/ disputes' = disputes)
  OBVIOUS
<1>1. CASE \E p \in ProjectIds : DisputeStep(p)
  BY <1>1, DisputeStepVotes
<1>2. CASE (ProjStep /\ UNCHANGED arbVars) \/ NextBlock \/ UNCHANGED vars
  <2>1. disputes' = disputes
    BY <1>2 DEF NextBlock, arbVars, vars
  <2> QED BY <2>1 DEF BallotsKept
<1> QED BY <1>1, <1>2 DEF ArbNext

\* Votes and marks agree in every state.
THEOREM BallotsInvariant == ArbSpec => []BallotsKept
<1>1. ArbInit => BallotsKept
  BY DEF ArbInit, BallotsKept
<1> QED BY <1>1, StepsKeepVotes, ControlInvariant, PTL DEF ArbSpec

\* A vote cast stays as it is while its round lasts, and cast_vote adds none once
\* finalize_round has given the verdict, whoever calls what in which order.
THEOREM VotesStandAlways == ArbSpec => VotesStand
<1>1. MatchInv /\ BallotsKept /\ [ArbNext]_vars => [VotesStay]_disputes
  BY StepsKeepVotes
<1> QED BY <1>1, ControlInvariant, BallotsInvariant, PTL DEF ArbSpec, VotesStand, VotesStay

-------------------------------------------------------------------------------
(* The appeal period *)

\* A dispute without a verdict has no ruling, and the clock of one with a ruling
\* that may be appealed runs from the block the ruling was given in.
ClockKept(d, at) ==
    /\ d.status \in {"AiProcessing", "Voting"} => d.ruling = None
    /\ d.status = "Appealable" => d.start_block = at

\* The inductive invariant of the history.
ClocksKept == \A p \in ProjectIds : disputes[p] # None => ClockKept(disputes[p], ruledAt[p])

\* What AppealWindowKept asks of one dispute that moves on.
InWindow(d, new, at) ==
    /\ new.round > d.round => block < at + AppealPeriod
    /\ d.status # "Finalized" /\ new.status = "Finalized" => block >= at + AppealPeriod

\* The step AppealWindowKept asks for.
WindowStep ==
    \A p \in ProjectIds : disputes[p] # None =>
      /\ disputes'[p].round > disputes[p].round => block < ruledAt[p] + AppealPeriod
      /\ disputes[p].status # "Finalized" /\ disputes'[p].status = "Finalized" =>
           block >= ruledAt[p] + AppealPeriod

\* The history after a step
HistoryKept == ruledAt' = [p \in ProjectIds |-> IF RulingGiven(p) THEN block ELSE ruledAt[p]]

\* A step that rewrites one dispute moves no other dispute's clock.
LEMMA OneClockMoves ==
  ASSUME MatchInv, ClocksKept, HistoryKept, NEW p \in ProjectIds, NEW new,
         disputes' = [disputes EXCEPT ![p] = new],
         ClockKept(new, ruledAt'[p]),
         disputes[p] # None => InWindow(disputes[p], new, ruledAt[p])
  PROVE  ClocksKept' /\ WindowStep
<1>1. ASSUME NEW q \in ProjectIds
      PROVE  /\ q = p => disputes'[q] = new
             /\ q # p => disputes'[q] = disputes[q]
  BY DEF MatchInv, ControlTypeOK
<1>2. ASSUME NEW q \in ProjectIds, q # p PROVE ruledAt'[q] = ruledAt[q]
  BY <1>1, <1>2 DEF HistoryKept, RulingGiven
<1>3. ClocksKept'
  BY <1>1, <1>2 DEF ClocksKept
<1>4. ASSUME NEW q \in ProjectIds, disputes[q] # None
      PROVE  InWindow(disputes[q], disputes'[q], ruledAt[q])
  <2>1. CASE q = p
    BY <1>1, <1>4, <2>1
  <2>2. CASE q # p
    <3>1. disputes[q] \in Dispute /\ disputes'[q] = disputes[q]
      BY <1>1, <1>4, <2>2 DEF MatchInv, ControlTypeOK
    <3>2. ~ disputes[q].round > disputes[q].round
      BY <3>1 DEF Dispute, Rounds
    <3> QED BY <3>1, <3>2 DEF InWindow
  <2> QED BY <2>1, <2>2
<1> QED BY <1>3, <1>4 DEF WindowStep, InWindow

\* A step that leaves the disputes alone leaves their clocks alone.
LEMMA NoClockMoves ==
  ASSUME MatchInv, ClocksKept, disputes' = disputes, HistoryKept \/ ruledAt' = ruledAt
  PROVE  ClocksKept'
<1>1. \A p \in ProjectIds : ruledAt'[p] = ruledAt[p]
  BY DEF HistoryKept, RulingGiven
<1> QED BY <1>1 DEF ClocksKept

\* The oracle's ruling, or a jury's, starts the clock.
LEMMA RulingStartsClock ==
  ASSUME MatchInv, ClocksKept, HistoryKept, NEW p \in ProjectIds, NEW ruling \in Rulings,
         disputes[p] # None, disputes[p].status \in {"AiProcessing", "Voting"},
         disputes' = [disputes EXCEPT ![p] = WithRuling(disputes[p], ruling)]
  PROVE  ClocksKept' /\ WindowStep
<1> DEFINE d == disputes[p]
           new == WithRuling(d, ruling)
<1>1. d \in Dispute /\ d.ruling = None
  BY DEF MatchInv, ControlTypeOK, ClocksKept, ClockKept
<1>2. /\ new.ruling = ruling /\ new.status = "Appealable" /\ new.start_block = block
      /\ new.round = d.round
  BY <1>1 DEF WithRuling, Dispute
<1>3. disputes'[p] = new /\ ruling # None
  BY DisputeAssumption DEF MatchInv, ControlTypeOK
<1> HIDE DEF new
<1>4. ruledAt'[p] = block
  BY <1>1, <1>2, <1>3 DEF HistoryKept, RulingGiven
<1>5. ClockKept(new, ruledAt'[p])
  BY <1>2, <1>4 DEF ClockKept
<1>6. InWindow(d, new, ruledAt[p])
  <2>1. ~ d.round > d.round
    BY <1>1 DEF Dispute, Rounds
  <2> QED BY <1>2, <2>1 DEF InWindow
<1> HIDE DEF d
<1>7. disputes' = [disputes EXCEPT ![p] = new]
  BY DEF new, d
<1> QED BY <1>5, <1>6, <1>7, OneClockMoves DEF d

\* The steps of a dispute.
LEMMA DisputeStepInTime ==
  ASSUME MatchInv, ClocksKept, HistoryKept, NEW p \in ProjectIds, DisputeStep(p)
  PROVE  ClocksKept' /\ WindowStep
<1>1. ASSUME NEW f, CreateDispute(f, p)
      PROVE  ClocksKept' /\ WindowStep
  <2> DEFINE new == [status |-> "AiProcessing", start_block |-> block, ruling |-> None,
                     round |-> 1, jurors |-> NoOne, votes |-> NoOne]
  <2>1. disputes[p] = None /\ disputes' = [disputes EXCEPT ![p] = new]
    BY <1>1 DEF CreateDispute
  <2>2. ClockKept(new, ruledAt'[p])
    BY DEF ClockKept
  <2> HIDE DEF new
  <2> QED BY <2>1, <2>2, OneClockMoves
<1>2. ASSUME NEW ruling \in Rulings, SubmitRuling(p, ruling)
      PROVE  ClocksKept' /\ WindowStep
  BY <1>2, RulingStartsClock DEF SubmitRuling
<1>3. ASSUME NEW who, AppealRuling(who, p)
      PROVE  ClocksKept' /\ WindowStep
  <2> DEFINE d == disputes[p]
             sel == GetEligibleJurors(Chain, JuryOf(d.round + 1).tier,
                                      {Client(p), Freelancer(p)}, JuryOf(d.round + 1).size)
             new == [status |-> "Voting", start_block |-> block, ruling |-> None,
                     round |-> d.round + 1, jurors |-> [j \in sel.jurors |-> FALSE],
                     votes |-> NoOne]
  <2>1. /\ d # None /\ d.status = "Appealable" /\ block < d.start_block + AppealPeriod
        /\ disputes' = [disputes EXCEPT ![p] = new]
    BY <1>3 DEF AppealRuling, AppealDeadline
  <2>2. d.start_block = ruledAt[p]
    BY <2>1 DEF ClocksKept, ClockKept
  <2>3. new.status = "Voting" /\ new.ruling = None
    OBVIOUS
  <2> HIDE DEF new
  <2>4. ClockKept(new, ruledAt'[p]) /\ InWindow(d, new, ruledAt[p])
    BY <2>1, <2>2, <2>3 DEF ClockKept, InWindow
  <2> QED BY <2>1, <2>4, OneClockMoves
<1>4. ASSUME NEW j, NEW v, CastVote(j, p, v)
      PROVE  ClocksKept' /\ WindowStep
  <2> DEFINE d == disputes[p]
             votes == [i \in DOMAIN d.votes \cup {j} |-> IF i = j THEN v ELSE d.votes[i]]
             new == [d EXCEPT !.votes = votes, !.jurors = [d.jurors EXCEPT ![j] = TRUE]]
  <2>1. d # None /\ d.status = "Voting"
    BY <1>4 DEF CastVote, MayVote
  <2>2. d \in Dispute
    BY <2>1 DEF MatchInv, ControlTypeOK
  <2>3. disputes' = [disputes EXCEPT ![p] = new]
    BY <1>4, <2>2 DEF CastVote, Dispute
  <2>4. new.status = "Voting" /\ new.ruling = d.ruling /\ new.round = d.round
    BY <2>1, <2>2 DEF Dispute
  <2>5. d.ruling = None
    BY <2>1 DEF ClocksKept, ClockKept
  <2>6. ~ d.round > d.round
    BY <2>2 DEF Dispute, Rounds
  <2> HIDE DEF new
  <2>7. ClockKept(new, ruledAt'[p]) /\ InWindow(d, new, ruledAt[p])
    BY <2>4, <2>5, <2>6 DEF ClockKept, InWindow
  <2> QED BY <2>3, <2>7, OneClockMoves
<1>5. ASSUME FinalizeRound(p)
      PROVE  ClocksKept' /\ WindowStep
  <2>1. /\ disputes[p] # None /\ disputes[p].status = "Voting"
        /\ disputes' = [disputes EXCEPT ![p] = WithRuling(disputes[p], RoundRuling(disputes[p].votes))]
    BY <1>5 DEF FinalizeRound, RoundOver
  <2>2. RoundRuling(disputes[p].votes) \in Rulings
    BY DEF RoundRuling, Rulings
  <2> QED BY <2>1, <2>2, RulingStartsClock
<1>6. ASSUME EnforceFinalRuling(p)
      PROVE  ClocksKept' /\ WindowStep
  <2> DEFINE d == disputes[p]
             new == [d EXCEPT !.status = "Finalized"]
  <2>1. /\ d # None /\ d.status = "Appealable" /\ block >= d.start_block + AppealPeriod
        /\ disputes' = [disputes EXCEPT ![p] = new]
    BY <1>6 DEF EnforceFinalRuling, Enforceable, AppealDeadline
  <2>2. d \in Dispute /\ d.start_block = ruledAt[p]
    BY <2>1 DEF MatchInv, ControlTypeOK, ClocksKept, ClockKept
  <2>3. new.status = "Finalized" /\ new.round = d.round
    BY <2>2 DEF Dispute
  <2>4. ~ d.round > d.round
    BY <2>2 DEF Dispute, Rounds
  <2> HIDE DEF new
  <2>5. ClockKept(new, ruledAt'[p]) /\ InWindow(d, new, ruledAt[p])
    BY <2>1, <2>2, <2>3, <2>4 DEF ClockKept, InWindow
  <2> QED BY <2>1, <2>5, OneClockMoves
<1> QED BY <1>1, <1>2, <1>3, <1>4, <1>5, <1>6 DEF DisputeStep, OracleRules

\* Every step keeps the clocks and the appeal periods.
LEMMA StepsInTime ==
  MatchInv /\ ClocksKept /\ [RecordNext]_recordVars => ClocksKept' /\ [WindowStep]_disputes
<1> SUFFICES ASSUME MatchInv, ClocksKept, [RecordNext]_recordVars
             PROVE  ClocksKept' /\ (WindowStep \/ disputes' = disputes)
  OBVIOUS
<1>1. CASE HistoryKept /\ \E p \in ProjectIds : DisputeStep(p)
  BY <1>1, DisputeStepInTime
<1>2. CASE HistoryKept /\ ((ProjStep /\ UNCHANGED arbVars) \/ NextBlock)
  <2>1. disputes' = disputes
    BY <1>2 DEF NextBlock, arbVars
  <2> QED BY <1>2, <2>1, NoClockMoves
<1>3. CASE UNCHANGED recordVars
  <2>1. disputes' = disputes /\ ruledAt' = ruledAt
    BY <1>3 DEF recordVars, vars, arbVars
  <2> QED BY <2>1, NoClockMoves
<1> QED BY <1>1, <1>2, <1>3 DEF RecordNext, ArbNext, HistoryKept

\* For any periods and any number of disputes the loser of a ruling, the oracle's or a
\* jury's, may appeal for exactly the appeal period from the block it was given in,
\* and nobody can enforce it before (appeal_ruling, enforce_final_ruling).
THEOREM AppealsInTime == RecordSpec => AppealWindowKept
<1>1. RecordSpec => ArbSpec
  <2>1. RecordInit => ArbInit
    BY DEF RecordInit
  <2>2. [RecordNext]_recordVars => [ArbNext]_vars
    BY DEF RecordNext, recordVars
  <2> QED BY <2>1, <2>2, PTL DEF RecordSpec, ArbSpec
<1>2. RecordInit => ClocksKept
  BY DEF RecordInit, ArbInit, ClocksKept
<1>3. MatchInv /\ ClocksKept /\ [RecordNext]_recordVars => ClocksKept' /\ [WindowStep]_disputes
  BY StepsInTime
<1> QED BY <1>1, <1>2, <1>3, ControlInvariant, PTL DEF RecordSpec, AppealWindowKept, WindowStep

-------------------------------------------------------------------------------
(* The docket *)

\* The place of a dispute on the docket.
PlaceOf(d) == IF d = None THEN "None" ELSE IF d.status = "AiProcessing" THEN "Awaited" ELSE "Ruled"

\* The docket as OracleView sees it
TheDocket == [p \in ProjectIds |-> DocketOf(p)]

\* A step that rewrites one dispute rewrites its place on the docket.
LEMMA OnePlaceMoves ==
  ASSUME MatchInv, NEW p \in ProjectIds, NEW new, disputes' = [disputes EXCEPT ![p] = new]
  PROVE  TheDocket' = [TheDocket EXCEPT ![p] = PlaceOf(new)]
<1>1. disputes'[p] = new /\ \A q \in ProjectIds : q # p => disputes'[q] = disputes[q]
  BY DEF MatchInv, ControlTypeOK
<1> QED BY <1>1 DEF TheDocket, DocketOf, PlaceOf

\* A dispute that is rewritten and stays in its place leaves the docket alone.
LEMMA PlaceStays ==
  ASSUME MatchInv, NEW p \in ProjectIds, NEW new, disputes' = [disputes EXCEPT ![p] = new],
         disputes[p] # None, disputes[p].status # "AiProcessing",
         new # None, new.status # "AiProcessing"
  PROVE  TheDocket' = TheDocket
<1>1. TheDocket[p] = "Ruled" /\ PlaceOf(new) = "Ruled"
  BY DEF TheDocket, DocketOf, PlaceOf
<1> QED BY <1>1, OnePlaceMoves DEF TheDocket

\* create_dispute opens a case.
LEMMA CaseOpens ==
  ASSUME MatchInv, NEW p \in ProjectIds, NEW f, CreateDispute(f, p)
  PROVE  OracleView!Open(p)
<1> DEFINE d == [status |-> "AiProcessing", start_block |-> block, ruling |-> None,
                 round |-> 1, jurors |-> NoOne, votes |-> NoOne]
<1>1. disputes[p] = None /\ disputes' = [disputes EXCEPT ![p] = d]
  BY DEF CreateDispute
<1>2. MatchInv'
  BY CreateDisputeMatches
<1>3. d # None /\ d.status = "AiProcessing"
  <2>1. disputes'[p] = d
    BY <1>1 DEF MatchInv, ControlTypeOK
  <2>2. (OpenDispute(p))'
    <3>1. projects'[p] # None /\ projects'[p].status = "InDispute"
      <4>1. projects[p] # None /\ projects' = [projects EXCEPT ![p] = InDispute(p)]
        BY DEF CreateDispute, HasParties, UpdateProject
      <4>2. projects[p] \in Project /\ projects'[p] = InDispute(p)
        BY <4>1 DEF MatchInv, ControlTypeOK
      <4>3. InDispute(p) \in Project /\ InDispute(p).status = "InDispute"
        BY <4>2 DEF Project, ProjectStatus, InDispute
      <4> QED BY <4>2, <4>3, ProjAssumption
    <3> QED BY <1>2, <3>1 DEF MatchInv, DisputesMatchProjects
  <2> QED BY <2>1, <2>2 DEF OpenDispute
<1> HIDE DEF d
<1>4. PlaceOf(d) = "Awaited" /\ TheDocket[p] = "None"
  BY <1>1, <1>3 DEF PlaceOf, TheDocket, DocketOf
<1> QED BY <1>1, <1>4, OnePlaceMoves DEF OracleView!Open, TheDocket

\* submit_ruling rules on it.
LEMMA CaseIsRuledOn ==
  ASSUME MatchInv, NEW p \in ProjectIds, NEW ruling \in Rulings, SubmitRuling(p, ruling)
  PROVE  OracleView!Rule(p)
<1> DEFINE new == WithRuling(disputes[p], ruling)
<1>1. /\ disputes[p] # None /\ disputes[p].status = "AiProcessing"
      /\ disputes' = [disputes EXCEPT ![p] = new]
  BY DEF SubmitRuling
<1>2. disputes[p] \in Dispute /\ block \in Nat
  BY <1>1 DEF MatchInv, ControlTypeOK
<1>3. new \in Dispute /\ new.status = "Appealable"
  BY <1>2 DEF Dispute, DisputeStatus, WithRuling
<1>4. new # None
  BY <1>3, DisputeAssumption
<1> HIDE DEF new
<1>5. PlaceOf(new) = "Ruled" /\ TheDocket[p] = "Awaited"
  BY <1>1, <1>3, <1>4 DEF PlaceOf, TheDocket, DocketOf
<1> QED BY <1>1, <1>5, OnePlaceMoves DEF OracleView!Rule, TheDocket

\* The other calls on a dispute start where it has been ruled on and leave it there.
LEMMA RuledStaysRuled ==
  ASSUME MatchInv, NEW p \in ProjectIds,
         \/ \E a \in Clients \cup Freelancers : AppealRuling(a, p)
         \/ \E j \in Accounts, v \in Votes : CastVote(j, p, v)
         \/ FinalizeRound(p)
         \/ EnforceFinalRuling(p)
  PROVE  TheDocket' = TheDocket
<1>1. disputes[p] # None /\ disputes[p].status # "AiProcessing"
  BY DEF AppealRuling, CastVote, MayVote, FinalizeRound, RoundOver, EnforceFinalRuling, Enforceable
<1>2. disputes[p] \in Dispute
  BY <1>1 DEF MatchInv, ControlTypeOK
<1>3. MatchInv'
  BY AppealRulingMatches, CastVoteMatches, FinalizeRoundMatches, EnforceMatches
<1>4. ASSUME NEW new, disputes' = [disputes EXCEPT ![p] = new], new.status # "AiProcessing",
             UNCHANGED projVars, disputes[p].status # "Finalized"
      PROVE  TheDocket' = TheDocket
  <2>1. disputes'[p] = new
    BY <1>4 DEF MatchInv, ControlTypeOK
  <2>2. projects'[p] # None /\ projects'[p].status = "InDispute"
    BY <1>1, <1>4 DEF MatchInv, DisputesMatchProjects, OpenDispute, projVars
  <2>3. new # None
    BY <1>3, <2>1, <2>2 DEF MatchInv, DisputesMatchProjects, OpenDispute
  <2> QED BY <1>1, <1>4, <2>3, PlaceStays
<1>5. ASSUME NEW a, AppealRuling(a, p)
      PROVE  TheDocket' = TheDocket
  <2> DEFINE round == disputes[p].round + 1
             jury == JuryOf(round)
             sel == GetEligibleJurors(Chain, jury.tier, {Client(p), Freelancer(p)}, jury.size)
             new == [status |-> "Voting", start_block |-> block, ruling |-> None, round |-> round,
                     jurors |-> [j \in sel.jurors |-> FALSE], votes |-> NoOne]
  <2>1. /\ disputes' = [disputes EXCEPT ![p] = new] /\ UNCHANGED projVars
        /\ disputes[p].status = "Appealable"
    BY <1>5 DEF AppealRuling
  <2>2. new.status # "AiProcessing"
    OBVIOUS
  <2> HIDE DEF new
  <2> QED BY <1>4, <2>1, <2>2
<1>6. ASSUME NEW j, NEW v, CastVote(j, p, v)
      PROVE  TheDocket' = TheDocket
  <2> DEFINE d == disputes[p]
             new == [d EXCEPT !.votes = [i \in DOMAIN @ \cup {j} |-> IF i = j THEN v ELSE @[i]],
                              !.jurors[j] = TRUE]
  <2>1. /\ disputes' = [disputes EXCEPT ![p] = new] /\ UNCHANGED projVars
        /\ disputes[p].status = "Voting"
    BY <1>6 DEF CastVote, MayVote
  <2>2. new.status = d.status
    BY <1>2 DEF Dispute
  <2> HIDE DEF new
  <2> QED BY <1>4, <2>1, <2>2
<1>7. ASSUME FinalizeRound(p)
      PROVE  TheDocket' = TheDocket
  <2> DEFINE r == RoundRuling(disputes[p].votes)
             new == WithRuling(disputes[p], r)
  <2>1. /\ disputes' = [disputes EXCEPT ![p] = new] /\ UNCHANGED projVars
        /\ disputes[p].status = "Voting"
    BY <1>7 DEF FinalizeRound, RoundOver
  <2>2. new.status = "Appealable"
    BY <1>2 DEF Dispute, WithRuling
  <2> HIDE DEF new
  <2> QED BY <1>4, <2>1, <2>2
<1>8. ASSUME EnforceFinalRuling(p)
      PROVE  TheDocket' = TheDocket
  <2> DEFINE new == [disputes[p] EXCEPT !.status = "Finalized"]
  <2>1. disputes' = [disputes EXCEPT ![p] = new]
    BY <1>8 DEF EnforceFinalRuling
  <2>2. new \in Dispute /\ new.status = "Finalized"
    BY <1>2 DEF Dispute, DisputeStatus
  <2>3. new # None
    BY <2>2, DisputeAssumption
  <2> HIDE DEF new
  <2> QED BY <1>1, <2>1, <2>2, <2>3, PlaceStays
<1> QED BY <1>5, <1>6, <1>7, <1>8

\* Every step of the runtime is a step of the docket, or leaves it alone.
LEMMA DocketSteps ==
  MatchInv /\ [ArbNext]_vars
    => [OracleView!DocketNext]_([p \in ProjectIds |-> DocketOf(p)])
<1> SUFFICES ASSUME MatchInv, [ArbNext]_vars
             PROVE  OracleView!DocketNext \/ TheDocket' = TheDocket
  BY DEF TheDocket
<1>1. CASE \E p \in ProjectIds : DisputeStep(p)
  <2>1. PICK p \in ProjectIds : DisputeStep(p)
    BY <1>1
  <2>2. CASE \E f \in Freelancers : CreateDispute(f, p)
    BY <2>2, CaseOpens DEF OracleView!DocketNext
  <2>3. CASE OracleRules(p)
    BY <2>3, CaseIsRuledOn DEF OracleRules, OracleView!DocketNext
  <2> QED BY <2>1, <2>2, <2>3, RuledStaysRuled DEF DisputeStep
<1>2. CASE (ProjStep /\ UNCHANGED arbVars) \/ NextBlock \/ UNCHANGED vars
  <2>1. disputes' = disputes
    BY <1>2 DEF NextBlock, arbVars, vars
  <2> QED BY <2>1 DEF TheDocket, DocketOf
<1> QED BY <1>1, <1>2 DEF ArbNext

\* The runtime implements Docket, for all parameters: whatever the parties, the
\* jurors and the clock do, a project is disputed at most once, the oracle is asked
\* once, and its ruling is never asked for again.
THEOREM DocketImplemented == ArbSpec => DocketKept
<1>1. ArbInit => OracleView!DocketInit
  BY DEF ArbInit, OracleView!DocketInit, DocketOf
<1>2. MatchInv /\ [ArbNext]_vars
        => [OracleView!DocketNext]_([p \in ProjectIds |-> DocketOf(p)])
  BY DocketSteps
<1> QED BY <1>1, <1>2, ControlInvariant, PTL DEF ArbSpec, DocketKept, OracleView!DocketSpec

===============================================================================
