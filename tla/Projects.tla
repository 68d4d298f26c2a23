------------------------------- MODULE Projects -------------------------------
(***************************************************************************)
(* pallets/projects: the life of a project from posting to payment, the    *)
(* escrow lock on the client's account, and the trait Arbitrable through   *)
(* which the arbitration pallet reads and resolves a project.              *)
(***************************************************************************)
EXTENDS Reputation, FiniteSetsExt

CONSTANTS
    MaxProjects,      \* bound: how many projects are ever created
    MaxApplicants,    \* Config::MaxApplicants
    Clients,          \* bound: who posts projects
    Freelancers,      \* bound: who applies for them
    Stakers,          \* bound: who registers as a user or a juror, or leaves
    Budgets,          \* bound: the budgets offered
    Durations,        \* bound: the durations granted, in blocks
    StarRatings       \* bound: the ratings clients give

VARIABLES
    projects,         \* Projects
    NextProjectId,    \* NextProjectId
    ProjectApplicants,\* ProjectApplicants
    block             \* frame_system's block number

projVars == <<projects, NextProjectId, ProjectApplicants, block>>

-------------------------------------------------------------------------------
(* Types *)

ProjectStatus == {"Created", "InProgress", "InReview", "Rejected", "InDispute",
                  "Completed", "Cancelled"}

Rulings == {"ClientWins", "FreelancerWins"}

\* work stands for work_submission.is_some(), dispute_info for the count
\* previous_submissions inside it.
Project ==
    [client           : Accounts,
     freelancer       : Accounts \cup {None},
     budget           : Nat,
     status           : ProjectStatus,
     duration         : Nat,
     submission_block : Nat \cup {None},
     work             : BOOLEAN,
     dispute_info     : Nat \cup {None}]

ASSUME ProjAssumption ==
    /\ MaxProjects \in Nat
    /\ \A p \in ProjectIds : ((p \div 256) \div 256) \div 256 < 256    \* a u32
    /\ ProjectIds = 0..(MaxProjects - 1)
    /\ Clients \subseteq Accounts
    /\ Freelancers \subseteq Accounts
    /\ Stakers \subseteq Accounts
    /\ None \notin Accounts \cup Project
    /\ Budgets \subseteq Nat
    /\ Durations \subseteq Nat

\* generate_lock_id: a prefix, then the four little-endian bytes of the u32 id.
GenerateLockId(p) ==
    <<p % 256, (p \div 256) % 256, ((p \div 256) \div 256) % 256,
      (((p \div 256) \div 256) \div 256) % 256>>

ASSUME LockIdAssumption == \A p \in ProjectIds : GenerateLockId(p) \in LockIds

-------------------------------------------------------------------------------
(* Extrinsics *)

\* A step that rewrites project p and commits the outcome s of its calls.
UpdateProject(p, project, s) ==
    /\ Commit(s)
    /\ projects' = [projects EXCEPT ![p] = project]
    /\ UNCHANGED <<NextProjectId, block>>

\* create_project: the lock is placed whatever the client's balance is.
CreateProject(client, budget, duration) ==
    LET p      == NextProjectId
        locked == SetLock(Chain, GenerateLockId(p), client, budget)
    IN  /\ p < MaxProjects
        /\ CanSign(ledger, client)
        /\ Commit(OnProjectCreated(locked, client, budget))
        /\ projects' = [projects EXCEPT ![p] =
              [client |-> client, freelancer |-> None, budget |-> budget,
               status |-> "Created", duration |-> duration, submission_block |-> None,
               work |-> FALSE, dispute_info |-> None]]
        /\ NextProjectId' = p + 1
        /\ UNCHANGED <<ProjectApplicants, block>>

\* apply_for_project: anyone may apply, the client and the unregistered too.
ApplyForProject(applicant, p) ==
    /\ CanSign(ledger, applicant)
    /\ projects[p] # None
    /\ projects[p].status = "Created"
    /\ applicant \notin ProjectApplicants[p]
    /\ Cardinality(ProjectApplicants[p]) < MaxApplicants
    /\ ProjectApplicants' = [ProjectApplicants EXCEPT ![p] = @ \cup {applicant}]
    /\ UNCHANGED <<ledger, rep, projects, NextProjectId, block>>

\* Mutant: the applicants are not removed.
StartWork_KeepsApplicants(client, p, freelancer) ==
    /\ CanSign(ledger, client)
    /\ projects[p] # None
    /\ projects[p].client = client
    /\ projects[p].status = "Created"
    /\ freelancer \in ProjectApplicants[p]
    /\ UpdateProject(p, [projects[p] EXCEPT !.freelancer = freelancer,
                                            !.status = "InProgress",
                                            !.submission_block = block + projects[p].duration], Chain)
    /\ UNCHANGED ProjectApplicants

\* start_work
StartWork(client, p, freelancer) ==
    /\ CanSign(ledger, client)
    /\ projects[p] # None
    /\ projects[p].client = client
    /\ projects[p].status = "Created"
    /\ freelancer \in ProjectApplicants[p]
    /\ UpdateProject(p, [projects[p] EXCEPT !.freelancer = freelancer,
                                            !.status = "InProgress",
                                            !.submission_block = block + projects[p].duration], Chain)
    /\ ProjectApplicants' = [ProjectApplicants EXCEPT ![p] = {}]

\* submit_work, with a uri that is not empty
SubmitWork(freelancer, p) ==
    /\ CanSign(ledger, freelancer)
    /\ projects[p] # None
    /\ projects[p].freelancer = freelancer
    /\ projects[p].status = "InProgress"
    /\ ~ projects[p].work
    /\ projects[p].submission_block # None => block <= projects[p].submission_block
    /\ UpdateProject(p, [projects[p] EXCEPT !.work = TRUE, !.status = "InReview"], Chain)
    /\ UNCHANGED ProjectApplicants

\* Mutant: the project is settled and keeps its status.
Settled_StatusKept(p) == projects[p]

\* A project that has been accepted or ruled on
Settled(p) == [projects[p] EXCEPT !.status = "Completed"]

\* Mutant: the freelancer is credited and the client is not debited.
Accepted_Mints(client, p, rating) ==
    LET pr   == projects[p]
        paid == DepositCreating(RemoveLock(Chain, GenerateLockId(p), client),
                                pr.freelancer, pr.budget)
    IN  OnWorkAccepted(OnProjectCompleted(paid, pr.freelancer, pr.budget, rating * 1000, p), client)

\* What accept_work does to the chain: release the lock, pay, count.
Accepted(client, p, rating) ==
    LET pr       == projects[p]
        unlocked == RemoveLock(Chain, GenerateLockId(p), client)
        paid     == Transfer(unlocked, client, pr.freelancer, pr.budget, TRUE)
        rated    == OnProjectCompleted(paid, pr.freelancer, pr.budget, rating * 1000, p)
    IN  OnWorkAccepted(rated, client)

\* accept_work
AcceptWork(client, p, rating) ==
    LET pr == projects[p]
    IN  /\ CanSign(ledger, client)
        /\ rating \in 1..5
        /\ pr # None
        /\ pr.client = client
        /\ pr.status = "InReview"
        /\ pr.work
        /\ pr.freelancer # None
        /\ UpdateProject(p, Settled(p), Accepted(client, p, rating))
        /\ UNCHANGED ProjectApplicants

\* Mutant: the first rejection counts as minus one.
Rejected_CountsFromBelow(p) ==
    [projects[p] EXCEPT !.status = "Rejected", !.dispute_info = IF @ = None THEN -1 ELSE @ + 1]

\* A rejected project, with the number of earlier rejections
Rejected(p) ==
    [projects[p] EXCEPT !.status = "Rejected", !.dispute_info = IF @ = None THEN 0 ELSE @ + 1]

\* reject_work, with a reason that is not empty
RejectWork(client, p) ==
    LET pr == projects[p]
    IN  /\ CanSign(ledger, client)
        /\ pr # None
        /\ pr.client = client
        /\ pr.status = "InReview"
        /\ pr.work
        /\ pr.freelancer # None
        /\ UpdateProject(p, Rejected(p), Chain)
        /\ UNCHANGED ProjectApplicants

\* Mutant: cancelling is possible at every stage.
MayCancel_Always(p) == TRUE

MayCancel(p) == projects[p].status \in {"Created", "InProgress"}

\* Mutant: the lock is left behind.
Cancelled_KeepsLock(client, p) == OnProjectCancelled(Chain, client)

\* What cancel_project does to the chain
Cancelled(client, p) ==
    OnProjectCancelled(RemoveLock(Chain, GenerateLockId(p), client), client)

\* cancel_project: the applicants stay in storage.
CancelProject(client, p) ==
    LET pr == projects[p]
    IN  /\ CanSign(ledger, client)
        /\ pr # None
        /\ pr.client = client
        /\ MayCancel(p)
        /\ UpdateProject(p, [pr EXCEPT !.status = "Cancelled"], Cancelled(client, p))
        /\ UNCHANGED ProjectApplicants

-------------------------------------------------------------------------------
(* Arbitrable: what the arbitration pallet calls *)

\* get_project_parties and get_evidence_uris both succeed.
HasParties(p)  == projects[p] # None /\ projects[p].freelancer # None
HasEvidence(p) == projects[p] # None /\ projects[p].work

\* Mutant: work can be disputed at every stage.
MayDispute_AnyStage(p) == projects[p] # None

\* set_project_status_in_dispute
MayDispute(p)  == projects[p] # None /\ projects[p].status \in {"Rejected", "InReview"}
InDispute(p)   == [projects[p] EXCEPT !.status = "InDispute"]

\* Mutant: the freelancer is paid whatever the ruling is.
OnRuling_AlwaysPays(s, p, ruling) ==
    LET pr       == projects[p]
        unlocked == RemoveLock(s, GenerateLockId(p), pr.client)
    IN  OnProjectCompleted(Transfer(unlocked, pr.client, pr.freelancer, pr.budget, TRUE),
                           pr.freelancer, pr.budget, 3000, p)

\* Mutant: the freelancer is paid and the completion is reported with no value.
OnRuling_ValueForgotten(s, p, ruling) ==
    LET pr       == projects[p]
        unlocked == RemoveLock(s, GenerateLockId(p), pr.client)
        paid     == Transfer(unlocked, pr.client, pr.freelancer, pr.budget, TRUE)
    IN  IF ruling = "FreelancerWins"
        THEN OnProjectCompleted(paid, pr.freelancer, 0, 3000, p)
        ELSE OnDisputeOutcome(s, pr.client, pr.freelancer)

\* Mutant: every lock of the client is lifted before the payment, the locks of
\* the client's other projects too.
OnRuling_UnlocksAll(s, p, ruling) ==
    LET pr       == projects[p]
        unlocked == [s EXCEPT !.ledger.locks[pr.client] = [l \in LockIds |-> 0]]
        paid     == Transfer(unlocked, pr.client, pr.freelancer, pr.budget, TRUE)
    IN  IF ruling = "FreelancerWins"
        THEN OnProjectCompleted(paid, pr.freelancer, pr.budget, 3000, p)
        ELSE OnDisputeOutcome(s, pr.client, pr.freelancer)

\* on_ruling: what it does to the chain (the project becomes Settled).  A ruling
\* for the client leaves the lock where it is.
OnRuling(s, p, ruling) ==
    LET pr       == projects[p]
        unlocked == RemoveLock(s, GenerateLockId(p), pr.client)
        paid     == Transfer(unlocked, pr.client, pr.freelancer, pr.budget, TRUE)
    IN  IF ruling = "FreelancerWins"
        THEN OnProjectCompleted(paid, pr.freelancer, pr.budget, 3000, p)
        ELSE OnDisputeOutcome(s, pr.client, pr.freelancer)

-------------------------------------------------------------------------------
(* Specification of the pallet without arbitration *)

ProjInit ==
    /\ RepInit
    /\ projects = [p \in ProjectIds |-> None]
    /\ NextProjectId = 0
    /\ ProjectApplicants = [p \in ProjectIds |-> {}]
    /\ block = 1

\* The first block at which a submission of p would be late.
SubmissionDeadlines ==
    {projects[p].submission_block + 1 :
       p \in {q \in ProjectIds : projects[q] # None /\ projects[q].status = "InProgress"}}

\* A block goes by.  Guards only compare the block number with deadlines, so
\* time need not pass when every deadline is behind.
Tick(deadlines) ==
    /\ \E d \in deadlines : block < d
    /\ block' = block + 1
    /\ UNCHANGED <<ledger, rep, projects, NextProjectId, ProjectApplicants>>

ClientStep(c) ==
    \/ \E b \in Budgets, d \in Durations : CreateProject(c, b, d)
    \/ \E p \in ProjectIds :
         \/ \E f \in Freelancers : StartWork(c, p, f)
         \/ \E r \in StarRatings : AcceptWork(c, p, r)
         \/ RejectWork(c, p)
         \/ CancelProject(c, p)

FreelancerStep(f) == \E p \in ProjectIds : ApplyForProject(f, p) \/ SubmitWork(f, p)

StakerStep(a) ==
    /\ RegisterUser(a) \/ RegisterAsJuror(a) \/ DeregisterAsJuror(a)
    /\ UNCHANGED projVars

ProjStep ==
    \/ \E c \in Clients : ClientStep(c)
    \/ \E f \in Freelancers : FreelancerStep(f)
    \/ \E a \in Stakers : StakerStep(a)

ProjNext == ProjStep \/ Tick(SubmissionDeadlines)

ProjSpec == ProjInit /\ [][ProjNext]_<<repVars, projVars>>

-------------------------------------------------------------------------------
(* Properties *)

\* Every storage item keeps its type.
ProjTypeOK ==
    /\ RepTypeOK
    /\ projects \in [ProjectIds -> Project \cup {None}]
    /\ NextProjectId \in 0..MaxProjects
    /\ ProjectApplicants \in [ProjectIds -> SUBSET Accounts]
    /\ block \in Nat

\* The freelancer of p has been paid: on_project_completed left its attestation.
Paid(p) == <<projects[p].freelancer, p>> \in rep.Attestations

\* The escrow lock follows the project: it holds exactly the budget, on the
\* client's account alone, from creation until the project is cancelled or the
\* freelancer is paid, and no other step (of this or of another project, a
\* juror joining or leaving) touches it.
LocksTrackProjects ==
    \A p \in ProjectIds, a \in Accounts :
      ledger.locks[a][GenerateLockId(p)] =
        IF /\ projects[p] # None
           /\ projects[p].client = a
           /\ projects[p].status # "Cancelled"
           /\ ~ Paid(p)
        THEN projects[p].budget ELSE 0

\* A submitted piece of work, and only that, ever gets reviewed: status, work,
\* freelancer and deadline agree at every stage of a project.
StageCoherent ==
    \A p \in ProjectIds : projects[p] # None =>
      LET pr == projects[p]
      IN  /\ (pr.freelancer = None) <=> (pr.submission_block = None)
          /\ pr.status \in {"InReview", "Rejected", "InDispute", "Completed"} => pr.work
          /\ pr.status = "Created" => pr.freelancer = None
          /\ pr.status = "InProgress" => pr.freelancer # None /\ ~ pr.work
          /\ pr.work => pr.freelancer # None /\ ProjectApplicants[p] = {}
          /\ pr.status = "Rejected" => pr.dispute_info = 0

\* The funds of every account together, in an initial state and now.
TotalIssuance(l) == SumFunctionOnSet([a \in Accounts |-> l.free[a] + l.reserved[a]], Accounts)
InitialIssuance  == SumFunctionOnSet(InitialFree, Accounts)

\* Nothing is minted and nothing is lost: with an existential deposit of one unit
\* there is no dust, and escrow, payment, bonds, slashing, costs and rewards
\* only move what is there.
FundsConserved == ExistentialDeposit = 1 => TotalIssuance(ledger) = InitialIssuance

\* The projects that paid a.
PaidProjects(a) == {p \in ProjectIds : <<a, p>> \in rep.Attestations}

\* A user's recorded earnings and number of ratings are those of the genesis
\* plus one budget and one rating for each project that paid the user: no path
\* pays, or counts, a project twice, and none counts a project it did not pay.
EarningsExplained ==
    \A a \in Accounts :
      LET st == rep.ReputationStats[a]
      IN  /\ st.total_earned = InitialUsers[a].total_earned
                               + SumFunctionOnSet([p \in PaidProjects(a) |-> projects[p].budget],
                                                  PaidProjects(a))
          /\ st.total_ratings_received = InitialUsers[a].total_ratings_received
                                         + Cardinality(PaidProjects(a))

Closed(p) == projects[p] # None /\ projects[p].status \in {"Completed", "Cancelled"}

\* A closed project stays as it is, whatever its parties, its applicants or a
\* dispute still try; and until then its client and budget never change, and
\* its freelancer is chosen once.
ProjectsSettleOnce ==
    [][\A p \in ProjectIds : projects[p] # None =>
         /\ Closed(p) => projects'[p] = projects[p]
         /\ projects'[p].client = projects[p].client
         /\ projects'[p].budget = projects[p].budget
         /\ projects[p].freelancer # None => projects'[p].freelancer = projects[p].freelancer
      ]_projects

\* The funds of a client cover the budgets it has promised in projects that are
\* still open: README.md's "locks a client's funds on-chain when a project is
\* created".
EscrowCovered ==
    \A c \in Accounts :
      LET open == {p \in ProjectIds : projects[p] # None /\ projects[p].client = c /\ ~ Closed(p)}
      IN  SumFunctionOnSet([p \in open |-> projects[p].budget], open)
            <= ledger.free[c] + ledger.reserved[c]
===============================================================================
