# TaskChain: a verification project in TLA+

TaskChain is a freelancing parachain. Three pallets carry its logic: *projects*
(escrow and the life of a project), *reputation* (statistics, tiers, jurors and
their stakes) and *arbitration* (disputes, appeals to juries, payouts). This
directory holds TLA+ models of the three pallets, of the runtime that composes
them and of the off-chain service that acts as the oracle, abstract specifications
they implement, TLC runs on small instances, and theorems checked by TLAPS for
every value of the parameters.

## 1. The system

| Part | Source | State | Operations |
|---|---|---|---|
| projects pallet | `pallets/projects/src/lib.rs` | `Projects`, `NextProjectId`, `ProjectApplicants`; a lock per project on the client's account | `create_project`, `apply_for_project`, `start_work`, `submit_work`, `accept_work`, `reject_work`, `cancel_project`; trait `Arbitrable` for the arbitration pallet |
| reputation pallet | `pallets/reputation/src/lib.rs` | `ReputationStats`, `Attestations`, `JurorTiers`, `JurorRegistry`, one bounded pool per tier, `NextJurorIndex`, `StakeOf`, `JurorBusy` | `register_user`, `register_as_juror`, `deregister_as_juror`, `update_weights`; trait `ReputationInterface` for the other two |
| arbitration pallet | `pallets/arbitration/src/lib.rs` | `Disputes`, `AppealBonds`, `ArbitrationCosts`, `JuryFeesOwed`, `JurorRewards` | `create_dispute`, `submit_ruling` (oracle), `appeal_ruling`, `cast_vote`, `finalize_round`, `enforce_final_ruling` |
| currency | `pallet_balances` (external) | free, reserved and locked funds | `set_lock`, `remove_lock`, `reserve`, `unreserve`, `slash_reserved`, `deposit_creating`, `transfer` |
| runtime, genesis | `runtime/src` | configuration | constants, initial users and jurors |
| AI oracle services | `frontend/app/api`, `frontend/app/services`, the page `frontend/app/project/[id]` | requests in progress; the sudo account's nonce and the node's pool outside | read a dispute, ask a model, sign and submit a ruling through sudo, wait for its finalization; the page gives up after 30 seconds and may ask again |
| node, other frontend pages | `node/src`, `frontend/app` | none of their own | collator template, user interface |

The pallets call each other inside one extrinsic: a project's payment updates the
freelancer's statistics, tier and pool; an enforced ruling calls projects, the
currency and reputation in turn. An extrinsic is atomic: an error anywhere rolls
all of it back, except where the code ignores the error. Extrinsics of all users
interleave freely between blocks, and time is the block number.

What is hard:

* *Shared money.* Locks of several projects overlap, and stakes and bonds share one
  anonymous reserve from which `unreserve` and `slash_reserved` take less than
  asked for without an error.
* *Duplicated state.* A dispute is recorded in two pallets; a juror in five storage
  items; a tier is cached.
* *Ignored errors.* `finalize_round` ignores the error of `on_jury_vote` after part of
  it was written; `complete_arbitration_payouts` ignores an unpaid cost.
* *Timeouts.* An appeal is possible before a deadline, enforcement from it on; a vote
  has no deadline at all; a review and the oracle have periods nobody enforces.
* *An unreliable oracle.* Several handlers may work on one dispute with different
  answers, share one account and its nonces, lose their subscription or their node's
  pool; and sudo reports success when the call inside it failed.
* *Narrow integers.* Counters and weighted sums saturate at 32 bits, percentages
  truncate, scores jump at the edges of brackets.
* *People who do nothing.* Clients who do not review, jurors who do not vote, losers
  who do not appeal.

`PROJECT.json` lists these hazards with the lines where they bite.

What makes each part correct:

* *projects*: the escrow lock follows the project; no unit appears or disappears;
  every payment is made and counted once; the stages are followed; closed is closed.
* *reputation*: pools hold opted-in jurors, once, in the pool of their tier; every
  stake is reserved and every reserve is a stake; no tier is kept that the record no
  longer justifies; the selection takes the right people; running means stay in
  range; scores stay in their ranges and move the right way.
* *arbitration*: both pallets agree on what is in dispute; a verdict is its jury's;
  the loser of each ruling has the whole appeal period; votes stand; bonds are backed; the books are empty after settlement; nobody but the
  loser pays; submitted work is settled in the end.
* *oracle*: a dispute that awaits a ruling gets one, once; of the handlers that work on
  it only the one whose own extrinsic gave the ruling reports success.

## 2. Modules

| Module | Content |
|---|---|
| `Balances` | The currency, as operators on a chain state |
| `Reputation` | The reputation pallet: tiers, pools, stakes, interface functions, genesis, extrinsics, properties |
| `ReputationCalls` | The pallet under a caller that makes any call of the interface at any time |
| `JuryRecord` | The same with a history of the votes behind each juror's accuracy |
| `Projects` | The projects pallet on top of `Reputation`; specification `ProjSpec` without disputes |
| `Arbitration` | The arbitration pallet on top of both; specification `ArbSpec` of the whole runtime, `FairSpec` with fairness |
| `RulingRecord` | The whole runtime with a history of when each dispute got its last ruling |
| `Scores` | The score formulas, `update_weights` and the dates the scores look at, on top of `ReputationCalls` |
| `Genesis` | The users, jurors and pools of the genesis and the runtime's bounds, used by the instances |
| `Escrow` | Abstract: what the platform promises the parties of a deal, and whose money may change when; implemented by `Arbitration` |
| `Docket` | Abstract: what the oracle needs to know of disputes; implemented by `Arbitration`, extended by `AiOracle` |
| `AiOracle` | The oracle's services: pages, handlers, model, nonces, pool, restarts |
| `MCReputation`, `MCProjects`, `MCArbitration`, `MCRulingRecord`, `MCScores`, `MCAiOracle` | Instances for TLC |
| `FiniteSums` | Lemmas: sums over finite sets, cardinalities |
| `ReputationLemmas` | Lemmas: what the operators of `Balances` and `Reputation` keep, and whom `get_eligible_jurors` selects |
| `ReputationProofs` | Theorems about `ReputationCalls` |
| `RecordProofs` | Theorems about what the chain says of a user: `JuryRecord` and `Scores` |
| `ArbitrationProofs` | Theorems about the control of the composed runtime: `Arbitration` and `RulingRecord` |
| `RuntimeLemmas` | Lemmas: what each extrinsic of the runtime commits to chain state and money |
| `RuntimeProofs` | Theorems about the composed runtime with its chain state: types, locks, payments, verdicts, books, sums of money, `Escrow` |
| `AiOracleProofs` | Theorems about `AiOracle` |

*State.* `ledger` is the currency's storage, `rep` the reputation pallet's (a record
with the storage items' names), and `projects`, `ProjectApplicants`, `disputes`,
`AppealBonds`, ... are the storage items of the other two. `None` is an absent
`Option`; a zero lock is no lock.

*Calls inside a call.* A function one pallet calls on another is a transformer of a
chain state `[ok, ledger, rep]`. An extrinsic threads the state through them in the
code's order and `Commit`s the result, which is possible only if `ok` still holds:
that is the rollback. Where the code ignores an error, the model resets `ok` and
keeps what was written before it.

*Actions.* One per extrinsic, with the code's checks as conjuncts. `Tick` /
`NextBlock` advance the block number; since guards only compare it with deadlines,
time need not pass when every deadline is behind.

*Refinements.* `Arbitration` instantiates both abstract modules with state functions of
its own. `EscrowKept`: a deal's stage is the project's status (a completed project is
paid or withheld according to its ruling) and a purse is what an account owns, free
and reserved. Every step of the runtime must be a step of `Escrow` or leave deals and
purses alone: stakes, locks, bonds, appeals and votes move no money between
accounts until a settlement, an accepted deal moves exactly the budget, and a ruled
one takes from its loser at most the bonds of all rounds (75% of the budget, more than
the costs) besides what is at stake. `DocketKept`: a dispute is absent, awaited or
ruled; `AiOracle` extends the same `Docket`, so what is shown of the services holds
above the runtime, and the fairness `Arbitration` assumes of the oracle is what
`AwaitedRulingComes` shows.

*The oracle.* A handler (`handler[h]`) is one request of the route
`ai-oracle-trigger/route.ts`, at the await its `stage` names. `nonce` says whether the
nonce it signed with is still free; an extrinsic that enters the pool uses up the
nonces of all others in flight. `LoseTrack` stands for every way in which the callback
of `signAndSend` never sees `isFinalized` (usurped, dropped, invalid, a broken
connection), and for a node that cannot be reached before the dispute is read
(`ApiPromise.create` tries again for ever): the handler never answers and the page only
has its timeout. `ReadFails` and `ModelFails` stand for every throw of the queries and of
the service, which end in a response with an error. A restart empties the pool. The chain is `Docket` and a queue.

*Abstractions.* Uris, reasons, events, weights and fees are left out. Of a
registration only whether it happened is kept, of an attestation that it exists, of
a work submission that it was made, of the dispute information of a project the
count of earlier submissions. `registration_block` and `last_activity_block` decide
nothing but scores and are kept in `Scores` only; `disputes_initiated` is written by no
call. Counters and the weighted sums of means saturate at `U32Max`; TLC's integers end
at 2^31 - 1, which is its value where saturation does not matter, and in the run
`reputation` it is 3000000, so that the fourth vote of a juror saturates. Balances are
naturals (the code's u128). The jurors' votes are recorded in a fixed arbitrary
order (the code's is that of the account ids), and bonds are settled in the order
of the rounds (the code's is that of a hash): the outcome differs only if two
promoted jurors compete for the last place in a pool, or if a slashed bond is
below the existential deposit. An account whose free balance is below the
existential deposit signs nothing.

## 3. Runs

| Run | Instance | Checks |
|---|---|---|
| `reputation` | 3 users at the tier thresholds, pools of 2, 1 and 1, any 5 calls (144 thousand states) | `RepTypeOK`, `PoolsSound`, `StakesBacked`, `TierNotOverstated`, `MeansInRange`, `AccuracyTracksVotes`, `SelectionCorrect` |
| `projects` | 2 users, each client and freelancer of the other or of itself, 2 projects, too little money for both (13 thousand states) | `ProjTypeOK`, `LocksTrackProjects`, `StageCoherent`, `FundsConserved`, `EarningsExplained`, `ProjectsSettleOnce` |
| `arbitration` | 1 project, 3 rounds, juries of 2, an appeal period of 2 blocks, jurors who come and go, a client who can barely pay, an existential deposit of 3 (56 thousand states), `RecordSpec` | `ArbTypeOK`, `DisputesMatchProjects`, `BooksFollowRounds`, `RulingIsVerdict`, `PaidAsRuled`, `EscrowKept`, `AppealWindowKept`, `VotesStand`, `ProjectsSettleOnce` |
| `two_disputes` | 2 projects of the same parties in dispute at once (406 thousand states) | `ReservesBacked`, `FundsConserved`, `LocksTrackProjects`, `EarningsExplained`, `EscrowKept`, `DocketKept` |
| `liveness` | 1 project, parties that can pay (4 thousand states), `FairSpec` | `SubmittedWorkResolves` |
| `scores` | 5 users at the edges of the brackets, two settings of the weights, one of them above 100%, time in jumps (57 thousand states) | `ScoresInRange`, `CompletionNeverHurts`, `DisputesScoredFairly`, `HarmNeverHelps` |
| `oracle` | 1 dispute, both parties' pages, 2 handlers at a time, 2 extrinsics in the pool, the model's 3 answers (108 thousand states), `FairOracleSpec` | `OracleTypeOK`, `SuccessIsOwnExtrinsic`, `AwaitedRulingComes` |

*Why the bounds are enough.* Five calls suffice for every sequence in which a pool
fills, its member moves up, down or out, and another takes the place; the users
start one call short of the thresholds. Two accounts in every role include the
client that hires itself. Budgets are chosen so that percentages do not truncate
(400) and so that they do (40), and so that a payment, a bond, a cost or a reward
is sometimes affordable and sometimes not. The run `arbitration` has an existential
deposit of three units: the first bond of the smaller budget, two units, is lost when it is
slashed before the pallet's account exists. Elsewhere it is one unit, for which
`FundsConserved` is stated. Periods of one block give every order
of a call and a deadline; `arbitration` has an appeal period of two, so that an appeal may also
come a block after its ruling. The juries' candidates are the users of the genesis
preset in `runtime/src/genesis_config_presets.rs`, with the runtime's sizes of pools and
applicant lists where the run is not about filling them. For the oracle, two handlers
are enough for two answers to one dispute, for a nonce taken by the other, and, as
slots are used again, for any number of attempts one after another; the one project is
number 0.

*Deadlock* is not checked: once every project is closed and the bound on new ones
is reached, nothing need happen.

*Fairness.* `FairSpec` assumes that blocks are produced; that the freelancer
disputes work that is not accepted; that the oracle answers; and that somebody
calls `finalize_round` and `enforce_final_ruling`, which anyone may (the winner has
the interest). Each is weak fairness of a single action, so it asks only for calls
that stay possible. Nothing is assumed of clients, appellants or jurors. The run
gives the parties enough funds; `doc_rewards_funded` shows what happens if not.

`FairOracleSpec` assumes weak fairness of a page's timeout, of each handler (every await
returns, throws or is never heard of again, which is `LoseTrack`) and of pressing the
button while it is there and enabled. Strong fairness is assumed of what may fail again
and again, and only of the system as a whole: of reading the dispute (some attempts
reach the node), of the model (it does not fail every time it is asked), of the node's acceptance of an extrinsic, and of inclusion in a block
(the node does not restart before every block). Nothing is assumed of one particular
handler. Deadlock is not checked there either: with the ruling given and every page
answered nothing need happen.

### What the documentation says and the code does not do

Each of these runs checks one statement taken from the documentation, a comment, a
name or a message, and TLC finds a behaviour of the code that contradicts it.

| Run | Statement | What happens |
|---|---|---|
| `doc_escrow` | the escrow locks the client's funds | `set_lock` ignores the balance and locks overlap: two projects against the same funds |
| `doc_locks_released` | a completed project's payment is released | after a ruling for the client its lock stays for ever |
| `doc_disputes_counted` | dispute outcomes are tracked | a client's win is reported twice and counted twice |
| `doc_rewards_funded` | the pallet's account holds the necessary funds | a winning appellant's bond is returned, the loser cannot pay the costs, the jurors' rewards cannot be paid, and the ruling cannot be enforced until somebody tops the account up |
| `doc_opted_in` | pools are the opted-in jurors | a promotion into a full pool fails after the removal was written, and the error is ignored |

Read from the code, and kept out of the runs' way:

* `JurorBusy` is said to tell who is seated; `deregister_as_juror` reads it and nothing sets
  it. A seated juror may leave with its stake and keeps its seat and its vote, although
  jurors "must stake tokens to participate"; the models let it.
* The final jury has `MaxJurors` members of Silver or Gold tier, 100 in the runtime. With
  the two of the genesis the final appeal is impossible and the verdict of round 2 is
  final. The runs use small juries.
* An `Inconclusive` answer is submitted as `ClientWins`, and the page is told `AI ruling
  "Inconclusive" successfully submitted to blockchain`. `SuccessIsOwnExtrinsic` is about what
  the handler submitted and claims nothing of what it tells.
* `internal_on_work_accepted` raises a client's `projects_completed` and does not look at
  its tier, so a cached tier may be too low (`TierNotOverstated` says it is never too high).
* Above about 4295 votes the weighted sum of a juror's accuracy saturates and a perfect
  juror's accuracy falls with every vote (`AccuracyTracksVotes` excludes just that). The
  sum of the ratings saturates too, after some 860 thousand ratings of five stars; the mean
  then falls, below one star in the end, which `MeansInRange` allows only there.
* The percentages of the scores are taken of a hundredfold count that saturates: beyond
  42949672 projects or disputes a further success lowers the rate it should raise.
  `CompletionNeverHurts` and `DisputesScoredFairly` are about counts below that.
* The value score is said to be 0 to 1000; it reaches 1900 and falls back to 1000 above
  earnings of 100000. The client's posting score can exceed its 3000, because accepted
  work of a freelancer counts too. `disputes_initiated` is never raised, so a client's
  dispute score is always 2000. The default weights are zero. Nothing on the chain reads
  a score.
* The route `ai-oracle`, which no page calls, refuses every dispute and refuses project 0.

## 4. Proofs

Every invariant and every action property of every passing run is a theorem, and so are
both refinements; what is left to TLC is liveness (see the end of the section). The run `projects` checks the projects pallet
alone (`ProjSpec`); the theorems about it are stated of the whole runtime (`ArbSpec`), in
which disputes too close projects.

### The reputation pallet under any caller (`ReputationProofs`, about `RepSpec`)

| Theorem | States |
|---|---|
| `ReputationTypeCorrect` | `RepTypeOK` |
| `ReputationPoolsSound` | `PoolsSound` |
| `ReputationStakesBacked` | `StakesBacked`: every stake is reserved and every reserve is a stake |
| `ReputationTierNotOverstated` | `TierNotOverstated`: no cached tier is above what the record justifies |
| `ReputationMeansInRange` | `MeansInRange` |
| `ReputationSelectionCorrect` | `SelectionCorrect`: the selection takes as many eligible jurors as asked for or all there are, from the highest tiers first, and leaves indices that fit the pools |

The inductive invariant `RepInv` joins them with `Newcomers`: an account that is not
registered has empty statistics. That is what `TierNotOverstated` lacks, since
`register_user` rewrites statistics without looking at the tier.

The proof follows the way the model is built. `Keeps(s, t)` says of a transformer from
`s` to `t` that it leaves a well-typed chain state well-typed, with sound pools if they
were sound; it is shown for each operator of `Balances` and `Reputation`, is transitive,
and so holds of every chain of calls an extrinsic makes. The hard leaves are
`SwapRemove` (the last member takes the place of the removed one and nobody is
duplicated or lost), `UpdateJurorTier` (the juror is in no pool between removal and
insertion, and stays in none if the insertion fails) and the round-robin of the
selection, whose index the code takes modulo the length of a pool that has changed
since. Balances stay natural only because `ok` guards every subtraction, so the types of
the balances are claimed for states in which `ok` holds.

### What the chain says of a user (`RecordProofs`)

Both specifications let any caller make any call. The first part of the module says, for
every call of the interface, what it writes into one account's statistics
(`CompletionWrites`, `OutcomeWrites`, `ClientCallWrites`, `VoteWrites`, joined in `CallCounts`);
everything after it is about two records of statistics and no longer about the chain.

*The accuracy of jurors* (`JurySpec`). `JuryAccuracyTracksVotes`: `AccuracyTracksVotes`. The
inductive invariant `JuryInv` is the statement together with `RepInv` and the type of the
history. It is inductive because the error bound grows with the square of the number of
votes: a vote multiplies the old mean by the old count, which is where truncation has
lost at most one part per vote, and loses less than one part of the new count in its own
division (`VoteTracks`). Votes of accounts without a record count nowhere, and every other
call leaves count and mean alone (`OtherCallKeepsVotes`).

*The scores* (`ScoreSpec`).

| Theorem | States |
|---|---|
| `ScoresStayInRange` | `ScoresInRange`: the parts of the score stay in their ranges, and neither the cap nor the saturation of the sum takes effect |
| `ScoresPayCompletion` | `CompletionNeverHurts` |
| `ScoresJudgeFairly` | `DisputesScoredFairly` |
| `ScoresNeverRewardHarm` | `HarmNeverHelps` |

The inductive invariant `ScoreInv` is `RepInv`, of which the range of the mean ratings is
needed (half of the mean is the rating score), with the types of weights and dates. What
makes the action properties true is monotonicity, shown of one formula after another:
quotients (`QuotientMonotone`), rates that rise with a success and fall with a failure
although numerator and denominator both grow (`PercentRises`, `PercentFalls`), the brackets of
the volume score (`ProjectScoreMoves`, `ValueScoreMoves`), the decayed activity
(`ActivityScoreMoves`: nobody is more active than who acts now) and the penalties
(`JudgedMonotone`, `CancellationScoreMoves`). `StepCounts` sorts every step by what a score
makes of it: a rated project, a failure or lost dispute, a dispute won, or nothing a
property asks about.

Small instances do not reach two limits that the proofs need. Where a hundredfold count
saturates, a success lowers a rate, so `CompletionNeverHurts` and `DisputesScoredFairly` name
that limit; and `ScoresInRange` needs mean ratings of at most five stars for any number of
ratings, so the upper half of `MeansInRange` holds beyond saturation too.

### Control of the runtime (`ArbitrationProofs`, about `ArbSpec`)

* `PalletsAgree`: `DisputesMatchProjects`. Inductive invariant `MatchInv`: control
  types, the statement itself, and that identifiers not yet given out have no project,
  without which a new project could meet an old dispute.
* `StagesCohere`: `StageCoherent`. Strengthened to `StagesFollowed`: work in progress has
  no applicants left and work in review was never rejected.
* `SettledOnce`: `ProjectsSettleOnce`. `enforce_final_ruling` does not look at the
  project's status; that it never meets a closed project follows from `PalletsAgree`.
  That `start_work` never replaces a freelancer follows from the stages.
* `VotesStandAlways`: `VotesStand`, from the invariant `BallotsKept`: the map of votes and
  the marks in the list of jurors agree.
* `DocketImplemented`: `DocketKept`, the refinement of `Docket`. The step simulation uses
  `MatchInv`: that a rewritten dispute is still a dispute follows from the agreement of
  the two pallets. `create_dispute` is `Open`, `submit_ruling` is `Rule`, and every other
  step leaves the docket as it is.

* `AppealsInTime`, of `RecordSpec`: `AppealWindowKept`. A dispute keeps one date for both of
  its periods, `start_block`. The inductive invariant `ClocksKept` says that while a ruling
  stands and may be appealed this date is the block in which the ruling was given, whether
  the oracle or a round gave it; with it go the types of `MatchInv`.

These six use nothing of what the currency and the reputation pallet return.

### The runtime and its money (`RuntimeProofs`, about `ArbSpec`)

`RuntimeLemmas` says of each extrinsic what it commits, in three grades: `Sustains` (types,
pools, stakes and tiers are kept), `Calm` and `Quiet` (besides, nobody is credited with a
payment and, if quiet, nobody owns more or less than before) and `Closes` (the lock of
one project is lifted and its freelancer credited); and, where money moves, what every
account owns and has reserved beyond its stake afterwards. The theorems then go call
by call.

| Theorem | States | Inductive invariant, and why it is needed |
|---|---|---|
| `ArbTypeCorrect`, `ProjTypeCorrect` | `ArbTypeOK`, `ProjTypeOK` | `TypesInv`: the books record a selected jury, which is one only if the pools are sound, so the pallet's invariant is part of the runtime's types |
| `JuriesWellDrawn` | `PoolsSound`, `TierNotOverstated` and `SelectionCorrect`, of the whole runtime | the same: extrinsics make several calls and ignore some errors |
| `LocksFollowProjects`, `FreelancerPaidAsRuled` | `LocksTrackProjects`, `PaidAsRuled` | `EscrowInv`: an attestation belongs to the freelancer of a completed project that was not ruled against it. Locks of two projects have different identifiers because the four bytes of a u32 determine it |
| `RulingsAreVerdicts` | `RulingIsVerdict` | `VerdictInv`: votes come from seated jurors, juries have the size of their round and exclude the parties, and the parties of a dispute do not change |
| `BooksFollowTheRounds` | `BooksFollowRounds` | `BooksInv`: rewards go to voters, and who votes is a juror and no party, so verdicts are part of it |
| `EarningsFollowPayments` | `EarningsExplained`, if `RatingsFit` | `EarningsInv`: nobody is paid twice for a project |
| `ReservesAreBacked` | `ReservesBacked` | `MoneyInv`: an account's reserve is its stake and the sum of its bonds in all open disputes, hence `unreserve` and `slash_reserved` get all they ask for |
| `FundsAreConserved` | `FundsConserved` | the same, with the total issuance; jury rewards are a transfer to all jurors at once |
| `EscrowImplemented` | `EscrowKept`, the refinement of `Escrow` | `PromiseInv`: `MoneyInv` and `EscrowInv`, and besides that the parties are never the pallet's account, and that the bonds and the costs on the books are the percentages of the budget their rounds ask for |

`EscrowImplemented` is the summary. `create_project` is `Offer`, `start_work` is `Agree`,
`submit_work` is `Deliver`, `cancel_project` is `Withdraw`, `create_dispute` is `Contest`,
`accept_work` is `Pay` and `enforce_final_ruling` is `Decide` for the party its ruling names;
all else leaves deals and purses alone. In `Decide`, the loser's slashed bonds and
the costs they do not cover together are the larger of its bonds and the costs
(`PenaltyBounded`); the bonds are 5, 20 and 50 percent of the budget and the costs 2, 5
and 8, each rounded down, so three quarters of the budget bound both. That nobody else loses anything needs
`ReservesBacked`: a bond that was not in the reserves would be taken from a stake.

*Sums.* A fold over a set is defined by a recursive function on its subsets, which takes
the elements in an order of its own choice. `FiniteSums` shows that the function exists
on finite sets, that a sum is the sum without any one element plus that element's term,
and from that how a sum changes when its terms do. Induction is by the smallest set or
number at which a claim fails (`LeastExists`, `SmallestSet`), since the library's induction
theorems cannot be applied.

### The oracle (`AiOracleProofs`, about `OracleSpec`, for any number of disputes, pages and handlers)

* `OracleTypeCorrect`: `OracleTypeOK`, that is, only rulings the pallet knows are ever
  sent.
* `SuccessIsEarned`: `SuccessIsOwnExtrinsic`, that is, at most one handler of a dispute
  reports success, and the ruling on the chain is what that handler sent. What it sent is
  `ToChain` of its answer; that the page is told the same is not claimed, and for
  `Inconclusive` it is not so. The statement says nothing of an extrinsic on
  its way, so the inductive invariant `OracleInv` follows it: a request that is past the
  model has its answer; a watched extrinsic carries its handler's project and answer and
  no handler has two in the pool; a handler whose extrinsic gave the ruling is the only
  one for its dispute and has not reported yet. Lost subscriptions and restarts only let
  handlers fade, which keeps all of it (`HandlersFade`).

### Assumptions

* The types of the constants: `BalancesAssumption`, `RepAssumption`, `ProjAssumption`,
  `ArbAssumption`, `RepInputAssumption`, `ScoreAssumption`. Among them: a u32 holds the
  largest score, 10000; there are finitely many accounts, project
  identifiers are u32, the pallet's account is nobody's, and a jury of the second
  round fits the list of the last.
* That `None` is no value of the types it is added to (`ProjAssumption`,
  `DisputeAssumption`, `DealAssumption`), and that locks have identifiers (`LockIdAssumption`).
* That the initial jurors of the genesis have statistics, can pay their stake and fit into
  their pools, which its build asserts, and that none is listed twice or ineligible, which
  build does not look at and every genesis of the repository satisfies (together
  `GenesisAssumption`); that whoever has statistics at genesis is registered
  (`UsersAssumption`), and, for the accuracy only, that nobody has votes at genesis
  (`NoVotesAssumption`), as in every genesis of the repository.
* What the model may answer (`OracleAssumption`).
* `RatingsFit`, for `EarningsFollowPayments` only: there is room in every counter of ratings
  for one rating per project. A saturated counter would no longer count.

TLC evaluates all but the last in the runs.

### Only model-checked

Liveness (`SubmittedWorkResolves`, `AwaitedRulingComes`), which is out of TLAPS's reach.

## 5. Not modelled

* The minimum bonds of the configuration, called floors where they are declared:
  `calculate_appeal_bond` reads them and drops them, so they have no effect.
* The contents of attestations, evidence, prompts and answers; the model is an
  environment that gives any of its three answers or fails.
* The route `ai-oracle` (see above) and the pages' rendering and wallet calls.
* The node (`service.rs`, `command.rs`, `rpc.rs`, `cli.rs`): the collator template's wiring of
  third-party components, without logic of this system. The same holds of the
  runtime's parachain, consensus, session, message queue and XCM configuration, of its
  API boilerplate, and of the pallets' mocks, events and error types.
* The `unwrap` in the selection of jurors, which panics on more than `MaxJurors` of the
  reputation pallet: the runtime asks for at most that many (100, the same bound as the
  arbitration pallet's).
* Fees and weights.

## 6. Plan

1. Done: `Balances`, `Reputation`, `ReputationCalls`, `Projects`, `Arbitration`, their runs
   and the first theorems.
2. Done: saturation, `Genesis`, `Scores`, the abstract specifications `Escrow` and `Docket`
   with their refinements, `AiOracle`, and the theorems `DocketImplemented`, `OracleTypeCorrect`
   and `SuccessIsEarned`.
3. Done: the invariants of the reputation pallet and of the composed runtime, sums of
   money included, and the refinement of `Escrow` (section 4).
4. Done: the record of a user, that is, the accuracy of jurors and the scores; juries of
   the whole runtime.
5. Done: the history of rulings, `RulingRecord`, and `AppealsInTime`.
6. Left: nothing of the safety properties. A next step would be a proof of liveness with
   a tool that does fairness.
