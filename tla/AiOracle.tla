------------------------------- MODULE AiOracle -------------------------------
(***************************************************************************)
(* The oracle's services, frontend/app/api: a page asks the service for a  *)
(* ruling, a handler of the service reads the dispute, asks a language     *)
(* model, signs submit_ruling (wrapped in sudo) with the sudo account's    *)
(* key, sends it to a node and waits for it to be finalized.  Pages give   *)
(* up after 30 seconds and may ask again while the first handler goes on;  *)
(* handlers share one account and its nonces; the model fails, connections *)
(* break, a node loses its pool.                                           *)
(***************************************************************************)
EXTENDS Docket, Sequences

CONSTANTS
    None,           \* the absent value of an Option
    Users,          \* who has the project's page open
    Slots,          \* bound: handlers that run at the same time
    MaxPending,     \* bound: extrinsics of the oracle that wait in the pool
    Answers         \* what the model may answer

VARIABLES
    page,           \* the request each page waits for, or None
    handler,        \* the request each slot works on, or None
    pool,           \* the node's pool: the sudo account's rulings, by nonce
    first,          \* history: the oracle's ruling on each dispute
    reported        \* history: the answers reported as submitted, by project

serviceVars == <<page, handler, pool, first, reported>>
oracleVars  == <<docket, serviceVars>>

Rulings == {"ClientWins", "FreelancerWins"}

Stages == {"reading", "asking", "signing", "sending", "watching", "included"}

\* nonce tells whether the nonce a handler signed with is still unused, applied
\* whether the finalized extrinsic emitted AiRulingSubmitted.
Request ==
    [project : Cases, user : Users, stage : Stages, answer : Answers \cup {None},
     nonce : BOOLEAN, applied : BOOLEAN]

\* slot: the handler that watches the extrinsic
Extrinsic == [slot : Slots \cup {None}, project : Cases, ruling : Rulings]

ASSUME OracleAssumption ==
    /\ Cases \subseteq Nat
    /\ MaxPending \in Nat \ {0}
    /\ Answers \subseteq Rulings \cup {"Inconclusive"}
    /\ None \notin Slots \cup Answers \cup Rulings \cup Request

-------------------------------------------------------------------------------
(* Pages *)

\* Mutant: a project number that JavaScript takes for false is missing.
ValidRequest_Truthy(p) == p # 0

\* The trigger route wants a number; the project 0 has one.
ValidRequest(p) == p \in Nat

\* handleAIArbitration: the button is shown, and the page looks again, while the
\* dispute awaits the oracle; it is disabled while the page waits for an answer.
Trigger(u, p, h) ==
    /\ docket[p] = "Awaited"
    /\ page[u] = None
    /\ handler[h] = None
    /\ page' = [page EXCEPT ![u] = h]
    /\ handler' = [handler EXCEPT ![h] =
         [project |-> p, user |-> u, stage |-> "reading", answer |-> None,
          nonce |-> FALSE, applied |-> FALSE]]
    /\ UNCHANGED <<docket, pool, first, reported>>

\* The AbortController fires: the page may be used again, the handler goes on.
PageTimesOut(u) ==
    /\ page[u] # None
    /\ page' = [page EXCEPT ![u] = None]
    /\ UNCHANGED <<docket, handler, pool, first, reported>>

-------------------------------------------------------------------------------
(* Handlers *)

\* The handler answers its page, if that is still waiting, and ends.
Respond(h) ==
    /\ page' = [page EXCEPT ![handler[h].user] = IF @ = h THEN None ELSE @]
    /\ handler' = [handler EXCEPT ![h] = None]

\* An error response: 400, 404 or 500
Fail(h) == Respond(h) /\ UNCHANGED <<docket, pool, first, reported>>

At(h, stage) == handler[h] # None /\ handler[h].stage = stage

Step(h, request) ==
    /\ handler' = [handler EXCEPT ![h] = request]
    /\ UNCHANGED <<docket, page, pool, first, reported>>

\* The handler looks at the dispute before it asks the model.
ReadDispute(h) ==
    LET r == handler[h]
    IN  /\ At(h, "reading")
        /\ IF ValidRequest(r.project) /\ docket[r.project] = "Awaited"
           THEN Step(h, [r EXCEPT !.stage = "asking"])
           ELSE Fail(h)

\* A query throws, or the project is not found.
ReadFails(h) == At(h, "reading") /\ Fail(h)

\* requestAIArbitration returns, or throws (the model cannot be reached, answers
\* nothing, no valid JSON, no ruling; no key).
ModelAnswers(h) ==
    /\ At(h, "asking")
    /\ \E a \in Answers : Step(h, [handler[h] EXCEPT !.stage = "signing", !.answer = a])
ModelFails(h) == At(h, "asking") /\ Fail(h)

\* signAndSend asks the node for the next nonce of the sudo account...
Sign(h) ==
    /\ At(h, "signing")
    /\ Step(h, [handler[h] EXCEPT !.stage = "sending", !.nonce = TRUE])

\* Whoever signed with the nonce an extrinsic in the pool now uses is too late.
NoncesUsed(hs) == [h \in Slots |-> IF hs[h] = None THEN None ELSE [hs[h] EXCEPT !.nonce = FALSE]]

\* Mutant: the model's answer is sent as it is.
ToChain_AsIs(answer) == answer

\* rulingForBlockchain: what is not for the freelancer is for the client.
ToChain(answer) == IF answer = "FreelancerWins" THEN "FreelancerWins" ELSE "ClientWins"

\* ...and the node takes the extrinsic into its pool...
SendAccepted(h) ==
    LET r == handler[h]
    IN  /\ At(h, "sending")
        /\ r.nonce
        /\ Len(pool) < MaxPending
        /\ pool' = Append(pool, [slot |-> h, project |-> r.project, ruling |-> ToChain(r.answer)])
        /\ handler' = [NoncesUsed(handler) EXCEPT ![h].stage = "watching"]
        /\ UNCHANGED <<docket, page, first, reported>>

\* ...or refuses it, or cannot be reached: the catch of signAndSend.
SendRefused(h) == At(h, "sending") /\ Fail(h)

\* The sudo account is a user too: its other extrinsics take nonces.
SudoAccountSigns ==
    /\ handler' = NoncesUsed(handler)
    /\ UNCHANGED <<docket, page, pool, first, reported>>

\* Mutant: every finalized extrinsic counts, also one whose call failed inside sudo.
Submitted_AnySuccess(h) == TRUE

\* The extrinsic succeeded, sudo's does in any case, and emitted AiRulingSubmitted.
Submitted(h) == handler[h].applied

\* The status isFinalized
Finalized(h) ==
    LET r == handler[h]
    IN  /\ At(h, "included")
        /\ Respond(h)
        /\ reported' = IF Submitted(h) THEN [reported EXCEPT ![r.project] = Append(@, r.answer)]
                                       ELSE reported
        /\ UNCHANGED <<docket, pool, first>>

\* The handler waits for ever and never answers: the node cannot be reached, and
\* ApiPromise.create tries again and again; or the subscription is lost, or ends in
\* a status the callback does not look at.
LoseTrack(h) ==
    /\ \E stage \in {"reading", "watching", "included"} : At(h, stage)
    /\ handler' = [handler EXCEPT ![h] = None]
    /\ pool' = [i \in DOMAIN pool |-> [pool[i] EXCEPT !.slot = IF @ = h THEN None ELSE @]]
    /\ UNCHANGED <<docket, page, first, reported>>

-------------------------------------------------------------------------------
(* The chain *)

\* A block includes the oldest of the account's extrinsics.  Sudo executes it:
\* submit_ruling fails, with no other effect, unless the ruling is awaited.
Include ==
    LET x     == Head(pool)
        ruled == docket[x.project] = "Awaited"
    IN  /\ pool # << >>
        /\ pool' = Tail(pool)
        /\ IF ruled THEN Rule(x.project) /\ first' = [first EXCEPT ![x.project] = x.ruling]
                    ELSE UNCHANGED <<docket, first>>
        /\ handler' = IF x.slot # None
                      THEN [handler EXCEPT ![x.slot].stage = "included", ![x.slot].applied = ruled]
                      ELSE handler
        /\ UNCHANGED <<page, reported>>

\* The node restarts without its pool: its subscribers hear no more of it, and what
\* is being sent over the broken connection is refused.
NodeRestarts ==
    /\ pool' = << >>
    /\ handler' = [h \in Slots |-> IF At(h, "watching") \/ At(h, "included")
                                  THEN None ELSE NoncesUsed(handler)[h]]
    /\ UNCHANGED <<docket, page, first, reported>>

DisputeCreated(p) == Open(p) /\ UNCHANGED serviceVars

-------------------------------------------------------------------------------
(* Specification *)

OracleInit ==
    /\ DocketInit
    /\ page = [u \in Users |-> None]
    /\ handler = [h \in Slots |-> None]
    /\ pool = << >>
    /\ first = [p \in Cases |-> None]
    /\ reported = [p \in Cases |-> << >>]

PageStep(u) == PageTimesOut(u) \/ \E p \in Cases, h \in Slots : Trigger(u, p, h)

\* What a handler does when nothing breaks
Proceeds(h) ==
    ReadDispute(h) \/ ModelAnswers(h) \/ Sign(h) \/ SendAccepted(h) \/ Finalized(h)

HandlerStep(h) ==
    Proceeds(h) \/ ReadFails(h) \/ ModelFails(h) \/ SendRefused(h) \/ LoseTrack(h)

OracleNext ==
    \/ \E p \in Cases : DisputeCreated(p)
    \/ \E u \in Users : PageStep(u)
    \/ \E h \in Slots : HandlerStep(h)
    \/ SudoAccountSigns
    \/ Include
    \/ NodeRestarts

OracleSpec == OracleInit /\ [][OracleNext]_oracleVars

\* Pages give up, a handler's awaits end (or it has lost track), someone presses
\* the button while it is there to press.  Only what fails again and again needs
\* more: of all attempts some reach the node, the model does not fail for ever, the
\* node does not refuse for ever, and it does not restart before every block.
OracleFairness ==
    /\ \A u \in Users : WF_oracleVars(PageTimesOut(u))
    /\ \A h \in Slots : WF_oracleVars(HandlerStep(h))
    /\ WF_oracleVars(\E u \in Users, p \in Cases, h \in Slots : Trigger(u, p, h))
    /\ SF_oracleVars(\E h \in Slots : ReadDispute(h))
    /\ SF_oracleVars(\E h \in Slots : ModelAnswers(h))
    /\ SF_oracleVars(\E h \in Slots : SendAccepted(h))
    /\ SF_oracleVars(Include)

FairOracleSpec == OracleSpec /\ OracleFairness

-------------------------------------------------------------------------------
(* Properties *)

\* The services' state has its type.  In particular every extrinsic they send has
\* a ruling the pallet knows, whatever the model answered: an Inconclusive, which
\* submit_ruling has no value for, never reaches the pool (route.ts,
\* rulingForBlockchain).
OracleTypeOK ==
    /\ docket \in [Cases -> {"None", "Awaited", "Ruled"}]
    /\ page \in [Users -> Slots \cup {None}]
    /\ handler \in [Slots -> Request \cup {None}]
    /\ pool \in Seq(Extrinsic)
    /\ first \in [Cases -> Rulings \cup {None}]
    /\ reported \in [Cases -> Seq(Answers)]

\* Of several handlers that work on one dispute, asked by two parties or by one
\* page again after its timeout, with answers that may differ, at most one reports
\* success, and it is the one whose extrinsic gave the dispute its ruling: the
\* chain recorded what this handler sent, and not what another one did.  The
\* others' extrinsics are finalized too, with ExtrinsicSuccess, because sudo
\* succeeds when the call inside it fails (route.ts, rulingSubmitted).  What the
\* handler sent is what it made of its answer: its page is told the answer itself,
\* which for Inconclusive is not the ruling, and the property does not claim it.
SuccessIsOwnExtrinsic ==
    \A p \in Cases :
        /\ Len(reported[p]) <= 1
        /\ reported[p] # << >> => docket[p] = "Ruled" /\ first[p] = ToChain(Head(reported[p]))

\* A dispute that awaits the oracle's ruling gets one, although pages give up,
\* models and nodes fail, handlers take each other's nonces, the pool is lost and
\* subscriptions break: nothing a failed attempt leaves behind is in the way of
\* the next one.  (Arbitration assumes this of the oracle: OracleRules is fair.)
AwaitedRulingComes ==
    \A p \in Cases : docket[p] = "Awaited" ~> docket[p] = "Ruled"
===============================================================================
