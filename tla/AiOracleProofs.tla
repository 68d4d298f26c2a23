---------------------------- MODULE AiOracleProofs ----------------------------
(***************************************************************************)
(* Proofs about the oracle's services, for any number of disputes, pages,  *)
(* handlers and pending extrinsics: the types hold, and whoever reports    *)
(* success has given the dispute its ruling (SuccessIsEarned).             *)
(***************************************************************************)
EXTENDS AiOracle, TLAPS

\* Once the model has answered, the request has its answer.
Answered(r) ==
    r.stage \in {"signing", "sending", "watching", "included"} => r.answer \in Answers

\* A watched extrinsic is its handler's.
Watched(hs, x) ==
    x.slot # None =>
      /\ hs[x.slot] # None
      /\ hs[x.slot].stage = "watching"
      /\ hs[x.slot].project = x.project
      /\ x.ruling = ToChain(hs[x.slot].answer)

PoolWatched == \A i \in 1..Len(pool) : Watched(handler, pool[i])

\* A handler has sent one extrinsic.
WatchedOnce ==
    \A i, j \in 1..Len(pool) : pool[i].slot = pool[j].slot /\ pool[i].slot # None => i = j

\* A handler whose extrinsic gave the ruling has not reported it yet, and nobody
\* else has or will.
AppliedUnreported(h) ==
    /\ handler[h].stage = "included"
    /\ docket[handler[h].project] = "Ruled"
    /\ first[handler[h].project] = ToChain(handler[h].answer)
    /\ reported[handler[h].project] = << >>

IsApplied(h) == handler[h] # None /\ handler[h].applied

Applied ==
    /\ \A h \in Slots : IsApplied(h) => AppliedUnreported(h)
    /\ \A g, h \in Slots :
         IsApplied(g) /\ IsApplied(h) /\ handler[g].project = handler[h].project => g = h

\* The inductive invariant.  SuccessIsOwnExtrinsic says nothing of an extrinsic on its
\* way; the others follow it from the handler that sends it to the report.
OracleInv ==
    /\ OracleTypeOK
    /\ \A h \in Slots : handler[h] # None => Answered(handler[h])
    /\ PoolWatched
    /\ WatchedOnce
    /\ Applied
    /\ SuccessIsOwnExtrinsic

-------------------------------------------------------------------------------
(* Steps of one handler *)

\* What the pool holds.
LEMMA PoolHolds ==
  ASSUME OracleInv, NEW i \in 1..Len(pool)
  PROVE  /\ pool[i] \in Extrinsic
         /\ pool[i].slot \in Slots \cup {None}
         /\ Watched(handler, pool[i])
<1>1. pool[i] \in Extrinsic
  <2>1. pool \in Seq(Extrinsic)
    BY DEF OracleInv, OracleTypeOK
  <2> QED BY <2>1
<1>2. pool[i].slot \in Slots \cup {None}
  BY <1>1 DEF Extrinsic
<1> QED BY <1>1, <1>2 DEF OracleInv, PoolWatched

\* A handler moves on, ends or starts, away from the pool and the chain.
LEMMA QuietStep ==
  ASSUME OracleInv, NEW h \in Slots, NEW new \in Request \cup {None},
         handler[h] # None => handler[h].stage # "watching",
         new # None => /\ new.stage \notin {"watching", "included"}
                       /\ ~ new.applied
                       /\ Answered(new),
         handler' = [handler EXCEPT ![h] = new],
         page' \in [Users -> Slots \cup {None}],
         UNCHANGED <<docket, pool, first, reported>>
  PROVE  OracleInv'
<1>1. handler'[h] = new /\ \A g \in Slots : g # h => handler'[g] = handler[g]
  BY DEF OracleInv, OracleTypeOK
<1>2. OracleTypeOK'
  BY DEF OracleInv, OracleTypeOK
<1>3. (\A g \in Slots : handler[g] # None => Answered(handler[g]))'
  BY <1>1 DEF OracleInv, Answered
<1>4. PoolWatched'
  <2>1. ASSUME NEW i \in 1..Len(pool) PROVE Watched(handler', pool[i])
    <3>1. Watched(handler, pool[i]) /\ pool[i].slot \in Slots \cup {None}
      BY PoolHolds
    <3>2. pool[i].slot # None => pool[i].slot \in Slots \ {h}
      BY <3>1 DEF Watched
    <3> QED BY <1>1, <3>1, <3>2 DEF Watched
  <2> QED BY <2>1 DEF PoolWatched
<1>5. WatchedOnce'
  BY DEF OracleInv, WatchedOnce
<1>6. \A g \in Slots : IsApplied(g)' => g # h /\ IsApplied(g) /\ handler'[g] = handler[g]
  BY <1>1 DEF IsApplied
<1>7. Applied'
  BY <1>6 DEF OracleInv, Applied, AppliedUnreported
<1>8. SuccessIsOwnExtrinsic'
  BY DEF OracleInv, SuccessIsOwnExtrinsic
<1> QED BY <1>2, <1>3, <1>4, <1>5, <1>7, <1>8 DEF OracleInv

\* The answer to the page.
LEMMA PageAnswered ==
  ASSUME OracleInv, NEW h \in Slots, Respond(h)
  PROVE  page' \in [Users -> Slots \cup {None}]
  BY DEF Respond, OracleInv, OracleTypeOK

\* An error response.
LEMMA FailKeeps ==
  ASSUME OracleInv, NEW h \in Slots, Fail(h), handler[h].stage # "watching"
  PROVE  OracleInv'
<1>1. handler' = [handler EXCEPT ![h] = None] /\ UNCHANGED <<docket, pool, first, reported>>
  BY DEF Fail, Respond
<1>2. page' \in [Users -> Slots \cup {None}]
  BY PageAnswered DEF Fail
<1> QED BY <1>1, <1>2, QuietStep

\* A page asks.
LEMMA TriggerKeeps ==
  ASSUME OracleInv, NEW u \in Users, NEW p \in Cases, NEW h \in Slots, Trigger(u, p, h)
  PROVE  OracleInv'
<1> DEFINE new == [project |-> p, user |-> u, stage |-> "reading", answer |-> None,
                   nonce |-> FALSE, applied |-> FALSE]
<1>1. /\ handler' = [handler EXCEPT ![h] = new] /\ handler[h] = None
      /\ page' = [page EXCEPT ![u] = h] /\ UNCHANGED <<docket, pool, first, reported>>
  BY DEF Trigger
<1>2. new \in Request /\ new.stage = "reading" /\ ~ new.applied
  BY DEF Request, Stages
<1>3. page' \in [Users -> Slots \cup {None}]
  BY <1>1 DEF OracleInv, OracleTypeOK
<1> HIDE DEF new
<1>4. Answered(new)
  BY <1>2 DEF Answered
<1> QED BY <1>1, <1>2, <1>3, <1>4, QuietStep

\* A request that has not been sent has not been applied.
LEMMA NotApplied ==
  ASSUME OracleInv, NEW h \in Slots, handler[h] # None, handler[h].stage # "included"
  PROVE  /\ handler[h] \in Request
         /\ ~ handler[h].applied
  BY DEF OracleInv, OracleTypeOK, Applied, IsApplied, AppliedUnreported

\* The handler reads, asks and signs, or fails at it.
LEMMA ProceedsQuietly ==
  ASSUME OracleInv, NEW h \in Slots, NEW stage \in {"asking", "signing", "sending"},
         NEW answer \in Answers \cup {None}, NEW nonce \in BOOLEAN,
         stage # "asking" => answer \in Answers,
         handler[h] # None, handler[h].stage \in {"reading", "asking", "signing"},
         handler' = [handler EXCEPT ![h] = [handler[h] EXCEPT !.stage = stage, !.answer = answer,
                                                              !.nonce = nonce]],
         UNCHANGED <<docket, page, pool, first, reported>>
  PROVE  OracleInv'
<1> DEFINE new == [handler[h] EXCEPT !.stage = stage, !.answer = answer, !.nonce = nonce]
<1>1. handler[h] \in Request /\ ~ handler[h].applied
  BY NotApplied
<1>2. new \in Request /\ new.stage = stage /\ ~ new.applied /\ new.answer = answer
  BY <1>1 DEF Request, Stages
<1>3. page' \in [Users -> Slots \cup {None}]
  BY DEF OracleInv, OracleTypeOK
<1> HIDE DEF new
<1>4. Answered(new)
  BY <1>2 DEF Answered
<1>5. handler' = [handler EXCEPT ![h] = new]
  BY DEF new
<1> QED BY <1>2, <1>3, <1>4, <1>5, QuietStep

\* The handler's steps before it sends.
LEMMA EarlySteps ==
  ASSUME OracleInv, NEW h \in Slots,
         \/ ReadDispute(h) \/ ModelAnswers(h) \/ Sign(h)
         \/ ReadFails(h) \/ ModelFails(h) \/ SendRefused(h)
  PROVE  OracleInv'
<1>1. handler[h] # None /\ handler[h].stage \in {"reading", "asking", "signing", "sending"}
  BY DEF ReadDispute, ReadFails, ModelAnswers, ModelFails, Sign, SendRefused, At
<1>2. handler[h] \in Request /\ ~ handler[h].applied /\ Answered(handler[h])
  BY <1>1, NotApplied DEF OracleInv
<1> DEFINE r == handler[h]
<1>3. CASE Fail(h)
  BY <1>1, <1>3, FailKeeps
<1>4. CASE At(h, "reading") /\ Step(h, [r EXCEPT !.stage = "asking"])
  <2>1. /\ handler' = [handler EXCEPT ![h] = [r EXCEPT !.stage = "asking"]]
        /\ UNCHANGED <<docket, page, pool, first, reported>>
    BY <1>4 DEF Step
  <2>2. [r EXCEPT !.stage = "asking"]
          = [r EXCEPT !.stage = "asking", !.answer = r.answer, !.nonce = r.nonce]
    BY <1>2 DEF Request
  <2>3. r.answer \in Answers \cup {None} /\ r.nonce \in BOOLEAN /\ r.stage = "reading"
    BY <1>2, <1>4 DEF Request, At
  <2> QED BY <1>1, <2>1, <2>2, <2>3, ProceedsQuietly
<1>5. CASE ModelAnswers(h)
  <2>1. PICK a \in Answers : Step(h, [r EXCEPT !.stage = "signing", !.answer = a])
    BY <1>5 DEF ModelAnswers
  <2>2. /\ handler' = [handler EXCEPT ![h] = [r EXCEPT !.stage = "signing", !.answer = a]]
        /\ UNCHANGED <<docket, page, pool, first, reported>>
    BY <2>1 DEF Step
  <2>3. [r EXCEPT !.stage = "signing", !.answer = a]
          = [r EXCEPT !.stage = "signing", !.answer = a, !.nonce = r.nonce]
    BY <1>2 DEF Request
  <2>4. r.nonce \in BOOLEAN /\ r.stage = "asking"
    BY <1>2, <1>5 DEF Request, ModelAnswers, At
  <2> QED BY <1>1, <2>2, <2>3, <2>4, ProceedsQuietly
<1>6. CASE Sign(h)
  <2>1. /\ handler' = [handler EXCEPT ![h] = [r EXCEPT !.stage = "sending", !.nonce = TRUE]]
        /\ UNCHANGED <<docket, page, pool, first, reported>> /\ r.stage = "signing"
    BY <1>6 DEF Sign, Step, At
  <2>2. [r EXCEPT !.stage = "sending", !.nonce = TRUE]
          = [r EXCEPT !.stage = "sending", !.answer = r.answer, !.nonce = TRUE]
    BY <1>2 DEF Request
  <2>3. r.answer \in Answers
    BY <1>2, <2>1 DEF Answered
  <2> QED BY <1>1, <2>1, <2>2, <2>3, ProceedsQuietly
<1> QED BY <1>3, <1>4, <1>5, <1>6 DEF ReadDispute, ReadFails, ModelFails, SendRefused

-------------------------------------------------------------------------------
(* Steps that touch the pool *)

\* Using up a nonce changes nothing else of a request.
LEMMA NoncesOnly ==
  ASSUME OracleInv, NEW h \in Slots
  PROVE  LET new == NoncesUsed(handler)[h]
         IN  IF handler[h] = None THEN new = None
             ELSE /\ new \in Request
                  /\ new # None
                  /\ new.project = handler[h].project
                  /\ new.stage = handler[h].stage
                  /\ new.answer = handler[h].answer
                  /\ new.applied = handler[h].applied
<1>1. CASE handler[h] = None
  BY <1>1 DEF NoncesUsed
<1>2. CASE handler[h] # None
  <2>1. handler[h] \in Request
    BY <1>2 DEF OracleInv, OracleTypeOK
  <2>2. NoncesUsed(handler)[h] = [handler[h] EXCEPT !.nonce = FALSE]
    BY <1>2 DEF NoncesUsed
  <2>3. NoncesUsed(handler)[h] \in Request
    BY <2>1, <2>2 DEF Request
  <2>4. NoncesUsed(handler)[h] # None
    BY <2>3, OracleAssumption
  <2> QED BY <1>2, <2>1, <2>2, <2>3, <2>4 DEF Request
<1> QED BY <1>1, <1>2

\* Handlers that differ from the old ones in their nonces only, or have ended.
Fades(new, old) ==
    /\ new # None => /\ old # None
                     /\ new \in Request
                     /\ new.project = old.project
                     /\ new.stage = old.stage
                     /\ new.answer = old.answer
                     /\ new.applied = old.applied

\* Such a change keeps what is said of the handlers.
LEMMA HandlersFade ==
  ASSUME OracleInv, handler' \in [Slots -> Request \cup {None}],
         \A h \in Slots : Fades(handler'[h], handler[h]),
         UNCHANGED <<docket, first, reported>>
  PROVE  /\ (\A h \in Slots : handler[h] # None => Answered(handler[h]))'
         /\ Applied'
         /\ SuccessIsOwnExtrinsic'
<1>1. (\A h \in Slots : handler[h] # None => Answered(handler[h]))'
  BY DEF OracleInv, Answered, Fades
<1>2. \A h \in Slots : IsApplied(h)' => /\ IsApplied(h)
                                        /\ handler'[h].project = handler[h].project
                                        /\ handler'[h].stage = handler[h].stage
                                        /\ handler'[h].answer = handler[h].answer
  BY DEF IsApplied, Fades
<1>3. Applied'
  BY <1>2 DEF OracleInv, Applied, AppliedUnreported
<1>4. SuccessIsOwnExtrinsic'
  BY DEF OracleInv, SuccessIsOwnExtrinsic
<1> QED BY <1>1, <1>3, <1>4

\* The sudo account signs something else.
LEMMA SudoKeeps ==
  ASSUME OracleInv, SudoAccountSigns
  PROVE  OracleInv'
<1>1. handler' = NoncesUsed(handler) /\ UNCHANGED <<docket, page, pool, first, reported>>
  BY DEF SudoAccountSigns
<1>2. handler' \in [Slots -> Request \cup {None}]
  BY <1>1, NoncesOnly DEF NoncesUsed
<1>3. \A h \in Slots : Fades(handler'[h], handler[h])
  BY <1>1, NoncesOnly DEF Fades
<1>4. PoolWatched'
  <2>1. ASSUME NEW i \in 1..Len(pool) PROVE Watched(handler', pool[i])
    BY <1>1, PoolHolds, NoncesOnly DEF Watched
  <2> QED BY <1>1, <2>1 DEF PoolWatched
<1>5. OracleTypeOK' /\ WatchedOnce'
  BY <1>1, <1>2 DEF OracleInv, OracleTypeOK, WatchedOnce
<1> QED BY <1>1, <1>2, <1>3, <1>4, <1>5, HandlersFade DEF OracleInv

\* The node restarts.
LEMMA RestartKeeps ==
  ASSUME OracleInv, NodeRestarts
  PROVE  OracleInv'
<1>1. /\ pool' = << >> /\ UNCHANGED <<docket, page, first, reported>>
      /\ handler' = [h \in Slots |-> IF At(h, "watching") \/ At(h, "included")
                                     THEN None ELSE NoncesUsed(handler)[h]]
  BY DEF NodeRestarts
<1>2. ASSUME NEW h \in Slots
      PROVE  handler'[h] = None \/ handler'[h] = NoncesUsed(handler)[h]
  BY <1>1
<1>3. handler' \in [Slots -> Request \cup {None}]
  BY <1>1, NoncesOnly
<1>4. \A h \in Slots : Fades(handler'[h], handler[h])
  BY <1>2, NoncesOnly DEF Fades
<1>5. OracleTypeOK' /\ PoolWatched' /\ WatchedOnce'
  BY <1>1, <1>3 DEF OracleInv, OracleTypeOK, PoolWatched, WatchedOnce
<1> QED BY <1>1, <1>3, <1>4, <1>5, HandlersFade DEF OracleInv

\* The handler loses track of its extrinsic.
LEMMA LoseTrackKeeps ==
  ASSUME OracleInv, NEW h \in Slots, LoseTrack(h)
  PROVE  OracleInv'
<1>1. /\ handler' = [handler EXCEPT ![h] = None] /\ UNCHANGED <<docket, page, first, reported>>
      /\ pool' = [i \in DOMAIN pool |-> [pool[i] EXCEPT !.slot = IF @ = h THEN None ELSE @]]
  BY DEF LoseTrack
<1>2. /\ pool \in Seq(Extrinsic) /\ handler \in [Slots -> Request \cup {None}]
      /\ h # None
  BY OracleAssumption DEF OracleInv, OracleTypeOK
<1> DEFINE unwatched(x) == [x EXCEPT !.slot = IF @ = h THEN None ELSE @]
<1>3. ASSUME NEW x \in Extrinsic
      PROVE  unwatched(x) \in Extrinsic
  BY DEF Extrinsic
<1>4. /\ pool' \in Seq(Extrinsic) /\ Len(pool') = Len(pool)
      /\ \A i \in 1..Len(pool) : pool'[i] = unwatched(pool[i])
  <2>1. pool' = [i \in 1..Len(pool) |-> unwatched(pool[i])] /\ Len(pool) \in Nat
    BY <1>1, <1>2
  <2> HIDE DEF unwatched
  <2>2. \A i \in 1..Len(pool) : unwatched(pool[i]) \in Extrinsic
    BY <1>3, PoolHolds
  <2> QED BY <2>1, <2>2
<1>5. ASSUME NEW i \in 1..Len(pool)
      PROVE  /\ pool'[i].slot = IF pool[i].slot = h THEN None ELSE pool[i].slot
             /\ pool'[i].project = pool[i].project
             /\ pool'[i].ruling = pool[i].ruling
             /\ pool'[i].slot # h
  BY <1>2, <1>4, PoolHolds DEF Extrinsic
<1>6. handler' \in [Slots -> Request \cup {None}]
  BY <1>1, <1>2
<1>7. handler'[h] = None /\ \A g \in Slots : g # h => handler'[g] = handler[g]
  BY <1>1, <1>2
<1>8. \A g \in Slots : Fades(handler'[g], handler[g])
  BY <1>2, <1>7 DEF Fades
<1>9. PoolWatched'
  <2>1. ASSUME NEW i \in 1..Len(pool) PROVE Watched(handler', pool'[i])
    <3>1. Watched(handler, pool[i]) /\ pool[i].slot \in Slots \cup {None}
      BY PoolHolds
    <3> QED BY <1>5, <1>7, <3>1 DEF Watched
  <2> QED BY <1>4, <2>1 DEF PoolWatched
<1>10. WatchedOnce'
  <2>1. ASSUME NEW i \in 1..Len(pool), NEW j \in 1..Len(pool),
               pool'[i].slot = pool'[j].slot, pool'[i].slot # None
        PROVE  i = j
    <3>1. pool[i].slot = pool[j].slot /\ pool[i].slot # None
      BY <1>5, <2>1
    <3> QED BY <3>1 DEF OracleInv, WatchedOnce
  <2> QED BY <1>4, <2>1 DEF WatchedOnce
<1>11. OracleTypeOK'
  BY <1>1, <1>4, <1>6 DEF OracleInv, OracleTypeOK
<1> QED BY <1>1, <1>6, <1>8, <1>9, <1>10, <1>11, HandlersFade DEF OracleInv

\* What the oracle sends is a ruling.
LEMMA ToChainType ==
  ASSUME NEW a PROVE ToChain(a) \in Rulings
  BY DEF ToChain, Rulings

\* The pool takes the extrinsic.
LEMMA SendKeeps ==
  ASSUME OracleInv, NEW h \in Slots, SendAccepted(h)
  PROVE  OracleInv'
<1> DEFINE x  == [slot |-> h, project |-> handler[h].project, ruling |-> ToChain(handler[h].answer)]
           hs == NoncesUsed(handler)
<1>1. /\ handler[h] # None /\ handler[h].stage = "sending"
      /\ pool' = Append(pool, x) /\ UNCHANGED <<docket, page, first, reported>>
      /\ handler' = [hs EXCEPT ![h].stage = "watching"]
  BY DEF SendAccepted, At
<1>2. handler[h] \in Request /\ ~ handler[h].applied
  BY <1>1, NotApplied
<1>3. x \in Extrinsic /\ x.slot = h /\ x.project = handler[h].project
      /\ x.ruling = ToChain(handler[h].answer)
  BY <1>2, ToChainType DEF Extrinsic, Request
<1> HIDE DEF x
<1>4. pool \in Seq(Extrinsic) /\ Len(pool) \in Nat /\ h # None
  BY OracleAssumption DEF OracleInv, OracleTypeOK
<1>5. /\ pool' \in Seq(Extrinsic) /\ Len(pool') = Len(pool) + 1
      /\ pool'[Len(pool) + 1] = x
      /\ \A i \in 1..Len(pool) : pool'[i] = pool[i]
  BY <1>1, <1>3, <1>4
<1>6. hs \in [Slots -> Request \cup {None}] /\ hs[h] \in Request /\ hs[h] # None
  BY <1>1, NoncesOnly DEF NoncesUsed
<1>7. /\ handler'[h] = [hs[h] EXCEPT !.stage = "watching"]
      /\ \A g \in Slots : g # h => handler'[g] = hs[g]
  BY <1>1, <1>6
<1>8. /\ handler'[h] \in Request /\ handler'[h] # None
      /\ handler'[h].stage = "watching"
      /\ handler'[h].project = handler[h].project
      /\ handler'[h].answer = handler[h].answer
      /\ ~ handler'[h].applied
  <2>1. /\ hs[h].project = handler[h].project /\ hs[h].answer = handler[h].answer
        /\ hs[h].applied = handler[h].applied
    BY <1>1, NoncesOnly
  <2>2. handler'[h] \in Request
    BY <1>6, <1>7 DEF Request, Stages
  <2>3. handler'[h] # None
    BY <2>2, OracleAssumption
  <2>4. /\ handler'[h].stage = "watching" /\ handler'[h].project = hs[h].project
        /\ handler'[h].answer = hs[h].answer /\ handler'[h].applied = hs[h].applied
    BY <1>6, <1>7 DEF Request
  <2> QED BY <1>2, <2>1, <2>2, <2>3, <2>4
<1>9. \A g \in Slots : g # h => Fades(handler'[g], handler[g])
  BY <1>7, NoncesOnly DEF Fades
<1> HIDE DEF hs
<1>10. handler' \in [Slots -> Request \cup {None}]
  BY <1>1, <1>6, <1>7, <1>8
<1>11. OracleTypeOK'
  BY <1>1, <1>5, <1>10 DEF OracleInv, OracleTypeOK
<1>12. (\A g \in Slots : handler[g] # None => Answered(handler[g]))'
  <2>1. ASSUME NEW g \in Slots, handler'[g] # None PROVE Answered(handler'[g])
    <3>1. CASE g = h
      BY <1>1, <1>8, <3>1 DEF OracleInv, Answered
    <3>2. CASE g # h
      BY <1>9, <2>1, <3>2 DEF OracleInv, Answered, Fades
    <3> QED BY <3>1, <3>2
  <2> QED BY <2>1
<1>13. \A i \in 1..Len(pool) : pool[i].slot # h
  BY <1>1, <1>4, PoolHolds DEF Watched
<1>14. PoolWatched'
  <2>1. ASSUME NEW i \in 1..Len(pool) PROVE Watched(handler', pool[i])
    <3>1. Watched(handler, pool[i]) /\ pool[i].slot \in Slots \cup {None} /\ pool[i].slot # h
      BY PoolHolds, <1>13
    <3>2. pool[i].slot # None => handler'[pool[i].slot] = NoncesUsed(handler)[pool[i].slot]
      BY <1>7, <3>1 DEF hs
    <3> QED BY <3>1, <3>2, NoncesOnly DEF Watched
  <2>2. Watched(handler', x)
    BY <1>3, <1>8 DEF Watched
  <2> QED BY <1>4, <1>5, <2>1, <2>2 DEF PoolWatched
<1>15. WatchedOnce'
  <2>1. ASSUME NEW i \in 1..Len(pool'), NEW j \in 1..Len(pool'),
               pool'[i].slot = pool'[j].slot, pool'[i].slot # None
        PROVE  i = j
    <3>1. CASE i \in 1..Len(pool) /\ j \in 1..Len(pool)
      BY <1>5, <2>1, <3>1 DEF OracleInv, WatchedOnce
    <3>2. CASE i = Len(pool) + 1
      BY <1>3, <1>4, <1>5, <1>13, <2>1, <3>2
    <3>3. CASE j = Len(pool) + 1
      BY <1>3, <1>4, <1>5, <1>13, <2>1, <3>3
    <3> QED BY <1>4, <1>5, <3>1, <3>2, <3>3
  <2> QED BY <2>1 DEF WatchedOnce
<1>16. \A g \in Slots : IsApplied(g)' => /\ IsApplied(g)
                                         /\ handler'[g].project = handler[g].project
                                         /\ handler'[g].stage = handler[g].stage
                                         /\ handler'[g].answer = handler[g].answer
  BY <1>8, <1>9 DEF IsApplied, Fades
<1>17. Applied'
  BY <1>1, <1>16 DEF OracleInv, Applied, AppliedUnreported
<1>18. SuccessIsOwnExtrinsic'
  BY <1>1 DEF OracleInv, SuccessIsOwnExtrinsic
<1> QED BY <1>11, <1>12, <1>14, <1>15, <1>17, <1>18 DEF OracleInv

\* The report of a finalized extrinsic.
LEMMA FinalizedKeeps ==
  ASSUME OracleInv, NEW h \in Slots, Finalized(h)
  PROVE  OracleInv'
<1> DEFINE r == handler[h]
<1>1. /\ r # None /\ r.stage = "included"
      /\ handler' = [handler EXCEPT ![h] = None] /\ UNCHANGED <<docket, pool, first>>
      /\ reported' = IF r.applied THEN [reported EXCEPT ![r.project] = Append(@, r.answer)]
                                  ELSE reported
  BY DEF Finalized, Respond, At, Submitted
<1>2. page' \in [Users -> Slots \cup {None}]
  BY PageAnswered DEF Finalized
<1>3. CASE ~ r.applied
  <2>1. UNCHANGED <<docket, pool, first, reported>>
    BY <1>1, <1>3
  <2> QED BY <1>1, <1>2, <2>1, QuietStep
<1>4. CASE r.applied
  <2>1. /\ r \in Request /\ r.answer \in Answers /\ r.project \in Cases
    BY <1>1 DEF OracleInv, OracleTypeOK, Answered, Request
  <2>2. /\ docket[r.project] = "Ruled" /\ first[r.project] = ToChain(r.answer)
        /\ reported[r.project] = << >>
    BY <1>1, <1>4 DEF OracleInv, Applied, IsApplied, AppliedUnreported
  <2>3. reported' = [reported EXCEPT ![r.project] = <<r.answer>>]
    BY <1>1, <1>4, <2>2 DEF OracleInv, OracleTypeOK
  <2>4. handler'[h] = None /\ \A g \in Slots : g # h => handler'[g] = handler[g]
    BY <1>1 DEF OracleInv, OracleTypeOK
  <2>5. OracleTypeOK'
    BY <1>1, <1>2, <2>1, <2>3 DEF OracleInv, OracleTypeOK
  <2>6. (\A g \in Slots : handler[g] # None => Answered(handler[g]))'
    BY <2>4 DEF OracleInv, Answered
  <2>7. PoolWatched'
    <3>1. ASSUME NEW i \in 1..Len(pool) PROVE Watched(handler', pool[i])
      <4>1. Watched(handler, pool[i]) /\ pool[i].slot \in Slots \cup {None}
        BY PoolHolds
      <4>2. pool[i].slot # None => pool[i].slot \in Slots \ {h}
        BY <1>1, <4>1 DEF Watched
      <4> QED BY <2>4, <4>1, <4>2 DEF Watched
    <3> QED BY <1>1, <3>1 DEF PoolWatched
  <2>8. WatchedOnce'
    BY <1>1 DEF OracleInv, WatchedOnce
  <2>9. \A g \in Slots : IsApplied(g)' => /\ g # h /\ IsApplied(g) /\ handler'[g] = handler[g]
                                          /\ handler[g].project # r.project
    BY <1>1, <1>4, <2>4 DEF OracleInv, IsApplied, Applied
  <2>10. \A p : p # r.project /\ p \in Cases => reported'[p] = reported[p]
    BY <2>3 DEF OracleInv, OracleTypeOK
  <2>11. \A g \in Slots : IsApplied(g)' => handler[g].project \in Cases
    BY <2>9 DEF OracleInv, OracleTypeOK, IsApplied, Request
  <2>12. Applied'
    BY <1>1, <2>9, <2>10, <2>11 DEF OracleInv, Applied, AppliedUnreported
  <2>13. SuccessIsOwnExtrinsic'
    <3>1. ASSUME NEW p \in Cases
          PROVE  /\ Len(reported'[p]) <= 1
                 /\ reported'[p] # << >> =>
                      docket[p] = "Ruled" /\ first[p] = ToChain(Head(reported'[p]))
      <4>1. CASE p = r.project
        <5>1. reported'[p] = <<r.answer>>
          BY <2>3, <4>1 DEF OracleInv, OracleTypeOK
        <5>2. Len(reported'[p]) = 1 /\ Head(reported'[p]) = r.answer
          BY <5>1
        <5> QED BY <2>2, <4>1, <5>2
      <4>2. CASE p # r.project
        BY <2>10, <4>2 DEF OracleInv, SuccessIsOwnExtrinsic
      <4> QED BY <4>1, <4>2
    <3> QED BY <1>1, <3>1 DEF SuccessIsOwnExtrinsic
  <2> QED BY <2>5, <2>6, <2>7, <2>8, <2>12, <2>13 DEF OracleInv
<1> QED BY <1>3, <1>4

\* A block includes an extrinsic.
LEMMA IncludeKeeps ==
  ASSUME OracleInv, Include
  PROVE  OracleInv'
<1> DEFINE x     == pool[1]
           g     == x.slot
           ruled == docket[x.project] = "Awaited"
<1>1. /\ pool \in Seq(Extrinsic) /\ pool # << >> /\ Head(pool) = x /\ pool' = Tail(pool)
      /\ UNCHANGED <<page, reported>>
  BY DEF OracleInv, OracleTypeOK, Include
<1>2. 1 \in 1..Len(pool) /\ Len(pool) \in Nat
  BY <1>1
<1>3. /\ x \in Extrinsic /\ x.project \in Cases /\ x.ruling \in Rulings
      /\ g \in Slots \cup {None} /\ Watched(handler, x)
  BY <1>2, PoolHolds DEF Extrinsic
<1>4. /\ ruled => /\ docket' = [docket EXCEPT ![x.project] = "Ruled"]
                  /\ first' = [first EXCEPT ![x.project] = x.ruling]
      /\ ~ ruled => UNCHANGED <<docket, first>>
  BY <1>1 DEF Include, Rule
<1>5. IF g # None
      THEN handler' = [handler EXCEPT ![g].stage = "included", ![g].applied = ruled]
      ELSE handler' = handler
  BY <1>1 DEF Include
<1>6. /\ pool' \in Seq(Extrinsic) /\ Len(pool') = Len(pool) - 1
      /\ \A i \in 1..Len(pool') : pool'[i] = pool[i + 1] /\ i + 1 \in 1..Len(pool)
  BY <1>1, <1>2
<1>7. \A i \in 1..Len(pool') : pool'[i].slot # None => pool'[i].slot # g
  <2> TAKE i \in 1..Len(pool')
  <2>1. pool'[i] = pool[i + 1] /\ i + 1 \in 1..Len(pool) /\ i + 1 # 1
    BY <1>6
  <2> QED BY <1>2, <2>1 DEF OracleInv, WatchedOnce
<1>8. ASSUME g # None
      PROVE  /\ g \in Slots /\ handler[g] \in Request /\ handler[g].stage = "watching"
             /\ handler[g].project = x.project /\ x.ruling = ToChain(handler[g].answer)
             /\ handler'[g] \in Request /\ handler'[g] # None
             /\ handler'[g].stage = "included" /\ handler'[g].applied = ruled
             /\ handler'[g].project = x.project /\ handler'[g].answer = handler[g].answer
  <2>1. /\ g \in Slots /\ handler[g] # None /\ handler[g].stage = "watching"
        /\ handler[g].project = x.project /\ x.ruling = ToChain(handler[g].answer)
    BY <1>3, <1>8 DEF Watched
  <2>2. handler[g] \in Request
    BY <2>1 DEF OracleInv, OracleTypeOK
  <2>3. handler'[g] = [handler[g] EXCEPT !.stage = "included", !.applied = ruled]
    BY <1>5, <1>8, <2>1 DEF OracleInv, OracleTypeOK
  <2>4. ruled \in BOOLEAN
    OBVIOUS
  <2> HIDE DEF ruled
  <2>5. handler'[g] \in Request
    BY <2>2, <2>3, <2>4 DEF Request, Stages
  <2>6. handler'[g] # None
    BY <2>5, OracleAssumption
  <2>7. /\ handler'[g].stage = "included" /\ handler'[g].applied = ruled
        /\ handler'[g].project = handler[g].project /\ handler'[g].answer = handler[g].answer
    BY <2>2, <2>3 DEF Request
  <2> QED BY <2>1, <2>2, <2>5, <2>6, <2>7
<1>9. \A h \in Slots : h # g => handler'[h] = handler[h]
  BY <1>5 DEF OracleInv, OracleTypeOK
<1>10. handler' \in [Slots -> Request \cup {None}]
  <2>1. CASE g = None
    BY <1>5, <2>1 DEF OracleInv, OracleTypeOK
  <2>2. CASE g # None
    <3>1. \A h \in Slots : handler'[h] \in Request \cup {None}
      BY <1>8, <1>9, <2>2 DEF OracleInv, OracleTypeOK
    <3>2. DOMAIN handler' = Slots /\ handler' = [h \in Slots |-> handler'[h]]
      BY <1>5, <2>2 DEF OracleInv, OracleTypeOK
    <3> QED BY <3>1, <3>2
  <2> QED BY <2>1, <2>2
<1>11. docket' \in [Cases -> {"None", "Awaited", "Ruled"}] /\ first' \in [Cases -> Rulings \cup {None}]
  BY <1>3, <1>4 DEF OracleInv, OracleTypeOK
<1>12. OracleTypeOK'
  BY <1>1, <1>6, <1>10, <1>11 DEF OracleInv, OracleTypeOK
<1>13. \A p \in Cases : \/ docket'[p] = docket[p] /\ first'[p] = first[p]
                        \/ ruled /\ p = x.project
  BY <1>3, <1>4 DEF OracleInv, OracleTypeOK
<1>14. ruled => docket'[x.project] = "Ruled" /\ first'[x.project] = x.ruling
  BY <1>3, <1>4 DEF OracleInv, OracleTypeOK
<1> HIDE DEF x, g
<1>15. (\A h \in Slots : handler[h] # None => Answered(handler[h]))'
  <2>1. ASSUME NEW h \in Slots, handler'[h] # None PROVE Answered(handler'[h])
    <3>1. CASE h = g
      <4>1. g # None
        BY <3>1, OracleAssumption
      <4>2. Answered(handler[g]) /\ handler[g] # None
        BY <1>8, <4>1, OracleAssumption DEF OracleInv
      <4> QED BY <1>8, <3>1, <4>1, <4>2 DEF Answered
    <3>2. CASE h # g
      BY <1>9, <2>1, <3>2 DEF OracleInv
    <3> QED BY <3>1, <3>2
  <2> QED BY <2>1
<1>16. PoolWatched'
  <2>1. ASSUME NEW i \in 1..Len(pool') PROVE Watched(handler', pool'[i])
    <3>1. pool'[i] = pool[i + 1] /\ i + 1 \in 1..Len(pool)
      BY <1>6
    <3>2. Watched(handler, pool[i + 1]) /\ pool[i + 1].slot \in Slots \cup {None}
      BY <3>1, PoolHolds
    <3> QED BY <1>7, <1>9, <3>1, <3>2 DEF Watched
  <2> QED BY <2>1 DEF PoolWatched
<1>17. WatchedOnce'
  <2>1. ASSUME NEW i \in 1..Len(pool'), NEW j \in 1..Len(pool'),
               pool'[i].slot = pool'[j].slot, pool'[i].slot # None
        PROVE  i = j
    <3>1. pool[i + 1].slot = pool[j + 1].slot /\ pool[i + 1].slot # None
          /\ i + 1 \in 1..Len(pool) /\ j + 1 \in 1..Len(pool)
      BY <1>6, <2>1
    <3>2. i + 1 = j + 1
      BY <3>1 DEF OracleInv, WatchedOnce
    <3> QED BY <3>2
  <2> QED BY <2>1 DEF WatchedOnce
<1>18. ruled => /\ \A h \in Slots : IsApplied(h) => handler[h].project # x.project
                /\ reported[x.project] = << >>
  BY <1>3 DEF OracleInv, Applied, AppliedUnreported, SuccessIsOwnExtrinsic, x
<1>19. \A h \in Slots : IsApplied(h)' => \/ h # g /\ IsApplied(h) /\ handler'[h] = handler[h]
                                         \/ h = g /\ g # None /\ ruled
  BY <1>8, <1>9, OracleAssumption DEF IsApplied
<1>20. Applied'
  <2>1. ASSUME NEW h \in Slots, IsApplied(h)' PROVE AppliedUnreported(h)'
    <3>1. CASE h # g /\ IsApplied(h) /\ handler'[h] = handler[h]
      <4>1. AppliedUnreported(h) /\ handler[h].project \in Cases
        BY <3>1 DEF OracleInv, Applied, OracleTypeOK, IsApplied, Request
      <4> QED BY <1>1, <1>13, <1>18, <3>1, <4>1 DEF AppliedUnreported
    <3>2. CASE h = g /\ g # None /\ ruled
      BY <1>1, <1>8, <1>14, <1>18, <3>2 DEF AppliedUnreported
    <3> QED BY <1>19, <2>1, <3>1, <3>2
  <2>2. ASSUME NEW h \in Slots, NEW k \in Slots, IsApplied(h)', IsApplied(k)',
               handler'[h].project = handler'[k].project
        PROVE  h = k
    BY <1>8, <1>18, <1>19, <2>2 DEF OracleInv, Applied
  <2> QED BY <2>1, <2>2 DEF Applied
<1>21. SuccessIsOwnExtrinsic'
  BY <1>1, <1>13, <1>18 DEF OracleInv, SuccessIsOwnExtrinsic
<1> QED BY <1>12, <1>15, <1>16, <1>17, <1>20, <1>21 DEF OracleInv

\* A page gives up, or a dispute is created.
LEMMA OutsideKeeps ==
  ASSUME OracleInv,
         (\E u \in Users : PageTimesOut(u)) \/ (\E p \in Cases : DisputeCreated(p))
  PROVE  OracleInv'
<1>1. ASSUME NEW u \in Users, PageTimesOut(u) PROVE OracleInv'
  <2>1. page' = [page EXCEPT ![u] = None] /\ UNCHANGED <<docket, handler, pool, first, reported>>
    BY <1>1 DEF PageTimesOut
  <2> QED BY <2>1 DEF OracleInv, OracleTypeOK, PoolWatched, WatchedOnce, Applied, IsApplied,
                      AppliedUnreported, SuccessIsOwnExtrinsic
<1>2. ASSUME NEW p \in Cases, DisputeCreated(p) PROVE OracleInv'
  <2>1. /\ docket[p] = "None" /\ docket' = [docket EXCEPT ![p] = "Awaited"]
        /\ UNCHANGED <<page, handler, pool, first, reported>>
    BY <1>2 DEF DisputeCreated, Open, serviceVars
  <2>2. OracleTypeOK'
    BY <2>1 DEF OracleInv, OracleTypeOK
  <2>3. \A q \in Cases : docket[q] = "Ruled" => docket'[q] = "Ruled"
    BY <2>1 DEF OracleInv, OracleTypeOK
  <2>4. PoolWatched' /\ WatchedOnce' /\ (\A h \in Slots : handler[h] # None => Answered(handler[h]))'
    BY <2>1 DEF OracleInv, PoolWatched, WatchedOnce
  <2>5. \A h \in Slots : IsApplied(h) => handler[h].project \in Cases
    BY DEF OracleInv, OracleTypeOK, IsApplied, Request
  <2>6. Applied'
    BY <2>1, <2>3, <2>5 DEF OracleInv, Applied, IsApplied, AppliedUnreported
  <2>7. SuccessIsOwnExtrinsic'
    BY <2>1, <2>3 DEF OracleInv, SuccessIsOwnExtrinsic
  <2> QED BY <2>2, <2>4, <2>6, <2>7 DEF OracleInv
<1> QED BY <1>1, <1>2

-------------------------------------------------------------------------------
(* The specification *)

\* The inductive invariant holds at first.
LEMMA OracleInitInv ==
  ASSUME OracleInit PROVE OracleInv
<1>1. OracleTypeOK
  BY DEF OracleInit, DocketInit, OracleTypeOK
<1>2. PoolWatched /\ WatchedOnce /\ \A h \in Slots : handler[h] = None
  BY DEF OracleInit, PoolWatched, WatchedOnce
<1>3. Applied
  BY <1>2 DEF Applied, IsApplied
<1>4. SuccessIsOwnExtrinsic
  <2>1. \A p \in Cases : reported[p] = << >>
    BY DEF OracleInit
  <2>2. Len(<< >>) <= 1
    OBVIOUS
  <2> QED BY <2>1, <2>2 DEF SuccessIsOwnExtrinsic
<1> QED BY <1>1, <1>2, <1>3, <1>4 DEF OracleInv

\* Every step keeps it.
LEMMA OracleStepInv ==
  ASSUME OracleInv, [OracleNext]_oracleVars PROVE OracleInv'
<1>1. CASE UNCHANGED oracleVars
  BY <1>1 DEF OracleInv, OracleTypeOK, PoolWatched, WatchedOnce, Applied, IsApplied,
              AppliedUnreported, SuccessIsOwnExtrinsic, oracleVars, serviceVars
<1>2. CASE \E p \in Cases : DisputeCreated(p)
  BY <1>2, OutsideKeeps
<1>3. ASSUME NEW u \in Users, PageStep(u) PROVE OracleInv'
  BY <1>3, OutsideKeeps, TriggerKeeps DEF PageStep
<1>4. ASSUME NEW h \in Slots, HandlerStep(h) PROVE OracleInv'
  BY <1>4, EarlySteps, SendKeeps, FinalizedKeeps, LoseTrackKeeps DEF HandlerStep, Proceeds
<1>5. CASE SudoAccountSigns
  BY <1>5, SudoKeeps
<1>6. CASE Include
  BY <1>6, IncludeKeeps
<1>7. CASE NodeRestarts
  BY <1>7, RestartKeeps
<1> QED BY <1>1, <1>2, <1>3, <1>4, <1>5, <1>6, <1>7 DEF OracleNext

\* The services keep the types, and so send only rulings that submit_ruling knows,
\* whatever the model answers (rulingForBlockchain of the route).
THEOREM OracleTypeCorrect == OracleSpec => []OracleTypeOK
<1>1. OracleInv => OracleTypeOK
  BY DEF OracleInv
<1> QED BY <1>1, OracleInitInv, OracleStepInv, PTL DEF OracleSpec

\* Of the handlers that work on a dispute at most one reports success, and the ruling
\* the chain recorded is the one its own extrinsic carried, that is, what
\* rulingForBlockchain made of its answer (rulingSubmitted of the route), for any
\* number of handlers and pages and any pool.
THEOREM SuccessIsEarned == OracleSpec => []SuccessIsOwnExtrinsic
<1>1. OracleInv => SuccessIsOwnExtrinsic
  BY DEF OracleInv
<1> QED BY <1>1, OracleInitInv, OracleStepInv, PTL DEF OracleSpec

===============================================================================
