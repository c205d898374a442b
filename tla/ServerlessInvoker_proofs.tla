---------------------- MODULE ServerlessInvoker_proofs ----------------------
(* Proofs about ServerlessInvoker for every application, deployment, set   *)
(* of environments and set of messages.                                    *)
EXTENDS ServerlessInvoker, WellFoundedInduction, TLAPS

(* A nonempty set of naturals has a least element.                         *)
LEMMA LeastElement ==
    ASSUME NEW S \in SUBSET Nat, S # {}
    PROVE  \E i \in S : \A j \in S : i <= j
<1> DEFINE R == OpToRel(<, Nat)
<1>1. PICK i \in S : \A j \in S : ~ (<<j, i>> \in R)
  <2>1. IsWellFoundedOn(R, Nat)
    BY NatLessThanWellFounded
  <2> HIDE DEF R
  <2> QED
    BY <2>1, WFMin
<1>2. \A j \in S : ~ (j < i)
  BY <1>1 DEF OpToRel
<1> QED
  BY <1>2

(* What First returns is one of the positions it was given, or none.       *)
LEMMA FirstInRange ==
    ASSUME NEW n \in Nat, NEW found \in SUBSET (1 .. n)
    PROVE  First(found) \in 0 .. n
<1>1. CASE found = {}
  BY <1>1 DEF First, NoHandler
<1>2. CASE found # {}
  <2>1. PICK i \in found : \A j \in found : i <= j
    BY <1>2, LeastElement
  <2>2. First(found) \in found
    BY <1>2, <2>1 DEF First
  <2>3. \A k \in found : k \in 0 .. n
    OBVIOUS
  <2> QED
    BY <2>2, <2>3
<1> QED
  BY <1>1, <1>2

(* resolve finds a registration of the application, or nothing.            *)
LEMMA ResolveInRange ==
    ASSUME app \in Apps
    PROVE  /\ Len(app) \in Nat
           /\ Named \in 0 .. Len(app)
           /\ \A kind : Only(kind) \in 0 .. Len(app)
           /\ \A kind : resolve(kind) \in 0 .. Len(app)
<1>1. Len(app) \in Nat
  BY AppsShape
<1>2. ASSUME NEW n PROVE ByName(n) \in 0 .. Len(app)
  BY <1>1, FirstInRange DEF ByName
<1>3. ASSUME NEW t PROVE ByTag(t) \in 0 .. Len(app)
  BY <1>1, FirstInRange DEF ByTag
<1>4. ASSUME NEW kind PROVE Only(kind) \in 0 .. Len(app)
  <2>1. OfKind(kind) \in SUBSET (1 .. Len(app))
    BY DEF OfKind
  <2>2. First(OfKind(kind)) \in 0 .. Len(app)
    BY <1>1, <2>1, FirstInRange
  <2> QED
    BY <1>1, <2>2 DEF Only, NoHandler
<1>5. Named \in 0 .. Len(app)
  <2>1. ByName(deploy.id) \in 0 .. Len(app) /\ ByTag(deploy.tag) \in 0 .. Len(app)
    BY <1>2, <1>3
  <2>2. \/ Named = ByName(deploy.id) \/ Named = ByTag(deploy.tag) \/ Named = NoHandler
    BY Zenon DEF Named
  <2> QED
    BY <1>1, <2>1, <2>2 DEF NoHandler
<1> QED
  BY <1>1, <1>4, <1>5 DEF resolve

-----------------------------------------------------------------------------
(* The inductive invariant.                                                *)

(* The kind of an event is the one the deployment states, and a batch is   *)
(* an event of a consumer.                                                 *)
KindInv(e) == stage[e] # "idle" =>
    /\ deploy.kind # NotSet => inv[e].kind = deploy.kind
    /\ inv[e].batch # {} /\ deploy.kind \in {NotSet, "consumer"} => inv[e].kind = "consumer"

(* How far an invocation has come: past resolution there is a handler,     *)
(* past the guards all of them have allowed the event, and the handler     *)
(* runs only on a source it serves.                                        *)
StageInv(e) ==
    /\ stage[e] \in {"receipt", "route"} => inv[e].passed = 0
    /\ stage[e] \in {"guards", "bind", "handler"} => resolved[e] \in 1 .. Len(app)
    /\ stage[e] = "guards" => inv[e].passed <= Len(app[resolved[e]].guards)
    /\ stage[e] \in {"bind", "handler"} => inv[e].passed = Len(app[resolved[e]].guards)
    /\ stage[e] = "handler" => Serves(app[resolved[e]], inv[e].kind)

(* What an answer will delete has been handled.                            *)
DrainInv(e) ==
    deploy.kind \in {NotSet, "consumer"} /\ stage[e] = "answer" =>
        \A m \in inv[e].batch :
            m \notin Redelivered(inv[e].batch, inv[e].answer) => m \in handled

(* A resolution that does not depend on the event is the one every         *)
(* environment has.                                                        *)
Settled == IF Named # NoHandler THEN Named ELSE Only(deploy.kind)
ResolvedInv(e) ==
    (Named # NoHandler \/ deploy.kind # NotSet) /\ resolved[e] # Unresolved =>
        resolved[e] = Settled

(* SuccessIsEarned and ReceiptNotHostage, of one environment.              *)
EarnedInv(e) ==
    stage[e] = "answer" /\ Success(inv[e]) => Earned(e) \/ QuietlyUnrouted(e)
ReceiptInv(e) ==
    /\ inv[e].kind = "websocket" /\ HasEndpoint(inv[e].shape) /\ inv[e].asks
    /\ stage[e] \notin {"idle", "receipt"}
    => inv[e].receipt # "none"

EnvInv(e) ==
    /\ KindInv(e) /\ StageInv(e) /\ DrainInv(e)
    /\ ResolvedInv(e) /\ EarnedInv(e) /\ ReceiptInv(e)

IInv == TypeOK /\ NoSilentDrain /\ \A e \in Environments : EnvInv(e)

-----------------------------------------------------------------------------
LEMMA InitIInv == Init => IInv
<1> SUFFICES ASSUME Init PROVE IInv
  OBVIOUS
<1>1. Len(app) \in Nat
  BY AppsShape DEF Init
<1>2. Idle \in Invocations
  BY DEF Idle, Shapes, Kinds, Answers, Nothing, Invocations
<1>3. TypeOK
  BY <1>1, <1>2, MaxFaultsNat DEF Init, TypeOK, Stages, Unresolved
<1>4. \A e \in Environments : EnvInv(e)
  BY DEF Init, EnvInv, KindInv, StageInv, DrainInv, ResolvedInv, EarnedInv, ReceiptInv, Unresolved
<1>5. NoSilentDrain
  BY DEF Init, NoSilentDrain
<1> QED
  BY <1>3, <1>4, <1>5 DEF IInv

(* The registry and the deployment do not change, and neither does what    *)
(* follows from them.                                                      *)
LEMMA FixedResolution ==
    ASSUME UNCHANGED fixed
    PROVE  UNCHANGED <<Named, Settled>>
BY DEF fixed, Named, Settled, ByName, ByTag, Only, OfKind, First

(* Every answer the dispatcher composes is one the platform reads.         *)
LEMMA AnswersTyped ==
    /\ Err \in Answers /\ Nothing \in Answers /\ Output \in Answers
    /\ \A c \in {0, 200, 400, 401, 404, 409} : Status(c) \in Answers
    /\ \A f \in SUBSET Messages : Batch(f) \in Answers
    /\ \A kind : noHandler(kind) \in Answers /\ refused(kind) \in Answers
    /\ \A kind, why : Rejected(kind, why) \in Answers
    /\ \A kind \in Kinds, outcome \in Outcomes, f \in SUBSET Messages :
          fromResult(kind, outcome, f) \in Answers
<1>1. /\ Err \in Answers /\ Nothing \in Answers /\ Output \in Answers
      /\ \A c \in {0, 200, 400, 401, 404, 409} : Status(c) \in Answers
      /\ \A f \in SUBSET Messages : Batch(f) \in Answers
  BY DEF Err, Nothing, Output, Status, Batch, Answers
<1> QED
  BY <1>1 DEF noHandler, refused, Rejected, fromResult, Kinds

(* The changes the actions make to an invocation keep its type.            *)
LEMMA UpdateTyped ==
    ASSUME NEW i \in Invocations
    PROVE  /\ Idle \in Invocations
           /\ i.kind \in Kinds /\ i.batch \in SUBSET Messages /\ i.passed \in Nat
           /\ \A a \in Answers : [i EXCEPT !.answer = a] \in Invocations
           /\ \A r \in {"none", "sent", "failed"} : [i EXCEPT !.receipt = r] \in Invocations
           /\ \A n \in Nat : [i EXCEPT !.passed = n] \in Invocations
           /\ \A b \in BOOLEAN, a \in Answers :
                 [i EXCEPT !.ran = b, !.answer = a] \in Invocations
           /\ \A s \in Shapes, k \in Kinds, m \in SUBSET Messages, b \in BOOLEAN :
                 [Idle EXCEPT !.shape = s, !.kind = k, !.batch = m, !.asks = b] \in Invocations
<1>1. Idle \in Invocations
  BY DEF Invocations, Idle, Shapes, Kinds, Answers, Nothing
<1>2. i.kind \in Kinds /\ i.batch \in SUBSET Messages /\ i.passed \in Nat
  BY DEF Invocations
<1>3. \A a \in Answers : [i EXCEPT !.answer = a] \in Invocations
  BY DEF Invocations
<1>4. \A r \in {"none", "sent", "failed"} : [i EXCEPT !.receipt = r] \in Invocations
  BY DEF Invocations
<1>5. \A n \in Nat : [i EXCEPT !.passed = n] \in Invocations
  BY DEF Invocations
<1>6. \A b \in BOOLEAN, a \in Answers : [i EXCEPT !.ran = b, !.answer = a] \in Invocations
  BY DEF Invocations
<1>7. ASSUME NEW s \in Shapes, NEW k \in Kinds, NEW m \in SUBSET Messages, NEW b \in BOOLEAN
      PROVE  [Idle EXCEPT !.shape = s, !.kind = k, !.batch = m, !.asks = b] \in Invocations
  BY <1>1 DEF Invocations
<1> QED
  BY <1>1, <1>2, <1>3, <1>4, <1>5, <1>6, <1>7

(* Types are preserved.                                                    *)
LEMMA NextTypeOK == TypeOK /\ Next => TypeOK'
<1> SUFFICES ASSUME TypeOK, NEW e \in Environments,
                    \/ StartBatch(e) \/ StartEvent(e) \/ StartDirect(e)
                    \/ AcknowledgeReceipt(e) \/ Route(e) \/ Guard(e)
                    \/ Bind(e) \/ HandlerReturns(e) \/ Answer(e)
                    \/ Crash(e) \/ Recycle(e)
             PROVE  TypeOK'
  BY DEF Next
<1> DEFINE InvTyped == inv' \in [Environments -> Invocations]
<1>1. inv[e] \in Invocations /\ deploy.source \in Kinds
  BY DeploymentsShape DEF TypeOK
<1>a. inv[e].kind \in Kinds /\ inv[e].batch \in SUBSET Messages /\ inv[e].passed \in Nat
  BY <1>1, UpdateTyped
<1>b. faults' = faults \/ Fault => faults' \in 0 .. MaxFaults
  BY MaxFaultsNat DEF TypeOK, Fault
<1>2. \A shape \in Shapes : Detect(shape) \in Kinds
  BY DeploymentsShape DEF Detect, Shapes, Kinds, TypeOK
<1>0. ASSUME NEW answer \in Answers, Return(e, answer) PROVE InvTyped
  BY <1>0, <1>1, UpdateTyped DEF Return, TypeOK
<1>3. ASSUME NEW shape \in Shapes, NEW batch \in SUBSET Messages, NEW asks \in BOOLEAN,
             Start(e, shape, batch, asks), queue' \in [Messages -> {"visible", "taken", "gone"}]
      PROVE  TypeOK'
  <2>1. InvTyped
    BY <1>1, <1>2, <1>3, UpdateTyped DEF Start, TypeOK
  <2> QED
    BY <1>3, <2>1 DEF Start, TypeOK, GoTo, fixed, Stages
<1>4. CASE StartBatch(e)
  <2>1. PICK batch \in SUBSET Messages : Start(e, "consumer", batch, FALSE)
    BY <1>4 DEF StartBatch
  <2>2. queue' \in [Messages -> {"visible", "taken", "gone"}]
    BY <1>4 DEF StartBatch, TypeOK
  <2> QED
    BY <1>3, <2>1, <2>2 DEF Shapes, Kinds
<1>5. CASE StartEvent(e)
  <2>1. PICK asks \in BOOLEAN : Start(e, deploy.source, {}, asks)
    BY <1>5 DEF StartEvent
  <2>2. deploy.source \in Shapes
    BY <1>5 DEF StartEvent, Shapes, Kinds
  <2>3. queue' \in [Messages -> {"visible", "taken", "gone"}]
    BY <1>5 DEF StartEvent, TypeOK
  <2> QED
    BY <1>3, <2>1, <2>2, <2>3
<1>6. CASE StartDirect(e)
  BY <1>3, <1>6 DEF StartDirect, Shapes, TypeOK
<1>7. CASE AcknowledgeReceipt(e)
  <2>1. InvTyped
    <3>1. \/ inv' = inv
          \/ inv' = [inv EXCEPT ![e].receipt = "sent"]
          \/ inv' = [inv EXCEPT ![e].receipt = "failed"]
      BY <1>7 DEF AcknowledgeReceipt
    <3> QED
      BY <1>1, <3>1, UpdateTyped DEF TypeOK
  <2> QED
    <3>1. faults' \in 0 .. MaxFaults
      BY <1>b, <1>7 DEF AcknowledgeReceipt
    <3>2. client' \in [Environments -> {"none", "ready", "broken"}]
      BY <1>7 DEF AcknowledgeReceipt, TypeOK
    <3> QED
      BY <1>7, <2>1, <3>1, <3>2 DEF AcknowledgeReceipt, TypeOK, GoTo, fixed, Stages
<1>8. CASE Route(e)
  <2> DEFINE h == IF resolved[e] = Unresolved THEN resolve(inv[e].kind) ELSE resolved[e]
  <2>1. InvTyped
    BY <1>0, <1>8, AnswersTyped DEF Route, TypeOK
  <2>2. h \in 0 .. Len(app)
    <3>1. resolve(inv[e].kind) \in 0 .. Len(app)
      BY ResolveInRange DEF TypeOK
    <3>2. resolved[e] # Unresolved => resolved[e] \in 0 .. Len(app)
      BY DEF TypeOK
    <3> QED
      BY <3>1, <3>2
  <2>3. resolved' = [resolved EXCEPT ![e] = h]
    BY <1>8 DEF Route
  <2>4. stage' \in [Environments -> Stages]
    BY <1>8 DEF Route, Return, GoTo, Stages, TypeOK
  <2> QED
    BY <1>8, <2>1, <2>2, <2>3, <2>4 DEF Route, TypeOK, fixed
<1>9. CASE Guard(e)
  <2>1. InvTyped
    <3>1. inv[e].passed + 1 \in Nat
      BY <1>a
    <3>2. \/ inv' = inv
          \/ inv' = [inv EXCEPT ![e].passed = inv[e].passed + 1]
          \/ \E answer \in {Err, refused(inv[e].kind)} : Return(e, answer)
      BY <1>9 DEF Guard
    <3>3. CASE inv' = [inv EXCEPT ![e].passed = inv[e].passed + 1]
      BY <1>1, <3>1, <3>3, UpdateTyped DEF TypeOK
    <3> QED
      BY <1>0, <3>2, <3>3, AnswersTyped DEF TypeOK
  <2>2. stage' \in [Environments -> Stages]
    BY <1>9 DEF Guard, Return, GoTo, Stages, TypeOK
  <2> QED
    BY <1>9, <2>1, <2>2, MaxFaultsNat DEF Guard, TypeOK, fixed, Fault
<1>10. CASE Bind(e)
  <2>1. InvTyped
    BY <1>0, <1>10, AnswersTyped DEF Bind, TypeOK
  <2>2. stage' \in [Environments -> Stages]
    BY <1>10 DEF Bind, Return, GoTo, Stages, TypeOK
  <2> QED
    BY <1>10, <2>1, <2>2, MaxFaultsNat DEF Bind, TypeOK, fixed, Fault
<1>11. CASE HandlerReturns(e)
  <2>1. InvTyped
    <3>1. PICK outcome \in Outcomes, failures \in SUBSET inv[e].batch :
            inv' = [inv EXCEPT ![e].ran = (outcome \in {"ok", "nil"}),
                               ![e].answer = fromResult(inv[e].kind, outcome, failures)]
      BY <1>11 DEF HandlerReturns
    <3>2. fromResult(inv[e].kind, outcome, failures) \in Answers
      <4>1. failures \in SUBSET Messages
        BY <1>a
      <4> QED
        BY <1>a, <4>1, AnswersTyped
    <3> DEFINE ran == outcome \in {"ok", "nil"}
               answer == fromResult(inv[e].kind, outcome, failures)
    <3>3. inv' = [inv EXCEPT ![e].ran = ran, ![e].answer = answer] /\ ran \in BOOLEAN
      BY <3>1
    <3> HIDE DEF ran, answer
    <3>4. [inv[e] EXCEPT !.ran = ran, !.answer = answer] \in Invocations
      BY <1>1, <3>2, <3>3, UpdateTyped DEF answer
    <3> QED
      BY <3>3, <3>4 DEF TypeOK
  <2>2. handled' \subseteq Messages
    BY <1>a, <1>11 DEF HandlerReturns, TypeOK
  <2>3. faults' \in 0 .. MaxFaults
    BY <1>b, <1>11 DEF HandlerReturns
  <2> QED
    BY <1>11, <2>1, <2>2, <2>3 DEF HandlerReturns, TypeOK, GoTo, Stages, fixed
<1>12. CASE Answer(e)
  <2>1. InvTyped
    BY <1>1, <1>12, UpdateTyped DEF Answer, TypeOK
  <2> QED
    BY <1>12, <2>1 DEF Answer, TypeOK, GoTo, Stages, fixed, Settle
<1>13. CASE Crash(e)
  <2>1. InvTyped
    BY <1>1, <1>13, UpdateTyped DEF Crash, TypeOK
  <2> QED
    BY <1>13, <2>1, MaxFaultsNat DEF Crash, TypeOK, GoTo, Stages, fixed, Settle, Fault, Unresolved
<1>14. CASE Recycle(e)
  BY <1>14 DEF Recycle, TypeOK, fixed, Unresolved
<1> QED
  BY <1>4, <1>5, <1>6, <1>7, <1>8, <1>9, <1>10, <1>11, <1>12, <1>13, <1>14

(* No action of one environment touches another one, and what is handled   *)
(* stays handled.                                                          *)
Local(e) ==
    /\ \A f \in Environments \ {e} :
          stage'[f] = stage[f] /\ inv'[f] = inv[f] /\ resolved'[f] = resolved[f]
    /\ handled \subseteq handled'
    /\ app' = app /\ deploy' = deploy

Acts(e) ==
    \/ StartBatch(e) \/ StartEvent(e) \/ StartDirect(e)
    \/ AcknowledgeReceipt(e) \/ Route(e) \/ Guard(e)
    \/ Bind(e) \/ HandlerReturns(e) \/ Answer(e)
    \/ Crash(e) \/ Recycle(e)

LEMMA ActsLocally ==
    ASSUME TypeOK, NEW e \in Environments, Acts(e)
    PROVE  Local(e)
<1> USE DEF TypeOK, Local, GoTo, Return, fixed
<1>1. CASE StartBatch(e)
  BY <1>1 DEF StartBatch, Start
<1>2. CASE StartEvent(e)
  BY <1>2 DEF StartEvent, Start
<1>3. CASE StartDirect(e)
  BY <1>3 DEF StartDirect, Start
<1>4. CASE AcknowledgeReceipt(e)
  BY <1>4 DEF AcknowledgeReceipt
<1>5. CASE Route(e)
  BY <1>5 DEF Route
<1>6. CASE Guard(e)
  BY <1>6 DEF Guard
<1>7. CASE Bind(e)
  BY <1>7 DEF Bind
<1>8. CASE HandlerReturns(e)
  BY <1>8 DEF HandlerReturns
<1>9. CASE Answer(e)
  BY <1>9 DEF Answer
<1>10. CASE Crash(e)
  BY <1>10 DEF Crash
<1>11. CASE Recycle(e)
  BY <1>11 DEF Recycle
<1> QED
  BY <1>1, <1>2, <1>3, <1>4, <1>5, <1>6, <1>7, <1>8, <1>9, <1>10, <1>11 DEF Acts

(* The invariant of another environment stands.                            *)
LEMMA OthersKeep ==
    ASSUME NEW e \in Environments, NEW f \in Environments, f # e, Local(e), EnvInv(f)
    PROVE  EnvInv(f)'
<1>1. stage'[f] = stage[f] /\ inv'[f] = inv[f] /\ resolved'[f] = resolved[f]
  BY DEF Local
<1>2. app' = app /\ deploy' = deploy /\ handled \subseteq handled'
  BY DEF Local
<1>3. UNCHANGED <<Named, Settled>>
  BY <1>2, FixedResolution DEF fixed
<1>4. KindInv(f)' /\ StageInv(f)' /\ EarnedInv(f)' /\ ReceiptInv(f)'
  BY <1>1, <1>2 DEF EnvInv, KindInv, StageInv, EarnedInv, ReceiptInv, Serves, KindOf, Success, Earned,
                    QuietlyUnrouted
<1>5. DrainInv(f)' /\ ResolvedInv(f)'
  BY <1>1, <1>2, <1>3 DEF EnvInv, DrainInv, ResolvedInv
<1> QED
  BY <1>4, <1>5 DEF EnvInv

(* Returning an answer changes nothing else about the invocation.          *)
LEMMA Returned ==
    ASSUME TypeOK, NEW e \in Environments, NEW answer, Return(e, answer)
    PROVE  /\ stage'[e] = "answer" /\ inv'[e].answer = answer
           /\ inv'[e].kind = inv[e].kind /\ inv'[e].shape = inv[e].shape
           /\ inv'[e].batch = inv[e].batch /\ inv'[e].asks = inv[e].asks
           /\ inv'[e].receipt = inv[e].receipt
BY DEF Return, GoTo, TypeOK, Invocations

(* An error, and a status that is the caller's fault, redelivers a batch   *)
(* or has none, and is no success.                                         *)
LEMMA Refusals ==
    ASSUME NEW i, NEW kind \in Kinds,
           \/ i.answer = Err
           \/ i.answer \in {Status(400), Status(401), Status(404)} /\ kind # "consumer"
           \/ i.answer = Nothing /\ kind = "custom",
           i.kind = kind
    PROVE  /\ Success(i) => i.answer = Nothing /\ kind = "custom"
           /\ kind = "consumer" => Redelivered(i.batch, i.answer) = i.batch
BY DEF Success, Redelivered, Err, Status, Nothing, Kinds

(* The answers that are no success, and noHandler's to a custom event.     *)
Declined(kind) ==
    {Err} \cup (IF kind \in {"http", "websocket"} THEN {Status(400), Status(401), Status(404)}
               ELSE {})
Unrouted(kind) == Declined(kind) \cup (IF kind = "custom" THEN {Nothing} ELSE {})

LEMMA DeclinedAnswers ==
    ASSUME NEW kind \in Kinds
    PROVE  /\ noHandler(kind) \in Unrouted(kind) /\ refused(kind) \in Declined(kind)
           /\ \A why : Rejected(kind, why) \in Declined(kind)
           /\ Declined(kind) \subseteq Unrouted(kind)
           /\ Nothing \notin Declined(kind)
BY DEF Declined, Unrouted, noHandler, refused, Rejected, Kinds, Nothing, Err, Status

(* An invocation that ends with one of them keeps the invariant.           *)
LEMMA Declines ==
    ASSUME TypeOK, NEW e \in Environments, EnvInv(e), Local(e),
           stage[e] \notin {"idle", "receipt"},
           NEW answer \in Unrouted(inv[e].kind), Return(e, answer), ResolvedInv(e)',
           answer \in Declined(inv[e].kind) \/ resolved'[e] = NoHandler
    PROVE  EnvInv(e)'
<1>1. inv[e].kind \in Kinds
  BY DEF TypeOK, Invocations
<1>2. deploy' = deploy
  BY DEF Local
<1>3. /\ Success(inv'[e]) => QuietlyUnrouted(e)'
      /\ inv[e].kind = "consumer" => Redelivered(inv'[e].batch, inv'[e].answer) = inv'[e].batch
  <2>1. /\ inv'[e].kind = inv[e].kind
        /\ \/ inv'[e].answer = Err
           \/ inv'[e].answer \in {Status(400), Status(401), Status(404)} /\ inv[e].kind # "consumer"
           \/ inv'[e].answer = Nothing /\ inv[e].kind = "custom"
    BY Returned DEF Declined, Unrouted
  <2>2. inv'[e].answer = Nothing => resolved'[e] = NoHandler
    BY <1>1, DeclinedAnswers, Returned
  <2> QED
    BY <1>1, <2>1, <2>2, Refusals DEF QuietlyUnrouted
<1>4. KindInv(e)' /\ ReceiptInv(e)'
  BY <1>2, Returned DEF EnvInv, KindInv, ReceiptInv
<1>5. StageInv(e)' /\ EarnedInv(e)'
  BY <1>3, Returned DEF StageInv, EarnedInv
<1>6. DrainInv(e)'
  BY <1>2, <1>3, Returned DEF EnvInv, KindInv, DrainInv
<1> QED
  BY <1>4, <1>5, <1>6 DEF EnvInv

(* Every action keeps the invariant of the environment it belongs to.      *)
LEMMA ActsKeepEnvInv ==
    ASSUME IInv, NEW e \in Environments, Acts(e)
    PROVE  EnvInv(e)'
<1>1. TypeOK /\ EnvInv(e) /\ Local(e)
  BY ActsLocally DEF IInv
<1>2. app' = app /\ deploy' = deploy /\ handled \subseteq handled'
  BY <1>1 DEF Local
<1>3. UNCHANGED <<Named, Settled>>
  BY <1>2, FixedResolution DEF fixed
<1>4. inv[e] \in Invocations /\ inv[e].kind \in Kinds /\ inv[e].passed \in Nat
  BY <1>1 DEF TypeOK, Invocations
<1>5. resolved' = resolved => ResolvedInv(e)'
  BY <1>1, <1>2, <1>3 DEF EnvInv, ResolvedInv
<1>6. ASSUME NEW shape, NEW batch, NEW asks, Start(e, shape, batch, asks),
             batch # {} => shape = "consumer"
      PROVE  EnvInv(e)'
  <2>1. /\ stage'[e] = "receipt" /\ inv'[e].passed = 0
        /\ inv'[e].kind = Detect(shape) /\ inv'[e].batch = batch
    BY <1>1, <1>6 DEF Start, GoTo, TypeOK, Idle
  <2>2. KindInv(e)'
    BY <1>2, <1>6, <2>1 DEF KindInv, Detect
  <2>3. ResolvedInv(e)'
    BY <1>5, <1>6 DEF Start
  <2> QED
    BY <2>1, <2>2, <2>3 DEF EnvInv, StageInv, DrainInv, EarnedInv, ReceiptInv
<1>7. CASE StartBatch(e)
  BY <1>6, <1>7 DEF StartBatch
<1>8. CASE StartEvent(e)
  BY <1>6, <1>8 DEF StartEvent
<1>9. CASE StartDirect(e)
  BY <1>6, <1>9 DEF StartDirect
<1>10. CASE AcknowledgeReceipt(e)
  <2>1. /\ stage[e] = "receipt" /\ stage'[e] = "route"
        /\ inv'[e].kind = inv[e].kind /\ inv'[e].batch = inv[e].batch
        /\ inv'[e].passed = inv[e].passed /\ inv'[e].shape = inv[e].shape
        /\ inv'[e].asks = inv[e].asks
    BY <1>1, <1>4, <1>10 DEF AcknowledgeReceipt, GoTo, TypeOK, Invocations
  <2>2. ReceiptInv(e)'
    BY <1>1, <1>4, <1>10, <2>1 DEF AcknowledgeReceipt, ReceiptInv, HasEndpoint, TypeOK, Invocations
  <2>3. KindInv(e)' /\ StageInv(e)'
    BY <1>1, <1>2, <2>1 DEF EnvInv, KindInv, StageInv
  <2>4. ResolvedInv(e)'
    BY <1>5, <1>10 DEF AcknowledgeReceipt
  <2> QED
    BY <2>1, <2>2, <2>3, <2>4 DEF EnvInv, DrainInv, EarnedInv
<1>11. CASE Route(e)
  <2> DEFINE h == IF resolved[e] = Unresolved THEN resolve(inv[e].kind) ELSE resolved[e]
  <2>1. stage[e] = "route" /\ resolved'[e] = h
    BY <1>1, <1>11 DEF Route, TypeOK
  <2>2. h \in 0 .. Len(app)
    <3>1. resolve(inv[e].kind) \in 0 .. Len(app)
      BY <1>1, ResolveInRange DEF TypeOK
    <3>2. resolved[e] # Unresolved => resolved[e] \in 0 .. Len(app)
      BY <1>1 DEF TypeOK
    <3> QED
      BY <3>1, <3>2
  <2>3. ResolvedInv(e)'
    <3>1. CASE resolved[e] = Unresolved
      <4>1. resolved'[e] = resolve(inv[e].kind)
        BY <2>1, <3>1
      <4>2. deploy.kind # NotSet => inv[e].kind = deploy.kind
        BY <1>1, <2>1 DEF EnvInv, KindInv
      <4> QED
        BY <1>2, <1>3, <4>1, <4>2 DEF ResolvedInv, resolve, Settled
    <3>2. CASE resolved[e] # Unresolved
      BY <1>1, <1>2, <1>3, <2>1, <3>2 DEF EnvInv, ResolvedInv
    <3> QED
      BY <3>1, <3>2
  <2>4. CASE \E answer \in Unrouted(inv[e].kind) :
                 Return(e, answer) /\ (answer \in Declined(inv[e].kind) \/ h = NoHandler)
    BY <1>1, <2>1, <2>3, <2>4, Declines
  <2>5. CASE h # NoHandler /\ stage'[e] = "guards" /\ inv' = inv
    <3>1. resolved'[e] \in 1 .. Len(app)
      BY <2>1, <2>2, <2>5 DEF NoHandler
    <3>2. Len(app[resolved'[e]].guards) \in Nat
      BY <1>1, <3>1, AppsShape DEF TypeOK
    <3>3. StageInv(e)'
      BY <1>1, <1>2, <2>1, <2>5, <3>1, <3>2 DEF EnvInv, StageInv
    <3> QED
      BY <1>1, <1>2, <2>1, <2>3, <2>5, <3>3 DEF EnvInv, KindInv, DrainInv, EarnedInv, ReceiptInv
  <2>6. \/ \E answer \in Unrouted(inv[e].kind) :
               Return(e, answer) /\ (answer \in Declined(inv[e].kind) \/ h = NoHandler)
        \/ h # NoHandler /\ stage'[e] = "guards" /\ inv' = inv
    <3>1. /\ noHandler(inv[e].kind) \in Unrouted(inv[e].kind)
          /\ Err \in Declined(inv[e].kind) /\ Err \in Unrouted(inv[e].kind)
      BY <1>4, DeclinedAnswers DEF Declined
    <3> QED
      BY <1>1, <1>11, <3>1 DEF Route, GoTo, TypeOK
  <2> QED
    BY <2>4, <2>5, <2>6
<1>12. CASE Guard(e)
  <2>1. stage[e] = "guards" /\ resolved' = resolved /\ ResolvedInv(e)'
    BY <1>5, <1>12 DEF Guard
  <2>2. resolved[e] \in 1 .. Len(app) /\ Len(app[resolved[e]].guards) \in Nat
    BY <1>1, <2>1, AppsShape DEF EnvInv, StageInv, TypeOK
  <2>3. CASE \E answer \in Declined(inv[e].kind) : Return(e, answer)
    BY <1>1, <1>4, <2>1, <2>3, DeclinedAnswers, Declines
  <2>4. CASE /\ inv[e].passed + 1 > Len(app[resolved[e]].guards)
             /\ stage'[e] = "bind" /\ inv' = inv
    <3>1. StageInv(e)'
      BY <1>1, <1>2, <1>4, <2>1, <2>2, <2>4 DEF EnvInv, StageInv
    <3> QED
      BY <1>1, <1>2, <2>1, <2>4, <3>1 DEF EnvInv, KindInv, DrainInv, EarnedInv, ReceiptInv
  <2>5. CASE /\ inv[e].passed + 1 <= Len(app[resolved[e]].guards)
             /\ inv' = [inv EXCEPT ![e].passed = inv[e].passed + 1]
             /\ stage' = stage
    <3>1. /\ inv'[e].passed = inv[e].passed + 1
          /\ inv'[e].kind = inv[e].kind /\ inv'[e].batch = inv[e].batch
          /\ inv'[e].shape = inv[e].shape /\ inv'[e].asks = inv[e].asks
          /\ inv'[e].receipt = inv[e].receipt
      BY <1>1, <1>4, <2>5 DEF TypeOK, Invocations
    <3>2. StageInv(e)'
      BY <1>1, <1>2, <2>1, <2>2, <2>5, <3>1 DEF EnvInv, StageInv
    <3> QED
      BY <1>1, <1>2, <2>1, <2>5, <3>1, <3>2 DEF EnvInv, KindInv, DrainInv, EarnedInv, ReceiptInv
  <2> QED
    <3>1. Err \in Declined(inv[e].kind) /\ refused(inv[e].kind) \in Declined(inv[e].kind)
      BY <1>4, DeclinedAnswers DEF Declined
    <3> QED
      BY <1>1, <1>12, <2>3, <2>4, <2>5, <3>1 DEF Guard, GoTo, TypeOK
<1>13. CASE Bind(e)
  <2>1. stage[e] = "bind" /\ resolved' = resolved /\ ResolvedInv(e)'
    BY <1>5, <1>13 DEF Bind
  <2>2. CASE \E answer \in Declined(inv[e].kind) : Return(e, answer)
    BY <1>1, <1>4, <2>1, <2>2, DeclinedAnswers, Declines
  <2>3. CASE Serves(app[resolved[e]], inv[e].kind) /\ stage'[e] = "handler" /\ inv' = inv
    <3>1. StageInv(e)'
      BY <1>1, <1>2, <2>1, <2>3 DEF EnvInv, StageInv, Serves, KindOf
    <3> QED
      BY <1>1, <1>2, <2>1, <2>3, <3>1 DEF EnvInv, KindInv, DrainInv, EarnedInv, ReceiptInv
  <2> QED
    <3>1. Err \in Declined(inv[e].kind) /\ \A why : Rejected(inv[e].kind, why) \in Declined(inv[e].kind)
      BY <1>4, DeclinedAnswers DEF Declined
    <3> QED
      BY <1>1, <1>13, <2>2, <2>3, <3>1 DEF Bind, GoTo, TypeOK
<1>14. CASE HandlerReturns(e)
  <2>1. stage[e] = "handler" /\ stage'[e] = "answer" /\ resolved' = resolved /\ ResolvedInv(e)'
    BY <1>1, <1>5, <1>14 DEF HandlerReturns, GoTo, TypeOK
  <2>2. PICK outcome \in Outcomes, failures \in SUBSET inv[e].batch :
          /\ failures # {} => outcome = "ok" /\ inv[e].kind = "consumer"
          /\ inv' = [inv EXCEPT ![e].ran = (outcome \in {"ok", "nil"}),
                                ![e].answer = fromResult(inv[e].kind, outcome, failures)]
          /\ handled' = IF outcome \in {"ok", "nil"} THEN handled \cup (inv[e].batch \ failures) ELSE handled
    BY <1>14 DEF HandlerReturns
  <2>3. /\ inv'[e].ran = (outcome \in {"ok", "nil"})
        /\ inv'[e].answer = fromResult(inv[e].kind, outcome, failures)
        /\ inv'[e].passed = inv[e].passed
        /\ inv'[e].kind = inv[e].kind /\ inv'[e].batch = inv[e].batch
        /\ inv'[e].shape = inv[e].shape /\ inv'[e].asks = inv[e].asks
        /\ inv'[e].receipt = inv[e].receipt
    BY <1>1, <1>4, <2>2 DEF TypeOK, Invocations
  <2>4. KindInv(e)' /\ ReceiptInv(e)' /\ StageInv(e)'
    BY <1>1, <1>2, <2>1, <2>3 DEF EnvInv, KindInv, ReceiptInv, StageInv
  <2>5. EarnedInv(e)'
    <3>1. Success(inv'[e]) => outcome \in {"ok", "nil"}
      BY <1>4, <2>3 DEF Success, fromResult, Err, Status, Batch, Output, Nothing, Kinds, Outcomes
    <3> QED
      BY <1>1, <1>2, <2>1, <2>3, <3>1 DEF EnvInv, StageInv, EarnedInv, Earned, Serves, KindOf
  <2>6. DrainInv(e)'
    <3>1. SUFFICES ASSUME deploy.kind \in {NotSet, "consumer"}, NEW m \in inv[e].batch,
                          m \notin Redelivered(inv'[e].batch, inv'[e].answer)
                   PROVE  m \in handled'
      BY <1>2, <2>1, <2>3 DEF DrainInv
    <3>2. inv[e].kind = "consumer"
      BY <1>1, <2>1, <3>1 DEF EnvInv, KindInv
    <3>3. CASE outcome \in {"ok", "nil"}
      <4>1. handled' = handled \cup (inv[e].batch \ failures)
        BY <2>2, <3>3
      <4>2. CASE outcome = "ok"
        BY <2>3, <3>1, <3>2, <4>1, <4>2 DEF Redelivered, fromResult, Batch
      <4>3. CASE outcome = "nil"
        <5>1. failures = {}
          BY <2>2, <4>3
        <5> QED
          BY <3>1, <4>1, <5>1
      <4> QED
        BY <3>3, <4>2, <4>3
    <3>4. CASE outcome \notin {"ok", "nil"}
      BY <2>3, <3>1, <3>2, <3>4 DEF Redelivered, fromResult, Err
    <3> QED
      BY <3>3, <3>4
  <2> QED
    BY <2>1, <2>4, <2>5, <2>6 DEF EnvInv
<1>15. CASE Answer(e) \/ Crash(e)
  <2>1. stage'[e] = "idle"
    BY <1>1, <1>15 DEF Answer, Crash, GoTo, TypeOK
  <2>2. resolved' = resolved \/ resolved'[e] = Unresolved
    BY <1>1, <1>15 DEF Answer, Crash, TypeOK
  <2>3. ResolvedInv(e)'
    BY <1>5, <2>2 DEF ResolvedInv
  <2> QED
    BY <2>1, <2>3 DEF EnvInv, KindInv, StageInv, DrainInv, EarnedInv, ReceiptInv
<1>16. CASE Recycle(e)
  <2>1. stage'[e] = "idle" /\ resolved'[e] = Unresolved
    BY <1>1, <1>16 DEF Recycle, TypeOK
  <2> QED
    BY <2>1 DEF EnvInv, KindInv, StageInv, DrainInv, ResolvedInv, EarnedInv, ReceiptInv
<1> QED
  BY <1>7, <1>8, <1>9, <1>10, <1>11, <1>12, <1>13, <1>14, <1>15, <1>16 DEF Acts

(* Only an answer deletes messages, and only handled ones.                 *)
LEMMA ActsKeepQueue ==
    ASSUME IInv, NEW e \in Environments, Acts(e)
    PROVE  NoSilentDrain'
<1>1. TypeOK /\ Local(e) /\ DrainInv(e) /\ NoSilentDrain
  BY ActsLocally DEF IInv, EnvInv
<1>2. deploy' = deploy /\ handled \subseteq handled'
  BY <1>1 DEF Local
<1>3. CASE \A m \in Messages : queue'[m] = "gone" => queue[m] = "gone"
  BY <1>1, <1>2, <1>3 DEF NoSilentDrain
<1>4. CASE Answer(e)
  BY <1>1, <1>2, <1>4 DEF Answer, Settle, NoSilentDrain, DrainInv
<1>5. StartBatch(e) \/ Crash(e) => \A m \in Messages : queue'[m] = "gone" => queue[m] = "gone"
  BY DEF StartBatch, Crash, Settle
<1>6. Acts(e) => StartBatch(e) \/ Crash(e) \/ Answer(e) \/ queue' = queue
  BY DEF Acts, StartEvent, StartDirect, AcknowledgeReceipt, Route, Guard, Bind, HandlerReturns, Recycle
<1> QED
  BY <1>3, <1>4, <1>5, <1>6

LEMMA NextIInv == IInv /\ [Next]_vars => IInv'
<1> SUFFICES ASSUME IInv, [Next]_vars PROVE IInv'
  OBVIOUS
<1>1. CASE Next
  <2>1. PICK e \in Environments : Acts(e)
    BY <1>1 DEF Next, Acts
  <2>2. TypeOK'
    BY <1>1, NextTypeOK DEF IInv
  <2>3. ASSUME NEW f \in Environments PROVE EnvInv(f)'
    <3>1. TypeOK /\ EnvInv(f) /\ Local(e)
      BY <2>1, ActsLocally DEF IInv
    <3> QED
      BY <2>1, <3>1, OthersKeep, ActsKeepEnvInv
  <2> QED
    BY <2>1, <2>2, <2>3, ActsKeepQueue DEF IInv
<1>2. CASE UNCHANGED vars
  <2>1. UNCHANGED <<Named, Settled>>
    BY <1>2, FixedResolution DEF vars, fixed
  <2>2. TypeOK' /\ NoSilentDrain'
    BY <1>2 DEF IInv, TypeOK, NoSilentDrain, vars
  <2>3. ASSUME NEW f \in Environments PROVE EnvInv(f)'
    BY <1>2, <2>1 DEF IInv, EnvInv, KindInv, StageInv, DrainInv, ResolvedInv, EarnedInv,
                      ReceiptInv, Serves, KindOf, Success, Earned,
                    QuietlyUnrouted, vars
  <2> QED
    BY <2>2, <2>3 DEF IInv
<1> QED
  BY <1>1, <1>2

(* The invariant holds of every behaviour of the function.                 *)
THEOREM InvokerInvariant == Spec => []IInv
<1>1. Init => IInv
  BY InitIInv
<1>2. IInv /\ [Next]_vars => IInv'
  BY NextIInv
<1> QED
  BY <1>1, <1>2, PTL DEF Spec

(* Types, for every application and deployment: what dispatcher.resolve    *)
(* finds is a registration, and Detect gives every payload a kind.         *)
THEOREM InvokerTypeCorrect == Spec => []TypeOK
<1>1. IInv => TypeOK
  BY DEF IInv
<1> QED
  BY <1>1, InvokerInvariant, PTL

(* A queue never drains silently, whatever noHandler, guardLayer, the      *)
(* wrappers and FromBatchResult are met with.                              *)
THEOREM QueueNeverDrainsSilently == Spec => []NoSilentDrain
<1>1. IInv => NoSilentDrain
  BY DEF IInv
<1> QED
  BY <1>1, InvokerInvariant, PTL

(* invoke reports a success only for an event its handler has served past  *)
(* every guard, or, where noHandler answers it, for a custom invocation    *)
(* that no handler is there for (serve.go:138).                            *)
THEOREM EverySuccessIsEarned == Spec => []SuccessIsEarned
<1>1. IInv => SuccessIsEarned
  BY DEF IInv, EnvInv, EarnedInv, SuccessIsEarned
<1> QED
  BY <1>1, InvokerInvariant, PTL

(* All environments resolve to one handler, where resolve does not depend  *)
(* on the kind of the event.                                               *)
THEOREM EnvironmentsResolveAlike == Spec => []EnvironmentsAgree
<1>1. IInv => EnvironmentsAgree
  BY DEF IInv, EnvInv, ResolvedInv, EnvironmentsAgree
<1> QED
  BY <1>1, InvokerInvariant, PTL

(* acknowledgeReceipt comes before everything that can end an invocation.  *)
THEOREM ReceiptsComeFirst == Spec => []ReceiptNotHostage
<1>1. IInv => ReceiptNotHostage
  BY DEF IInv, EnvInv, ReceiptInv, ReceiptNotHostage
<1> QED
  BY <1>1, InvokerInvariant, PTL
=============================================================================
