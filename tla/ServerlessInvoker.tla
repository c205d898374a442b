-------------------------- MODULE ServerlessInvoker -------------------------
(***************************************************************************)
(* A function on a serverless platform: the dispatcher of package          *)
(* serverless, the Lambda adapter and the pipeline around a handler.       *)
(*                                                                         *)
(* The platform runs a function in several execution environments. Each is *)
(* a process of its own that handles one invocation at a time and keeps,   *)
(* from one invocation to the next, the handler it resolved and the client *)
(* it pushes WebSocket messages with. An invocation goes through           *)
(* dispatcher.invoke: detect, acknowledge, resolve, map, guards, handler,  *)
(* answer. What the platform does with a queue's messages depends on       *)
(* nothing but that answer.                                                *)
(***************************************************************************)
EXTENDS Integers, Sequences, FiniteSets

CONSTANTS
    Environments, \* execution environments of the function
    Messages,     \* messages on the queue, for a function that consumes one
    Apps,         \* what code may register: sequences of registrations
    Deployments,  \* what the deployment may set: [id, tag, kind, source]
    Guards,       \* the guards the application registered with AddGuard
    MaxFaults     \* bound: crashes, refusals and failures

(* The kinds of handler.Kind. An event of a platform source has the shape  *)
(* of its kind; "object" is any other JSON object and "scalar" is JSON     *)
(* that is no object.                                                      *)
Kinds    == {"http", "websocket", "consumer", "schedule", "custom"}
Shapes   == (Kinds \ {"custom"}) \cup {"object", "scalar"}
Wrappers == {"http", "typedHTTP", "websocket", "consumer", "schedule", "custom", "any"}

(* An environment variable that is not set, and the kind of a handler that *)
(* states none.                                                            *)
NotSet == ""

ASSUME AppsShape ==
    Apps \subseteq Seq([name : STRING, published : STRING, tag : STRING,
                        wrap : Wrappers, guards : Seq(STRING)])
ASSUME DeploymentsShape ==
    Deployments \subseteq [id : STRING, tag : STRING, kind : Kinds \cup {NotSet}, source : Kinds]
ASSUME MaxFaultsNat == MaxFaults \in Nat

VARIABLES
    app,       \* the registrations, in order
    deploy,    \* the deployment
    resolved,  \* dispatcher.resolved per environment: Unresolved, NoHandler or a position in app
    client,    \* the sender's client per environment: "none", "ready" or "broken"
    stage,     \* where an environment's invocation is
    inv,       \* the invocation
    queue,     \* per message: "visible", "taken" or "gone"
    handled,   \* history: messages a handler was given and did not report as failed
    faults     \* faults so far

vars == <<app, deploy, resolved, client, stage, inv, queue, handled, faults>>
fixed == <<app, deploy>>

Unresolved == -1
NoHandler  == 0

Stages == {"idle", "receipt", "route", "guards", "bind", "handler", "answer"}

(* What an invocation ends with: an error, a status code for API Gateway,  *)
(* a partial failure report for SQS, the output of a custom handler, or    *)
(* nothing.                                                                *)
Answers == [type : {"error", "status", "batch", "output", "nothing"},
            code : {0, 200, 400, 401, 404, 409}, failures : SUBSET Messages]

Err         == [type |-> "error",   code |-> 0, failures |-> {}]
Nothing     == [type |-> "nothing", code |-> 0, failures |-> {}]
Output      == [type |-> "output",  code |-> 0, failures |-> {}]
Status(c)   == [type |-> "status",  code |-> c, failures |-> {}]
Batch(f)    == [type |-> "batch",   code |-> 0, failures |-> f]

(* An invocation: the payload's shape and kind, the messages of a batch,   *)
(* whether the client asks for a receipt and what became of it, the guards *)
(* that have allowed the event, whether the handler returned without an    *)
(* error, and the answer.                                                  *)
Invocations == [shape : Shapes, kind : Kinds, batch : SUBSET Messages, asks : BOOLEAN,
                receipt : {"none", "sent", "failed"}, passed : Nat,
                ran : BOOLEAN, answer : Answers]

Idle == [shape |-> "object", kind |-> "custom", batch |-> {}, asks |-> FALSE,
         receipt |-> "none", passed |-> 0, ran |-> FALSE, answer |-> Nothing]

-----------------------------------------------------------------------------
(* Registry and resolver.                                                  *)

(* The kind a registration states. A handler that takes its wiring from    *)
(* the blueprint states none, and no blueprint is read here.               *)
KindOf(reg) == IF reg.wrap = "typedHTTP" THEN "http"
               ELSE IF reg.wrap = "any" THEN NotSet ELSE reg.wrap

(* The first of some positions in the registry, or NoHandler.              *)
First(found) ==
    IF found = {} THEN NoHandler ELSE CHOOSE i \in found : \A j \in found : i <= j

ByName(n) == First({i \in 1 .. Len(app) : n \in {app[i].name, app[i].published}})
ByTag(t)  == First({i \in 1 .. Len(app) : app[i].tag = t})

(* The one handler of a kind, where there is exactly one.                  *)
OfKind(kind) == {i \in 1 .. Len(app) : KindOf(app[i]) = kind}
Only(kind)   == IF Cardinality(OfKind(kind)) = 1 THEN First(OfKind(kind)) ELSE NoHandler

(* The handler the deployment names: by id, then by tag.                   *)
Named ==
    IF deploy.id # NotSet /\ ByName(deploy.id) # NoHandler THEN ByName(deploy.id)
    ELSE IF deploy.tag # NotSet THEN ByTag(deploy.tag) ELSE NoHandler

(* Mutant: the tag is not tried.                                           *)
resolveWithoutTag(kind) ==
    IF deploy.id # NotSet /\ ByName(deploy.id) # NoHandler THEN ByName(deploy.id) ELSE Only(kind)

(* dispatcher.resolve                                                      *)
resolve(kind) == IF Named # NoHandler THEN Named ELSE Only(kind)

-----------------------------------------------------------------------------
(* The mapper.                                                             *)

(* Mapper.Detect: the deployment's word, then the payload's shape.         *)
Detect(shape) ==
    IF deploy.kind # NotSet THEN deploy.kind
    ELSE IF shape \in {"object", "scalar"} THEN "custom" ELSE shape

(* decode: json.Unmarshal ignores fields it does not know and leaves those *)
(* it does not find empty, so any object is an event of every shape. A     *)
(* custom payload is not decoded.                                          *)
Decodes(kind, shape) == kind = "custom" \/ shape # "scalar"

(* ManagementEndpoint: only a request context carries a domain and stage.  *)
HasEndpoint(shape) == shape \in {"websocket", "http"}

(* Mutant: an unroutable event is answered quietly whatever its source.    *)
noHandlerQuiet(kind) ==
    CASE kind \in {"http", "websocket"} -> Status(404)
      [] kind = "consumer" -> Batch({})
      [] OTHER -> Nothing

(* dispatcher.noHandler                                                    *)
noHandler(kind) ==
    CASE kind \in {"http", "websocket"} -> Status(404)
      [] kind = "custom" -> Nothing
      [] OTHER -> Err

(* refused, as fromResult answers it: a result of a consumer, a schedule   *)
(* or a custom handler that carries an error becomes that error. 401 is    *)
(* webSocketStatus of an acknowledgement without success.                  *)
refused(kind) == IF kind \in {"http", "websocket"} THEN Status(401) ELSE Err

(* Whether a registration's wrapper takes the event: wrongSource, and the  *)
(* default case of wrapTypedAny.                                           *)
Serves(reg, kind) ==
    \/ KindOf(reg) = kind
    \/ reg.wrap = "any" /\ kind \in {"http", "websocket", "custom"}

(* Whether the wrapper decodes and validates an input before the handler.  *)
Binds(reg) == reg.wrap \in {"typedHTTP", "websocket", "custom", "any"}

(* An input the wrapper rejects: decodeFailure is a 400 over HTTP and an   *)
(* error elsewhere; a failed validation is the caller's over HTTP and on a *)
(* WebSocket, where it is an acknowledgement without success.              *)
Rejected(kind, why) ==
    CASE kind = "http" -> Status(400)
      [] kind = "websocket" /\ why = "invalid" -> Status(401)
      [] OTHER -> Err

(* What a handler's outcome becomes: an error that carries a status is a   *)
(* response over HTTP, every other error fails the invocation. "nil" is a  *)
(* result a layer around the handler has dropped, and the empty output of  *)
(* a custom handler.                                                       *)
Outcomes == {"ok", "nil", "error", "status"}
fromResult(kind, outcome, failures) ==
    IF outcome = "nil" THEN Nothing
    ELSE IF outcome = "ok"
    THEN CASE kind \in {"http", "websocket"} -> Status(200)
           [] kind = "consumer"              -> Batch(failures)
           [] kind = "schedule"              -> Nothing
           [] kind = "custom"                -> Output
    ELSE IF outcome = "status" /\ kind = "http" THEN Status(409) ELSE Err

-----------------------------------------------------------------------------
Init ==
    /\ app \in Apps /\ deploy \in Deployments
    /\ resolved = [e \in Environments |-> Unresolved]
    /\ client = [e \in Environments |-> "none"]
    /\ stage = [e \in Environments |-> "idle"]
    /\ inv = [e \in Environments |-> Idle]
    /\ queue = [m \in Messages |-> "visible"]
    /\ handled = {} /\ faults = 0

Fault == faults < MaxFaults /\ faults' = faults + 1

(* The invocation of e goes to a stage.                                    *)
GoTo(e, s) == stage' = [stage EXCEPT ![e] = s]

(* invoke returns: whatever comes next is in the platform's hands.         *)
Return(e, answer) ==
    /\ GoTo(e, "answer")
    /\ inv' = [inv EXCEPT ![e].answer = answer]

(* The platform hands e an event and invoke detects its kind.              *)
Start(e, shape, batch, asks) ==
    /\ stage[e] = "idle"
    /\ GoTo(e, "receipt")
    /\ inv' = [inv EXCEPT ![e] =
                 [Idle EXCEPT !.shape = shape, !.kind = Detect(shape),
                              !.batch = batch, !.asks = asks]]
    /\ UNCHANGED <<fixed, resolved, client, handled, faults>>

(* The event source mapping takes messages off the queue.                  *)
StartBatch(e) ==
    /\ deploy.source = "consumer"
    /\ \E batch \in SUBSET {m \in Messages : queue[m] = "visible"} :
          /\ batch # {}
          /\ Start(e, "consumer", batch, FALSE)
          /\ queue' = [m \in Messages |-> IF m \in batch THEN "taken" ELSE queue[m]]

(* Any other event of the function's own source; a WebSocket message may   *)
(* ask to be acknowledged.                                                 *)
StartEvent(e) ==
    /\ deploy.source \in {"http", "websocket", "schedule"}
    /\ \E asks \in {FALSE, deploy.source = "websocket"} :
          Start(e, deploy.source, {}, asks)
    /\ UNCHANGED queue

(* Someone invokes the function directly, with JSON of their own.          *)
StartDirect(e) ==
    /\ \E shape \in {"object", "scalar"} : Start(e, shape, {}, FALSE)
    /\ UNCHANGED queue

(* Mutant: the receipt waits for resolution to have succeeded once.        *)
AcknowledgeAfterResolution(e) ==
    /\ stage[e] = "receipt"
    /\ GoTo(e, "route")
    /\ LET sends == inv[e].kind = "websocket" /\ HasEndpoint(inv[e].shape)
                      /\ inv[e].asks /\ resolved[e] \in 1 .. Len(app) IN
       \/ ~sends /\ UNCHANGED <<client, inv, faults>>
       \/ /\ sends /\ client[e] # "broken"
          /\ client' = [client EXCEPT ![e] = "ready"]
          /\ inv' = [inv EXCEPT ![e].receipt = "sent"]
          /\ UNCHANGED faults
    /\ UNCHANGED <<fixed, resolved, queue, handled>>

(* webSocketSender and acknowledgeReceipt. The sender builds its client on *)
(* the first send and keeps the failure if there is one; a receipt that    *)
(* cannot be sent is logged and the invocation goes on.                    *)
AcknowledgeReceipt(e) ==
    /\ stage[e] = "receipt"
    /\ GoTo(e, "route")
    /\ LET sends == inv[e].kind = "websocket" /\ HasEndpoint(inv[e].shape) /\ inv[e].asks IN
       \/ ~sends /\ UNCHANGED <<client, inv, faults>>
       \/ /\ sends /\ client[e] # "broken"
          /\ client' = [client EXCEPT ![e] = "ready"]
          /\ inv' = [inv EXCEPT ![e].receipt = "sent"]
          /\ UNCHANGED faults
       \/ /\ sends
          /\ \/ client[e] = "none" /\ client' = [client EXCEPT ![e] = "broken"] /\ Fault
             \/ client[e] = "none" /\ client' = [client EXCEPT ![e] = "ready"] /\ Fault
             \/ client[e] = "ready" /\ UNCHANGED client /\ Fault
             \/ client[e] = "broken" /\ UNCHANGED <<client, faults>>
          /\ inv' = [inv EXCEPT ![e].receipt = "failed"]
    /\ UNCHANGED <<fixed, resolved, queue, handled>>

(* once.Do(resolve), then noHandler or toEvent. The result of the first    *)
(* resolution stands, whatever kind of event asked for it.                 *)
Route(e) ==
    /\ stage[e] = "route"
    /\ LET kind == inv[e].kind
           h == IF resolved[e] = Unresolved THEN resolve(kind) ELSE resolved[e]
       IN  /\ resolved' = [resolved EXCEPT ![e] = h]
           /\ IF h = NoHandler THEN Return(e, noHandler(kind))
              ELSE IF Decodes(kind, inv[e].shape)
                   THEN GoTo(e, "guards") /\ UNCHANGED inv
                   ELSE Return(e, Err)
    /\ UNCHANGED <<fixed, client, queue, handled, faults>>

(* Mutant: one guard that allows is enough.                                *)
AnyGuardAllows(e) ==
    /\ stage[e] = "guards"
    /\ LET reg == app[resolved[e]]
           n == inv[e].passed + 1
       IN  \/ n > Len(reg.guards) /\ GoTo(e, "bind") /\ UNCHANGED <<inv, faults>>
           \/ /\ n <= Len(reg.guards) /\ reg.guards[n] \notin Guards
              /\ Return(e, Err) /\ UNCHANGED faults
           \/ /\ n <= Len(reg.guards) /\ reg.guards[n] \in Guards
              /\ inv' = [inv EXCEPT ![e].passed = n]
              /\ GoTo(e, "bind") /\ UNCHANGED faults
           \/ /\ n <= Len(reg.guards) /\ reg.guards[n] \in Guards
              /\ \E answer \in {Err, refused(inv[e].kind)} : Return(e, answer)
              /\ Fault
    /\ UNCHANGED <<fixed, resolved, client, queue, handled>>

(* guardLayer, one guard at a time: one that is not registered is an       *)
(* error, and so is one that fails; a denial is an answer.                 *)
Guard(e) ==
    /\ stage[e] = "guards"
    /\ LET reg == app[resolved[e]]
           n == inv[e].passed + 1
       IN  \/ n > Len(reg.guards) /\ GoTo(e, "bind") /\ UNCHANGED <<inv, faults>>
           \/ /\ n <= Len(reg.guards) /\ reg.guards[n] \notin Guards
              /\ Return(e, Err) /\ UNCHANGED faults
           \/ /\ n <= Len(reg.guards) /\ reg.guards[n] \in Guards
              /\ inv' = [inv EXCEPT ![e].passed = n]
              /\ UNCHANGED <<stage, faults>>
           \/ /\ n <= Len(reg.guards) /\ reg.guards[n] \in Guards
              /\ \E answer \in {Err, refused(inv[e].kind)} : Return(e, answer)
              /\ Fault
    /\ UNCHANGED <<fixed, resolved, client, queue, handled>>

(* The wrapper of the handler: the wrong source, an input that cannot be   *)
(* decoded or is not valid, or on to the handler.                          *)
Bind(e) ==
    /\ stage[e] = "bind"
    /\ LET reg == app[resolved[e]]
           kind == inv[e].kind
       IN  \/ ~Serves(reg, kind) /\ Return(e, Err) /\ UNCHANGED faults
           \/ Serves(reg, kind) /\ GoTo(e, "handler") /\ UNCHANGED <<inv, faults>>
           \/ /\ Serves(reg, kind) /\ Binds(reg)
              /\ \E why \in {"undecodable", "invalid"} : Return(e, Rejected(kind, why))
              /\ Fault
    /\ UNCHANGED <<fixed, resolved, client, queue, handled>>

(* The handler returns. A consumer may name messages that failed.          *)
HandlerReturns(e) ==
    /\ stage[e] = "handler"
    /\ \E outcome \in Outcomes, failures \in SUBSET inv[e].batch :
          /\ failures # {} => outcome = "ok" /\ inv[e].kind = "consumer"
          /\ IF outcome = "ok" /\ failures = {} THEN UNCHANGED faults ELSE Fault
          /\ inv' = [inv EXCEPT ![e].ran = (outcome \in {"ok", "nil"}),
                                ![e].answer = fromResult(inv[e].kind, outcome, failures)]
          /\ handled' = IF outcome \in {"ok", "nil"} THEN handled \cup (inv[e].batch \ failures) ELSE handled
    /\ GoTo(e, "answer")
    /\ UNCHANGED <<fixed, resolved, client, queue>>

(* What SQS makes of an answer: an error returns the batch, a partial      *)
(* failure report the messages it names, anything else deletes it whole.   *)
Redelivered(batch, answer) ==
    IF answer.type = "error" THEN batch ELSE batch \cap answer.failures

Settle(batch, back) ==
    queue' = [m \in Messages |-> IF m \in back THEN "visible"
                                 ELSE IF m \in batch THEN "gone" ELSE queue[m]]

(* The deferred flush, and the answer reaches the platform.                *)
Answer(e) ==
    /\ stage[e] = "answer"
    /\ Settle(inv[e].batch, Redelivered(inv[e].batch, inv[e].answer))
    /\ GoTo(e, "idle")
    /\ inv' = [inv EXCEPT ![e] = Idle]
    /\ UNCHANGED <<fixed, resolved, client, handled, faults>>

(* The function times out, panics or is killed: its messages come back,    *)
(* and the environment is replaced by a fresh one.                         *)
Crash(e) ==
    /\ stage[e] # "idle"
    /\ Fault
    /\ Settle({}, inv[e].batch)
    /\ GoTo(e, "idle")
    /\ inv' = [inv EXCEPT ![e] = Idle]
    /\ resolved' = [resolved EXCEPT ![e] = Unresolved]
    /\ client' = [client EXCEPT ![e] = "none"]
    /\ UNCHANGED <<fixed, handled>>

(* The platform drops an environment that is idle.                         *)
Recycle(e) ==
    /\ stage[e] = "idle" /\ resolved[e] # Unresolved
    /\ resolved' = [resolved EXCEPT ![e] = Unresolved]
    /\ client' = [client EXCEPT ![e] = "none"]
    /\ UNCHANGED <<fixed, stage, inv, queue, handled, faults>>

(* What the SDK does of itself once an event has arrived.                  *)
Process(e) ==
    \/ AcknowledgeReceipt(e) \/ Route(e) \/ Guard(e)
    \/ Bind(e) \/ HandlerReturns(e) \/ Answer(e)

Next == \E e \in Environments :
    \/ StartBatch(e) \/ StartEvent(e) \/ StartDirect(e)
    \/ AcknowledgeReceipt(e) \/ Route(e) \/ Guard(e)
    \/ Bind(e) \/ HandlerReturns(e) \/ Answer(e)
    \/ Crash(e) \/ Recycle(e)

Spec == Init /\ [][Next]_vars

(* An invocation that has begun goes on. A message that is visible again   *)
(* and again is delivered: the platform starts an environment for it when  *)
(* the others are busy.                                                    *)
FairSpec ==
    /\ Spec
    /\ \A e \in Environments : WF_vars(Process(e)) /\ SF_vars(StartBatch(e))

-----------------------------------------------------------------------------
(* Properties.                                                             *)

(* Variables stay in their domains; in particular every payload has a kind *)
(* and every environment a handler the application registered, or none.    *)
TypeOK ==
    /\ app \in Apps /\ deploy \in Deployments
    /\ resolved \in [Environments -> 0 .. Len(app) \cup {Unresolved}]
    /\ client \in [Environments -> {"none", "ready", "broken"}]
    /\ stage \in [Environments -> Stages]
    /\ inv \in [Environments -> Invocations]
    /\ queue \in [Messages -> {"visible", "taken", "gone"}]
    /\ handled \subseteq Messages
    /\ faults \in 0 .. MaxFaults

(* A queue never drains silently: a message the platform has deleted was   *)
(* given to a handler that did not report it as failed, whatever was       *)
(* resolved, refused, misrouted or killed on the way. For a deployment     *)
(* that does not call the queue's function something else.                 *)
NoSilentDrain ==
    deploy.kind \in {NotSet, "consumer"} =>
        \A m \in Messages : queue[m] = "gone" => m \in handled

(* What the platform takes for a success: no error, and no status that     *)
(* says otherwise.                                                         *)
Success(i) ==
    \/ i.answer.type \in {"batch", "output", "nothing"}
    \/ i.answer.type = "status" /\ i.answer.code < 400

(* A handler that serves the event's source was resolved, every guard on   *)
(* it allowed the event, and it returned without an error.                 *)
Earned(e) ==
    /\ resolved[e] \in 1 .. Len(app)
    /\ Serves(app[resolved[e]], inv[e].kind)
    /\ inv[e].passed = Len(app[resolved[e]].guards)
    /\ inv[e].ran

(* The one event answered as a success that reached nothing: noHandler     *)
(* gives a custom invocation an empty output where it gives a schedule an  *)
(* error (serve.go:138).                                                   *)
QuietlyUnrouted(e) == inv[e].kind = "custom" /\ resolved[e] = NoHandler

(* An invocation is reported as a success only if it was earned, or is a   *)
(* custom invocation that no handler is there for: no guard that refused,  *)
(* source that does not fit, undecodable event, failed handler or missing  *)
(* handler of any other source is taken for one.                           *)
SuccessIsEarned ==
    \A e \in Environments :
        stage[e] = "answer" /\ Success(inv[e]) => Earned(e) \/ QuietlyUnrouted(e)

(* Environments of one function serve the same handler, where the          *)
(* deployment names one or states the kind: no event that happens to come  *)
(* first in one of them makes it different.                                *)
EnvironmentsAgree ==
    Named # NoHandler \/ deploy.kind # NotSet =>
        \A e, f \in Environments :
            Unresolved \notin {resolved[e], resolved[f]} => resolved[e] = resolved[f]

(* A client that asked for a receipt is sent one before anything is made   *)
(* of its message, and whether or not anything serves it.                  *)
ReceiptNotHostage ==
    \A e \in Environments :
        /\ inv[e].kind = "websocket" /\ HasEndpoint(inv[e].shape) /\ inv[e].asks
        /\ stage[e] \notin {"idle", "receipt"}
        => inv[e].receipt # "none"

(* The queue is served by a handler every environment resolves to.         *)
ServesQueue ==
    /\ deploy.source = "consumer" /\ deploy.kind \in {NotSet, "consumer"}
    /\ Named # NoHandler \/ deploy.kind = "consumer"
    /\ LET h == IF Named # NoHandler THEN Named ELSE Only("consumer") IN
       /\ h # NoHandler
       /\ app[h].wrap = "consumer"
       /\ \A i \in 1 .. Len(app[h].guards) : app[h].guards[i] \in Guards

(* With finitely many faults, a queue whose function every environment     *)
(* resolves to its consumer is drained: no event that reaches an           *)
(* environment first, and no failure, keeps a message from being handled.  *)
QueueDrains == ServesQueue => <>(\A m \in Messages : queue[m] = "gone")

=============================================================================
