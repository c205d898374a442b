---------------------------- MODULE HandlerStream ---------------------------
(***************************************************************************)
(* The handler side of the Celerity runtime's event stream: one Client     *)
(* (internal/ipc) with its goroutines.                                     *)
(*                                                                         *)
(*   main     Serve: the handshake, then the receive loop, the drain and   *)
(*            the deferred shutdown of loop                                *)
(*   worker   one goroutine per dispatched event (startDispatch), which    *)
(*            runs the handler, may send to WebSocket clients and wait for *)
(*            the acknowledgement, and puts the result on the out channel  *)
(*   sender   the goroutine that owns the transport's send side            *)
(*                                                                         *)
(* The runtime at the other end of the stream, the clock and the process   *)
(* signals are the environment.  Payloads, tags and trace contexts are     *)
(* left out: an event is an identifier, a WebSocket send its correlation.  *)
(***************************************************************************)
EXTENDS Naturals, Sequences, FiniteSets

CONSTANTS
    Events,        \* the events the runtime may dispatch
    Concurrency,   \* Config.Concurrency, after New has replaced 0 by 1
    MaxSends,      \* bound: WebSocket sends made by all handlers together
    Deadlined,     \* the events dispatched with a deadline
    Behaviours     \* what the environment may do: a subset of AllBehaviours

AllBehaviours == {"stray", "refuse", "cancel", "ackAgain", "drain",
                  "close", "break", "signal"}

ASSUME EventsFinite == IsFiniteSet(Events)
ASSUME ConcurrencyPositive == Concurrency \in Nat \ {0}
ASSUME MaxSendsNat == MaxSends \in Nat
ASSUME DeadlinedEvents == Deadlined \subseteq Events
ASSUME BehavioursKnown == Behaviours \subseteq AllBehaviours

VARIABLES
    main,          \* where Serve is
    serveErr,      \* whether Serve returns an error
    ctxDone,       \* the loop's context: cancelled by a signal, or by stop
    worker,        \* where each event's goroutine is
    inFlight,      \* Client.inFlight: the events a Cancel can still reach
    ended,         \* the events whose own context is cancelled or expired
    out,           \* Client.out: frames waiting for the sender
    sender,        \* where the sender goroutine is
    holding,       \* the frame it took from out and is sending
    corrCounter,   \* correlationCounter
    corr,          \* the correlation of the send an event's handler is in
    wsWaiting,     \* Client.wsWaiting: correlations with a waiting channel
    acks,          \* what each waiting channel, of capacity one, buffers
    outcome,       \* history: what each WebSocket send returned
    in,            \* frames on their way from the runtime
    stream,        \* the stream as the transport sees it
    runtime,       \* where the runtime is in its protocol
    credit,        \* the credit the runtime has left
    dispatched,    \* events the runtime has dispatched
    cancelled,     \* events the runtime has sent a Cancel for
    answered,      \* events whose result reached the runtime
    wsSeen         \* per correlation: the WsSend seen, and how it was acked

mainVars    == <<main, serveErr, ctxDone>>
workerVars  == <<worker, inFlight, ended>>
outVars     == <<out, sender, holding>>
wsVars      == <<corrCounter, corr, wsWaiting, acks, outcome>>
runtimeVars == <<runtime, credit, dispatched, cancelled, answered, wsSeen>>
vars == <<mainVars, workerVars, outVars, wsVars, in, stream, runtimeVars>>

-----------------------------------------------------------------------------
(* Frames and channels.                                                    *)

Correlations == 1 .. MaxSends

OutCapacity == Concurrency * 2

ResultFrame(e) == [kind |-> "result", ref |-> e]
WsSendFrame(c) == [kind |-> "wssend", ref |-> c]
NoFrame        == [kind |-> "none", ref |-> 0]

ToRuntime == [kind : {"result"}, ref : Events]
                \cup [kind : {"wssend"}, ref : Correlations]

ConfigFrame       == [kind |-> "config", ref |-> 0]
ReadyAckFrame(v)  == [kind |-> v, ref |-> 0]
DispatchFrame(e)  == [kind |-> "dispatch", ref |-> e]
CancelFrame(e)    == [kind |-> "cancel", ref |-> e]
WsAckFrame(c, v)  == [kind |-> v, ref |-> c]
DrainFrame        == [kind |-> "drain", ref |-> 0]

AckKinds == {"ok", "failed"}

FromRuntime == [kind : {"config", "accepted", "refused", "drain"}, ref : {0}]
                 \cup [kind : {"dispatch", "cancel"}, ref : Events]
                 \cup [kind : AckKinds, ref : Correlations]

Queued(f, q) == \E i \in 1 .. Len(q) : q[i] = f

HasRoom == Len(out) < OutCapacity

(* The transport: a frame is read in order; an error is returned once the  *)
(* runtime's frames are used up, or at any time on a broken stream.        *)
Recv(f)   == in # <<>> /\ Head(in) = f /\ in' = Tail(in)
RecvAny   == in # <<>> /\ in' = Tail(in)
RecvError == \/ stream = "eof" /\ in = <<>>
             \/ stream = "broken"

-----------------------------------------------------------------------------
Init ==
    /\ main = "awaitConfig" /\ serveErr = FALSE /\ ctxDone = FALSE
    /\ worker = [e \in Events |-> "none"] /\ inFlight = {} /\ ended = {}
    /\ out = <<>> /\ sender = "off" /\ holding = NoFrame
    /\ corrCounter = 0 /\ corr = [e \in Events |-> 0]
    /\ wsWaiting = {}
    /\ acks = [c \in Correlations |-> "none"]
    /\ outcome = [c \in Correlations |-> "none"]
    /\ in = <<>> /\ stream = "open"
    /\ runtime = "start" /\ credit = 0
    /\ dispatched = {} /\ cancelled = {} /\ answered = {}
    /\ wsSeen = [c \in Correlations |-> "none"]

-----------------------------------------------------------------------------
(* Serve: the handshake.  A failed one returns without closing anything.   *)

Fail == main' = "failed" /\ serveErr' = TRUE /\ UNCHANGED ctxDone
GoTo(pc) == main' = pc /\ UNCHANGED <<serveErr, ctxDone>>

AwaitConfig ==
    /\ main = "awaitConfig"
    /\ \/ /\ RecvAny
          /\ IF Head(in) = ConfigFrame THEN GoTo("reconcile") ELSE Fail
       \/ RecvError /\ Fail /\ UNCHANGED in
    /\ UNCHANGED <<workerVars, outVars, wsVars, stream, runtimeVars>>

(* Config.Reconcile matches the registered handlers with the blueprint's   *)
(* (TagRegistry): here it either does or does not.                         *)
Reconcile ==
    /\ main = "reconcile"
    /\ GoTo("declareReady") \/ Fail
    /\ UNCHANGED <<workerVars, outVars, wsVars, in, stream, runtimeVars>>

(* Ready is sent on the calling goroutine: the sender does not exist yet.  *)
DeclareReady ==
    /\ main = "declareReady"
    /\ \/ /\ stream = "open"
          /\ GoTo("awaitAck")
          /\ runtime' = "ready" /\ credit' = Concurrency
          /\ UNCHANGED <<dispatched, cancelled, answered, wsSeen>>
       \/ stream # "open" /\ Fail /\ UNCHANGED runtimeVars
    /\ UNCHANGED <<workerVars, outVars, wsVars, in, stream>>

AwaitReadyAck ==
    /\ main = "awaitAck"
    /\ \/ /\ RecvAny
          /\ IF Head(in) = ReadyAckFrame("accepted")
             THEN GoTo("recv") /\ sender' = "range"
             ELSE Fail /\ UNCHANGED sender
       \/ RecvError /\ Fail /\ UNCHANGED <<in, sender>>
    /\ UNCHANGED <<workerVars, out, holding, wsVars, stream, runtimeVars>>

-----------------------------------------------------------------------------
(* Serve: the receive loop.                                                *)

(* An orderly end and an error after the context was cancelled are both a  *)
(* clean return.                                                           *)
LoopRecvError ==
    /\ main = "recv" /\ RecvError
    /\ main' = "waitWorkers"
    /\ serveErr' = ~(stream = "eof" \/ ctxDone)
    /\ UNCHANGED <<ctxDone, workerVars, outVars, wsVars, in, stream, runtimeVars>>

(* The loop takes every event it is given: only the runtime's credit       *)
(* bounds how many goroutines there are.                                   *)
StartDispatch(e) ==
    /\ main = "recv" /\ Recv(DispatchFrame(e))
    /\ worker' = [worker EXCEPT ![e] = "invoke"]
    /\ inFlight' = inFlight \cup {e}
    /\ UNCHANGED <<mainVars, ended, outVars, wsVars, stream, runtimeVars>>

(* Mutant: the entry is deleted and its stop function never called.        *)
CancelForgetsStop(e) ==
    /\ main = "recv" /\ Recv(CancelFrame(e))
    /\ inFlight' = inFlight \ {e}
    /\ UNCHANGED <<mainVars, worker, ended, outVars, wsVars, stream, runtimeVars>>

(* A Cancel that names a finished event finds no entry and is ignored.     *)
Cancel(e) ==
    /\ main = "recv" /\ Recv(CancelFrame(e))
    /\ inFlight' = inFlight \ {e}
    /\ ended' = IF e \in inFlight THEN ended \cup {e} ELSE ended
    /\ UNCHANGED <<mainVars, worker, outVars, wsVars, stream, runtimeVars>>

(* Mutant: an acknowledgement wakes every waiting send.                    *)
DeliverWsAckToAll(c, v) ==
    /\ main = "recv" /\ Recv(WsAckFrame(c, v))
    /\ acks' = [d \in Correlations |-> IF d \in wsWaiting THEN v ELSE acks[d]]
    /\ UNCHANGED <<mainVars, workerVars, outVars, corrCounter, corr, wsWaiting,
                   outcome, stream, runtimeVars>>

(* The channel holds one acknowledgement and the put does not block: a     *)
(* duplicate, or one for a send that gave up, is dropped.  The look-up and *)
(* the put are one step: only this correlation's send reads the channel.   *)
DeliverWsAck(c, v) ==
    /\ main = "recv" /\ Recv(WsAckFrame(c, v))
    /\ acks' = IF c \in wsWaiting /\ acks[c] = "none"
               THEN [acks EXCEPT ![c] = v] ELSE acks
    /\ UNCHANGED <<mainVars, workerVars, outVars, corrCounter, corr, wsWaiting,
                   outcome, stream, runtimeVars>>

(* From here on nobody reads frames any more.                              *)
StartDrain ==
    /\ main = "recv" /\ Recv(DrainFrame)
    /\ GoTo("drain")
    /\ UNCHANGED <<workerVars, outVars, wsVars, stream, runtimeVars>>

-----------------------------------------------------------------------------
(* Serve: the drain and the deferred shutdown.                             *)

Running(e) == worker[e] \notin {"none", "done"}
WorkersDone == \A e \in Events : ~Running(e)

(* drain's select: the workers finish, or the timer fires first.           *)
DrainFinished ==
    /\ main = "drain" /\ WorkersDone
    /\ GoTo("waitWorkers")
    /\ UNCHANGED <<workerVars, outVars, wsVars, in, stream, runtimeVars>>

DrainTimeout ==
    /\ main = "drain"
    /\ GoTo("waitWorkers")
    /\ UNCHANGED <<workerVars, outVars, wsVars, in, stream, runtimeVars>>

(* Mutant: out is closed without waiting for the workers.                  *)
CloseOutAtOnce ==
    /\ main = "waitWorkers"
    /\ GoTo("waitSender")
    /\ UNCHANGED <<workerVars, outVars, wsVars, in, stream, runtimeVars>>

(* workers.Wait and close(out).                                            *)
CloseOut ==
    /\ main = "waitWorkers" /\ WorkersDone
    /\ GoTo("waitSender")
    /\ UNCHANGED <<workerVars, outVars, wsVars, in, stream, runtimeVars>>

OutClosed == main \in {"waitSender", "returned"}

(* Mutant: the transport is closed without waiting for the sender.         *)
CloseTransportAtOnce ==
    /\ main = "waitSender"
    /\ main' = "returned" /\ ctxDone' = TRUE
    /\ stream' = IF stream = "open" THEN "closed" ELSE stream
    /\ UNCHANGED <<serveErr, workerVars, outVars, wsVars, in, runtimeVars>>

(* <-sendDone and transport.Close; the deferred stop runs last.            *)
CloseTransport ==
    /\ main = "waitSender" /\ sender = "exited"
    /\ main' = "returned" /\ ctxDone' = TRUE
    /\ stream' = IF stream = "open" THEN "closed" ELSE stream
    /\ UNCHANGED <<serveErr, workerVars, outVars, wsVars, in, runtimeVars>>

-----------------------------------------------------------------------------
(* An event's goroutine.  Its context is done when it was cancelled, when  *)
(* its deadline passed, or when the loop's context is done.                *)

Done(e) == ctxDone \/ e \in ended

(* Mutant: the correlation is not registered before the frame goes out.    *)
WsRegisterTooLate(e) ==
    /\ worker[e] = "invoke" /\ corrCounter < MaxSends
    /\ corrCounter' = corrCounter + 1
    /\ corr' = [corr EXCEPT ![e] = corrCounter + 1]
    /\ worker' = [worker EXCEPT ![e] = "wsOut"]
    /\ UNCHANGED <<mainVars, inFlight, ended, outVars, wsWaiting, acks, outcome,
                   in, stream, runtimeVars>>

(* The handler calls Send or SendBinary: a fresh correlation is registered *)
(* before the frame can possibly be acknowledged.                          *)
WsRegister(e) ==
    /\ worker[e] = "invoke" /\ corrCounter < MaxSends
    /\ corrCounter' = corrCounter + 1
    /\ corr' = [corr EXCEPT ![e] = corrCounter + 1]
    /\ wsWaiting' = wsWaiting \cup {corrCounter + 1}
    /\ worker' = [worker EXCEPT ![e] = "wsOut"]
    /\ UNCHANGED <<mainVars, inFlight, ended, outVars, acks, outcome,
                   in, stream, runtimeVars>>

(* First select: room on out ...                                           *)
WsEnqueue(e) ==
    /\ worker[e] = "wsOut" /\ HasRoom
    /\ out' = Append(out, WsSendFrame(corr[e]))
    /\ worker' = [worker EXCEPT ![e] = "wsAck"]
    /\ UNCHANGED <<mainVars, inFlight, ended, sender, holding, wsVars,
                   in, stream, runtimeVars>>

(* ... second select: the acknowledgement arrives ...                      *)
WsAcked(e) ==
    /\ worker[e] = "wsAck" /\ acks[corr[e]] # "none"
    /\ outcome' = [outcome EXCEPT ![corr[e]] = acks[corr[e]]]
    /\ wsWaiting' = wsWaiting \ {corr[e]}
    /\ worker' = [worker EXCEPT ![e] = "invoke"]
    /\ UNCHANGED <<mainVars, inFlight, ended, outVars, corrCounter, corr, acks,
                   in, stream, runtimeVars>>

(* Mutant: the context is not watched while waiting to be acknowledged.    *)
WsGiveUpOnlyEnqueueing(e) ==
    /\ worker[e] = "wsOut" /\ Done(e)
    /\ outcome' = [outcome EXCEPT ![corr[e]] = "gaveup"]
    /\ wsWaiting' = wsWaiting \ {corr[e]}
    /\ worker' = [worker EXCEPT ![e] = "invoke"]
    /\ UNCHANGED <<mainVars, inFlight, ended, outVars, corrCounter, corr, acks,
                   in, stream, runtimeVars>>

(* ... and in both of them, the context ends.                              *)
WsGiveUp(e) ==
    /\ worker[e] \in {"wsOut", "wsAck"} /\ Done(e)
    /\ outcome' = [outcome EXCEPT ![corr[e]] = "gaveup"]
    /\ wsWaiting' = wsWaiting \ {corr[e]}
    /\ worker' = [worker EXCEPT ![e] = "invoke"]
    /\ UNCHANGED <<mainVars, inFlight, ended, outVars, corrCounter, corr, acks,
                   in, stream, runtimeVars>>

(* Mutant: a handler whose context has ended sends no result.              *)
HandlerReturnsUnlessDone(e) ==
    /\ worker[e] = "invoke"
    /\ worker' = [worker EXCEPT ![e] = IF Done(e) THEN "deferred" ELSE "result"]
    /\ UNCHANGED <<mainVars, inFlight, ended, outVars, wsVars,
                   in, stream, runtimeVars>>

(* resultFor: the handler returns, fails, panics or does not exist, and in *)
(* every case there is a result to send.                                   *)
HandlerReturns(e) ==
    /\ worker[e] = "invoke"
    /\ worker' = [worker EXCEPT ![e] = "result"]
    /\ UNCHANGED <<mainVars, inFlight, ended, outVars, wsVars,
                   in, stream, runtimeVars>>

(* The put on out has no alternative: it waits for room however long.      *)
PutResult(e) ==
    /\ worker[e] = "result" /\ HasRoom
    /\ out' = Append(out, ResultFrame(e))
    /\ worker' = [worker EXCEPT ![e] = "deferred"]
    /\ UNCHANGED <<mainVars, inFlight, ended, sender, holding, wsVars,
                   in, stream, runtimeVars>>

(* The deferred untrack, stop and workers.Done.                            *)
FinishWorker(e) ==
    /\ worker[e] = "deferred"
    /\ worker' = [worker EXCEPT ![e] = "done"]
    /\ inFlight' = inFlight \ {e}
    /\ ended' = ended \cup {e}
    /\ UNCHANGED <<mainVars, outVars, wsVars, in, stream, runtimeVars>>

-----------------------------------------------------------------------------
(* The sender goroutine.                                                   *)

SenderTake ==
    /\ sender = "range" /\ out # <<>>
    /\ holding' = Head(out) /\ out' = Tail(out)
    /\ sender' = "send"
    /\ UNCHANGED <<mainVars, workerVars, wsVars, in, stream, runtimeVars>>

(* Mutant: a result is sent again, by a retry of a send that succeeded.    *)
SenderSendAgain ==
    /\ sender = "send" /\ stream = "open" /\ holding.kind = "result"
    /\ answered' = answered \cup {holding.ref}
    /\ credit' = credit + 1
    /\ sender' \in {"send", "range"}
    /\ holding' = IF sender' = "send" THEN holding ELSE NoFrame
    /\ UNCHANGED <<mainVars, workerVars, out, wsVars, in, stream,
                   runtime, dispatched, cancelled, wsSeen>>

(* A frame reaches the runtime, which books the grant a result carries.    *)
SenderSend ==
    /\ sender = "send" /\ stream = "open"
    /\ IF holding.kind = "result"
       THEN /\ answered' = answered \cup {holding.ref}
            /\ credit' = credit + 1
            /\ UNCHANGED wsSeen
       ELSE /\ wsSeen' = [wsSeen EXCEPT ![holding.ref] = "sent"]
            /\ UNCHANGED <<answered, credit>>
    /\ sender' = "range" /\ holding' = NoFrame
    /\ UNCHANGED <<mainVars, workerVars, out, wsVars, in, stream,
                   runtime, dispatched, cancelled>>

(* On a stream that has ended Send may still accept a frame that goes      *)
(* nowhere; when it reports the error the sender is gone, and nobody takes *)
(* frames from out again.                                                  *)
SenderFails ==
    /\ sender = "send" /\ stream # "open"
    /\ sender' \in {"range", "exited"} /\ holding' = NoFrame
    /\ UNCHANGED <<mainVars, workerVars, out, wsVars, in, stream, runtimeVars>>

SenderExit ==
    /\ sender = "range" /\ out = <<>> /\ OutClosed
    /\ sender' = "exited"
    /\ UNCHANGED <<mainVars, workerVars, out, holding, wsVars, in, stream, runtimeVars>>

-----------------------------------------------------------------------------
(* The environment: the runtime, the clock and the supervisor's signals.   *)

RuntimePuts(f) == stream = "open" /\ in' = Append(in, f)

RuntimeConfig ==
    /\ runtime = "start"
    /\ \/ RuntimePuts(ConfigFrame) /\ runtime' = "configured"
       \/ "stray" \in Behaviours /\ RuntimePuts(DrainFrame) /\ runtime' = "stray"
    /\ UNCHANGED <<mainVars, workerVars, outVars, wsVars, stream,
                   credit, dispatched, cancelled, answered, wsSeen>>

RuntimeReadyAck ==
    /\ runtime = "ready"
    /\ \/ RuntimePuts(ReadyAckFrame("accepted")) /\ runtime' = "serving"
       \/ /\ "refuse" \in Behaviours
          /\ RuntimePuts(ReadyAckFrame("refused")) /\ runtime' = "refused"
    /\ UNCHANGED <<mainVars, workerVars, outVars, wsVars, stream,
                   credit, dispatched, cancelled, answered, wsSeen>>

RuntimeDispatch(e) ==
    /\ runtime = "serving" /\ credit > 0 /\ e \notin dispatched
    /\ RuntimePuts(DispatchFrame(e))
    /\ credit' = credit - 1
    /\ dispatched' = dispatched \cup {e}
    /\ UNCHANGED <<mainVars, workerVars, outVars, wsVars, stream,
                   runtime, cancelled, answered, wsSeen>>

(* Sent without waiting to find out whether the event has finished.        *)
RuntimeCancel(e) ==
    /\ "cancel" \in Behaviours
    /\ e \in dispatched \ cancelled
    /\ RuntimePuts(CancelFrame(e))
    /\ cancelled' = cancelled \cup {e}
    /\ UNCHANGED <<mainVars, workerVars, outVars, wsVars, stream,
                   runtime, credit, dispatched, answered, wsSeen>>

RuntimeWsAck(c, v) ==
    /\ wsSeen[c] = "sent"
    /\ RuntimePuts(WsAckFrame(c, v))
    /\ wsSeen' = [wsSeen EXCEPT ![c] = v]
    /\ UNCHANGED <<mainVars, workerVars, outVars, wsVars, stream,
                   runtime, credit, dispatched, cancelled, answered>>

(* Bound: one copy of an acknowledgement on the wire at a time.            *)
RuntimeWsAckAgain(c) ==
    /\ "ackAgain" \in Behaviours
    /\ wsSeen[c] \in AckKinds
    /\ ~Queued(WsAckFrame(c, wsSeen[c]), in)
    /\ RuntimePuts(WsAckFrame(c, wsSeen[c]))
    /\ UNCHANGED <<mainVars, workerVars, outVars, wsVars, stream, runtimeVars>>

RuntimeDrain ==
    /\ "drain" \in Behaviours
    /\ runtime = "serving"
    /\ RuntimePuts(DrainFrame)
    /\ runtime' = "draining"
    /\ UNCHANGED <<mainVars, workerVars, outVars, wsVars, stream,
                   credit, dispatched, cancelled, answered, wsSeen>>

(* The stream ends in order, or breaks; a signal breaks it too, since the  *)
(* stream was opened with the context the signal cancels.                  *)
StreamEnds ==
    /\ stream = "open"
    /\ \/ "close" \in Behaviours /\ stream' = "eof" /\ UNCHANGED ctxDone
       \/ "break" \in Behaviours /\ stream' = "broken" /\ UNCHANGED ctxDone
       \/ "signal" \in Behaviours /\ stream' = "broken" /\ ctxDone' = TRUE
    /\ UNCHANGED <<main, serveErr, workerVars, outVars, wsVars, in, runtimeVars>>

DeadlinePasses(e) ==
    /\ e \in Deadlined \ ended /\ Running(e)
    /\ ended' = ended \cup {e}
    /\ UNCHANGED <<mainVars, worker, inFlight, outVars, wsVars, in, stream, runtimeVars>>

(* Serve has returned: the process goes on to release its resources.       *)
Returned == main \in {"returned", "failed"} /\ UNCHANGED vars

-----------------------------------------------------------------------------
Handshake == AwaitConfig \/ Reconcile \/ DeclareReady \/ AwaitReadyAck

Loop ==
    \/ LoopRecvError \/ StartDrain
    \/ \E e \in Events : StartDispatch(e) \/ Cancel(e)
    \/ \E c \in Correlations, v \in AckKinds : DeliverWsAck(c, v)

Shutdown == DrainFinished \/ DrainTimeout \/ CloseOut \/ CloseTransport

WsSend(e) == WsEnqueue(e) \/ WsAcked(e) \/ WsGiveUp(e)

Worker(e) ==
    WsRegister(e) \/ WsSend(e) \/ HandlerReturns(e) \/ PutResult(e) \/ FinishWorker(e)

Sender == SenderTake \/ SenderSend \/ SenderFails \/ SenderExit

RuntimeAnswers ==
    \/ RuntimeConfig \/ RuntimeReadyAck
    \/ \E c \in Correlations, v \in AckKinds : RuntimeWsAck(c, v)

Environment ==
    \/ RuntimeAnswers \/ RuntimeDrain \/ StreamEnds
    \/ \E e \in Events : RuntimeDispatch(e) \/ RuntimeCancel(e) \/ DeadlinePasses(e)
    \/ \E c \in Correlations : RuntimeWsAckAgain(c)

Next ==
    \/ Handshake \/ Loop \/ Shutdown \/ Sender \/ Environment \/ Returned
    \/ \E e \in Events : Worker(e)

Spec == Init /\ [][Next]_vars

(* The fairness of Go's scheduler: a goroutine that can go on does, a      *)
(* select with a ready case takes one, time passes.  Handlers return in    *)
(* the end, and the runtime answers what it is sent.  Nothing is assumed   *)
(* about dispatches, cancellations, drains or the stream's end.            *)
Fairness ==
    /\ WF_vars(Handshake) /\ WF_vars(Loop) /\ WF_vars(Sender)
    /\ WF_vars(DrainFinished \/ DrainTimeout) /\ WF_vars(CloseOut) /\ WF_vars(CloseTransport)
    /\ WF_vars(RuntimeAnswers)
    /\ \A e \in Events :
        /\ WF_vars(WsSend(e)) /\ WF_vars(HandlerReturns(e))
        /\ WF_vars(PutResult(e)) /\ WF_vars(FinishWorker(e))
        /\ WF_vars(DeadlinePasses(e))

FairSpec == Spec /\ Fairness

-----------------------------------------------------------------------------
MainStates == {"awaitConfig", "reconcile", "declareReady", "awaitAck", "recv",
               "drain", "waitWorkers", "waitSender", "returned", "failed"}
WorkerStates == {"none", "invoke", "wsOut", "wsAck", "result", "deferred", "done"}

(* Every variable has its type; out never exceeds the channel's capacity.  *)
TypeOK ==
    /\ main \in MainStates /\ serveErr \in BOOLEAN /\ ctxDone \in BOOLEAN
    /\ worker \in [Events -> WorkerStates]
    /\ inFlight \subseteq Events /\ ended \subseteq Events
    /\ out \in Seq(ToRuntime) /\ Len(out) <= OutCapacity
    /\ sender \in {"off", "range", "send", "exited"}
    /\ holding \in ToRuntime \cup {NoFrame}
    /\ corrCounter \in 0 .. MaxSends
    /\ corr \in [Events -> 0 .. MaxSends]
    /\ wsWaiting \subseteq Correlations
    /\ acks \in [Correlations -> AckKinds \cup {"none"}]
    /\ outcome \in [Correlations -> AckKinds \cup {"none", "gaveup"}]
    /\ in \in Seq(FromRuntime)
    /\ stream \in {"open", "eof", "broken", "closed"}
    /\ runtime \in {"start", "configured", "ready", "serving", "draining",
                   "refused", "stray"}
    /\ credit \in Nat
    /\ dispatched \subseteq Events /\ cancelled \subseteq Events
    /\ answered \subseteq Events
    /\ wsSeen \in [Correlations -> AckKinds \cup {"none", "sent"}]

Outstanding == dispatched \ answered

(* Where the answer the handler owes for an event currently is.            *)
Places(e) ==
    (IF Queued(DispatchFrame(e), in) THEN {"in"} ELSE {})
      \cup (IF worker[e] \in {"invoke", "wsOut", "wsAck", "result"} THEN {"worker"} ELSE {})
      \cup (IF Queued(ResultFrame(e), out) THEN {"out"} ELSE {})
      \cup (IF holding = ResultFrame(e) THEN {"sender"} ELSE {})

(* The credit window never leaks: as long as the stream is up, every event *)
(* the runtime is owed an answer for is in exactly one place on its way to *)
(* being answered, and an event that is not owed one is in none            *)
(* (client.go, resultFor: "enough of them stall the stream with no error   *)
(* reported anywhere").                                                    *)
NoCreditLeak ==
    \A e \in Events :
        /\ e \in Outstanding /\ stream = "open" => Cardinality(Places(e)) = 1
        /\ e \notin Outstanding => Places(e) = {}

(* The loop puts no limit on its goroutines, and still no more than        *)
(* Concurrency of them are ever at work, because each holds a credit       *)
(* (loop.go, startDispatch; client.go, declareReady).                      *)
WorkersWithinWindow ==
    Cardinality({e \in Events : worker[e] \in {"invoke", "wsOut", "wsAck", "result"}})
        <= Concurrency

(* Closing out is the last thing that happens to it: when it is closed no  *)
(* goroutine is left that could still send on it, which would panic        *)
(* (loop.go, the deferred function of loop).                               *)
NoSendOnClosedChannel ==
    OutClosed => \A e \in Events : worker[e] \in {"none", "done"}

(* A cancellation that was read while its event was still at work has      *)
(* ended that event's context, whatever the goroutine was doing            *)
(* (client.go, cancel and track).                                          *)
CancelReaches ==
    \A e \in cancelled :
        Running(e) /\ ~Queued(CancelFrame(e), in) => e \in ended

(* A send that returned was told about its own frame: what it reports is   *)
(* the runtime's verdict on that correlation and no other, although acks   *)
(* arrive late, twice, or after the caller gave up (websocket.go, send and *)
(* deliverWsAck).                                                          *)
AckMatchesSend ==
    \A c \in Correlations : outcome[c] \in AckKinds => wsSeen[c] = outcome[c]

(* No acknowledgement is lost: while a send waits for a verdict the        *)
(* runtime has given, the verdict is on the wire or already in its         *)
(* channel, since the table knows the send before its frame can leave      *)
(* (websocket.go, send: the entry is made before the first select).        *)
AckNotLost ==
    \A e \in Events :
        worker[e] = "wsAck" /\ wsSeen[corr[e]] \in AckKinds
            => \/ acks[corr[e]] # "none"
               \/ Queued(WsAckFrame(corr[e], wsSeen[corr[e]]), in)

(* A stream the client closes itself has delivered every answer: Serve     *)
(* returns from a drain only after the sender has emptied out, so closing  *)
(* the transport cannot cut off a result (loop.go, the deferred function). *)
ClosedWithEverythingAnswered ==
    main = "returned" /\ stream = "closed" => dispatched = answered

-----------------------------------------------------------------------------
(* The stream keeps the abstract promise of the credit window, which is    *)
(* open once Ready has reached the runtime.                                *)
Opened == IF runtime \in {"start", "configured", "stray"} THEN 0 ELSE Concurrency

(* No credit is created or destroyed: what the runtime may still spend and *)
(* what it is owed always add up to the window Ready opened (frames.go,    *)
(* Result: "a result that carries no grant shrinks the credit window       *)
(* permanently").                                                          *)
CreditConserved == credit + Cardinality(Outstanding) = Opened

Window == INSTANCE CreditWindow WITH opened <- Opened

(* Every step of the stream is a step of the credit window or leaves it    *)
(* alone: a credit is spent only on a fresh event and comes back only with *)
(* the one result of an event that is owed one.                            *)
RefinesWindow == Window!WSpec

(* On a stream that stays up, every event the runtime dispatches is        *)
(* answered, cancelled or not, and a drain loses none of them.             *)
RefinesFairWindow == Window!WFairSpec

(* "Waits for what is in flight, bounded by the runtime's deadline. Work   *)
(* still running when it passes is abandoned" (loop.go, drain): once a     *)
(* drain has begun, Serve returns.  It does when every event has a         *)
(* deadline of its own; see the findings for when it does not.             *)
DrainBounded == (main = "drain") ~> (main = "returned")

=============================================================================
