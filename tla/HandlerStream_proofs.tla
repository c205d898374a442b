------------------------ MODULE HandlerStream_proofs ------------------------
(***************************************************************************)
(* The handler stream keeps the promise of the credit window, and nothing  *)
(* it is trusted with gets lost: results, cancellations and                *)
(* acknowledgements reach the one they are meant for, and a stream the     *)
(* client closes itself has nothing left on it.  For every finite set of   *)
(* events, every pool size, every number of WebSocket sends and every      *)
(* behaviour of the environment.                                           *)
(***************************************************************************)
EXTENDS HandlerStream, FiniteSetTheorems, TLAPS

-----------------------------------------------------------------------------
(* The inductive invariant.                                                *)

(* Before Ready has reached the runtime, nothing but the handshake frames  *)
(* is on the stream, and no goroutine but main exists.                     *)
Early == runtime \in {"start", "configured", "stray"}

HandshakeInv ==
    /\ Early => dispatched = {} /\ sender = "off"
                /\ \A c \in Correlations : wsSeen[c] = "none"
    /\ runtime = "start" => in = <<>>
    /\ main = "awaitConfig" /\ runtime = "configured" => in = <<ConfigFrame>>
    /\ main = "awaitConfig" /\ runtime = "stray" => in = <<DrainFrame>>
    /\ main \in {"reconcile", "declareReady"} => runtime = "configured"
    /\ main = "awaitConfig" => Early
    /\ main = "awaitAck" => sender = "off"
    /\ main \in {"awaitAck", "recv", "drain", "waitWorkers", "waitSender", "returned"} => ~Early

(* A dispatch on the wire is for an event no goroutine has been started    *)
(* for, and is there once.                                                 *)
DispatchInv ==
    /\ \A i \in 1 .. Len(in) : in[i].kind = "dispatch" =>
            in[i].ref \in dispatched /\ worker[in[i].ref] = "none"
    /\ \A i, j \in 1 .. Len(in) : in[i].kind = "dispatch" /\ in[i] = in[j] => i = j
    /\ \A e \in Events : worker[e] # "none" => e \in dispatched

PastResult(e) == worker[e] \in {"deferred", "done"}

(* A result on its way is the only one for its event, and the event has    *)
(* not been answered yet.                                                  *)
ResultInv ==
    /\ \A i \in 1 .. Len(out) : out[i].kind = "result" =>
            /\ PastResult(out[i].ref) /\ out[i].ref \notin answered
            /\ out[i] # holding
    /\ \A i, j \in 1 .. Len(out) : out[i].kind = "result" /\ out[i] = out[j] => i = j
    /\ holding.kind = "result" => PastResult(holding.ref) /\ holding.ref \notin answered
    /\ \A e \in answered : PastResult(e)
    /\ sender = "send" <=> holding # NoFrame

(* A goroutine inside a WebSocket send has a correlation of its own.       *)
CorrInv ==
    \A e \in Events : worker[e] \in {"wsOut", "wsAck"} => corr[e] \in Correlations

IInv == TypeOK /\ CorrInv /\ HandshakeInv /\ DispatchInv /\ ResultInv

-----------------------------------------------------------------------------
(* Frames and queues.                                                      *)

USE DEF mainVars, workerVars, outVars, wsVars, runtimeVars

(* What is left of a queue when its head is taken.                         *)
LEMMA TailFacts ==
    ASSUME NEW S, NEW q \in Seq(S), q # <<>>
    PROVE  /\ Head(q) \in S /\ Head(q) = q[1] /\ Len(q) \in Nat /\ Len(q) >= 1
           /\ Tail(q) \in Seq(S) /\ Len(Tail(q)) = Len(q) - 1
           /\ \A i \in 1 .. Len(Tail(q)) : i + 1 \in 1 .. Len(q) /\ Tail(q)[i] = q[i + 1]
    OBVIOUS

(* What a queue is when a frame is appended to it.                         *)
LEMMA AppendFacts ==
    ASSUME NEW S, NEW q \in Seq(S), NEW f \in S
    PROVE  /\ Append(q, f) \in Seq(S) /\ Len(q) \in Nat
           /\ Len(Append(q, f)) = Len(q) + 1
           /\ Append(q, f)[Len(q) + 1] = f
           /\ \A i \in 1 .. Len(q) : Append(q, f)[i] = q[i]
    OBVIOUS

(* The initial state has its types.                                        *)
LEMMA InitTyped == Init => TypeOK /\ CorrInv
<1>. SUFFICES ASSUME Init PROVE TypeOK /\ CorrInv
    OBVIOUS
<1>1. out \in Seq(ToRuntime) /\ Len(out) <= OutCapacity /\ in \in Seq(FromRuntime)
    BY ConcurrencyPositive DEF Init, OutCapacity
<1>2. /\ acks \in [Correlations -> AckKinds \cup {"none"}]
      /\ outcome \in [Correlations -> AckKinds \cup {"none", "gaveup"}]
      /\ wsSeen \in [Correlations -> AckKinds \cup {"none", "sent"}]
    BY DEF Init
<1>3. /\ worker \in [Events -> WorkerStates] /\ corr \in [Events -> 0 .. MaxSends]
      /\ corrCounter \in 0 .. MaxSends
    BY MaxSendsNat DEF Init, WorkerStates
<1>4. CorrInv
    BY DEF Init, CorrInv
<1>. QED
    BY <1>1, <1>2, <1>3, <1>4 DEF Init, TypeOK, MainStates

(* Every action keeps the types.                                           *)
LEMMA NextTyped == TypeOK /\ CorrInv /\ [Next]_vars => TypeOK' /\ CorrInv'
<1>. SUFFICES ASSUME TypeOK, CorrInv, [Next]_vars PROVE TypeOK' /\ CorrInv'
    OBVIOUS
<1>. USE ConcurrencyPositive, MaxSendsNat
     DEF TypeOK, CorrInv, MainStates, WorkerStates, Correlations, OutCapacity, AckKinds
<1>a. CASE Handshake
    <2>1. CASE AwaitConfig
        <3>1. in' \in Seq(FromRuntime)
            <4>1. (in # <<>> /\ in' = Tail(in)) \/ in' = in
                BY <2>1 DEF AwaitConfig, RecvAny
            <4>2. in # <<>> => Tail(in) \in Seq(FromRuntime)
                BY TailFacts
            <4>. QED
                BY <4>1, <4>2
        <3>2. main' \in MainStates /\ serveErr' \in BOOLEAN /\ ctxDone' \in BOOLEAN
            BY <2>1 DEF AwaitConfig, Fail, GoTo
        <3>. QED
            BY <2>1, <3>1, <3>2 DEF AwaitConfig
    <2>2. CASE Reconcile
        BY <2>2, ZenonT(30) DEF Reconcile, Fail, GoTo
    <2>3. CASE DeclareReady
        BY <2>3 DEF DeclareReady, Fail, GoTo
    <2>4. CASE AwaitReadyAck
        <3>1. in' \in Seq(FromRuntime)
            <4>1. (in # <<>> /\ in' = Tail(in)) \/ in' = in
                BY <2>4 DEF AwaitReadyAck, RecvAny
            <4>2. in # <<>> => Tail(in) \in Seq(FromRuntime)
                BY TailFacts
            <4>. QED
                BY <4>1, <4>2
        <3>2. main' \in MainStates /\ serveErr' \in BOOLEAN /\ ctxDone' \in BOOLEAN
            BY <2>4 DEF AwaitReadyAck, Fail, GoTo
        <3>3. sender' \in {"off", "range", "send", "exited"}
            BY <2>4 DEF AwaitReadyAck
        <3>. QED
            BY <2>4, <3>1, <3>2, <3>3 DEF AwaitReadyAck
    <2>. QED
        BY <1>a, <2>1, <2>2, <2>3, <2>4 DEF Handshake
<1>b. CASE Loop
    <2>1. CASE LoopRecvError
        BY <2>1 DEF LoopRecvError
    <2>2. CASE StartDrain
        BY <2>2, TailFacts DEF StartDrain, Recv, GoTo
    <2>3. ASSUME NEW e \in Events, StartDispatch(e) PROVE TypeOK' /\ CorrInv'
        BY <2>3, TailFacts DEF StartDispatch, Recv
    <2>4. ASSUME NEW e \in Events, Cancel(e) PROVE TypeOK' /\ CorrInv'
        BY <2>4, TailFacts DEF Cancel, Recv
    <2>5. ASSUME NEW c \in Correlations, NEW v \in AckKinds, DeliverWsAck(c, v)
          PROVE  TypeOK' /\ CorrInv'
        BY <2>5, TailFacts DEF DeliverWsAck, Recv
    <2>. QED
        BY <1>b, <2>1, <2>2, <2>3, <2>4, <2>5 DEF Loop
<1>c. CASE Shutdown
    <2>1. CASE DrainFinished
        BY <2>1 DEF DrainFinished, GoTo
    <2>2. CASE DrainTimeout
        BY <2>2 DEF DrainTimeout, GoTo
    <2>3. CASE CloseOut
        BY <2>3 DEF CloseOut, GoTo
    <2>4. CASE CloseTransport
        BY <2>4 DEF CloseTransport
    <2>. QED
        BY <1>c, <2>1, <2>2, <2>3, <2>4 DEF Shutdown
<1>d. CASE Sender
    <2>1. CASE SenderTake
        BY <2>1, TailFacts DEF SenderTake
    <2>2. CASE SenderSend
        <3>1. holding.kind = "result" => holding.ref \in Events
            BY DEF ToRuntime, NoFrame
        <3>2. /\ answered' \subseteq Events /\ credit' \in Nat
              /\ wsSeen' \in [Correlations -> AckKinds \cup {"none", "sent"}]
            <4>1. CASE holding.kind = "result"
                BY <2>2, <3>1, <4>1 DEF SenderSend
            <4>2. CASE holding.kind # "result"
                BY <2>2, <4>2 DEF SenderSend
            <4>. QED
                BY <4>1, <4>2
        <3>3. holding' \in ToRuntime \cup {NoFrame}
              /\ sender' \in {"off", "range", "send", "exited"}
            BY <2>2 DEF SenderSend
        <3>. QED
            BY <2>2, <3>2, <3>3 DEF SenderSend
    <2>3. CASE SenderFails
        BY <2>3 DEF SenderFails
    <2>4. CASE SenderExit
        BY <2>4 DEF SenderExit
    <2>. QED
        BY <1>d, <2>1, <2>2, <2>3, <2>4 DEF Sender
<1>e. CASE Environment
    <2>1. CASE RuntimeConfig
        <3>1. ConfigFrame \in FromRuntime /\ DrainFrame \in FromRuntime
            BY DEF FromRuntime, ConfigFrame, DrainFrame
        <3>2. in' \in Seq(FromRuntime)
            <4>1. \E f \in FromRuntime : in' = Append(in, f)
                BY <2>1, <3>1 DEF RuntimeConfig, RuntimePuts
            <4>. QED
                BY <4>1, AppendFacts
        <3>3. runtime' \in {"configured", "stray"}
            BY <2>1 DEF RuntimeConfig
        <3>. QED
            BY <2>1, <3>2, <3>3 DEF RuntimeConfig
    <2>2. CASE RuntimeReadyAck
        <3>1. ReadyAckFrame("accepted") \in FromRuntime /\ ReadyAckFrame("refused") \in FromRuntime
            BY DEF FromRuntime, ReadyAckFrame
        <3>2. in' \in Seq(FromRuntime)
            <4>1. \E f \in FromRuntime : in' = Append(in, f)
                BY <2>2, <3>1 DEF RuntimeReadyAck, RuntimePuts
            <4>. QED
                BY <4>1, AppendFacts
        <3>3. runtime' \in {"serving", "refused"}
            BY <2>2 DEF RuntimeReadyAck
        <3>. QED
            BY <2>2, <3>2, <3>3 DEF RuntimeReadyAck
    <2>3. ASSUME NEW c \in Correlations, NEW v \in AckKinds, RuntimeWsAck(c, v)
          PROVE  TypeOK' /\ CorrInv'
        <3>1. WsAckFrame(c, v) \in FromRuntime
            BY DEF FromRuntime, WsAckFrame
        <3>. QED
            BY <2>3, <3>1, AppendFacts DEF RuntimeWsAck, RuntimePuts
    <2>4. CASE RuntimeDrain
        <3>1. DrainFrame \in FromRuntime
            BY DEF FromRuntime, DrainFrame
        <3>. QED
            BY <2>4, <3>1, AppendFacts DEF RuntimeDrain, RuntimePuts
    <2>5. CASE StreamEnds
        <3>1. stream' \in {"open", "eof", "broken", "closed"} /\ ctxDone' \in BOOLEAN
            BY <2>5 DEF StreamEnds
        <3>. QED
            BY <2>5, <3>1 DEF StreamEnds
    <2>6. ASSUME NEW e \in Events, RuntimeDispatch(e) PROVE TypeOK' /\ CorrInv'
        <3>1. DispatchFrame(e) \in FromRuntime
            BY DEF FromRuntime, DispatchFrame
        <3>. QED
            BY <2>6, <3>1, AppendFacts DEF RuntimeDispatch, RuntimePuts
    <2>7. ASSUME NEW e \in Events, RuntimeCancel(e) PROVE TypeOK' /\ CorrInv'
        <3>1. CancelFrame(e) \in FromRuntime
            BY DEF FromRuntime, CancelFrame
        <3>. QED
            BY <2>7, <3>1, AppendFacts DEF RuntimeCancel, RuntimePuts
    <2>8. ASSUME NEW e \in Events, DeadlinePasses(e) PROVE TypeOK' /\ CorrInv'
        BY <2>8 DEF DeadlinePasses
    <2>9. ASSUME NEW c \in Correlations, RuntimeWsAckAgain(c) PROVE TypeOK' /\ CorrInv'
        <3>1. WsAckFrame(c, wsSeen[c]) \in FromRuntime
            BY <2>9 DEF RuntimeWsAckAgain, FromRuntime, WsAckFrame
        <3>. QED
            BY <2>9, <3>1, AppendFacts DEF RuntimeWsAckAgain, RuntimePuts
    <2>. QED
        BY <1>e, <2>1, <2>2, <2>3, <2>4, <2>5, <2>6, <2>7, <2>8, <2>9
        DEF Environment, RuntimeAnswers
<1>f. ASSUME NEW e \in Events, Worker(e) PROVE TypeOK' /\ CorrInv'
    <2>1. CASE WsRegister(e)
        BY <2>1 DEF WsRegister
    <2>2. CASE WsEnqueue(e)
        <3>1. WsSendFrame(corr[e]) \in ToRuntime
            BY <2>2 DEF WsEnqueue, WsSendFrame, ToRuntime
        <3>. QED
            BY <2>2, <3>1, AppendFacts DEF WsEnqueue, HasRoom
    <2>3. CASE WsAcked(e)
        <3>1. corr[e] \in Correlations
            BY <2>3 DEF WsAcked
        <3>2. outcome' \in [Correlations -> AckKinds \cup {"none", "gaveup"}]
            BY <2>3, <3>1 DEF WsAcked
        <3>3. worker' \in [Events -> WorkerStates] /\ wsWaiting' \subseteq Correlations
            BY <2>3 DEF WsAcked
        <3>4. CorrInv'
            BY <2>3 DEF WsAcked
        <3>. QED
            BY <2>3, <3>2, <3>3, <3>4 DEF WsAcked
    <2>4. CASE WsGiveUp(e)
        <3>1. corr[e] \in Correlations
            BY <2>4 DEF WsGiveUp
        <3>2. outcome' \in [Correlations -> AckKinds \cup {"none", "gaveup"}]
            BY <2>4, <3>1 DEF WsGiveUp
        <3>3. worker' \in [Events -> WorkerStates] /\ wsWaiting' \subseteq Correlations
            BY <2>4 DEF WsGiveUp
        <3>4. CorrInv'
            BY <2>4 DEF WsGiveUp
        <3>. QED
            BY <2>4, <3>2, <3>3, <3>4 DEF WsGiveUp
    <2>5. CASE HandlerReturns(e)
        BY <2>5 DEF HandlerReturns
    <2>6. CASE PutResult(e)
        <3>1. ResultFrame(e) \in ToRuntime
            BY DEF ResultFrame, ToRuntime
        <3>. QED
            BY <2>6, <3>1, AppendFacts DEF PutResult, HasRoom
    <2>7. CASE FinishWorker(e)
        BY <2>7 DEF FinishWorker
    <2>. QED
        BY <1>f, <2>1, <2>2, <2>3, <2>4, <2>5, <2>6, <2>7 DEF Worker, WsSend
<1>g. CASE Returned \/ UNCHANGED vars
    <2>1. UNCHANGED <<main, serveErr, ctxDone, worker, inFlight, ended, out, sender, holding>>
        BY <1>g DEF Returned, vars
    <2>2. UNCHANGED <<corrCounter, corr, wsWaiting, acks, outcome, in, stream, runtime>>
        BY <1>g DEF Returned, vars
    <2>3. UNCHANGED <<credit, dispatched, cancelled, answered, wsSeen>>
        BY <1>g DEF Returned, vars
    <2>4. CorrInv'
        BY <2>1, <2>2
    <2>. QED
        BY <2>1, <2>2, <2>3, <2>4
<1>. QED
    BY <1>a, <1>b, <1>c, <1>d, <1>e, <1>f, <1>g DEF Next

(* Every variable of the client and of the stream keeps its type; in       *)
(* particular the out channel never holds more than its capacity.          *)
THEOREM StreamTypeCorrect == Spec => []TypeOK
<1>. QED
    BY InitTyped, NextTyped, PTL DEF Spec

-----------------------------------------------------------------------------
(* The out channel is closed last.                                         *)

(* When out is closed, no goroutine is left that could send on it: the     *)
(* deferred function of loop waits for every worker first.                 *)
THEOREM NeverSendsOnClosed == Spec => []NoSendOnClosedChannel
<1>1. Init => NoSendOnClosedChannel
    BY DEF Init, NoSendOnClosedChannel, OutClosed
<1>2. TypeOK /\ NoSendOnClosedChannel /\ [Next]_vars => NoSendOnClosedChannel'
    <2>. SUFFICES ASSUME TypeOK, NoSendOnClosedChannel, [Next]_vars
                  PROVE  NoSendOnClosedChannel'
        OBVIOUS
    <2>. USE DEF NoSendOnClosedChannel, OutClosed
    <2>1. CASE Handshake
        BY <2>1 DEF Handshake, AwaitConfig, Reconcile, DeclareReady, AwaitReadyAck, Fail, GoTo
    <2>2. CASE Loop
        BY <2>2 DEF Loop, LoopRecvError, StartDrain, StartDispatch, Cancel, DeliverWsAck, GoTo
    <2>3. CASE DrainFinished \/ DrainTimeout
        BY <2>3 DEF DrainFinished, DrainTimeout, GoTo
    <2>4. CASE CloseOut
        BY <2>4 DEF CloseOut, GoTo, WorkersDone, Running
    <2>5. CASE CloseTransport
        BY <2>5 DEF CloseTransport
    <2>6. ASSUME NEW e \in Events, Worker(e) PROVE NoSendOnClosedChannel'
        <3>1. worker[e] \notin {"none", "done"} /\ UNCHANGED main
            BY <2>6 DEF Worker, WsRegister, WsSend, WsEnqueue, WsAcked, WsGiveUp,
                        HandlerReturns, PutResult, FinishWorker
        <3>. QED
            BY <3>1
    <2>7. CASE Sender \/ Environment
        <3>1. UNCHANGED <<main, worker>>
            BY <2>7 DEF Sender, SenderTake, SenderSend, SenderFails, SenderExit,
                Environment, RuntimeAnswers, RuntimeConfig, RuntimeReadyAck, RuntimeWsAck,
                RuntimeDrain, StreamEnds, RuntimeDispatch, RuntimeCancel, DeadlinePasses,
                RuntimeWsAckAgain
        <3>. QED
            BY <3>1
    <2>8. CASE Returned \/ UNCHANGED vars
        BY <2>8 DEF Returned, vars
    <2>. QED
        BY <2>1, <2>2, <2>3, <2>4, <2>5, <2>6, <2>7, <2>8 DEF Next, Shutdown
<1>. QED
    BY <1>1, <1>2, StreamTypeCorrect, PTL DEF Spec

-----------------------------------------------------------------------------
(* What a step may do to the frames from the runtime and to the workers.   *)

Advances(e) ==
    /\ worker[e] # "none" /\ worker'[e] # "none"
    /\ worker' = [worker EXCEPT ![e] = worker'[e]]
    /\ UNCHANGED <<in, dispatched>>

InStep ==
    \/ UNCHANGED <<in, worker, dispatched>>
    \/ in # <<>> /\ in' = Tail(in) /\ UNCHANGED <<worker, dispatched>>
    \/ \E f \in FromRuntime : /\ f.kind # "dispatch" /\ in' = Append(in, f)
                              /\ UNCHANGED <<worker, dispatched>>
    \/ \E e \in Events : StartDispatch(e) \/ RuntimeDispatch(e) \/ Advances(e)

(* Every step is one of these.                                             *)
LEMMA InSteps == TypeOK /\ [Next]_vars => InStep
<1>. SUFFICES ASSUME TypeOK, [Next]_vars PROVE InStep
    OBVIOUS
<1>1. CASE Handshake
    BY <1>1 DEF Handshake, AwaitConfig, Reconcile, DeclareReady, AwaitReadyAck, RecvAny, InStep
<1>2. CASE Loop
    BY <1>2 DEF Loop, LoopRecvError, StartDrain, Cancel, DeliverWsAck, Recv, InStep
<1>3. CASE Shutdown \/ Sender
    BY <1>3 DEF Shutdown, DrainFinished, DrainTimeout, CloseOut, CloseTransport,
                Sender, SenderTake, SenderSend, SenderFails, SenderExit, InStep
<1>4. CASE Environment
    <2>1. CASE RuntimeConfig
        <3>1. /\ ConfigFrame \in FromRuntime /\ DrainFrame \in FromRuntime
              /\ ConfigFrame.kind # "dispatch" /\ DrainFrame.kind # "dispatch"
            BY DEF FromRuntime, ConfigFrame, DrainFrame
        <3>. QED
            BY <2>1, <3>1 DEF RuntimeConfig, RuntimePuts, InStep
    <2>2. CASE RuntimeReadyAck
        <3>1. \A v \in {"accepted", "refused"} :
                ReadyAckFrame(v) \in FromRuntime /\ ReadyAckFrame(v).kind # "dispatch"
            BY DEF FromRuntime, ReadyAckFrame
        <3>. QED
            BY <2>2, <3>1 DEF RuntimeReadyAck, RuntimePuts, InStep
    <2>3. ASSUME NEW c \in Correlations, NEW v \in AckKinds,
                 RuntimeWsAck(c, v) \/ RuntimeWsAckAgain(c)
          PROVE  InStep
        <3>1. \A w \in AckKinds :
                WsAckFrame(c, w) \in FromRuntime /\ WsAckFrame(c, w).kind # "dispatch"
            BY DEF FromRuntime, WsAckFrame, AckKinds
        <3>. QED
            BY <2>3, <3>1 DEF RuntimeWsAck, RuntimeWsAckAgain, RuntimePuts, InStep
    <2>4. CASE RuntimeDrain
        <3>1. DrainFrame \in FromRuntime /\ DrainFrame.kind # "dispatch"
            BY DEF FromRuntime, DrainFrame
        <3>. QED
            BY <2>4, <3>1 DEF RuntimeDrain, RuntimePuts, InStep
    <2>5. ASSUME NEW e \in Events, RuntimeCancel(e) PROVE InStep
        <3>1. CancelFrame(e) \in FromRuntime /\ CancelFrame(e).kind # "dispatch"
            BY DEF FromRuntime, CancelFrame
        <3>. QED
            BY <2>5, <3>1 DEF RuntimeCancel, RuntimePuts, InStep
    <2>6. CASE StreamEnds \/ \E e \in Events : DeadlinePasses(e)
        BY <2>6 DEF StreamEnds, DeadlinePasses, InStep
    <2>7. CASE \E e \in Events : RuntimeDispatch(e)
        BY <2>7 DEF InStep
    <2>8. AckKinds # {}
        BY DEF AckKinds
    <2>. QED
        BY <1>4, <2>1, <2>2, <2>3, <2>4, <2>5, <2>6, <2>7, <2>8 DEF Environment, RuntimeAnswers
<1>5. ASSUME NEW e \in Events, Worker(e) PROVE Advances(e)
    BY <1>5 DEF Worker, WsRegister, WsSend, WsEnqueue, WsAcked, WsGiveUp, HandlerReturns,
                PutResult, FinishWorker, Advances, TypeOK
<1>6. CASE Returned \/ UNCHANGED vars
    BY <1>6 DEF Returned, vars, InStep
<1>. QED
    BY <1>1, <1>2, <1>3, <1>4, <1>5, <1>6 DEF Next, InStep

(* A dispatch on the wire stays unique and ahead of its goroutine.         *)
LEMMA DispatchInductive == TypeOK /\ DispatchInv /\ InStep => DispatchInv'
<1>. SUFFICES ASSUME TypeOK, DispatchInv, InStep PROVE DispatchInv'
    OBVIOUS
<1>t. in \in Seq(FromRuntime) /\ Len(in) \in Nat /\ worker \in [Events -> WorkerStates]
    BY DEF TypeOK
<1>1. CASE UNCHANGED <<in, worker, dispatched>>
    BY <1>1 DEF DispatchInv
<1>2. CASE in # <<>> /\ in' = Tail(in) /\ UNCHANGED <<worker, dispatched>>
    <2>1. /\ Len(in') = Len(in) - 1
          /\ \A i \in 1 .. Len(in') : i + 1 \in 1 .. Len(in) /\ in'[i] = in[i + 1]
        BY <1>t, <1>2, TailFacts
    <2>. QED
        BY <1>t, <1>2, <2>1 DEF DispatchInv
<1>3. ASSUME NEW f \in FromRuntime, f.kind # "dispatch", in' = Append(in, f),
             UNCHANGED <<worker, dispatched>>
      PROVE  DispatchInv'
    <2>1. /\ Len(in') = Len(in) + 1 /\ in'[Len(in) + 1] = f
          /\ \A i \in 1 .. Len(in) : in'[i] = in[i]
        BY <1>t, <1>3, AppendFacts
    <2>. QED
        BY <1>t, <1>3, <2>1 DEF DispatchInv
<1>4. ASSUME NEW e \in Events, StartDispatch(e) PROVE DispatchInv'
    <2>0. in # <<>> /\ in' = Tail(in) /\ Head(in) = DispatchFrame(e)
          /\ worker' = [worker EXCEPT ![e] = "invoke"] /\ UNCHANGED dispatched
        BY <1>4 DEF StartDispatch, Recv
    <2>1. /\ Len(in') = Len(in) - 1 /\ 1 \in 1 .. Len(in) /\ in[1] = DispatchFrame(e)
          /\ \A i \in 1 .. Len(in') : i + 1 \in 1 .. Len(in) /\ in'[i] = in[i + 1]
        BY <1>t, <2>0, TailFacts
    <2>2. \A i \in 1 .. Len(in) : in[i] \in FromRuntime
        BY <1>t
    <2>3. \A i \in 1 .. Len(in) : in[i].kind = "dispatch" /\ in[i].ref = e => i = 1
        <3>1. \A f \in FromRuntime : f.kind = "dispatch" /\ f.ref = e => f = DispatchFrame(e)
            BY DEF FromRuntime, DispatchFrame, AckKinds
        <3>. QED
            BY <2>1, <2>2, <3>1 DEF DispatchInv
    <2>4. e \in dispatched
        BY <2>1 DEF DispatchInv, DispatchFrame
    <2>5. \A i \in 1 .. Len(in') : in'[i].kind = "dispatch" => in'[i].ref # e
        BY <1>t, <2>1, <2>3
    <2>6. \A i \in 1 .. Len(in') : in'[i].kind = "dispatch" =>
                in'[i].ref \in dispatched' /\ worker'[in'[i].ref] = "none"
        <3>1. \A f \in FromRuntime : f.kind = "dispatch" => f.ref \in Events
            BY DEF FromRuntime, AckKinds
        <3>. QED
            BY <1>t, <2>0, <2>1, <2>2, <2>5, <3>1 DEF DispatchInv
    <2>7. \A i, j \in 1 .. Len(in') : in'[i].kind = "dispatch" /\ in'[i] = in'[j] => i = j
        BY <1>t, <2>1 DEF DispatchInv
    <2>8. \A d \in Events : worker'[d] # "none" => d \in dispatched'
        BY <1>t, <2>0, <2>4 DEF DispatchInv
    <2>. QED
        BY <2>6, <2>7, <2>8 DEF DispatchInv
<1>5. ASSUME NEW e \in Events, RuntimeDispatch(e) PROVE DispatchInv'
    <2>0. in' = Append(in, DispatchFrame(e)) /\ e \notin dispatched
          /\ dispatched' = dispatched \cup {e} /\ UNCHANGED worker
        BY <1>5 DEF RuntimeDispatch, RuntimePuts
    <2>1. DispatchFrame(e) \in FromRuntime /\ DispatchFrame(e).ref = e
        BY DEF FromRuntime, DispatchFrame
    <2>2. /\ Len(in') = Len(in) + 1 /\ in'[Len(in) + 1] = DispatchFrame(e)
          /\ \A i \in 1 .. Len(in) : in'[i] = in[i]
        BY <1>t, <2>0, <2>1, AppendFacts
    <2>3. \A i \in 1 .. Len(in) : in[i].kind = "dispatch" => in[i].ref # e
        BY <2>0 DEF DispatchInv
    <2>4. worker[e] = "none"
        BY <2>0 DEF DispatchInv
    <2>. QED
        BY <1>t, <2>0, <2>1, <2>2, <2>3, <2>4 DEF DispatchInv
<1>6. ASSUME NEW e \in Events, Advances(e) PROVE DispatchInv'
    <2>1. \A d \in Events : worker'[d] = IF d = e THEN worker'[e] ELSE worker[d]
        BY <1>t, <1>6 DEF Advances
    <2>2. \A i \in 1 .. Len(in) : in[i].kind = "dispatch" => in[i].ref \in Events
        BY <1>t DEF FromRuntime, AckKinds
    <2>3. \A i \in 1 .. Len(in) : in[i].kind = "dispatch" => worker'[in[i].ref] = "none"
        BY <1>6, <2>1, <2>2 DEF DispatchInv, Advances
    <2>. QED
        BY <1>6, <2>1, <2>3 DEF DispatchInv, Advances
<1>. QED
    BY <1>1, <1>2, <1>3, <1>4, <1>5, <1>6 DEF InStep

-----------------------------------------------------------------------------
(* What a step may do to the frames for the runtime.                       *)

Progresses ==
    /\ \A e \in Events : PastResult(e) => PastResult(e)'
    /\ UNCHANGED <<out, holding, sender, answered>>

OutStep ==
    \/ Progresses
    \/ sender # "send" /\ sender' # "send" /\ UNCHANGED <<out, holding, answered, worker>>
    \/ \E e \in Events : WsEnqueue(e) \/ PutResult(e)
    \/ SenderTake \/ SenderSend \/ SenderFails

(* Every step is one of these.                                             *)
LEMMA OutSteps == TypeOK /\ HandshakeInv /\ DispatchInv /\ [Next]_vars => OutStep
<1>. SUFFICES ASSUME TypeOK, HandshakeInv, DispatchInv, [Next]_vars PROVE OutStep
    OBVIOUS
<1>t. worker \in [Events -> WorkerStates]
    BY DEF TypeOK
<1>1. CASE Handshake
    <2>1. CASE AwaitReadyAck
        <3>1. sender = "off" /\ sender' \in {"off", "range"}
            BY <2>1 DEF AwaitReadyAck, HandshakeInv
        <3>. QED
            BY <2>1, <3>1 DEF AwaitReadyAck, OutStep
    <2>. QED
        BY <1>1, <2>1 DEF Handshake, AwaitConfig, Reconcile, DeclareReady,
                          OutStep, Progresses, PastResult
<1>2. CASE Loop
    <2>1. ASSUME NEW e \in Events, StartDispatch(e) PROVE Progresses
        <3>1. worker[e] = "none"
            <4>1. in # <<>> /\ Head(in) = DispatchFrame(e)
                BY <2>1 DEF StartDispatch, Recv
            <4>2. 1 \in 1 .. Len(in) /\ in[1] = DispatchFrame(e)
                BY <4>1, TailFacts DEF TypeOK
            <4>. QED
                BY <4>2 DEF DispatchInv, DispatchFrame
        <3>. QED
            BY <1>t, <2>1, <3>1 DEF StartDispatch, Progresses, PastResult
    <2>. QED
        BY <1>2, <2>1 DEF Loop, LoopRecvError, StartDrain, Cancel, DeliverWsAck,
                          OutStep, Progresses, PastResult
<1>3. CASE Shutdown \/ Environment
    BY <1>3 DEF Shutdown, DrainFinished, DrainTimeout, CloseOut, CloseTransport,
                Environment, RuntimeAnswers, RuntimeConfig, RuntimeReadyAck, RuntimeWsAck,
                RuntimeDrain, StreamEnds, RuntimeDispatch, RuntimeCancel, DeadlinePasses,
                RuntimeWsAckAgain, OutStep, Progresses, PastResult
<1>4. CASE Sender
    BY <1>4 DEF Sender, SenderExit, OutStep
<1>5. ASSUME NEW e \in Events, Worker(e) PROVE OutStep
    <2>1. CASE WsRegister(e) \/ WsAcked(e) \/ WsGiveUp(e) \/ HandlerReturns(e) \/ FinishWorker(e)
        BY <1>t, <2>1 DEF WsRegister, WsAcked, WsGiveUp, HandlerReturns, FinishWorker,
                          OutStep, Progresses, PastResult
    <2>. QED
        BY <1>5, <2>1 DEF Worker, WsSend, OutStep
<1>6. CASE Returned \/ UNCHANGED vars
    BY <1>6 DEF Returned, vars, OutStep, Progresses, PastResult
<1>. QED
    BY <1>1, <1>2, <1>3, <1>4, <1>5, <1>6 DEF Next

(* A frame that is a result names the event it answers.                    *)
LEMMA ResultNamesEvent ==
    ASSUME NEW f \in ToRuntime, f.kind = "result"
    PROVE  f.ref \in Events /\ f = ResultFrame(f.ref) /\ f # NoFrame
    BY DEF ToRuntime, ResultFrame, NoFrame

(* Results stay unique on their way, and are never for an answered event.  *)
LEMMA ResultInductive == TypeOK /\ TypeOK' /\ CorrInv /\ ResultInv /\ OutStep => ResultInv'
<1>. SUFFICES ASSUME TypeOK, TypeOK', CorrInv, ResultInv, OutStep PROVE ResultInv'
    OBVIOUS
<1>t. /\ out \in Seq(ToRuntime) /\ Len(out) \in Nat /\ worker \in [Events -> WorkerStates]
      /\ \A i \in 1 .. Len(out) : out[i] \in ToRuntime
      /\ holding \in ToRuntime \cup {NoFrame} /\ answered \subseteq Events
      /\ NoFrame.kind = "none"
    BY DEF TypeOK, NoFrame
<1>1. CASE Progresses
    BY <1>t, <1>1, ResultNamesEvent DEF Progresses, ResultInv
<1>2. CASE sender # "send" /\ sender' # "send" /\ UNCHANGED <<out, holding, answered, worker>>
    BY <1>2 DEF ResultInv, PastResult
<1>3. ASSUME NEW e \in Events, WsEnqueue(e) PROVE ResultInv'
    <2>1. /\ WsSendFrame(corr[e]) \in ToRuntime /\ WsSendFrame(corr[e]).kind = "wssend"
          /\ out' = Append(out, WsSendFrame(corr[e]))
          /\ worker[e] = "wsOut" /\ worker' = [worker EXCEPT ![e] = "wsAck"]
          /\ UNCHANGED <<holding, sender, answered>>
        BY <1>3 DEF WsEnqueue, WsSendFrame, ToRuntime, CorrInv
    <2>2. /\ Len(out') = Len(out) + 1 /\ out'[Len(out) + 1] = WsSendFrame(corr[e])
          /\ \A i \in 1 .. Len(out) : out'[i] = out[i]
        BY <1>t, <2>1, AppendFacts
    <2>3. \A d \in Events : PastResult(d) => PastResult(d)'
        BY <1>t, <2>1 DEF PastResult
    <2>. QED
        BY <1>t, <2>1, <2>2, <2>3, ResultNamesEvent DEF ResultInv
<1>4. ASSUME NEW e \in Events, PutResult(e) PROVE ResultInv'
    <2>1. /\ ResultFrame(e) \in ToRuntime /\ ResultFrame(e).ref = e
          /\ out' = Append(out, ResultFrame(e))
          /\ worker[e] = "result" /\ worker' = [worker EXCEPT ![e] = "deferred"]
          /\ UNCHANGED <<holding, sender, answered>>
        BY <1>4 DEF PutResult, ResultFrame, ToRuntime
    <2>2. /\ Len(out') = Len(out) + 1 /\ out'[Len(out) + 1] = ResultFrame(e)
          /\ \A i \in 1 .. Len(out) : out'[i] = out[i]
        BY <1>t, <2>1, AppendFacts
    <2>3. /\ \A d \in Events : PastResult(d) => PastResult(d)'
          /\ PastResult(e)' /\ ~PastResult(e)
        BY <1>t, <2>1 DEF PastResult
    <2>4. /\ e \notin answered /\ holding # ResultFrame(e)
          /\ \A i \in 1 .. Len(out) : out[i] # ResultFrame(e)
        BY <2>1, <2>3 DEF ResultInv, ResultFrame
    <2>. QED
        BY <1>t, <2>1, <2>2, <2>3, <2>4, ResultNamesEvent DEF ResultInv
<1>5. CASE SenderTake
    <2>1. /\ sender = "range" /\ out # <<>> /\ holding' = Head(out) /\ out' = Tail(out)
          /\ sender' = "send" /\ UNCHANGED <<worker, answered>>
        BY <1>5 DEF SenderTake
    <2>2. /\ Len(out') = Len(out) - 1 /\ 1 \in 1 .. Len(out) /\ holding' = out[1]
          /\ \A i \in 1 .. Len(out') : i + 1 \in 1 .. Len(out) /\ out'[i] = out[i + 1]
        BY <1>t, <2>1, TailFacts
    <2>3. holding' # NoFrame
        BY <1>t, <2>2 DEF ToRuntime, NoFrame
    <2>4. \A i \in 1 .. Len(out') : out'[i].kind = "result" => out'[i] # holding'
        BY <1>t, <2>2 DEF ResultInv
    <2>. QED
        BY <1>t, <2>1, <2>2, <2>3, <2>4 DEF ResultInv, PastResult
<1>6. CASE SenderSend
    <2>1. /\ sender = "send" /\ sender' = "range" /\ holding' = NoFrame
          /\ UNCHANGED <<out, worker>>
          /\ holding.kind = "result" => answered' = answered \cup {holding.ref}
          /\ holding.kind # "result" => answered' = answered
        BY <1>6 DEF SenderSend
    <2>2. \A e \in answered' : PastResult(e)'
        BY <2>1 DEF ResultInv, PastResult
    <2>3. \A i \in 1 .. Len(out) : out[i].kind = "result" => out[i].ref \notin answered'
        <3>1. ASSUME NEW i \in 1 .. Len(out), out[i].kind = "result", holding.kind = "result"
              PROVE  out[i].ref # holding.ref
            <4>1. out[i] = ResultFrame(out[i].ref)
                BY <1>t, <3>1, ResultNamesEvent
            <4>2. holding \in ToRuntime
                BY <1>t, <3>1
            <4>3. holding = ResultFrame(holding.ref)
                BY <3>1, <4>2, ResultNamesEvent
            <4>. QED
                BY <3>1, <4>1, <4>3 DEF ResultInv
        <3>. QED
            BY <2>1, <3>1 DEF ResultInv
    <2>4. \A i \in 1 .. Len(out) : out[i].kind = "result" => out[i] # NoFrame
        BY <1>t, ResultNamesEvent
    <2>. QED
        BY <1>t, <2>1, <2>2, <2>3, <2>4 DEF ResultInv, PastResult
<1>7. CASE SenderFails
    <2>1. \A i \in 1 .. Len(out) : out[i].kind = "result" => out[i] # NoFrame
        BY <1>t, ResultNamesEvent
    <2>. QED
        BY <1>t, <1>7, <2>1 DEF SenderFails, ResultInv, PastResult
<1>. QED
    BY <1>1, <1>2, <1>3, <1>4, <1>5, <1>6, <1>7 DEF OutStep

-----------------------------------------------------------------------------
(* The handshake comes first: nothing is dispatched before Ready.          *)
LEMMA HandshakeInductive ==
    TypeOK /\ HandshakeInv /\ [Next]_vars => HandshakeInv'
<1>. SUFFICES ASSUME TypeOK, HandshakeInv, [Next]_vars PROVE HandshakeInv'
    OBVIOUS
<1>. USE DEF HandshakeInv, Early
<1>1. CASE AwaitConfig
    <2>1. CASE in # <<>> /\ Head(in) = ConfigFrame /\ GoTo("reconcile")
        <3>1. runtime = "configured"
            <4>1. runtime = "stray" => Head(in) = DrainFrame
                BY <1>1 DEF AwaitConfig
            <4>2. DrainFrame # ConfigFrame
                BY DEF DrainFrame, ConfigFrame
            <4>. QED
                BY <1>1, <2>1, <4>1, <4>2 DEF AwaitConfig
        <3>. QED
            BY <1>1, <2>1, <3>1 DEF AwaitConfig, GoTo
    <2>2. CASE main' = "failed"
        <3>1. runtime = "start" => in' = <<>>
            BY <1>1 DEF AwaitConfig, RecvAny
        <3>. QED
            BY <1>1, <2>2, <3>1 DEF AwaitConfig
    <2>. QED
        BY <1>1, <2>1, <2>2 DEF AwaitConfig, RecvAny, Fail
<1>2. CASE Reconcile
    BY <1>2 DEF Reconcile, Fail, GoTo
<1>3. CASE DeclareReady
    BY <1>3 DEF DeclareReady, Fail, GoTo
<1>4. CASE AwaitReadyAck
    BY <1>4 DEF AwaitReadyAck, Fail, GoTo
<1>5. CASE Loop \/ Shutdown
    BY <1>5 DEF Loop, LoopRecvError, StartDrain, StartDispatch, Cancel, DeliverWsAck, GoTo,
                Shutdown, DrainFinished, DrainTimeout, CloseOut, CloseTransport
<1>6. ASSUME NEW e \in Events, Worker(e) PROVE HandshakeInv'
    BY <1>6 DEF Worker, WsRegister, WsSend, WsEnqueue, WsAcked, WsGiveUp, HandlerReturns,
                PutResult, FinishWorker
<1>7. CASE Sender
    BY <1>7 DEF Sender, SenderTake, SenderSend, SenderFails, SenderExit
<1>8. CASE Environment
    <2>1. CASE RuntimeConfig
        <3>1. runtime = "start" /\ in = <<>> /\ UNCHANGED <<main, dispatched, sender, wsSeen>>
            BY <2>1 DEF RuntimeConfig
        <3>2. \/ runtime' = "configured" /\ in' = <<ConfigFrame>>
              \/ runtime' = "stray" /\ in' = <<DrainFrame>>
            BY <2>1, <3>1 DEF RuntimeConfig, RuntimePuts
        <3>. QED
            BY <3>1, <3>2
    <2>2. CASE RuntimeReadyAck \/ RuntimeDrain \/ StreamEnds
        BY <2>2 DEF RuntimeReadyAck, RuntimeDrain, StreamEnds
    <2>3. ASSUME NEW e \in Events,
                 RuntimeDispatch(e) \/ RuntimeCancel(e) \/ DeadlinePasses(e)
          PROVE  HandshakeInv'
        BY <2>3 DEF RuntimeDispatch, RuntimeCancel, DeadlinePasses
    <2>4. ASSUME NEW c \in Correlations, NEW v \in AckKinds,
                 RuntimeWsAck(c, v) \/ RuntimeWsAckAgain(c)
          PROVE  HandshakeInv'
        BY <2>4 DEF RuntimeWsAck, RuntimeWsAckAgain, AckKinds
    <2>5. AckKinds # {}
        BY DEF AckKinds
    <2>. QED
        BY <1>8, <2>1, <2>2, <2>3, <2>4, <2>5 DEF Environment, RuntimeAnswers
<1>9. CASE Returned \/ UNCHANGED vars
    BY <1>9 DEF Returned, vars
<1>. QED
    BY <1>1, <1>2, <1>3, <1>4, <1>5, <1>6, <1>7, <1>8, <1>9 DEF Next, Handshake

(* The inductive invariant holds throughout.                               *)
THEOREM StreamInvariant == Spec => []IInv
<1>1. Init => IInv
    <2>1. Init => DispatchInv /\ ResultInv
        BY DEF Init, DispatchInv, ResultInv, NoFrame
    <2>2. Init => HandshakeInv
        BY DEF Init, HandshakeInv, Early
    <2>. QED
        BY <2>1, <2>2, InitTyped DEF IInv
<1>2. IInv /\ [Next]_vars => IInv'
    BY NextTyped, InSteps, DispatchInductive, OutSteps, ResultInductive, HandshakeInductive
    DEF IInv
<1>. QED
    BY <1>1, <1>2, PTL DEF Spec

-----------------------------------------------------------------------------
(* The stream implements the credit window.                                *)

(* A step of the stream is a step of the window, or leaves it alone.       *)
LEMMA StepRefines == IInv /\ [Next]_vars => [Window!WNext]_(Window!wvars)
<1>. SUFFICES ASSUME IInv, [Next]_vars
              PROVE  Window!WNext \/ UNCHANGED Window!wvars
    OBVIOUS
<1>. USE DEF Window!wvars, Opened
<1>1. CASE DeclareReady
    <2>1. CASE stream = "open"
        <3>1. Window!Open
            BY <1>1, <2>1, ConcurrencyPositive
            DEF DeclareReady, Window!Open, IInv, HandshakeInv
        <3>. QED
            BY <3>1 DEF Window!WNext
    <2>. QED
        BY <1>1, <2>1 DEF DeclareReady
<1>2. CASE AwaitConfig \/ Reconcile \/ AwaitReadyAck
    BY <1>2 DEF AwaitConfig, Reconcile, AwaitReadyAck
<1>3. CASE Loop \/ Shutdown
    BY <1>3 DEF Loop, LoopRecvError, StartDrain, StartDispatch, Cancel, DeliverWsAck,
                Shutdown, DrainFinished, DrainTimeout, CloseOut, CloseTransport
<1>4. ASSUME NEW e \in Events, Worker(e) PROVE UNCHANGED Window!wvars
    BY <1>4 DEF Worker, WsRegister, WsSend, WsEnqueue, WsAcked, WsGiveUp, HandlerReturns,
                PutResult, FinishWorker
<1>5. CASE SenderSend
    <2>1. CASE holding.kind = "result"
        <3>1. holding \in ToRuntime
            BY <2>1 DEF IInv, TypeOK, NoFrame
        <3>2. holding.ref \in Events /\ holding.ref \notin answered
            BY <2>1, <3>1, ResultNamesEvent DEF IInv, ResultInv
        <3>3. holding.ref \in dispatched
            BY <2>1, <3>2 DEF IInv, ResultInv, DispatchInv, PastResult
        <3>4. Window!Answer(holding.ref)
            BY <1>5, <2>1, <3>2, <3>3 DEF SenderSend, Window!Answer, Window!Outstanding
        <3>. QED
            BY <3>2, <3>4 DEF Window!WNext
    <2>. QED
        BY <1>5, <2>1 DEF SenderSend
<1>6. CASE SenderTake \/ SenderFails \/ SenderExit
    BY <1>6 DEF SenderTake, SenderFails, SenderExit
<1>7. ASSUME NEW e \in Events, RuntimeDispatch(e) PROVE Window!WNext
    BY <1>7 DEF RuntimeDispatch, Window!WNext, Window!Dispatch
<1>8. CASE Environment /\ ~\E e \in Events : RuntimeDispatch(e)
    BY <1>8 DEF Environment, RuntimeAnswers, RuntimeConfig, RuntimeReadyAck, RuntimeWsAck,
                RuntimeDrain, StreamEnds, RuntimeCancel, DeadlinePasses, RuntimeWsAckAgain
<1>9. CASE Returned \/ UNCHANGED vars
    BY <1>9 DEF Returned, vars
<1>. QED
    BY <1>1, <1>2, <1>3, <1>4, <1>5, <1>6, <1>7, <1>8, <1>9 DEF Next, Handshake, Sender

(* The client, whatever its goroutines and its environment do, is an       *)
(* implementation of the credit window: a credit is spent only on a fresh  *)
(* event, and comes back only with the one result of an event owed one.    *)
THEOREM StreamRefinesWindow == Spec => RefinesWindow
<1>1. Init => Window!WInit
    BY DEF Init, Window!WInit, Opened
<1>. QED
    BY <1>1, StepRefines, StreamInvariant, PTL DEF Spec, RefinesWindow, Window!WSpec

-----------------------------------------------------------------------------
(* The window bounds the goroutines.                                       *)

(* The events the runtime is owed an answer for are finitely many.         *)
LEMMA OwedFinite ==
    ASSUME TypeOK
    PROVE  IsFiniteSet(Outstanding) /\ Cardinality(Outstanding) \in Nat
<1>1. Outstanding \subseteq Events
    BY DEF TypeOK, Outstanding
<1>2. IsFiniteSet(Outstanding)
    BY <1>1, EventsFinite, FS_Subset
<1>. QED
    BY <1>2, FS_CardinalityType

(* Every step keeps the sum.                                               *)
LEMMA CreditInductive == IInv /\ IInv' /\ CreditConserved /\ [Next]_vars => CreditConserved'
<1>. SUFFICES ASSUME IInv, IInv', CreditConserved, [Next]_vars PROVE CreditConserved'
    OBVIOUS
<1>t. TypeOK /\ TypeOK' /\ credit \in Nat /\ Opened \in Nat
    BY ConcurrencyPositive DEF IInv, TypeOK, Opened
<1>1. CASE Window!Open
    <2>1. Outstanding = {} /\ Outstanding' = {}
        BY <1>1, ConcurrencyPositive
        DEF Window!Open, Opened, Outstanding, IInv, HandshakeInv, Early
    <2>2. Cardinality(Outstanding') = 0
        BY <2>1, FS_EmptySet
    <2>. QED
        BY <1>1, <2>2, ConcurrencyPositive DEF Window!Open, CreditConserved
<1>2. ASSUME NEW e \in Events, Window!Dispatch(e) PROVE CreditConserved'
    <2>1. Outstanding' = Outstanding \cup {e} /\ e \notin Outstanding
        <3>1. e \notin answered
            BY <1>2 DEF Window!Dispatch, IInv, ResultInv, DispatchInv, PastResult
        <3>. QED
            BY <1>2, <3>1 DEF Window!Dispatch, Outstanding
    <2>2. Cardinality(Outstanding') = Cardinality(Outstanding) + 1
        BY <1>t, <2>1, OwedFinite, FS_AddElement
    <2>. QED
        BY <1>t, <1>2, <2>2, OwedFinite DEF Window!Dispatch, CreditConserved
<1>3. ASSUME NEW e \in Events, Window!Answer(e) PROVE CreditConserved'
    <2>1. Outstanding' = Outstanding \ {e} /\ e \in Outstanding
        BY <1>3 DEF Window!Answer, Window!Outstanding, Outstanding
    <2>2. Cardinality(Outstanding') = Cardinality(Outstanding) - 1
        BY <1>t, <2>1, OwedFinite, FS_RemoveElement
    <2>. QED
        BY <1>t, <1>3, <2>2, OwedFinite DEF Window!Answer, CreditConserved
<1>4. CASE UNCHANGED Window!wvars
    BY <1>4 DEF Window!wvars, CreditConserved, Outstanding
<1>. QED
    BY StepRefines, <1>1, <1>2, <1>3, <1>4 DEF Window!WNext

(* No result shrinks the window and none widens it, whatever handlers,     *)
(* cancellations and deadlines do: credit and answers owed always add up   *)
(* to what Ready opened.                                                   *)
THEOREM StreamConservesCredit == Spec => []CreditConserved
<1>1. Init => CreditConserved
    <2>. SUFFICES ASSUME Init PROVE CreditConserved
        OBVIOUS
    <2>1. Outstanding = {}
        BY DEF Init, Outstanding
    <2>2. Cardinality(Outstanding) = 0
        BY <2>1, FS_EmptySet
    <2>. QED
        BY <2>2 DEF Init, CreditConserved, Opened
<1>. QED
    BY <1>1, CreditInductive, StreamInvariant, PTL DEF Spec

(* The loop takes every event it is sent, and still no more goroutines are *)
(* ever at work than the pool size Ready declared, for every pool size.    *)
THEOREM PoolIsBounded == Spec => []WorkersWithinWindow
<1> DEFINE AtWork == {e \in Events : worker[e] \in {"invoke", "wsOut", "wsAck", "result"}}
<1>1. IInv /\ CreditConserved => WorkersWithinWindow
    <2>. SUFFICES ASSUME IInv, CreditConserved PROVE Cardinality(AtWork) <= Concurrency
        BY DEF WorkersWithinWindow
    <2>t. TypeOK /\ credit \in Nat /\ Opened \in {0, Concurrency}
        BY DEF IInv, TypeOK, Opened
    <2>1. AtWork \subseteq Outstanding
        BY DEF Outstanding, IInv, DispatchInv, ResultInv, PastResult
    <2>2. Cardinality(AtWork) <= Cardinality(Outstanding)
        BY <2>t, <2>1, OwedFinite, FS_Subset
    <2>3. Cardinality(AtWork) \in Nat
        BY <2>t, <2>1, OwedFinite, FS_Subset, FS_CardinalityType
    <2>4. Cardinality(Outstanding) <= Concurrency
        BY <2>t, OwedFinite, ConcurrencyPositive DEF CreditConserved
    <2>. HIDE DEF AtWork
    <2>. QED
        BY <2>t, <2>2, <2>3, <2>4, OwedFinite, ConcurrencyPositive
<1>. QED
    BY <1>1, StreamConservesCredit, StreamInvariant, PTL

-----------------------------------------------------------------------------
(* The inductive invariant, on top of IInv.                                *)

(* What the handshake reads is what the handshake was sent: the first      *)
(* frame after Ready is the runtime's answer to it, so reading it cannot   *)
(* swallow a dispatch, a cancellation or an acknowledgement.               *)
ReadyInv ==
    /\ main \in {"reconcile", "declareReady"} => in = <<>>
    /\ runtime = "ready" => in = <<>> /\ sender = "off" /\ dispatched = {}
                            /\ \A c \in Correlations : wsSeen[c] = "none"
    /\ main = "awaitAck" /\ runtime # "ready" =>
            in # <<>> /\ in[1].kind \in {"accepted", "refused"}

AtWork(e) == worker[e] \in {"invoke", "wsOut", "wsAck", "result"}

OnItsWay(e) ==
    \/ Queued(DispatchFrame(e), in) \/ AtWork(e)
    \/ Queued(ResultFrame(e), out) \/ holding = ResultFrame(e)

(* An event the runtime is owed an answer for is somewhere.                *)
OwedInv == stream = "open" => \A e \in Outstanding : OnItsWay(e)

(* A cancellation follows its dispatch on the wire, and finds the event in *)
(* the table for as long as its context has not ended.                     *)
CancelFollows ==
    \A i \in 1 .. Len(in) : in[i].kind = "dispatch" /\ in[i].ref \in cancelled =>
        \E j \in i + 1 .. Len(in) : in[j] = CancelFrame(in[i].ref)

CancelInv ==
    /\ cancelled \subseteq dispatched
    /\ \A e \in Events : Running(e) /\ e \notin ended => e \in inFlight
    /\ CancelFollows
    /\ CancelReaches

(* No dispatch follows a drain ...                                         *)
DrainIsLast ==
    \A i \in 1 .. Len(in) : in[i].kind = "drain" =>
        /\ runtime \in {"draining", "stray"}
        /\ \A j \in i + 1 .. Len(in) : in[j].kind # "dispatch"

(* ... so none is on the wire once the loop has read the drain, ...        *)
Drained == runtime = "draining" /\ \A i \in 1 .. Len(in) : in[i].kind # "dispatch"

NoDispatchLeft ==
    stream = "open" /\ main \in {"drain", "waitWorkers", "waitSender"} => Drained

(* ... and the sender leaves a stream that is up only when out is closed   *)
(* and empty.                                                              *)
SenderIsLast ==
    /\ stream = "open" /\ sender = "exited" => OutClosed /\ out = <<>>
    /\ stream = "open" => main # "returned"

DrainInv ==
    /\ DrainIsLast /\ NoDispatchLeft /\ SenderIsLast
    /\ stream = "closed" => dispatched = answered

InSend(e) == worker[e] \in {"wsOut", "wsAck"}
Sending(c) == Queued(WsSendFrame(c), out) \/ holding = WsSendFrame(c)
Unused(c) == wsSeen[c] = "none" /\ acks[c] = "none" /\ ~Sending(c)

(* A correlation belongs to one send ...                                   *)
OwnCorrelation ==
    /\ \A c \in Correlations : c > corrCounter => Unused(c) /\ outcome[c] = "none"
    /\ \A e \in Events : InSend(e) => corr[e] <= corrCounter /\ corr[e] \in wsWaiting
    /\ \A d, e \in Events : InSend(d) /\ InSend(e) /\ corr[d] = corr[e] => d = e
    /\ \A e \in Events : worker[e] = "wsOut" => Unused(corr[e])

(* ... and its frame leaves once.                                          *)
SentOnce ==
    /\ \A i \in 1 .. Len(out) : out[i].kind = "wssend" =>
            out[i] # holding /\ wsSeen[out[i].ref] = "none"
    /\ \A i, j \in 1 .. Len(out) : out[i].kind = "wssend" /\ out[i] = out[j] => i = j
    /\ holding.kind = "wssend" => wsSeen[holding.ref] = "none"

(* What is on the wire and in the channels is the runtime's verdict.       *)
VerdictOnWire ==
    \A i \in 1 .. Len(in) : in[i].kind \in AckKinds => wsSeen[in[i].ref] = in[i].kind

VerdictInv ==
    /\ \A c \in Correlations : acks[c] # "none" => acks[c] = wsSeen[c]
    /\ VerdictOnWire
    /\ AckMatchesSend
    /\ AckNotLost

-----------------------------------------------------------------------------
(* Queues.                                                                 *)


(* Taking the head of a queue leaves every other frame in it.              *)
LEMMA QueuedInTail ==
    ASSUME NEW S, NEW q \in Seq(S), q # <<>>, NEW f
    PROVE  /\ Queued(f, Tail(q)) => Queued(f, q)
           /\ Queued(f, q) /\ f # Head(q) => Queued(f, Tail(q))
<1>1. /\ Head(q) = q[1] /\ Len(q) \in Nat /\ Len(Tail(q)) = Len(q) - 1
      /\ \A i \in 1 .. Len(Tail(q)) : i + 1 \in 1 .. Len(q) /\ Tail(q)[i] = q[i + 1]
    BY TailFacts
<1>2. ASSUME NEW i \in 1 .. Len(q), q[i] = f, f # Head(q)
      PROVE  i - 1 \in 1 .. Len(Tail(q)) /\ Tail(q)[i - 1] = f
    BY <1>1, <1>2
<1>. QED
    BY <1>1, <1>2 DEF Queued

(* Appending a frame adds that frame and no other.                         *)
LEMMA QueuedInAppend ==
    ASSUME NEW S, NEW q \in Seq(S), NEW g \in S, NEW f
    PROVE  Queued(f, Append(q, g)) <=> Queued(f, q) \/ f = g
<1>1. /\ Len(q) \in Nat /\ Len(Append(q, g)) = Len(q) + 1
      /\ Append(q, g)[Len(q) + 1] = g
      /\ \A i \in 1 .. Len(q) : Append(q, g)[i] = q[i]
    BY AppendFacts
<1>. QED
    BY <1>1 DEF Queued

(* The frames are told apart by their kinds and what they refer to.        *)
LEMMA FramesDiffer ==
    /\ \A d, e \in Events : DispatchFrame(d) = DispatchFrame(e) => d = e
    /\ \A d, e \in Events : CancelFrame(d) = CancelFrame(e) => d = e
    /\ \A d, e \in Events : ResultFrame(d) = ResultFrame(e) => d = e
    /\ \A c, d \in Correlations : WsSendFrame(c) = WsSendFrame(d) => c = d
    /\ \A e : DispatchFrame(e).kind = "dispatch" /\ DispatchFrame(e).ref = e
    /\ \A e : CancelFrame(e).kind = "cancel" /\ CancelFrame(e).ref = e
    /\ \A e : ResultFrame(e).kind = "result" /\ ResultFrame(e).ref = e
    /\ \A c : WsSendFrame(c).kind = "wssend" /\ WsSendFrame(c).ref = c
    /\ \A c, v : WsAckFrame(c, v).kind = v /\ WsAckFrame(c, v).ref = c
    /\ \A v : ReadyAckFrame(v).kind = v
    /\ DrainFrame.kind = "drain" /\ ConfigFrame.kind = "config" /\ NoFrame.kind = "none"
    BY DEF DispatchFrame, CancelFrame, ResultFrame, WsSendFrame, WsAckFrame, ReadyAckFrame,
           DrainFrame, ConfigFrame, NoFrame

-----------------------------------------------------------------------------
(* The handshake.                                                          *)

(* Every frame on the wire has its type.                                   *)
LEMMA FramesTyped ==
    ASSUME TypeOK
    PROVE  /\ in \in Seq(FromRuntime) /\ Len(in) \in Nat
           /\ out \in Seq(ToRuntime) /\ Len(out) \in Nat
           /\ \A i \in 1 .. Len(in) : in[i] \in FromRuntime
           /\ \A i \in 1 .. Len(out) : out[i] \in ToRuntime
    BY DEF TypeOK

(* The handshake's frames come before any other.                           *)
LEMMA ReadyInductive == IInv /\ ReadyInv /\ [Next]_vars => ReadyInv'
<1>. SUFFICES ASSUME IInv, ReadyInv, [Next]_vars PROVE ReadyInv'
    OBVIOUS
<1>t. TypeOK /\ HandshakeInv /\ in \in Seq(FromRuntime) /\ Len(in) \in Nat
    BY FramesTyped DEF IInv
<1>. USE DEF ReadyInv, HandshakeInv, Early
<1>1. CASE AwaitConfig
    <2>1. CASE in # <<>> /\ Head(in) = ConfigFrame /\ GoTo("reconcile") /\ in' = Tail(in)
        <3>1. runtime # "stray"
            BY <1>1, <1>t, <2>1, FramesDiffer DEF AwaitConfig
        <3>2. in = <<ConfigFrame>>
            BY <1>1, <1>t, <2>1, <3>1 DEF AwaitConfig
        <3>. QED
            BY <1>1, <1>t, <2>1, <3>2 DEF AwaitConfig, GoTo
    <2>2. CASE Fail
        BY <1>1, <1>t, <2>2 DEF AwaitConfig, Fail
    <2>. QED
        BY <1>1, <2>1, <2>2 DEF AwaitConfig, RecvAny
<1>2. CASE Reconcile
    BY <1>2 DEF Reconcile, Fail, GoTo
<1>3. CASE DeclareReady
    BY <1>3, <1>t DEF DeclareReady, Fail, GoTo
<1>4. CASE AwaitReadyAck
    BY <1>4, <1>t DEF AwaitReadyAck, Fail, GoTo, RecvAny
<1>5. CASE Loop
    <2>1. main = "recv" /\ main' \in {"recv", "drain", "waitWorkers"}
          /\ UNCHANGED <<runtime, sender, dispatched, wsSeen>>
        BY <1>5 DEF Loop, LoopRecvError, StartDrain, StartDispatch, Cancel, DeliverWsAck, GoTo
    <2>2. in = <<>> => in' = in
        BY <1>5 DEF Loop, LoopRecvError, StartDrain, StartDispatch, Cancel, DeliverWsAck, Recv
    <2>. QED
        BY <2>1, <2>2
<1>6. CASE Shutdown
    BY <1>6 DEF Shutdown, DrainFinished, DrainTimeout, CloseOut, CloseTransport, GoTo
<1>7. ASSUME NEW e \in Events, Worker(e) PROVE ReadyInv'
    BY <1>7 DEF Worker, WsRegister, WsSend, WsEnqueue, WsAcked, WsGiveUp, HandlerReturns,
                PutResult, FinishWorker
<1>8. CASE Sender
    BY <1>8 DEF Sender, SenderTake, SenderSend, SenderFails, SenderExit
<1>9. CASE RuntimeConfig
    BY <1>9, <1>t DEF RuntimeConfig
<1>10. CASE RuntimeReadyAck
    <2>1. in = <<>> /\ runtime' # "ready" /\ UNCHANGED <<main, dispatched, sender, wsSeen>>
          /\ runtime = "ready"
        BY <1>10 DEF RuntimeReadyAck
    <2>2. \E v \in {"accepted", "refused"} : in' = <<ReadyAckFrame(v)>>
        BY <1>10, <2>1 DEF RuntimeReadyAck, RuntimePuts
    <2>3. in' # <<>> /\ in'[1].kind \in {"accepted", "refused"}
        BY <2>2, FramesDiffer
    <2>. QED
        BY <1>t, <2>1, <2>3
<1>11. ASSUME NEW f \in FromRuntime, in' = Append(in, f), UNCHANGED <<main, sender, wsSeen>>,
              runtime \notin {"start", "configured", "stray", "ready"},
              runtime' \in {runtime, "draining"}
       PROVE  ReadyInv'
    <2>1. in' # <<>> /\ (in # <<>> => in'[1] = in[1])
        BY <1>t, <1>11, AppendFacts
    <2>. QED
        BY <1>t, <1>11, <2>1
<1>12. CASE RuntimeDrain
    <2>1. DrainFrame \in FromRuntime
        BY DEF FromRuntime, DrainFrame
    <2>. QED
        BY <1>11, <1>12, <2>1 DEF RuntimeDrain, RuntimePuts
<1>13. ASSUME NEW e \in Events, RuntimeDispatch(e) PROVE ReadyInv'
    <2>1. DispatchFrame(e) \in FromRuntime
        BY DEF FromRuntime, DispatchFrame
    <2>. QED
        BY <1>11, <1>13, <2>1 DEF RuntimeDispatch, RuntimePuts
<1>14. ASSUME NEW e \in Events, RuntimeCancel(e) PROVE ReadyInv'
    <2>1. CancelFrame(e) \in FromRuntime
        BY DEF FromRuntime, CancelFrame
    <2>. QED
        BY <1>t, <1>11, <1>14, <2>1 DEF RuntimeCancel, RuntimePuts
<1>15. ASSUME NEW c \in Correlations, NEW v \in AckKinds, RuntimeWsAck(c, v) PROVE ReadyInv'
    <2>1. WsAckFrame(c, v) \in FromRuntime
        BY DEF FromRuntime, WsAckFrame
    <2>2. runtime \notin {"start", "configured", "stray", "ready"}
        BY <1>t, <1>15 DEF RuntimeWsAck
    <2>3. in' # <<>> /\ (in # <<>> => in'[1] = in[1])
        BY <1>t, <1>15, <2>1, AppendFacts DEF RuntimeWsAck, RuntimePuts
    <2>. QED
        BY <1>t, <1>15, <2>2, <2>3 DEF RuntimeWsAck
<1>16. ASSUME NEW c \in Correlations, RuntimeWsAckAgain(c) PROVE ReadyInv'
    <2>1. WsAckFrame(c, wsSeen[c]) \in FromRuntime
        BY <1>16 DEF RuntimeWsAckAgain, FromRuntime, WsAckFrame
    <2>2. runtime \notin {"start", "configured", "stray", "ready"}
        BY <1>t, <1>16 DEF RuntimeWsAckAgain, AckKinds
    <2>. QED
        BY <1>11, <1>16, <2>1, <2>2 DEF RuntimeWsAckAgain, RuntimePuts
<1>17. CASE StreamEnds \/ \E e \in Events : DeadlinePasses(e)
    BY <1>17 DEF StreamEnds, DeadlinePasses
<1>18. CASE Returned \/ UNCHANGED vars
    BY <1>18 DEF Returned, vars
<1>. QED
    BY <1>1, <1>2, <1>3, <1>4, <1>5, <1>6, <1>7, <1>8, <1>9, <1>10, <1>12, <1>13, <1>14, <1>15,
       <1>16, <1>17, <1>18
    DEF Next, Handshake, Environment, RuntimeAnswers

HandshakeKinds == {"config", "accepted", "refused", "drain"}

(* The handshake takes no frame but its own off the wire, and touches      *)
(* nothing the receive loop and the workers do.                            *)
LEMMA HandshakeReads ==
    ASSUME IInv, ReadyInv, Handshake
    PROVE  /\ UNCHANGED <<workerVars, out, holding, wsVars, stream, dispatched, cancelled,
                          answered, wsSeen>>
           /\ main' \in {"reconcile", "declareReady", "awaitAck", "recv", "failed"}
           /\ sender' \in {sender, "range"}
           /\ runtime' \in {runtime, "ready"}
           /\ \/ UNCHANGED in
              \/ in # <<>> /\ in' = Tail(in) /\ in[1].kind \in HandshakeKinds
<1>t. TypeOK /\ HandshakeInv /\ in \in Seq(FromRuntime)
    BY FramesTyped DEF IInv
<1>1. CASE AwaitConfig
    <2>1. in # <<>> => in[1].kind \in HandshakeKinds
        BY <1>1, <1>t, FramesDiffer DEF AwaitConfig, HandshakeInv, Early, HandshakeKinds
    <2>. QED
        BY <1>1, <2>1 DEF AwaitConfig, RecvAny, Fail, GoTo
<1>2. CASE AwaitReadyAck
    <2>1. in # <<>> => in[1].kind \in HandshakeKinds
        BY <1>2, <1>t DEF AwaitReadyAck, ReadyInv, HandshakeKinds
    <2>. QED
        BY <1>2, <2>1 DEF AwaitReadyAck, RecvAny, Fail, GoTo
<1>3. CASE Reconcile \/ DeclareReady
    BY <1>3 DEF Reconcile, DeclareReady, Fail, GoTo
<1>. QED
    BY <1>1, <1>2, <1>3, Handshake DEF Handshake

-----------------------------------------------------------------------------
(* Nothing owed is lost.                                                   *)

(* A stream that has ended stays ended.                                    *)
LEMMA StreamStaysEnded == [Next]_vars /\ stream' = "open" => stream = "open"
    BY DEF Next, vars, Handshake, AwaitConfig, Reconcile, DeclareReady, AwaitReadyAck,
           Loop, LoopRecvError, StartDrain, StartDispatch, Cancel, DeliverWsAck,
           Shutdown, DrainFinished, DrainTimeout, CloseOut, CloseTransport,
           Worker, WsRegister, WsSend, WsEnqueue, WsAcked, WsGiveUp, HandlerReturns, PutResult,
           FinishWorker, Sender, SenderTake, SenderSend, SenderFails, SenderExit,
           Environment, RuntimeAnswers, RuntimeConfig, RuntimeReadyAck, RuntimeWsAck,
           RuntimeWsAckAgain, RuntimeDrain, RuntimeDispatch, RuntimeCancel, StreamEnds,
           DeadlinePasses, RuntimePuts, Returned

(* Each step hands what is owed on to its next place.                      *)
LEMMA OwedInductive == IInv /\ ReadyInv /\ OwedInv /\ [Next]_vars => OwedInv'
<1>. SUFFICES ASSUME IInv, ReadyInv, OwedInv, [Next]_vars, stream' = "open",
                     NEW e \in Outstanding'
              PROVE  OnItsWay(e)'
    BY DEF OwedInv
<1>t. /\ TypeOK /\ in \in Seq(FromRuntime) /\ out \in Seq(ToRuntime)
      /\ worker \in [Events -> WorkerStates]
    BY FramesTyped DEF IInv, TypeOK
<1>u. stream = "open" /\ \A d \in Outstanding : OnItsWay(d)
    BY StreamStaysEnded DEF OwedInv
<1>. USE DEF OnItsWay, AtWork, Outstanding
<1>1. CASE Handshake
    <2>1. /\ UNCHANGED <<worker, out, holding, dispatched, answered>>
          /\ \/ UNCHANGED in
             \/ in # <<>> /\ in' = Tail(in) /\ in[1].kind \in HandshakeKinds
        BY <1>1, HandshakeReads
    <2>2. Queued(DispatchFrame(e), in) => Queued(DispatchFrame(e), in')
        <3>1. CASE UNCHANGED in
            BY <3>1
        <3>2. CASE in # <<>> /\ in' = Tail(in) /\ in[1].kind \in HandshakeKinds
            BY <1>t, <3>2, QueuedInTail, FramesDiffer, TailFacts DEF HandshakeKinds
        <3>. QED
            BY <2>1, <3>1, <3>2
    <2>. QED
        BY <1>u, <2>1, <2>2
<1>2. ASSUME NEW d \in Events, StartDispatch(d) PROVE OnItsWay(e)'
    <2>1. /\ in # <<>> /\ in' = Tail(in) /\ Head(in) = DispatchFrame(d)
          /\ worker' = [worker EXCEPT ![d] = "invoke"]
          /\ UNCHANGED <<out, holding, dispatched, answered>>
        BY <1>2 DEF StartDispatch, Recv
    <2>2. CASE e = d
        BY <1>t, <2>1, <2>2
    <2>3. CASE e # d
        <3>1. DispatchFrame(e) # DispatchFrame(d)
            BY <2>3, FramesDiffer
        <3>2. Queued(DispatchFrame(e), in) => Queued(DispatchFrame(e), in')
            BY <1>t, <2>1, <3>1, QueuedInTail
        <3>. QED
            BY <1>t, <1>u, <2>1, <2>3, <3>2
    <2>. QED
        BY <2>2, <2>3
<1>3. ASSUME NEW f \in FromRuntime, f.kind # "dispatch", in # <<>>, Head(in) = f, in' = Tail(in),
             UNCHANGED <<worker, out, holding, dispatched, answered>>
      PROVE  OnItsWay(e)'
    <2>1. DispatchFrame(e) # f
        BY <1>3, FramesDiffer
    <2>2. Queued(DispatchFrame(e), in) => Queued(DispatchFrame(e), in')
        BY <1>t, <1>3, <2>1, QueuedInTail
    <2>. QED
        BY <1>u, <1>3, <2>2
<1>4. CASE \E d \in Events : Cancel(d)
    BY <1>3, <1>4, FramesDiffer, TailFacts, <1>t DEF Cancel, Recv
<1>5. CASE \E c \in Correlations, v \in AckKinds : DeliverWsAck(c, v)
    BY <1>3, <1>5, FramesDiffer, TailFacts, <1>t DEF DeliverWsAck, Recv, AckKinds
<1>6. CASE StartDrain
    BY <1>3, <1>6, FramesDiffer, TailFacts, <1>t DEF StartDrain, Recv
<1>7. CASE LoopRecvError \/ Shutdown
    BY <1>7, <1>u DEF LoopRecvError, Shutdown, DrainFinished, DrainTimeout, CloseOut,
                      CloseTransport
<1>8. ASSUME NEW d \in Events, Worker(d) PROVE OnItsWay(e)'
    <2>1. CASE WsRegister(d) \/ WsAcked(d) \/ WsGiveUp(d) \/ HandlerReturns(d) \/ FinishWorker(d)
        <3>1. /\ UNCHANGED <<in, out, holding, dispatched, answered>>
              /\ \A x \in Events \ {d} : worker'[x] = worker[x]
            BY <1>t, <2>1 DEF WsRegister, WsAcked, WsGiveUp, HandlerReturns, FinishWorker
        <3>2. AtWork(d) => AtWork(d)'
            BY <1>t, <2>1 DEF WsRegister, WsAcked, WsGiveUp, HandlerReturns, FinishWorker
        <3>3. e \in Events
            BY <1>t, <3>1 DEF TypeOK
        <3>. QED
            BY <1>u, <3>1, <3>2, <3>3
    <2>2. CASE WsEnqueue(d)
        <3>1. WsSendFrame(corr[d]) \in ToRuntime
            BY <2>2 DEF WsEnqueue, WsSendFrame, ToRuntime, IInv, CorrInv
        <3>2. Queued(ResultFrame(e), out) => Queued(ResultFrame(e), out')
            BY <1>t, <2>2, <3>1, QueuedInAppend DEF WsEnqueue
        <3>. QED
            BY <1>t, <1>u, <2>2, <3>2 DEF WsEnqueue
    <2>3. CASE PutResult(d)
        <3>1. ResultFrame(d) \in ToRuntime
            BY DEF ResultFrame, ToRuntime
        <3>2. (Queued(ResultFrame(e), out) \/ e = d) => Queued(ResultFrame(e), out')
            BY <1>t, <2>3, <3>1, QueuedInAppend DEF PutResult
        <3>. QED
            BY <1>t, <1>u, <2>3, <3>2 DEF PutResult
    <2>. QED
        BY <1>8, <2>1, <2>2, <2>3 DEF Worker, WsSend
<1>9. CASE SenderTake
    <2>1. /\ sender = "range" /\ out # <<>> /\ holding' = Head(out) /\ out' = Tail(out)
          /\ UNCHANGED <<worker, in, dispatched, answered>>
        BY <1>9 DEF SenderTake
    <2>2. holding = NoFrame
        BY <2>1 DEF IInv, ResultInv
    <2>3. holding # ResultFrame(e)
        BY <2>2, FramesDiffer
    <2>4. Queued(ResultFrame(e), out) => Queued(ResultFrame(e), out') \/ holding' = ResultFrame(e)
        BY <1>t, <2>1, QueuedInTail
    <2>. QED
        BY <1>u, <2>1, <2>3, <2>4
<1>10. CASE SenderSend
    <2>1. /\ e \in Outstanding /\ UNCHANGED <<in, out, worker, dispatched>>
          /\ holding.kind = "result" => answered' = answered \cup {holding.ref}
        BY <1>10 DEF SenderSend
    <2>2. holding # ResultFrame(e)
        BY <2>1, FramesDiffer
    <2>. QED
        BY <1>u, <2>1, <2>2
<1>11. CASE SenderFails
    BY <1>11, <1>u DEF SenderFails
<1>12. CASE SenderExit
    BY <1>12, <1>u DEF SenderExit
<1>13. ASSUME NEW d \in Events, RuntimeDispatch(d) PROVE OnItsWay(e)'
    <2>1. DispatchFrame(d) \in FromRuntime
        BY DEF FromRuntime, DispatchFrame
    <2>2. (Queued(DispatchFrame(e), in) \/ e = d) => Queued(DispatchFrame(e), in')
        BY <1>t, <1>13, <2>1, QueuedInAppend DEF RuntimeDispatch, RuntimePuts
    <2>. QED
        BY <1>u, <1>13, <2>2 DEF RuntimeDispatch
<1>14. ASSUME NEW f \in FromRuntime, in' = Append(in, f),
              UNCHANGED <<worker, out, holding, dispatched, answered>>
       PROVE  OnItsWay(e)'
    <2>1. Queued(DispatchFrame(e), in) => Queued(DispatchFrame(e), in')
        BY <1>t, <1>14, QueuedInAppend
    <2>. QED
        BY <1>u, <1>14, <2>1
<1>15. CASE RuntimeConfig \/ RuntimeReadyAck \/ RuntimeDrain
    <2>1. /\ ConfigFrame \in FromRuntime /\ DrainFrame \in FromRuntime
          /\ ReadyAckFrame("accepted") \in FromRuntime /\ ReadyAckFrame("refused") \in FromRuntime
        BY DEF FromRuntime, ConfigFrame, DrainFrame, ReadyAckFrame
    <2>2. UNCHANGED <<worker, out, holding, dispatched, answered>>
        BY <1>15 DEF RuntimeConfig, RuntimeReadyAck, RuntimeDrain
    <2>3. \E f \in FromRuntime : in' = Append(in, f)
        BY <1>15, <2>1 DEF RuntimeConfig, RuntimeReadyAck, RuntimeDrain, RuntimePuts
    <2>. QED
        BY <1>14, <2>2, <2>3
<1>16. ASSUME NEW d \in Events, RuntimeCancel(d) PROVE OnItsWay(e)'
    <2>1. CancelFrame(d) \in FromRuntime
        BY DEF FromRuntime, CancelFrame
    <2>. QED
        BY <1>14, <1>16, <2>1 DEF RuntimeCancel, RuntimePuts
<1>17. ASSUME NEW c \in Correlations, NEW v \in AckKinds, RuntimeWsAck(c, v) PROVE OnItsWay(e)'
    <2>1. WsAckFrame(c, v) \in FromRuntime
        BY DEF FromRuntime, WsAckFrame
    <2>. QED
        BY <1>14, <1>17, <2>1 DEF RuntimeWsAck, RuntimePuts
<1>18. ASSUME NEW c \in Correlations, RuntimeWsAckAgain(c) PROVE OnItsWay(e)'
    <2>1. WsAckFrame(c, wsSeen[c]) \in FromRuntime
        BY <1>18 DEF RuntimeWsAckAgain, FromRuntime, WsAckFrame
    <2>. QED
        BY <1>14, <1>18, <2>1 DEF RuntimeWsAckAgain, RuntimePuts
<1>19. CASE StreamEnds \/ \E d \in Events : DeadlinePasses(d)
    BY <1>u, <1>19 DEF StreamEnds, DeadlinePasses
<1>20. CASE Returned \/ UNCHANGED vars
    BY <1>u, <1>20 DEF Returned, vars
<1>. HIDE DEF OnItsWay
<1>. QED
    BY <1>1, <1>2, <1>4, <1>5, <1>6, <1>7, <1>8, <1>9, <1>10, <1>11, <1>12, <1>13, <1>15, <1>16,
       <1>17, <1>18, <1>19, <1>20
    DEF Next, Loop, Sender, Environment, RuntimeAnswers

(* An event is in one place at a time.                                     *)
LEMMA OnePlace ==
    ASSUME IInv, NEW e \in Events
    PROVE  /\ OnItsWay(e) => Cardinality(Places(e)) = 1
           /\ ~OnItsWay(e) => Places(e) = {}
           /\ OnItsWay(e) => e \in Outstanding
<1>1. Queued(DispatchFrame(e), in) => worker[e] = "none" /\ e \in dispatched
    BY FramesDiffer DEF Queued, IInv, DispatchInv
<1>2. Queued(ResultFrame(e), out) =>
        PastResult(e) /\ e \notin answered /\ holding # ResultFrame(e)
    BY FramesDiffer DEF Queued, IInv, ResultInv
<1>3. holding = ResultFrame(e) => PastResult(e) /\ e \notin answered
    BY FramesDiffer DEF IInv, ResultInv
<1>4. worker[e] # "none" => e \in dispatched
    BY DEF IInv, DispatchInv
<1>5. ~PastResult(e) => e \notin answered
    BY DEF IInv, ResultInv
<1>6. OnItsWay(e) => e \in Outstanding
    BY <1>1, <1>2, <1>3, <1>4, <1>5 DEF OnItsWay, AtWork, PastResult, Outstanding
<1>7. OnItsWay(e) => \E p : Places(e) = {p}
    BY <1>1, <1>2, <1>3 DEF OnItsWay, AtWork, PastResult, Places
<1>8. ~OnItsWay(e) => Places(e) = {}
    BY DEF OnItsWay, AtWork, Places
<1>9. \A p : Cardinality({p}) = 1
    BY FS_Singleton
<1>. QED
    BY <1>6, <1>7, <1>8, <1>9

(* The frames of the handshake, then what is owed.                         *)
LEMMA OwedThroughout == Spec => [](IInv /\ ReadyInv /\ OwedInv)
<1>1. Init => ReadyInv /\ OwedInv
    BY DEF Init, ReadyInv, OwedInv, Outstanding
<1>. QED
    BY <1>1, ReadyInductive, OwedInductive, StreamInvariant, PTL DEF Spec

(* The credit window never leaks: while the stream is up, every event the  *)
(* runtime is owed an answer for is in exactly one place on its way to     *)
(* being answered, and every other event in none, whatever handlers,       *)
(* cancellations and a full out channel do.                                *)
THEOREM WindowNeverLeaks == Spec => []NoCreditLeak
<1>1. IInv /\ OwedInv => NoCreditLeak
    BY OnePlace DEF OwedInv, NoCreditLeak
<1>. QED
    BY <1>1, OwedThroughout, PTL

-----------------------------------------------------------------------------
(* Cancellations.                                                          *)

(* Reading a frame keeps the order of those behind it.                     *)
LEMMA FollowsInTail ==
    ASSUME TypeOK, CancelFollows, in # <<>>, in' = Tail(in), UNCHANGED cancelled
    PROVE  CancelFollows'
<1>1. /\ Len(in) \in Nat /\ Len(in') = Len(in) - 1
      /\ \A i \in 1 .. Len(in') : i + 1 \in 1 .. Len(in) /\ in'[i] = in[i + 1]
    BY FramesTyped, TailFacts
<1>. SUFFICES ASSUME NEW i \in 1 .. Len(in'), in'[i].kind = "dispatch", in'[i].ref \in cancelled
              PROVE  \E j \in i + 1 .. Len(in') : in'[j] = CancelFrame(in'[i].ref)
    BY DEF CancelFollows
<1>2. PICK j \in (i + 1) + 1 .. Len(in) : in[j] = CancelFrame(in[i + 1].ref)
    BY <1>1 DEF CancelFollows
<1>3. j - 1 \in i + 1 .. Len(in') /\ in'[j - 1] = in[j]
    BY <1>1, <1>2
<1>. QED
    BY <1>1, <1>2, <1>3

(* A frame put on the wire comes after the others: a dispatch before it is *)
(* cancelled, a cancellation behind its dispatch.                          *)
LEMMA FollowsInAppend ==
    ASSUME TypeOK, CancelFollows, NEW f \in FromRuntime, in' = Append(in, f),
           f.kind = "dispatch" => f.ref \notin cancelled',
           \A x \in cancelled' \ cancelled : f = CancelFrame(x)
    PROVE  CancelFollows'
<1>1. /\ Len(in) \in Nat /\ Len(in') = Len(in) + 1 /\ in'[Len(in) + 1] = f
      /\ \A i \in 1 .. Len(in) : in'[i] = in[i]
    BY FramesTyped, AppendFacts
<1>. SUFFICES ASSUME NEW i \in 1 .. Len(in'), in'[i].kind = "dispatch", in'[i].ref \in cancelled'
              PROVE  \E j \in i + 1 .. Len(in') : in'[j] = CancelFrame(in'[i].ref)
    BY DEF CancelFollows
<1>2. i \in 1 .. Len(in) /\ in'[i] = in[i]
    BY <1>1
<1>3. CASE in[i].ref \in cancelled
    <2>1. PICK j \in i + 1 .. Len(in) : in[j] = CancelFrame(in[i].ref)
        BY <1>2, <1>3 DEF CancelFollows
    <2>. QED
        BY <1>1, <1>2, <2>1
<1>4. CASE in[i].ref \notin cancelled
    <2>1. f = CancelFrame(in[i].ref) /\ Len(in) + 1 \in i + 1 .. Len(in')
        BY <1>1, <1>2, <1>4
    <2>. QED
        BY <1>1, <1>2, <2>1
<1>. QED
    BY <1>3, <1>4

(* Every action keeps a cancellation on its way to its event.              *)
LEMMA CancelInductive == IInv /\ ReadyInv /\ CancelInv /\ [Next]_vars => CancelInv'
<1>. SUFFICES ASSUME IInv, ReadyInv, CancelInv, [Next]_vars PROVE CancelInv'
    OBVIOUS
<1>t. /\ TypeOK /\ in \in Seq(FromRuntime) /\ worker \in [Events -> WorkerStates]
      /\ cancelled \subseteq Events /\ CancelFollows
    BY FramesTyped DEF IInv, TypeOK, CancelInv
<1>1. ASSUME NEW f, f.kind \notin {"dispatch", "cancel"}, in # <<>>, Head(in) = f, in' = Tail(in),
             UNCHANGED <<worker, inFlight, ended, dispatched, cancelled>>
      PROVE  CancelInv'
    <2>1. CancelFollows'
        BY <1>1, <1>t, FollowsInTail
    <2>2. \A x : Queued(CancelFrame(x), in) => Queued(CancelFrame(x), in')
        BY <1>1, <1>t, QueuedInTail, FramesDiffer
    <2>. QED
        BY <1>1, <2>1, <2>2 DEF CancelInv, CancelReaches, Running
<1>2. ASSUME NEW f \in FromRuntime, f.kind \notin {"dispatch", "cancel"}, in' = Append(in, f),
             UNCHANGED <<worker, inFlight, ended, dispatched, cancelled>>
      PROVE  CancelInv'
    <2>1. CancelFollows'
        BY <1>2, <1>t, FollowsInAppend
    <2>2. \A x : Queued(CancelFrame(x), in) => Queued(CancelFrame(x), in')
        BY <1>2, <1>t, QueuedInAppend
    <2>. QED
        BY <1>2, <2>1, <2>2 DEF CancelInv, CancelReaches, Running
<1>3. ASSUME UNCHANGED <<worker, inFlight, ended, dispatched, cancelled, in>> PROVE CancelInv'
    BY <1>3 DEF CancelInv, CancelFollows, CancelReaches, Running
<1>4. CASE Handshake
    <2>1. /\ UNCHANGED <<worker, inFlight, ended, dispatched, cancelled>>
          /\ \/ UNCHANGED in
             \/ in # <<>> /\ in' = Tail(in) /\ in[1].kind \in HandshakeKinds
        BY <1>4, HandshakeReads
    <2>2. in # <<>> => Head(in) = in[1]
        BY <1>t, TailFacts
    <2>. QED
        BY <1>1, <1>3, <2>1, <2>2 DEF HandshakeKinds
<1>5. ASSUME NEW e \in Events, StartDispatch(e) PROVE CancelInv'
    <2>1. /\ in # <<>> /\ in' = Tail(in) /\ Head(in) = DispatchFrame(e)
          /\ worker' = [worker EXCEPT ![e] = "invoke"]
          /\ inFlight' = inFlight \cup {e} /\ UNCHANGED <<ended, dispatched, cancelled>>
        BY <1>5 DEF StartDispatch, Recv
    <2>2. CancelFollows'
        BY <1>t, <2>1, FollowsInTail
    <2>3. \A x : Queued(CancelFrame(x), in) => Queued(CancelFrame(x), in')
        <3>1. \A x : CancelFrame(x) # DispatchFrame(e)
            BY DEF CancelFrame, DispatchFrame
        <3>. QED
            BY <1>t, <2>1, <3>1, QueuedInTail
    <2>4. e \in cancelled => Queued(CancelFrame(e), in')
        <3>1. /\ 1 \in 1 .. Len(in) /\ in[1] = DispatchFrame(e) /\ Len(in) \in Nat
              /\ in[1].kind = "dispatch" /\ in[1].ref = e
            BY <1>t, <2>1, TailFacts, FramesDiffer
        <3>2. e \in cancelled => \E j \in 1 + 1 .. Len(in) : in[j] = CancelFrame(e)
            BY <1>t, <3>1 DEF CancelFollows
        <3>3. e \in cancelled => Queued(CancelFrame(e), in)
            BY <3>1, <3>2 DEF Queued
        <3>. QED
            BY <2>3, <3>3
    <2>5. CancelReaches'
        BY <1>t, <2>1, <2>3, <2>4 DEF CancelInv, CancelReaches, Running
    <2>6. \A d \in Events : Running(d)' /\ d \notin ended' => d \in inFlight'
        BY <1>t, <2>1 DEF CancelInv, Running
    <2>. QED
        BY <2>1, <2>2, <2>5, <2>6 DEF CancelInv
<1>6. ASSUME NEW e \in Events, Cancel(e) PROVE CancelInv'
    <2>1. /\ in # <<>> /\ in' = Tail(in) /\ Head(in) = CancelFrame(e)
          /\ inFlight' = inFlight \ {e}
          /\ ended' = (IF e \in inFlight THEN ended \cup {e} ELSE ended)
          /\ UNCHANGED <<worker, dispatched, cancelled>>
        BY <1>6 DEF Cancel, Recv
    <2>2. CancelFollows'
        BY <1>t, <2>1, FollowsInTail
    <2>3. Running(e) => e \in ended'
        BY <2>1 DEF CancelInv
    <2>4. \A x \in Events \ {e} : Queued(CancelFrame(x), in) => Queued(CancelFrame(x), in')
        <3>1. \A x \in Events \ {e} : CancelFrame(x) # CancelFrame(e)
            BY FramesDiffer
        <3>. QED
            BY <1>t, <2>1, <3>1, QueuedInTail
    <2>5. CancelReaches'
        BY <1>t, <2>1, <2>3, <2>4 DEF CancelInv, CancelReaches, Running
    <2>6. \A d \in Events : Running(d)' /\ d \notin ended' => d \in inFlight'
        BY <2>1, <2>3 DEF CancelInv, Running
    <2>. QED
        BY <2>1, <2>2, <2>5, <2>6 DEF CancelInv
<1>7. CASE LoopRecvError \/ Shutdown \/ Sender \/ StreamEnds \/ Returned \/ UNCHANGED vars
    BY <1>3, <1>7 DEF LoopRecvError, Shutdown, DrainFinished, DrainTimeout, CloseOut,
        CloseTransport, Sender, SenderTake, SenderSend, SenderFails, SenderExit, StreamEnds,
        Returned, vars
<1>8. CASE StartDrain
    BY <1>1, <1>8, FramesDiffer DEF StartDrain, Recv
<1>9. ASSUME NEW c \in Correlations, NEW v \in AckKinds, DeliverWsAck(c, v) PROVE CancelInv'
    BY <1>1, <1>9, FramesDiffer DEF DeliverWsAck, Recv, AckKinds
<1>10. ASSUME NEW e \in Events, Worker(e) PROVE CancelInv'
    <2>1. CASE FinishWorker(e)
        <3>1. /\ worker' = [worker EXCEPT ![e] = "done"] /\ inFlight' = inFlight \ {e}
              /\ ended' = ended \cup {e} /\ UNCHANGED <<in, dispatched, cancelled>>
            BY <2>1 DEF FinishWorker
        <3>2. \A d \in Events : Running(d)' => Running(d)
            BY <1>t, <3>1 DEF Running
        <3>. QED
            BY <1>t, <3>1, <3>2 DEF CancelInv, CancelFollows, CancelReaches
    <2>2. CASE ~FinishWorker(e)
        <3>1. UNCHANGED <<inFlight, ended, in, dispatched, cancelled>>
            BY <1>10, <2>2 DEF Worker, WsRegister, WsSend, WsEnqueue, WsAcked, WsGiveUp,
                               HandlerReturns, PutResult
        <3>2. Running(e) /\ \A d \in Events \ {e} : worker'[d] = worker[d]
            BY <1>10, <1>t, <2>2 DEF Worker, WsRegister, WsSend, WsEnqueue, WsAcked, WsGiveUp,
                                     HandlerReturns, PutResult, Running
        <3>3. \A d \in Events : Running(d)' => Running(d)
            BY <3>2 DEF Running
        <3>. QED
            BY <1>t, <3>1, <3>3 DEF CancelInv, CancelFollows, CancelReaches
    <2>. QED
        BY <2>1, <2>2
<1>11. CASE RuntimeConfig \/ RuntimeReadyAck \/ RuntimeDrain
    <2>1. /\ ConfigFrame \in FromRuntime /\ DrainFrame \in FromRuntime
          /\ ReadyAckFrame("accepted") \in FromRuntime /\ ReadyAckFrame("refused") \in FromRuntime
        BY DEF FromRuntime, ConfigFrame, DrainFrame, ReadyAckFrame
    <2>2. UNCHANGED <<worker, inFlight, ended, dispatched, cancelled>>
        BY <1>11 DEF RuntimeConfig, RuntimeReadyAck, RuntimeDrain
    <2>3. \E f \in FromRuntime : f.kind \notin {"dispatch", "cancel"} /\ in' = Append(in, f)
        BY <1>11, <2>1, FramesDiffer DEF RuntimeConfig, RuntimeReadyAck, RuntimeDrain, RuntimePuts
    <2>. QED
        BY <1>2, <2>2, <2>3
<1>12. ASSUME NEW c \in Correlations, NEW v \in AckKinds, RuntimeWsAck(c, v) PROVE CancelInv'
    <2>1. WsAckFrame(c, v) \in FromRuntime /\ WsAckFrame(c, v).kind \notin {"dispatch", "cancel"}
        BY DEF FromRuntime, WsAckFrame, AckKinds
    <2>. QED
        BY <1>2, <1>12, <2>1 DEF RuntimeWsAck, RuntimePuts
<1>13. ASSUME NEW c \in Correlations, RuntimeWsAckAgain(c) PROVE CancelInv'
    <2>1. /\ WsAckFrame(c, wsSeen[c]) \in FromRuntime
          /\ WsAckFrame(c, wsSeen[c]).kind \notin {"dispatch", "cancel"}
        BY <1>13 DEF RuntimeWsAckAgain, FromRuntime, WsAckFrame, AckKinds
    <2>. QED
        BY <1>2, <1>13, <2>1 DEF RuntimeWsAckAgain, RuntimePuts
<1>14. ASSUME NEW e \in Events, RuntimeDispatch(e) PROVE CancelInv'
    <2>1. /\ e \notin dispatched /\ dispatched' = dispatched \cup {e}
          /\ in' = Append(in, DispatchFrame(e))
          /\ UNCHANGED <<worker, inFlight, ended, cancelled>>
        BY <1>14 DEF RuntimeDispatch, RuntimePuts
    <2>2. DispatchFrame(e) \in FromRuntime /\ DispatchFrame(e).ref = e /\ e \notin cancelled
        BY <2>1 DEF FromRuntime, DispatchFrame, CancelInv
    <2>3. CancelFollows'
        BY <1>t, <2>1, <2>2, FollowsInAppend
    <2>4. \A x : Queued(CancelFrame(x), in) => Queued(CancelFrame(x), in')
        BY <1>t, <2>1, <2>2, QueuedInAppend
    <2>. QED
        BY <2>1, <2>3, <2>4 DEF CancelInv, CancelReaches, Running
<1>15. ASSUME NEW e \in Events, RuntimeCancel(e) PROVE CancelInv'
    <2>1. /\ e \in dispatched /\ cancelled' = cancelled \cup {e}
          /\ in' = Append(in, CancelFrame(e))
          /\ UNCHANGED <<worker, inFlight, ended, dispatched>>
        BY <1>15 DEF RuntimeCancel, RuntimePuts
    <2>2. CancelFrame(e) \in FromRuntime /\ CancelFrame(e).kind = "cancel"
        BY DEF FromRuntime, CancelFrame
    <2>3. CancelFollows'
        BY <1>t, <2>1, <2>2, FollowsInAppend
    <2>4. \A x : Queued(CancelFrame(x), in) \/ x = e => Queued(CancelFrame(x), in')
        BY <1>t, <2>1, <2>2, QueuedInAppend
    <2>. QED
        BY <2>1, <2>3, <2>4 DEF CancelInv, CancelReaches, Running
<1>16. ASSUME NEW e \in Events, DeadlinePasses(e) PROVE CancelInv'
    BY <1>16, <1>t DEF DeadlinePasses, CancelInv, CancelFollows, CancelReaches, Running
<1>. QED
    BY <1>4, <1>5, <1>6, <1>7, <1>8, <1>9, <1>10, <1>11, <1>12, <1>13, <1>14, <1>15, <1>16
    DEF Next, Loop, Environment, RuntimeAnswers

(* A cancellation that was read while its event was still at work has      *)
(* ended that event's context: neither the goroutine's own progress nor    *)
(* the order of the frames can make Cancel miss the entry track made.      *)
THEOREM CancellationsArrive == Spec => []CancelReaches
<1>1. Init => CancelInv
    BY DEF Init, CancelInv, CancelFollows, CancelReaches, Running
<1>2. CancelInv => CancelReaches
    BY DEF CancelInv
<1>. QED
    BY <1>1, <1>2, CancelInductive, OwedThroughout, PTL DEF Spec

-----------------------------------------------------------------------------
(* The end of a stream.                                                    *)

(* What a step may do to the wire and to where the runtime is.             *)
WirePuts(f) ==
    /\ in' = Append(in, f)
    /\ f.kind = "dispatch" => runtime = "serving"
    /\ f.kind = "drain" => runtime' \in {"draining", "stray"}
    /\ runtime' # runtime => runtime \notin {"draining", "stray"}

WireStep ==
    \/ UNCHANGED <<in, runtime>>
    \/ in # <<>> /\ in' = Tail(in) /\ UNCHANGED runtime
    \/ UNCHANGED in /\ runtime = "configured" /\ runtime' = "ready"
    \/ \E f \in FromRuntime : WirePuts(f)

(* Every step is one of these.                                             *)
LEMMA WireSteps == IInv /\ [Next]_vars => WireStep
<1>. SUFFICES ASSUME IInv, [Next]_vars PROVE WireStep
    OBVIOUS
<1>1. CASE AwaitConfig \/ Reconcile \/ AwaitReadyAck
    BY <1>1 DEF AwaitConfig, Reconcile, AwaitReadyAck, RecvAny, WireStep
<1>2. CASE DeclareReady
    BY <1>2 DEF DeclareReady, IInv, HandshakeInv, WireStep
<1>3. CASE Loop
    BY <1>3 DEF Loop, LoopRecvError, StartDrain, StartDispatch, Cancel, DeliverWsAck, Recv, WireStep
<1>4. CASE Shutdown \/ Sender \/ StreamEnds \/ Returned \/ UNCHANGED vars
    BY <1>4 DEF Shutdown, DrainFinished, DrainTimeout, CloseOut, CloseTransport, Sender,
        SenderTake, SenderSend, SenderFails, SenderExit, StreamEnds, Returned, vars, WireStep
<1>5. ASSUME NEW e \in Events, Worker(e) \/ DeadlinePasses(e) PROVE WireStep
    BY <1>5 DEF Worker, WsRegister, WsSend, WsEnqueue, WsAcked, WsGiveUp, HandlerReturns,
                PutResult, FinishWorker, DeadlinePasses, WireStep
<1>6. CASE RuntimeConfig
    <2>1. ConfigFrame \in FromRuntime /\ DrainFrame \in FromRuntime
        BY DEF FromRuntime, ConfigFrame, DrainFrame
    <2>2. WirePuts(ConfigFrame) \/ WirePuts(DrainFrame)
        BY <1>6, FramesDiffer DEF RuntimeConfig, RuntimePuts, WirePuts
    <2>. QED
        BY <2>1, <2>2 DEF WireStep
<1>7. CASE RuntimeReadyAck
    <2>1. ReadyAckFrame("accepted") \in FromRuntime /\ ReadyAckFrame("refused") \in FromRuntime
        BY DEF FromRuntime, ReadyAckFrame
    <2>2. WirePuts(ReadyAckFrame("accepted")) \/ WirePuts(ReadyAckFrame("refused"))
        BY <1>7, FramesDiffer DEF RuntimeReadyAck, RuntimePuts, WirePuts
    <2>. QED
        BY <2>1, <2>2 DEF WireStep
<1>8. CASE RuntimeDrain
    <2>1. DrainFrame \in FromRuntime
        BY DEF FromRuntime, DrainFrame
    <2>2. WirePuts(DrainFrame)
        BY <1>8, FramesDiffer DEF RuntimeDrain, RuntimePuts, WirePuts
    <2>. QED
        BY <2>1, <2>2 DEF WireStep
<1>9. ASSUME NEW e \in Events, RuntimeDispatch(e) PROVE WireStep
    <2>1. DispatchFrame(e) \in FromRuntime
        BY DEF FromRuntime, DispatchFrame
    <2>2. WirePuts(DispatchFrame(e))
        BY <1>9, FramesDiffer DEF RuntimeDispatch, RuntimePuts, WirePuts
    <2>. QED
        BY <2>1, <2>2 DEF WireStep
<1>10. ASSUME NEW e \in Events, RuntimeCancel(e) PROVE WireStep
    <2>1. CancelFrame(e) \in FromRuntime
        BY DEF FromRuntime, CancelFrame
    <2>2. WirePuts(CancelFrame(e))
        BY <1>10, FramesDiffer DEF RuntimeCancel, RuntimePuts, WirePuts
    <2>. QED
        BY <2>1, <2>2 DEF WireStep
<1>11. ASSUME NEW c \in Correlations, NEW v \in AckKinds, RuntimeWsAck(c, v) PROVE WireStep
    <2>1. WsAckFrame(c, v) \in FromRuntime /\ WsAckFrame(c, v).kind \in AckKinds
        BY DEF FromRuntime, WsAckFrame
    <2>2. WirePuts(WsAckFrame(c, v))
        BY <1>11, <2>1 DEF RuntimeWsAck, RuntimePuts, WirePuts, AckKinds
    <2>. QED
        BY <2>1, <2>2 DEF WireStep
<1>12. ASSUME NEW c \in Correlations, RuntimeWsAckAgain(c) PROVE WireStep
    <2>1. WsAckFrame(c, wsSeen[c]) \in FromRuntime /\ WsAckFrame(c, wsSeen[c]).kind \in AckKinds
        BY <1>12 DEF RuntimeWsAckAgain, FromRuntime, WsAckFrame
    <2>2. WirePuts(WsAckFrame(c, wsSeen[c]))
        BY <1>12, <2>1 DEF RuntimeWsAckAgain, RuntimePuts, WirePuts, AckKinds
    <2>. QED
        BY <2>1, <2>2 DEF WireStep
<1>. QED
    BY <1>1, <1>2, <1>3, <1>4, <1>5, <1>6, <1>7, <1>8, <1>9, <1>10, <1>11, <1>12
    DEF Next, Handshake, Environment, RuntimeAnswers

(* The runtime dispatches nothing once it has sent a drain, and once the   *)
(* loop has read it there is nothing left to read.                         *)
LEMMA DrainLastInductive ==
    IInv /\ DrainIsLast /\ NoDispatchLeft /\ [Next]_vars => DrainIsLast' /\ NoDispatchLeft'
<1>. SUFFICES ASSUME IInv, DrainIsLast, NoDispatchLeft, [Next]_vars
              PROVE  DrainIsLast' /\ NoDispatchLeft'
    OBVIOUS
<1>t. TypeOK /\ in \in Seq(FromRuntime) /\ Len(in) \in Nat
    BY FramesTyped DEF IInv
<1> DEFINE Leaving(m) == m \in {"drain", "waitWorkers", "waitSender"}
<1>1. DrainIsLast' /\ (Drained => Drained')
    <2>1. CASE UNCHANGED <<in, runtime>>
        BY <2>1 DEF DrainIsLast, Drained
    <2>2. CASE UNCHANGED in /\ runtime = "configured" /\ runtime' = "ready"
        BY <2>2 DEF DrainIsLast, Drained
    <2>3. CASE in # <<>> /\ in' = Tail(in) /\ UNCHANGED runtime
        <3>1. /\ Len(in') = Len(in) - 1
              /\ \A i \in 1 .. Len(in') : i + 1 \in 1 .. Len(in) /\ in'[i] = in[i + 1]
            BY <1>t, <2>3, TailFacts
        <3>2. DrainIsLast'
            BY <1>t, <2>3, <3>1 DEF DrainIsLast
        <3>. QED
            BY <2>3, <3>1, <3>2 DEF Drained
    <2>4. ASSUME NEW f \in FromRuntime, WirePuts(f)
          PROVE  DrainIsLast' /\ (Drained => Drained')
        <3>1. /\ Len(in') = Len(in) + 1 /\ in'[Len(in) + 1] = f
              /\ \A i \in 1 .. Len(in) : in'[i] = in[i]
            BY <1>t, <2>4, AppendFacts DEF WirePuts
        <3>2. runtime \in {"draining", "stray"} => runtime' = runtime /\ f.kind # "dispatch"
            BY <2>4 DEF WirePuts
        <3>3. f.kind = "drain" => runtime' \in {"draining", "stray"}
            BY <2>4 DEF WirePuts
        <3>4. DrainIsLast'
            BY <1>t, <3>1, <3>2, <3>3 DEF DrainIsLast
        <3>5. Drained => Drained'
            BY <1>t, <3>1, <3>2 DEF Drained
        <3>. QED
            BY <3>4, <3>5
    <2>5. WireStep
        BY WireSteps
    <2>. QED
        BY <2>1, <2>2, <2>3, <2>4, <2>5 DEF WireStep
<1>2. CASE StartDrain
    <2>1. /\ in # <<>> /\ in' = Tail(in) /\ in[1].kind = "drain" /\ 1 \in 1 .. Len(in)
          /\ UNCHANGED runtime /\ main = "recv"
        BY <1>2, <1>t, TailFacts, FramesDiffer DEF StartDrain, Recv
    <2>2. runtime = "draining"
        BY <2>1 DEF DrainIsLast, IInv, HandshakeInv, Early
    <2>3. /\ Len(in') = Len(in) - 1
          /\ \A i \in 1 .. Len(in') : i + 1 \in 1 .. Len(in) /\ in'[i] = in[i + 1]
        BY <1>t, <2>1, TailFacts
    <2>4. \A j \in 1 + 1 .. Len(in) : in[j].kind # "dispatch"
        BY <2>1 DEF DrainIsLast
    <2>5. \A i \in 1 .. Len(in') : in'[i].kind # "dispatch"
        BY <1>t, <2>3, <2>4
    <2>. QED
        BY <1>1, <2>1, <2>2, <2>5 DEF NoDispatchLeft, Drained
<1>3. CASE ~StartDrain
    <2>1. stream' = "open" /\ Leaving(main') => Leaving(main)
        <3>1. CASE Handshake
            BY <3>1 DEF Handshake, AwaitConfig, Reconcile, DeclareReady, AwaitReadyAck, Fail, GoTo
        <3>2. CASE Loop
            BY <1>3, <3>2 DEF Loop, LoopRecvError, RecvError, StartDispatch, Cancel, DeliverWsAck
        <3>3. CASE Shutdown
            BY <3>3 DEF Shutdown, DrainFinished, DrainTimeout, CloseOut, CloseTransport, GoTo
        <3>4. ASSUME NEW e \in Events, Worker(e) PROVE UNCHANGED main
            BY <3>4 DEF Worker, WsRegister, WsSend, WsEnqueue, WsAcked, WsGiveUp, HandlerReturns,
                        PutResult, FinishWorker
        <3>5. CASE Sender \/ Environment
            BY <3>5 DEF Sender, SenderTake, SenderSend, SenderFails, SenderExit,
                Environment, RuntimeAnswers, RuntimeConfig, RuntimeReadyAck, RuntimeWsAck,
                RuntimeDrain, StreamEnds, RuntimeDispatch, RuntimeCancel, DeadlinePasses,
                RuntimeWsAckAgain
        <3>6. CASE Returned \/ UNCHANGED vars
            BY <3>6 DEF Returned, vars
        <3>. QED
            BY <3>1, <3>2, <3>3, <3>4, <3>5, <3>6 DEF Next
    <2>2. stream' = "open" => stream = "open"
        BY StreamStaysEnded
    <2>. QED
        BY <1>1, <2>1, <2>2 DEF NoDispatchLeft
<1>. QED
    BY <1>2, <1>3

(* On a stream that is up, the sender is the last to leave.                *)
LEMMA SenderLastInductive ==
    TypeOK /\ NoSendOnClosedChannel /\ SenderIsLast /\ [Next]_vars => SenderIsLast'
<1>. SUFFICES ASSUME TypeOK, NoSendOnClosedChannel, SenderIsLast, [Next]_vars, stream' = "open"
              PROVE  /\ sender' = "exited" => OutClosed' /\ out' = <<>>
                     /\ main' # "returned"
    BY DEF SenderIsLast
<1>0. stream = "open"
    BY StreamStaysEnded
<1>. USE DEF SenderIsLast, OutClosed
<1>1. CASE Handshake
    BY <1>0, <1>1 DEF Handshake, AwaitConfig, Reconcile, DeclareReady, AwaitReadyAck, Fail, GoTo
<1>2. CASE Loop
    BY <1>0, <1>2 DEF Loop, LoopRecvError, StartDrain, StartDispatch, Cancel, DeliverWsAck, GoTo
<1>3. CASE Shutdown
    BY <1>0, <1>3 DEF Shutdown, DrainFinished, DrainTimeout, CloseOut, CloseTransport, GoTo
<1>4. ASSUME NEW e \in Events, Worker(e)
      PROVE  (sender' = "exited" => OutClosed' /\ out' = <<>>) /\ main' # "returned"
    <2>1. worker[e] \notin {"none", "done"} /\ UNCHANGED <<main, sender>>
        BY <1>4 DEF Worker, WsRegister, WsSend, WsEnqueue, WsAcked, WsGiveUp,
                    HandlerReturns, PutResult, FinishWorker
    <2>. QED
        BY <1>0, <2>1 DEF NoSendOnClosedChannel
<1>5. CASE Sender
    BY <1>0, <1>5 DEF Sender, SenderTake, SenderSend, SenderFails, SenderExit
<1>6. CASE Environment
    BY <1>0, <1>6 DEF Environment, RuntimeAnswers, RuntimeConfig, RuntimeReadyAck, RuntimeWsAck,
        RuntimeDrain, StreamEnds, RuntimeDispatch, RuntimeCancel, DeadlinePasses, RuntimeWsAckAgain
<1>7. CASE Returned \/ UNCHANGED vars
    BY <1>0, <1>7 DEF Returned, vars
<1>. QED
    BY <1>1, <1>2, <1>3, <1>4, <1>5, <1>6, <1>7 DEF Next

(* A stream is closed by CloseTransport alone, and then all is answered.   *)
LEMMA ClosedInductive ==
    IInv /\ OwedInv /\ NoSendOnClosedChannel /\ DrainInv /\ [Next]_vars
        => (stream' = "closed" => dispatched' = answered')
<1>. SUFFICES ASSUME IInv, OwedInv, NoSendOnClosedChannel, DrainInv, [Next]_vars,
                     stream' = "closed"
              PROVE  dispatched' = answered'
    OBVIOUS
<1>1. CASE stream = "closed"
    <2>1. UNCHANGED <<dispatched, answered>>
        <3>1. CASE Handshake \/ Loop \/ Shutdown
            BY <1>1, <3>1 DEF Handshake, AwaitConfig, Reconcile, DeclareReady, AwaitReadyAck,
                Loop, LoopRecvError, StartDrain, StartDispatch, Cancel, DeliverWsAck,
                Shutdown, DrainFinished, DrainTimeout, CloseOut, CloseTransport
        <3>2. ASSUME NEW e \in Events, Worker(e) PROVE UNCHANGED <<dispatched, answered>>
            BY <3>2 DEF Worker, WsRegister, WsSend, WsEnqueue, WsAcked, WsGiveUp, HandlerReturns,
                        PutResult, FinishWorker
        <3>3. CASE Sender
            BY <1>1, <3>3 DEF Sender, SenderTake, SenderSend, SenderFails, SenderExit
        <3>4. CASE Environment
            BY <1>1, <3>4 DEF Environment, RuntimeAnswers, RuntimeConfig, RuntimeReadyAck,
                RuntimeWsAck, RuntimeDrain, StreamEnds, RuntimeDispatch, RuntimeCancel,
                DeadlinePasses, RuntimeWsAckAgain, RuntimePuts
        <3>5. CASE Returned \/ UNCHANGED vars
            BY <3>5 DEF Returned, vars
        <3>. QED
            BY <3>1, <3>2, <3>3, <3>4, <3>5 DEF Next
    <2>. QED
        BY <1>1, <2>1 DEF DrainInv
<1>2. CASE stream # "closed"
    <2>1. CloseTransport /\ stream = "open"
        <3>1. CASE Handshake \/ Loop \/ Shutdown
            BY <1>2, <3>1 DEF Handshake, AwaitConfig, Reconcile, DeclareReady, AwaitReadyAck,
                Loop, LoopRecvError, StartDrain, StartDispatch, Cancel, DeliverWsAck,
                Shutdown, DrainFinished, DrainTimeout, CloseOut, CloseTransport
        <3>2. ASSUME NEW e \in Events, Worker(e) PROVE UNCHANGED stream
            BY <3>2 DEF Worker, WsRegister, WsSend, WsEnqueue, WsAcked, WsGiveUp, HandlerReturns,
                        PutResult, FinishWorker
        <3>3. CASE Sender \/ Environment
            BY <1>2, <3>3 DEF Sender, SenderTake, SenderSend, SenderFails, SenderExit,
                Environment, RuntimeAnswers, RuntimeConfig, RuntimeReadyAck,
                RuntimeWsAck, RuntimeDrain, StreamEnds, RuntimeDispatch, RuntimeCancel,
                DeadlinePasses, RuntimeWsAckAgain, RuntimePuts
        <3>4. CASE Returned \/ UNCHANGED vars
            BY <1>2, <3>4 DEF Returned, vars
        <3>. QED
            BY <1>2, <3>1, <3>2, <3>3, <3>4 DEF Next
    <2>2. main = "waitSender" /\ sender = "exited" /\ UNCHANGED <<dispatched, answered>>
        BY <2>1 DEF CloseTransport
    <2>3. \A e \in Events : ~AtWork(e)
        BY <2>2 DEF NoSendOnClosedChannel, OutClosed, AtWork
    <2>4. \A e \in Events : ~Queued(DispatchFrame(e), in)
        <3>1. \A i \in 1 .. Len(in) : in[i].kind # "dispatch"
            BY <2>1, <2>2 DEF DrainInv, NoDispatchLeft, Drained
        <3>. QED
            BY <3>1, FramesDiffer DEF Queued
    <2>5. \A e \in Events : ~Queued(ResultFrame(e), out)
        BY <2>1, <2>2 DEF DrainInv, SenderIsLast, Queued
    <2>6. \A e \in Events : holding # ResultFrame(e)
        BY <2>2, FramesDiffer DEF IInv, ResultInv
    <2>7. Outstanding = {} /\ answered \subseteq dispatched
        <3>1. Outstanding \subseteq Events /\ answered \subseteq Events
            BY DEF IInv, TypeOK, Outstanding
        <3>2. answered \subseteq dispatched
            BY <3>1 DEF IInv, ResultInv, DispatchInv, PastResult
        <3>. QED
            BY <2>1, <2>3, <2>4, <2>5, <2>6, <3>1, <3>2 DEF OwedInv, OnItsWay
    <2>. QED
        BY <2>2, <2>7 DEF Outstanding
<1>. QED
    BY <1>1, <1>2

(* A stream the client closes itself has delivered every answer: the loop  *)
(* reads a drain behind every dispatch, waits for the workers, and lets    *)
(* the sender empty out before it closes the transport.                    *)
THEOREM DrainLosesNothing == Spec => []ClosedWithEverythingAnswered
<1>1. Init => DrainInv
    BY DEF Init, DrainInv, DrainIsLast, NoDispatchLeft, SenderIsLast
<1>2. IInv /\ ReadyInv /\ OwedInv /\ NoSendOnClosedChannel /\ DrainInv /\ [Next]_vars => DrainInv'
    BY DrainLastInductive, SenderLastInductive, ClosedInductive DEF DrainInv, IInv
<1>3. DrainInv => ClosedWithEverythingAnswered
    BY DEF DrainInv, ClosedWithEverythingAnswered
<1>. QED
    BY <1>1, <1>2, <1>3, OwedThroughout, NeverSendsOnClosed, PTL DEF Spec

-----------------------------------------------------------------------------
(* WebSocket sends and their acknowledgements.                             *)

(* A frame that is a send names its correlation, an acknowledgement the    *)
(* correlation it is for.                                                  *)
LEMMA SendNamesCorrelation ==
    /\ \A f \in ToRuntime : f.kind = "wssend" =>
            f.ref \in Correlations /\ f = WsSendFrame(f.ref) /\ f # NoFrame
    /\ \A f \in FromRuntime : f.kind \in AckKinds =>
            f.ref \in Correlations /\ f = WsAckFrame(f.ref, f.kind)
    /\ \A c : WsSendFrame(c) # NoFrame
    /\ \A c, d : WsSendFrame(c) # ResultFrame(d)
    /\ \A c \in Correlations, v \in AckKinds : WsAckFrame(c, v) \in FromRuntime
<1>1. \A f \in ToRuntime : f.kind = "wssend" =>
            f.ref \in Correlations /\ f = WsSendFrame(f.ref) /\ f # NoFrame
    BY DEF ToRuntime, WsSendFrame, NoFrame
<1>2. \A f \in FromRuntime : f.kind \in AckKinds =>
            f.ref \in Correlations /\ f = WsAckFrame(f.ref, f.kind)
    BY DEF FromRuntime, WsAckFrame, AckKinds
<1>3. /\ \A c : WsSendFrame(c) # NoFrame
      /\ \A c, d : WsSendFrame(c) # ResultFrame(d)
    BY DEF WsSendFrame, NoFrame, ResultFrame
<1>4. \A c \in Correlations, v \in AckKinds : WsAckFrame(c, v) \in FromRuntime
    BY DEF FromRuntime, WsAckFrame
<1>. QED
    BY <1>1, <1>2, <1>3, <1>4

(* A step that is no step of a WebSocket send.                             *)
SendsRest ==
    /\ UNCHANGED <<corrCounter, corr, wsWaiting, acks, outcome, out, holding, wsSeen>>
    /\ \A e \in Events : InSend(e)' => worker'[e] = worker[e]

(* What a step may do to WebSocket sends.                                  *)
SendStep ==
    \/ SendsRest
    \/ \E c \in Correlations, v \in AckKinds : DeliverWsAck(c, v) \/ RuntimeWsAck(c, v)
    \/ \E e \in Events : WsRegister(e) \/ WsEnqueue(e) \/ WsAcked(e) \/ WsGiveUp(e) \/ PutResult(e)
    \/ SenderTake \/ SenderSend \/ SenderFails

(* Every step is one of these.                                             *)
LEMMA SendSteps == IInv /\ ReadyInv /\ [Next]_vars => SendStep
<1>. SUFFICES ASSUME IInv, ReadyInv, [Next]_vars PROVE SendStep
    OBVIOUS
<1>t. worker \in [Events -> WorkerStates]
    BY DEF IInv, TypeOK
<1>1. CASE Handshake
    <2>1. UNCHANGED <<workerVars, out, holding, wsVars, wsSeen>>
        BY <1>1, HandshakeReads
    <2>. QED
        BY <2>1 DEF SendStep, SendsRest
<1>2. ASSUME NEW e \in Events, StartDispatch(e) PROVE SendsRest
    BY <1>2, <1>t DEF StartDispatch, SendsRest, InSend
<1>3. CASE LoopRecvError \/ StartDrain \/ (\E e \in Events : Cancel(e)) \/ Shutdown \/ SenderExit
    BY <1>3 DEF LoopRecvError, StartDrain, Cancel, Shutdown, DrainFinished, DrainTimeout,
                CloseOut, CloseTransport, SenderExit, SendStep, SendsRest
<1>4. ASSUME NEW e \in Events, HandlerReturns(e) \/ FinishWorker(e) PROVE SendsRest
    BY <1>4, <1>t DEF HandlerReturns, FinishWorker, SendsRest, InSend
<1>5. CASE Environment /\ ~\E c \in Correlations, v \in AckKinds : RuntimeWsAck(c, v)
    BY <1>5 DEF Environment, RuntimeAnswers, RuntimeConfig, RuntimeReadyAck, RuntimeDrain,
                StreamEnds, RuntimeDispatch, RuntimeCancel, DeadlinePasses, RuntimeWsAckAgain,
                SendStep, SendsRest
<1>6. CASE Returned \/ UNCHANGED vars
    BY <1>6 DEF Returned, vars, SendStep, SendsRest
<1>. QED
    BY <1>1, <1>2, <1>3, <1>4, <1>5, <1>6
    DEF Next, Loop, Sender, Worker, WsSend, Environment, RuntimeAnswers, SendStep

(* Correlations stay with their sends, and no frame leaves twice.          *)
LEMMA SendInductive ==
    IInv /\ OwnCorrelation /\ SentOnce /\ VerdictOnWire /\ SendStep => OwnCorrelation' /\ SentOnce'
<1>. SUFFICES ASSUME IInv, OwnCorrelation, SentOnce, VerdictOnWire, SendStep
              PROVE  OwnCorrelation' /\ SentOnce'
    OBVIOUS
<1>t. /\ in \in Seq(FromRuntime) /\ out \in Seq(ToRuntime) /\ Len(out) \in Nat
      /\ \A i \in 1 .. Len(out) : out[i] \in ToRuntime
      /\ holding \in ToRuntime \cup {NoFrame}
      /\ worker \in [Events -> WorkerStates] /\ corr \in [Events -> 0 .. MaxSends]
      /\ acks \in [Correlations -> AckKinds \cup {"none"}]
      /\ outcome \in [Correlations -> AckKinds \cup {"none", "gaveup"}]
      /\ wsSeen \in [Correlations -> AckKinds \cup {"none", "sent"}]
      /\ corrCounter \in 0 .. MaxSends /\ MaxSends \in Nat
      /\ Correlations = 1 .. MaxSends
      /\ \A e \in Events : InSend(e) => corr[e] \in Correlations
    BY FramesTyped, MaxSendsNat DEF IInv, TypeOK, CorrInv, InSend, Correlations
<1>n. /\ \A i \in 1 .. Len(out) : out[i].kind = "wssend" => out[i].ref \in Correlations
      /\ holding.kind = "wssend" => holding.ref \in Correlations
    BY <1>t, SendNamesCorrelation, FramesDiffer
<1>1. CASE SendsRest
    BY <1>1 DEF SendsRest, OwnCorrelation, SentOnce, Unused, Sending, InSend
<1>2. ASSUME NEW c \in Correlations, NEW v \in AckKinds, DeliverWsAck(c, v)
      PROVE  OwnCorrelation' /\ SentOnce'
    <2>1. /\ UNCHANGED <<corrCounter, corr, wsWaiting, outcome, out, holding, wsSeen, worker>>
          /\ \A d \in Correlations \ {c} : acks'[d] = acks[d]
        BY <1>2, <1>t DEF DeliverWsAck
    <2>2. wsSeen[c] # "none"
        <3>1. in # <<>> /\ Head(in) = WsAckFrame(c, v)
            BY <1>2 DEF DeliverWsAck, Recv
        <3>2. 1 \in 1 .. Len(in) /\ in[1].kind = v /\ in[1].ref = c
            BY <1>t, <3>1, TailFacts, FramesDiffer
        <3>. QED
            BY <3>2 DEF VerdictOnWire, AckKinds
    <2>3. \A d \in Correlations : Unused(d) => Unused(d)'
        BY <2>1, <2>2 DEF Unused, Sending
    <2>4. OwnCorrelation'
        BY <1>t, <2>1, <2>3 DEF OwnCorrelation, InSend
    <2>. QED
        BY <2>1, <2>4 DEF SentOnce
<1>3. ASSUME NEW c \in Correlations, NEW v \in AckKinds, RuntimeWsAck(c, v)
      PROVE  OwnCorrelation' /\ SentOnce'
    <2>1. /\ UNCHANGED <<corrCounter, corr, wsWaiting, acks, outcome, out, holding, worker>>
          /\ wsSeen[c] = "sent" /\ \A d \in Correlations \ {c} : wsSeen'[d] = wsSeen[d]
        BY <1>3, <1>t DEF RuntimeWsAck
    <2>2. \A d \in Correlations : Unused(d) => Unused(d)'
        BY <2>1 DEF Unused, Sending
    <2>3. OwnCorrelation'
        BY <1>t, <2>1, <2>2 DEF OwnCorrelation, InSend
    <2>4. \A d \in Correlations : wsSeen[d] = "none" => wsSeen'[d] = "none"
        BY <2>1
    <2>. QED
        BY <1>n, <2>1, <2>3, <2>4 DEF SentOnce
<1>4. ASSUME NEW e \in Events, WsRegister(e) PROVE OwnCorrelation' /\ SentOnce'
    <2> DEFINE c == corrCounter + 1
    <2>1. /\ c \in Correlations /\ corrCounter' = c
          /\ wsWaiting' = wsWaiting \cup {c} /\ worker[e] = "invoke"
          /\ corr' = [corr EXCEPT ![e] = c] /\ worker' = [worker EXCEPT ![e] = "wsOut"]
          /\ UNCHANGED <<acks, outcome, out, holding, wsSeen>>
        BY <1>4, <1>t DEF WsRegister
    <2>2. Unused(c) /\ \A d \in Correlations : d > c => Unused(d) /\ outcome[d] = "none"
        BY <1>t, <2>1 DEF OwnCorrelation
    <2>3. \A d : Unused(d)' <=> Unused(d)
        BY <2>1 DEF Unused, Sending
    <2>4. /\ corr'[e] = c /\ worker'[e] = "wsOut" /\ InSend(e)'
          /\ \A d \in Events \ {e} : /\ corr'[d] = corr[d] /\ worker'[d] = worker[d]
                                    /\ InSend(d)' <=> InSend(d)
        BY <1>t, <2>1 DEF InSend
    <2>5. \A d \in Events \ {e} : InSend(d) => corr[d] < c /\ corr[d] \in wsWaiting
        BY <1>t, <2>1 DEF OwnCorrelation
    <2>. HIDE DEF c
    <2>6. OwnCorrelation'
        <3>1. \A d \in Correlations : d > corrCounter' => Unused(d)' /\ outcome'[d] = "none"
            BY <2>1, <2>2, <2>3
        <3>2. \A d \in Events : InSend(d)' => corr'[d] <= corrCounter' /\ corr'[d] \in wsWaiting'
            BY <1>t, <2>1, <2>4, <2>5
        <3>3. \A d, x \in Events : InSend(d)' /\ InSend(x)' /\ corr'[d] = corr'[x] => d = x
            BY <1>t, <2>1, <2>4, <2>5 DEF OwnCorrelation
        <3>4. \A d \in Events : worker'[d] = "wsOut" => Unused(corr[d])'
            <4>1. ASSUME NEW d \in Events, worker'[d] = "wsOut" PROVE Unused(corr[d])'
                <5>1. CASE d = e
                    BY <2>1, <2>2, <2>4, <5>1 DEF Unused, Sending
                <5>2. CASE d # e
                    <6>1. worker[d] = "wsOut" /\ corr'[d] = corr[d]
                        BY <1>t, <2>1, <4>1, <5>2
                    <6>2. Unused(corr[d])
                        BY <6>1 DEF OwnCorrelation
                    <6>. QED
                        BY <2>1, <6>1, <6>2 DEF Unused, Sending
                <5>. QED
                    BY <5>1, <5>2
            <4>. QED
                BY <4>1
        <3>. QED
            BY <3>1, <3>2, <3>3, <3>4 DEF OwnCorrelation
    <2>. QED
        BY <2>1, <2>6 DEF SentOnce
<1>5. ASSUME NEW e \in Events, WsEnqueue(e) PROVE OwnCorrelation' /\ SentOnce'
    <2> DEFINE f == WsSendFrame(corr[e])
    <2>1. /\ worker[e] = "wsOut" /\ worker' = [worker EXCEPT ![e] = "wsAck"]
          /\ out' = Append(out, f)
          /\ UNCHANGED <<corrCounter, corr, wsWaiting, acks, outcome, holding, wsSeen>>
        BY <1>5 DEF WsEnqueue
    <2>2. /\ corr[e] \in Correlations /\ f \in ToRuntime /\ InSend(e)
          /\ f.kind = "wssend" /\ f.ref = corr[e]
        BY <1>t, <2>1, FramesDiffer DEF InSend, WsSendFrame, ToRuntime
    <2>3. Unused(corr[e]) /\ corr[e] <= corrCounter
        BY <2>1, <2>2 DEF OwnCorrelation
    <2>4. \A d \in Correlations \ {corr[e]} : Unused(d) => Unused(d)'
        <3>1. \A d \in Correlations \ {corr[e]} : WsSendFrame(d) # f
            BY <2>2, FramesDiffer
        <3>2. \A d \in Correlations \ {corr[e]} :
                Queued(WsSendFrame(d), out') => Queued(WsSendFrame(d), out)
            <4>. HIDE DEF f
            <4>. QED
                BY <1>t, <2>1, <2>2, <3>1, QueuedInAppend
        <3>. QED
            BY <2>1, <3>2 DEF Unused, Sending
    <2>5. \A d \in Events : /\ worker'[d] = "wsOut" => worker[d] = "wsOut" /\ d # e
                            /\ InSend(d)' <=> InSend(d)
        BY <1>t, <2>1 DEF InSend
    <2>6. OwnCorrelation'
        <3>1. \A d \in Correlations : d > corrCounter' => Unused(d)' /\ outcome'[d] = "none"
            BY <1>t, <2>1, <2>2, <2>3, <2>4 DEF OwnCorrelation
        <3>2. \A d \in Events : InSend(d)' => corr'[d] <= corrCounter' /\ corr'[d] \in wsWaiting'
            BY <2>1, <2>5 DEF OwnCorrelation
        <3>3. \A d, x \in Events : InSend(d)' /\ InSend(x)' /\ corr'[d] = corr'[x] => d = x
            BY <2>1, <2>5 DEF OwnCorrelation
        <3>4. \A d \in Events : worker'[d] = "wsOut" => Unused(corr[d])'
            <4>1. ASSUME NEW d \in Events, worker'[d] = "wsOut"
                  PROVE  Unused(corr[d]) /\ corr[d] \in Correlations /\ corr[d] # corr[e]
                BY <1>t, <2>2, <2>5, <4>1 DEF OwnCorrelation, InSend
            <4>. QED
                BY <2>1, <2>4, <4>1
        <3>. QED
            BY <3>1, <3>2, <3>3, <3>4 DEF OwnCorrelation
    <2>7. /\ Len(out') = Len(out) + 1 /\ out'[Len(out) + 1] = f
          /\ \A i \in 1 .. Len(out) : out'[i] = out[i] /\ out[i] # f
          /\ holding # f /\ wsSeen[f.ref] = "none"
        BY <1>t, <2>1, <2>2, <2>3, AppendFacts DEF Unused, Sending, Queued
    <2>. HIDE DEF f
    <2>8. SentOnce'
        BY <1>t, <2>1, <2>7 DEF SentOnce
    <2>. QED
        BY <2>6, <2>8
<1>6. ASSUME NEW e \in Events, WsAcked(e) \/ WsGiveUp(e) PROVE OwnCorrelation' /\ SentOnce'
    <2>1. /\ InSend(e) /\ worker' = [worker EXCEPT ![e] = "invoke"]
          /\ wsWaiting' = wsWaiting \ {corr[e]}
          /\ \A d \in Correlations \ {corr[e]} : outcome'[d] = outcome[d]
          /\ UNCHANGED <<corrCounter, corr, acks, out, holding, wsSeen>>
        BY <1>6, <1>t DEF WsAcked, WsGiveUp, InSend
    <2>2. \A d \in Events : /\ InSend(d)' => InSend(d) /\ d # e /\ worker'[d] = worker[d]
        BY <1>t, <2>1 DEF InSend
    <2>3. \A d : Unused(d)' <=> Unused(d)
        BY <2>1 DEF Unused, Sending
    <2>4. OwnCorrelation'
        <3>1. \A d \in Correlations : d > corrCounter' => Unused(d)' /\ outcome'[d] = "none"
            BY <1>t, <2>1, <2>3 DEF OwnCorrelation
        <3>2. \A d \in Events : InSend(d)' => corr'[d] <= corrCounter' /\ corr'[d] \in wsWaiting'
            BY <2>1, <2>2 DEF OwnCorrelation
        <3>3. \A d, x \in Events : InSend(d)' /\ InSend(x)' /\ corr'[d] = corr'[x] => d = x
            BY <2>1, <2>2 DEF OwnCorrelation
        <3>4. \A d \in Events : worker'[d] = "wsOut" => Unused(corr[d])'
            BY <2>1, <2>2, <2>3 DEF OwnCorrelation, InSend
        <3>. QED
            BY <3>1, <3>2, <3>3, <3>4 DEF OwnCorrelation
    <2>. QED
        BY <2>1, <2>4 DEF SentOnce
<1>7. ASSUME NEW e \in Events, PutResult(e) PROVE OwnCorrelation' /\ SentOnce'
    <2>1. /\ worker[e] = "result" /\ worker' = [worker EXCEPT ![e] = "deferred"]
          /\ out' = Append(out, ResultFrame(e))
          /\ UNCHANGED <<corrCounter, corr, wsWaiting, acks, outcome, holding, wsSeen>>
        BY <1>7 DEF PutResult
    <2>2. ResultFrame(e) \in ToRuntime /\ ResultFrame(e).kind = "result"
        BY DEF ResultFrame, ToRuntime
    <2>3. \A d : Unused(d) => Unused(d)'
        <3>1. \A d : Queued(WsSendFrame(d), out') => Queued(WsSendFrame(d), out)
            BY <1>t, <2>1, <2>2, QueuedInAppend, SendNamesCorrelation
        <3>. QED
            BY <2>1, <3>1 DEF Unused, Sending
    <2>4. \A d \in Events : InSend(d)' => InSend(d) /\ worker'[d] = worker[d]
        BY <1>t, <2>1 DEF InSend
    <2>5. OwnCorrelation'
        BY <2>1, <2>3, <2>4 DEF OwnCorrelation, InSend
    <2>6. /\ Len(out') = Len(out) + 1 /\ out'[Len(out) + 1] = ResultFrame(e)
          /\ \A i \in 1 .. Len(out) : out'[i] = out[i]
        BY <1>t, <2>1, <2>2, AppendFacts
    <2>7. SentOnce'
        BY <1>t, <2>1, <2>2, <2>6 DEF SentOnce
    <2>. QED
        BY <2>5, <2>7
<1>8. CASE SenderTake
    <2>1. /\ out # <<>> /\ holding' = Head(out) /\ out' = Tail(out)
          /\ UNCHANGED <<corrCounter, corr, wsWaiting, acks, outcome, wsSeen, worker>>
        BY <1>8 DEF SenderTake
    <2>2. /\ Len(out') = Len(out) - 1 /\ 1 \in 1 .. Len(out) /\ holding' = out[1]
          /\ \A i \in 1 .. Len(out') : i + 1 \in 1 .. Len(out) /\ out'[i] = out[i + 1]
        BY <1>t, <2>1, TailFacts
    <2>3. \A d : Sending(d)' => Sending(d)
        BY <1>t, <2>1, <2>2, QueuedInTail DEF Sending, Queued
    <2>4. \A d : Unused(d) => Unused(d)'
        BY <2>1, <2>3 DEF Unused
    <2>5. OwnCorrelation'
        BY <2>1, <2>4 DEF OwnCorrelation, InSend
    <2>6. SentOnce'
        BY <1>t, <2>1, <2>2 DEF SentOnce
    <2>. QED
        BY <2>5, <2>6
<1>9. ASSUME SenderSend \/ SenderFails PROVE OwnCorrelation' /\ SentOnce'
    <2>1. /\ holding' = NoFrame
          /\ UNCHANGED <<corrCounter, corr, wsWaiting, acks, outcome, out, worker>>
        BY <1>9 DEF SenderSend, SenderFails
    <2>2. \A d \in Correlations : wsSeen[d] = "none" => wsSeen'[d] = "none" \/ holding = WsSendFrame(d)
        <3>1. CASE SenderSend /\ holding.kind # "result"
            <4>1. sender = "send" /\ wsSeen' = [wsSeen EXCEPT ![holding.ref] = "sent"]
                BY <3>1 DEF SenderSend
            <4>2. holding \in ToRuntime
                BY <1>t, <4>1 DEF IInv, ResultInv
            <4>3. holding.kind = "wssend"
                BY <3>1, <4>2 DEF ToRuntime
            <4>4. holding = WsSendFrame(holding.ref) /\ holding.ref \in Correlations
                BY <4>2, <4>3, SendNamesCorrelation
            <4>. QED
                BY <1>t, <4>1, <4>4
        <3>2. CASE ~(SenderSend /\ holding.kind # "result")
            BY <1>9, <3>2 DEF SenderSend, SenderFails
        <3>. QED
            BY <3>1, <3>2
    <2>3. \A d \in Correlations : Unused(d) => Unused(d)'
        BY <2>1, <2>2, SendNamesCorrelation DEF Unused, Sending
    <2>4. OwnCorrelation'
        BY <1>t, <2>1, <2>3 DEF OwnCorrelation, InSend
    <2>5. SentOnce'
        <3>1. \A i \in 1 .. Len(out) : out[i].kind = "wssend" =>
                out[i].ref \in Correlations /\ out[i] = WsSendFrame(out[i].ref) /\ out[i] # NoFrame
            BY <1>t, SendNamesCorrelation
        <3>2. NoFrame.kind # "wssend"
            BY DEF NoFrame
        <3>. QED
            BY <2>1, <2>2, <3>1, <3>2 DEF SentOnce
    <2>. QED
        BY <2>4, <2>5
<1>. QED
    BY <1>1, <1>2, <1>3, <1>4, <1>5, <1>6, <1>7, <1>8, <1>9 DEF SendStep

(* A put of a true verdict, or of another frame, keeps verdicts true.      *)
LEMMA VerdictInAppend ==
    ASSUME TypeOK, VerdictOnWire, NEW f \in FromRuntime, in' = Append(in, f),
           f.kind \in AckKinds => wsSeen'[f.ref] = f.kind,
           \A c \in Correlations : wsSeen[c] \in AckKinds => wsSeen'[c] = wsSeen[c]
    PROVE  VerdictOnWire'
<1>1. /\ Len(in) \in Nat /\ Len(in') = Len(in) + 1 /\ in'[Len(in) + 1] = f
      /\ \A i \in 1 .. Len(in) : in'[i] = in[i] /\ in[i] \in FromRuntime
    BY FramesTyped, AppendFacts
<1>2. \A i \in 1 .. Len(in) : in[i].kind \in AckKinds => in[i].ref \in Correlations
    BY <1>1, SendNamesCorrelation
<1>. QED
    BY <1>1, <1>2 DEF VerdictOnWire

(* What a step may do to the acknowledgements on the wire.                 *)
AckStep ==
    \/ UNCHANGED in
    \/ in # <<>> /\ in' = Tail(in) /\ Head(in).kind \notin AckKinds
    \/ \E c \in Correlations, v \in AckKinds : DeliverWsAck(c, v) \/ RuntimeWsAck(c, v)
    \/ \E c \in Correlations : RuntimeWsAckAgain(c)
    \/ \E f \in FromRuntime : f.kind \notin AckKinds /\ in' = Append(in, f)

(* Every step is one of these.                                             *)
LEMMA AckSteps == IInv /\ ReadyInv /\ [Next]_vars => AckStep
<1>. SUFFICES ASSUME IInv, ReadyInv, [Next]_vars PROVE AckStep
    OBVIOUS
<1>t. TypeOK /\ in \in Seq(FromRuntime)
    BY FramesTyped DEF IInv
<1>1. CASE Handshake
    <2>1. UNCHANGED in \/ (in # <<>> /\ in' = Tail(in) /\ in[1].kind \in HandshakeKinds)
        BY <1>1, HandshakeReads
    <2>2. in # <<>> => Head(in) = in[1]
        BY <1>t, TailFacts
    <2>. QED
        BY <2>1, <2>2 DEF AckStep, HandshakeKinds, AckKinds
<1>2. CASE LoopRecvError \/ Shutdown \/ Sender \/ StreamEnds \/ Returned \/ UNCHANGED vars
    BY <1>2 DEF LoopRecvError, Shutdown, DrainFinished, DrainTimeout, CloseOut, CloseTransport,
        Sender, SenderTake, SenderSend, SenderFails, SenderExit, StreamEnds, Returned, vars, AckStep
<1>3. CASE StartDrain
    BY <1>3, FramesDiffer DEF StartDrain, Recv, AckStep, AckKinds
<1>4. ASSUME NEW e \in Events, StartDispatch(e) \/ Cancel(e) PROVE AckStep
    BY <1>4, FramesDiffer DEF StartDispatch, Cancel, Recv, AckStep, AckKinds
<1>5. ASSUME NEW e \in Events, Worker(e) \/ DeadlinePasses(e) PROVE AckStep
    BY <1>5 DEF Worker, WsRegister, WsSend, WsEnqueue, WsAcked, WsGiveUp, HandlerReturns,
                PutResult, FinishWorker, DeadlinePasses, AckStep
<1>6. CASE RuntimeConfig \/ RuntimeReadyAck \/ RuntimeDrain
    <2>1. /\ ConfigFrame \in FromRuntime /\ DrainFrame \in FromRuntime
          /\ ReadyAckFrame("accepted") \in FromRuntime /\ ReadyAckFrame("refused") \in FromRuntime
        BY DEF FromRuntime, ConfigFrame, DrainFrame, ReadyAckFrame
    <2>2. \E f \in FromRuntime : f.kind \notin AckKinds /\ in' = Append(in, f)
        BY <1>6, <2>1, FramesDiffer
        DEF RuntimeConfig, RuntimeReadyAck, RuntimeDrain, RuntimePuts, AckKinds
    <2>. QED
        BY <2>2 DEF AckStep
<1>7. ASSUME NEW e \in Events, RuntimeDispatch(e) \/ RuntimeCancel(e) PROVE AckStep
    <2>1. DispatchFrame(e) \in FromRuntime /\ CancelFrame(e) \in FromRuntime
        BY DEF FromRuntime, DispatchFrame, CancelFrame
    <2>2. \E f \in FromRuntime : f.kind \notin AckKinds /\ in' = Append(in, f)
        BY <1>7, <2>1, FramesDiffer DEF RuntimeDispatch, RuntimeCancel, RuntimePuts, AckKinds
    <2>. QED
        BY <2>2 DEF AckStep
<1>. QED
    BY <1>1, <1>2, <1>3, <1>4, <1>5, <1>6, <1>7
    DEF Next, Loop, Environment, RuntimeAnswers, AckStep

(* A verdict is given once: after that what the runtime saw of a send      *)
(* stays as it is, and nothing turns up as seen before its frame was sent. *)
LEMMA VerdictIsFinal ==
    ASSUME IInv, SentOnce, SendStep, NEW c \in Correlations
    PROVE  \/ wsSeen'[c] = wsSeen[c]
           \/ wsSeen[c] = "none" /\ wsSeen'[c] = "sent"
           \/ \E v \in AckKinds : RuntimeWsAck(c, v) /\ wsSeen[c] = "sent" /\ wsSeen'[c] = v
<1>t. /\ wsSeen \in [Correlations -> AckKinds \cup {"none", "sent"}]
      /\ holding \in ToRuntime \cup {NoFrame}
    BY DEF IInv, TypeOK
<1>1. CASE SendsRest \/ SenderTake \/ SenderFails
    BY <1>1 DEF SendsRest, SenderTake, SenderFails
<1>2. ASSUME NEW d \in Correlations, NEW v \in AckKinds, DeliverWsAck(d, v)
      PROVE  wsSeen' = wsSeen
    BY <1>2 DEF DeliverWsAck
<1>3. ASSUME NEW d \in Correlations, NEW v \in AckKinds, RuntimeWsAck(d, v)
      PROVE  \/ wsSeen'[c] = wsSeen[c]
             \/ RuntimeWsAck(c, v) /\ wsSeen[c] = "sent" /\ wsSeen'[c] = v
    <2>1. wsSeen[d] = "sent" /\ wsSeen' = [wsSeen EXCEPT ![d] = v]
        BY <1>3 DEF RuntimeWsAck
    <2>2. CASE c = d
        BY <1>3, <1>t, <2>1, <2>2
    <2>3. CASE c # d
        BY <1>t, <2>1, <2>3
    <2>. QED
        BY <2>2, <2>3
<1>4. ASSUME NEW e \in Events,
             WsRegister(e) \/ WsEnqueue(e) \/ WsAcked(e) \/ WsGiveUp(e) \/ PutResult(e)
      PROVE  wsSeen' = wsSeen
    BY <1>4 DEF WsRegister, WsEnqueue, WsAcked, WsGiveUp, PutResult
<1>5. CASE SenderSend
    <2>1. CASE holding.kind = "result"
        BY <1>5, <2>1 DEF SenderSend
    <2>2. CASE holding.kind # "result"
        <3>1. sender = "send" /\ wsSeen' = [wsSeen EXCEPT ![holding.ref] = "sent"]
            BY <1>5, <2>2 DEF SenderSend
        <3>2. holding \in ToRuntime
            BY <1>t, <3>1 DEF IInv, ResultInv
        <3>3. holding.kind = "wssend"
            BY <2>2, <3>2 DEF ToRuntime
        <3>4. wsSeen[holding.ref] = "none"
            BY <3>3 DEF SentOnce
        <3>. QED
            BY <1>t, <3>1, <3>4
    <2>. QED
        BY <2>1, <2>2
<1>. QED
    BY <1>1, <1>2, <1>3, <1>4, <1>5 DEF SendStep

(* Every action keeps verdicts true and on their way.                      *)
LEMMA VerdictInductive ==
    /\ IInv /\ OwnCorrelation /\ SentOnce /\ VerdictInv
    /\ SendStep /\ AckStep
    => VerdictInv'
<1>. SUFFICES ASSUME IInv, OwnCorrelation, SentOnce, VerdictInv, SendStep, AckStep
              PROVE  VerdictInv'
    OBVIOUS
<1>t. /\ TypeOK /\ in \in Seq(FromRuntime) /\ Len(in) \in Nat
      /\ worker \in [Events -> WorkerStates]
      /\ acks \in [Correlations -> AckKinds \cup {"none"}]
      /\ outcome \in [Correlations -> AckKinds \cup {"none", "gaveup"}]
      /\ wsSeen \in [Correlations -> AckKinds \cup {"none", "sent"}]
      /\ corr \in [Events -> 0 .. MaxSends]
      /\ \A e \in Events : InSend(e) => corr[e] \in Correlations
      /\ VerdictOnWire
    BY FramesTyped DEF IInv, TypeOK, CorrInv, InSend, VerdictInv
<1>k. "none" \notin AckKinds /\ "sent" \notin AckKinds /\ "gaveup" \notin AckKinds
    BY DEF AckKinds
<1>f. \A c \in Correlations : wsSeen[c] \in AckKinds => wsSeen'[c] = wsSeen[c]
    BY <1>k, VerdictIsFinal
<1>1. VerdictOnWire'
    <2>1. CASE UNCHANGED in
        <3>1. \A i \in 1 .. Len(in) : in[i].kind \in AckKinds => in[i].ref \in Correlations
            BY <1>t, FramesTyped, SendNamesCorrelation
        <3>. QED
            BY <1>t, <1>f, <2>1, <3>1 DEF VerdictOnWire
    <2>2. CASE in # <<>> /\ in' = Tail(in)
        <3>1. \A i \in 1 .. Len(in') : i + 1 \in 1 .. Len(in) /\ in'[i] = in[i + 1]
            BY <1>t, <2>2, TailFacts
        <3>2. \A i \in 1 .. Len(in) : in[i].kind \in AckKinds => in[i].ref \in Correlations
            BY <1>t, FramesTyped, SendNamesCorrelation
        <3>. QED
            BY <1>t, <1>f, <3>1, <3>2 DEF VerdictOnWire
    <2>3. ASSUME NEW c \in Correlations, NEW v \in AckKinds, RuntimeWsAck(c, v)
          PROVE  VerdictOnWire'
        <3>1. /\ WsAckFrame(c, v) \in FromRuntime /\ in' = Append(in, WsAckFrame(c, v))
              /\ WsAckFrame(c, v).ref = c /\ WsAckFrame(c, v).kind = v /\ wsSeen'[c] = v
            BY <1>t, <2>3, SendNamesCorrelation, FramesDiffer DEF RuntimeWsAck, RuntimePuts
        <3>. QED
            BY <1>t, <1>f, <3>1, VerdictInAppend
    <2>4. ASSUME NEW c \in Correlations, RuntimeWsAckAgain(c) PROVE VerdictOnWire'
        <3>1. /\ wsSeen[c] \in AckKinds /\ in' = Append(in, WsAckFrame(c, wsSeen[c]))
              /\ wsSeen' = wsSeen
            BY <2>4 DEF RuntimeWsAckAgain, RuntimePuts
        <3>2. /\ WsAckFrame(c, wsSeen[c]) \in FromRuntime
              /\ WsAckFrame(c, wsSeen[c]).ref = c /\ WsAckFrame(c, wsSeen[c]).kind = wsSeen[c]
            BY <3>1, SendNamesCorrelation, FramesDiffer
        <3>. QED
            BY <1>t, <1>f, <3>1, <3>2, VerdictInAppend
    <2>5. ASSUME NEW f \in FromRuntime, f.kind \notin AckKinds, in' = Append(in, f)
          PROVE  VerdictOnWire'
        BY <1>t, <1>f, <2>5, VerdictInAppend
    <2>6. ASSUME NEW c \in Correlations, NEW v \in AckKinds, DeliverWsAck(c, v)
          PROVE  in # <<>> /\ in' = Tail(in)
        BY <2>6 DEF DeliverWsAck, Recv
    <2>. QED
        BY <2>1, <2>2, <2>3, <2>4, <2>5, <2>6 DEF AckStep
<1>2. \A c \in Correlations : acks'[c] # "none" => acks'[c] = wsSeen'[c]
    <2>1. ASSUME NEW c \in Correlations, NEW v \in AckKinds, DeliverWsAck(c, v)
          PROVE  wsSeen[c] = v /\ wsSeen' = wsSeen
        <3>1. in # <<>> /\ Head(in) = WsAckFrame(c, v) /\ wsSeen' = wsSeen
            BY <2>1 DEF DeliverWsAck, Recv
        <3>2. 1 \in 1 .. Len(in) /\ in[1].kind = v /\ in[1].ref = c
            BY <1>t, <3>1, TailFacts, FramesDiffer
        <3>. QED
            BY <1>t, <3>1, <3>2 DEF VerdictOnWire
    <2>2. ASSUME NEW c \in Correlations, NEW v \in AckKinds, DeliverWsAck(c, v)
          PROVE  \A d \in Correlations : acks'[d] # "none" => acks'[d] = wsSeen'[d]
        <3>1. \A d \in Correlations : acks'[d] = acks[d] \/ (d = c /\ acks'[d] = v)
            BY <1>t, <2>2 DEF DeliverWsAck
        <3>. QED
            BY <2>1, <2>2, <3>1 DEF VerdictInv
    <2>3. CASE ~\E c \in Correlations, v \in AckKinds : DeliverWsAck(c, v)
        <3>1. acks' = acks
            BY <2>3 DEF SendStep, SendsRest, RuntimeWsAck, WsRegister, WsEnqueue, WsAcked,
                        WsGiveUp, PutResult, SenderTake, SenderSend, SenderFails
        <3>2. \A c \in Correlations : acks[c] # "none" => acks[c] \in AckKinds /\ acks[c] = wsSeen[c]
            BY <1>t DEF VerdictInv
        <3>. QED
            BY <1>f, <3>1, <3>2
    <2>. QED
        BY <2>2, <2>3
<1>3. AckMatchesSend'
    <2>1. ASSUME NEW c \in Correlations, outcome'[c] \in AckKinds PROVE wsSeen'[c] = outcome'[c]
        <3>1. CASE \E e \in Events : WsAcked(e)
            <4>1. PICK e \in Events : WsAcked(e)
                BY <3>1
            <4>2. /\ worker[e] = "wsAck" /\ acks[corr[e]] # "none" /\ wsSeen' = wsSeen
                  /\ outcome' = [outcome EXCEPT ![corr[e]] = acks[corr[e]]]
                BY <4>1 DEF WsAcked
            <4>3. corr[e] \in Correlations
                BY <1>t, <4>2 DEF InSend
            <4>4. CASE c = corr[e]
                BY <1>t, <4>2, <4>3, <4>4 DEF VerdictInv
            <4>5. CASE c # corr[e]
                BY <1>t, <2>1, <4>2, <4>5 DEF VerdictInv, AckMatchesSend
            <4>. QED
                BY <4>4, <4>5
        <3>2. CASE ~\E e \in Events : WsAcked(e)
            <4>1. outcome'[c] = outcome[c]
                <5>1. CASE \E e \in Events : WsGiveUp(e)
                    <6>1. PICK e \in Events : WsGiveUp(e)
                        BY <5>1
                    <6>2. outcome' = [outcome EXCEPT ![corr[e]] = "gaveup"]
                        BY <6>1 DEF WsGiveUp
                    <6>. QED
                        BY <1>t, <1>k, <2>1, <6>2
                <5>2. CASE ~\E e \in Events : WsGiveUp(e)
                    BY <3>2, <5>2 DEF SendStep, SendsRest, DeliverWsAck, RuntimeWsAck, WsRegister,
                        WsEnqueue, PutResult, SenderTake, SenderSend, SenderFails
                <5>. QED
                    BY <5>1, <5>2
            <4>2. wsSeen[c] = outcome[c]
                BY <2>1, <4>1 DEF VerdictInv, AckMatchesSend
            <4>. QED
                BY <1>f, <2>1, <4>1, <4>2
        <3>. QED
            BY <3>1, <3>2
    <2>. QED
        BY <2>1 DEF AckMatchesSend
<1>4. AckNotLost'
    <2>. SUFFICES ASSUME NEW e \in Events, worker'[e] = "wsAck", wsSeen'[corr'[e]] \in AckKinds
                  PROVE  \/ acks'[corr'[e]] # "none"
                         \/ Queued(WsAckFrame(corr'[e], wsSeen'[corr'[e]]), in')
        BY DEF AckNotLost
    <2>1. corr'[e] = corr[e] /\ InSend(e) /\ (worker[e] = "wsAck" \/ Unused(corr[e]))
        <3>1. CASE SendsRest
            BY <3>1 DEF SendsRest, InSend
        <3>2. CASE \E d \in Events : WsEnqueue(d)
            BY <1>t, <3>2 DEF WsEnqueue, InSend, OwnCorrelation
        <3>3. ASSUME NEW d \in Events, WsRegister(d) \/ WsAcked(d) \/ WsGiveUp(d) \/ PutResult(d)
              PROVE  corr'[e] = corr[e] /\ worker[e] = "wsAck"
            BY <1>t, <3>3 DEF WsRegister, WsAcked, WsGiveUp, PutResult
        <3>4. CASE \/ \E c \in Correlations, v \in AckKinds : DeliverWsAck(c, v) \/ RuntimeWsAck(c, v)
                   \/ SenderTake \/ SenderSend \/ SenderFails
            BY <3>4 DEF DeliverWsAck, RuntimeWsAck, SenderTake, SenderSend, SenderFails, InSend
        <3>. QED
            BY <3>1, <3>2, <3>3, <3>4 DEF SendStep, InSend
    <2> DEFINE c == corr[e]
               v == wsSeen'[c]
    <2>2. c \in Correlations /\ v \in AckKinds /\ corr'[e] = c
        BY <1>t, <2>1
    <2>. SUFFICES acks'[c] # "none" \/ Queued(WsAckFrame(c, v), in')
        BY <2>2
    <2>3. CASE \E w \in AckKinds : RuntimeWsAck(c, w)
        <3>1. PICK w \in AckKinds : RuntimeWsAck(c, w)
            BY <2>3
        <3>2. v = w /\ in' = Append(in, WsAckFrame(c, w)) /\ WsAckFrame(c, w) \in FromRuntime
            BY <1>t, <2>2, <3>1, SendNamesCorrelation DEF RuntimeWsAck, RuntimePuts
        <3>. QED
            BY <1>t, <3>2, QueuedInAppend
    <2>4. CASE ~\E w \in AckKinds : RuntimeWsAck(c, w)
        <3>1. wsSeen[c] = v
            BY <1>k, <2>2, <2>4, VerdictIsFinal
        <3>2. worker[e] = "wsAck"
            BY <1>k, <2>1, <2>2, <3>1 DEF Unused
        <3>3. acks[c] # "none" \/ Queued(WsAckFrame(c, v), in)
            BY <2>2, <3>1, <3>2 DEF VerdictInv, AckNotLost
        <3>4. c \in wsWaiting
            BY <2>1 DEF OwnCorrelation
        <3>. HIDE DEF v
        <3>5. acks[c] # "none" => acks'[c] # "none"
            <4>1. \A d \in Correlations, w \in AckKinds : DeliverWsAck(d, w) =>
                    acks'[c] = acks[c] \/ acks'[c] \in AckKinds
                BY <1>t, <2>2 DEF DeliverWsAck
            <4>2. CASE ~\E d \in Correlations, w \in AckKinds : DeliverWsAck(d, w)
                BY <4>2 DEF SendStep, SendsRest, RuntimeWsAck, WsRegister, WsEnqueue, WsAcked,
                            WsGiveUp, PutResult, SenderTake, SenderSend, SenderFails
            <4>. QED
                BY <1>k, <4>1, <4>2
        <3>6. Queued(WsAckFrame(c, v), in) => acks'[c] # "none" \/ Queued(WsAckFrame(c, v), in')
            <4>1. CASE UNCHANGED in
                BY <4>1
            <4>2. CASE in # <<>> /\ in' = Tail(in) /\ Head(in).kind \notin AckKinds
                <5>1. WsAckFrame(c, v) # Head(in)
                    BY <2>2, <4>2, FramesDiffer
                <5>. QED
                    BY <1>t, <4>2, <5>1, QueuedInTail
            <4>3. ASSUME NEW d \in Correlations, NEW w \in AckKinds, DeliverWsAck(d, w)
                  PROVE  Queued(WsAckFrame(c, v), in) =>
                            acks'[c] # "none" \/ Queued(WsAckFrame(c, v), in')
                <5>1. in # <<>> /\ Head(in) = WsAckFrame(d, w) /\ in' = Tail(in)
                    BY <4>3 DEF DeliverWsAck, Recv
                <5>2. CASE d = c
                    BY <1>k, <1>t, <2>2, <3>4, <4>3, <5>2 DEF DeliverWsAck
                <5>3. CASE d # c
                    <6>1. WsAckFrame(c, v) # Head(in)
                        BY <5>1, <5>3, FramesDiffer
                    <6>. QED
                        BY <1>t, <5>1, <6>1, QueuedInTail
                <5>. QED
                    BY <5>2, <5>3
            <4>4. ASSUME NEW f \in FromRuntime, in' = Append(in, f)
                  PROVE  Queued(WsAckFrame(c, v), in) => Queued(WsAckFrame(c, v), in')
                BY <1>t, <4>4, QueuedInAppend
            <4>5. ASSUME NEW d \in Correlations, NEW w \in AckKinds, RuntimeWsAck(d, w)
                  PROVE  \E f \in FromRuntime : in' = Append(in, f)
                BY <4>5, SendNamesCorrelation DEF RuntimeWsAck, RuntimePuts
            <4>6. ASSUME NEW d \in Correlations, RuntimeWsAckAgain(d)
                  PROVE  \E f \in FromRuntime : in' = Append(in, f)
                BY <4>6, SendNamesCorrelation DEF RuntimeWsAckAgain, RuntimePuts
            <4>. QED
                BY <4>1, <4>2, <4>3, <4>4, <4>5, <4>6 DEF AckStep
        <3>. QED
            BY <3>3, <3>5, <3>6
    <2>. QED
        BY <2>3, <2>4
<1>. QED
    BY <1>1, <1>2, <1>3, <1>4 DEF VerdictInv

(* Correlations and verdicts, throughout.                                  *)
LEMMA VerdictThroughout == Spec => []VerdictInv
<1>1. Init => OwnCorrelation /\ SentOnce /\ VerdictInv
    <2>. SUFFICES ASSUME Init PROVE OwnCorrelation /\ SentOnce /\ VerdictInv
        OBVIOUS
    <2>1. \A c \in Correlations : Unused(c)
        BY SendNamesCorrelation DEF Init, Unused, Sending, Queued
    <2>2. OwnCorrelation /\ SentOnce
        BY <2>1, FramesDiffer DEF Init, OwnCorrelation, SentOnce, InSend
    <2>3. VerdictInv
        BY DEF Init, VerdictInv, VerdictOnWire, AckMatchesSend, AckNotLost, AckKinds
    <2>. QED
        BY <2>2, <2>3
<1>2. VerdictInv => VerdictOnWire
    BY DEF VerdictInv
<1>. QED
    BY <1>1, <1>2, SendSteps, AckSteps, SendInductive, VerdictInductive, OwedThroughout, PTL
    DEF Spec

(* A send that returned was told about its own frame: what it reports is   *)
(* the runtime's verdict on that correlation and no other, although acks   *)
(* arrive late, twice, or after the caller gave up.                        *)
THEOREM AcksMatchSends == Spec => []AckMatchesSend
<1>1. VerdictInv => AckMatchesSend
    BY DEF VerdictInv
<1>. QED
    BY <1>1, VerdictThroughout, PTL

(* No acknowledgement is lost: while a send waits for a verdict the        *)
(* runtime has given, the verdict is on the wire or already in its         *)
(* channel.                                                                *)
THEOREM AcksAreNotLost == Spec => []AckNotLost
<1>1. VerdictInv => AckNotLost
    BY DEF VerdictInv
<1>. QED
    BY <1>1, VerdictThroughout, PTL

=============================================================================
