---------------------------- MODULE CreditWindow ----------------------------
(***************************************************************************)
(* What the handler stream promises the runtime, without any of the        *)
(* goroutines, channels and frames that keep the promise.                  *)
(*                                                                         *)
(* A handler process opens a window of Concurrency credits (client.go,     *)
(* declareReady).  The runtime spends one credit per event it dispatches,  *)
(* and every result it gets back returns exactly one (loop.go,             *)
(* startDispatch: CreditGrant: 1).  An event is answered at most once, and *)
(* only if it was dispatched.                                              *)
(***************************************************************************)
EXTENDS Naturals

CONSTANTS
    Events,       \* the events the runtime may dispatch on this stream
    Concurrency   \* the worker pool size, declared as the initial credit

VARIABLES
    credit,       \* the credit the runtime has left to spend
    opened,       \* 0 until the window is declared, then Concurrency
    dispatched,   \* events the runtime has dispatched
    answered      \* events whose result the runtime has received

wvars == <<credit, opened, dispatched, answered>>

Outstanding == dispatched \ answered

WInit ==
    /\ credit = 0
    /\ opened = 0
    /\ dispatched = {}
    /\ answered = {}

Open ==
    /\ opened = 0
    /\ opened' = Concurrency
    /\ credit' = Concurrency
    /\ UNCHANGED <<dispatched, answered>>

Dispatch(e) ==
    /\ credit > 0
    /\ e \in Events \ dispatched
    /\ credit' = credit - 1
    /\ dispatched' = dispatched \cup {e}
    /\ UNCHANGED <<opened, answered>>

Answer(e) ==
    /\ e \in Outstanding
    /\ credit' = credit + 1
    /\ answered' = answered \cup {e}
    /\ UNCHANGED <<opened, dispatched>>

WNext == Open \/ \E e \in Events : Dispatch(e) \/ Answer(e)

WSpec == WInit /\ [][WNext]_wvars

(* Every event the runtime has dispatched is answered in the end: the      *)
(* promise of a stream that stays up.                                      *)
WFairSpec == WSpec /\ \A e \in Events : WF_wvars(Answer(e))

=============================================================================
