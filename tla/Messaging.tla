----------------------------- MODULE Messaging ------------------------------
(***************************************************************************)
(* Queues and topics: SQS and SNS (resources/aws), the Redis stream and    *)
(* channel of a development session (resources/local/redis), and the       *)
(* in-memory doubles of celeritytest.  Handlers send single messages and   *)
(* batches; a batch is cut into requests of a limited size, a request can  *)
(* fail before the service takes it, be taken and its answer lost, be      *)
(* taken twice, be refused in part or be answered for an entry nobody      *)
(* sent, and callers send again what came back unsent.                     *)
(*                                                                         *)
(* The code for a topic is the code for a queue on other types, so the     *)
(* two share the steps below and differ in what they write of a message.   *)
(***************************************************************************)
EXTENDS Integers, Sequences, SequencesExt, FiniteSets, FiniteSetsExt

CONSTANTS
    Senders,         \* the invocations that send
    Batches,         \* per sender: the batches of entries it may send
    Singles,         \* the entries sent alone
    MaxBatchEntries, \* maxBatchEntries
    Backends,        \* the services a behaviour may run on
    MaxRetries,      \* bound: times a caller sends again what came back unsent
    MaxFaults,       \* bound: requests that do not go as they should
    MaxResets        \* bound: times a test forgets what was sent

ASSUME MessagingAssumption ==
    /\ MaxBatchEntries \in Nat \ {0}
    /\ MaxRetries \in Nat /\ MaxFaults \in Nat /\ MaxResets \in Nat
    /\ \A s \in Senders : <<>> \notin Batches[s]

\* A backend is [impl, topic, fifo]: impl "aws" is SQS or SNS, "redis" a stream
\* or a channel, "double" celeritytest.  An entry is [id, n, text, options]: the
\* caller's name for it, its body, whether the body is text, and the delay,
\* group, deduplication id and subject asked for.
Unset == ""

VARIABLES
    backend,    \* the service this behaviour runs on
    endpoint,   \* the session's one client: unopened | open | broken | closed
    held,       \* what the service took, in the order it took it
    ids,        \* messages named so far
    call,       \* per sender: the send under way
    refusal,    \* whether a test arranged for the double to refuse
    faults,     \* faults so far
    resets      \* times a test forgot what was sent

vars == <<backend, endpoint, held, ids, call, refusal, faults, resets>>

-----------------------------------------------------------------------------
(* What is written of a message                                            *)

\* A delay is given in tenths of a second here; SQS takes whole ones.
DelaySeconds(options) == IF options.delay <= 0 THEN 0 ELSE options.delay \div 10

Written(e, form) ==
    [n |-> e.n, form |-> form, delay |-> 0, group |-> Unset, dedup |-> Unset, subject |-> Unset]

\* Mutant: group and deduplication identifiers are swapped.
ApplyFIFO_Swapped(options, w) ==
    [w EXCEPT !.group = options.dedup, !.dedup = options.group]

\* Each is set only when the caller gave it.
ApplyFIFO(options, w) == [w EXCEPT !.group = options.group, !.dedup = options.dedup]

BatchEntries(e) ==
    [ApplyFIFO(e.options, Written(e, "body")) EXCEPT !.delay = DelaySeconds(e.options)]

PublishEntries(e) ==
    [ApplyFIFO(e.options, Written(e, "body")) EXCEPT !.subject = e.options.subject]

\* A stream's field is a string, so a body that is not text is encoded and
\* marked; a delay is not written.
StreamFields(e) == ApplyFIFO(e.options, Written(e, IF e.text THEN "text" ELSE "base64"))

\* A channel's payload has nowhere to mark a body, or to carry the FIFO fields.
Envelope(e) == [Written(e, "text") EXCEPT !.subject = e.options.subject]
EnvelopeOK(e) == e.text

Recorded(e) ==
    [ApplyFIFO(e.options, Written(e, "body")) EXCEPT
        !.delay = e.options.delay, !.subject = e.options.subject]

Converted(e) ==
    CASE backend.impl = "aws"   -> IF backend.topic THEN PublishEntries(e) ELSE BatchEntries(e)
      [] backend.impl = "redis" -> IF backend.topic THEN Envelope(e) ELSE StreamFields(e)
      [] OTHER                  -> Recorded(e)

-----------------------------------------------------------------------------
(* The service                                                             *)

\* What a request leaves behind of the entries the service did not refuse: each
\* is named and kept, except that a FIFO queue or topic takes a message it has
\* already taken without keeping it again.
Known(q, w) == {i \in DOMAIN q : backend.fifo /\ w.dedup # Unset /\ q[i].w.dedup = w.dedup}

Take(state, e) ==
    LET w == Converted(e)
    IN  IF Known(state.q, w) # {} THEN
           [state EXCEPT !.names = Append(@, state.q[CHOOSE i \in Known(state.q, w) : TRUE].mid)]
        ELSE [q     |-> Append(state.q, [mid |-> state.ids + 1, w |-> w]),
              ids   |-> state.ids + 1,
              names |-> Append(state.names, state.ids + 1)]

Taken(entries) ==
    FoldLeft(Take, [q |-> held, ids |-> ids, names |-> <<>>], entries)

\* The entries of a request at some of its places, in order.
AtPlaces(entries, places) ==
    LET order == SetToSortSeq(places, LAMBDA i, j : i < j)
    IN  [k \in DOMAIN order |-> entries[order[k]]]

\* taken: answered for.  lost: taken and not answered for.  twice: sent again by
\* the client underneath, and taken both times.  stranger: taken and answered
\* for an entry that was not sent.
Outcomes == {"taken", "failed", "lost", "twice", "stranger"}

Fault(outcome, refused) ==
    LET fault == (outcome # "taken" \/ refused # {}) /\ endpoint # "closed"
    IN  /\ fault => faults < MaxFaults /\ backend.impl # "double"
        /\ endpoint = "closed" => outcome = "failed"
        /\ outcome = "stranger" => backend.impl = "aws"
        /\ faults' = IF fault THEN faults + 1 ELSE faults

Arrives(entries, outcome) ==
    CASE outcome = "failed" -> Taken(<<>>)
      [] outcome = "twice"  -> LET both == Taken(entries \o entries)
                               IN  [both EXCEPT !.names = SubSeq(@, Len(entries) + 1, Len(@))]
      [] OTHER              -> Taken(entries)

-----------------------------------------------------------------------------
(* A send under way                                                        *)

NoCall == [entries |-> <<>>, next |-> 1, open |-> FALSE, successful |-> <<>>,
           failed |-> <<>>, unsent |-> <<>>, error |-> FALSE, retries |-> 0, whole |-> TRUE]

IdsOf(entries) == [i \in DOMAIN entries |-> entries[i].id]

\* Mutant: only the requests not begun count as not sent.
Unsent_Rest(entries, next) ==
    IdsOf(SubSeq(entries, Min({next + MaxBatchEntries, Len(entries) + 1}), Len(entries)))

\* Everything from the request that failed on, its own entries included.
Unsent(entries, next) == IdsOf(SubSeq(entries, next, Len(entries)))

\* Whether the session's client can be used, and the client a first use leaves.
Opened == IF endpoint = "unopened" THEN {"open", "broken"} ELSE {endpoint}

\* resolve: a reference that cannot be read leaves the session's client as it
\* was, and an endpoint that is not a URL leaves it broken.
Resolves(outcome) ==
    \/ /\ backend.impl = "redis" /\ endpoint' \in Opened /\ UNCHANGED faults
       /\ outcome = IF endpoint' = "broken" THEN "failed" ELSE "taken"
    \/ /\ backend.impl # "double" /\ outcome = "failed" /\ UNCHANGED endpoint
       /\ faults < MaxFaults /\ faults' = faults + 1
    \/ backend.impl # "redis" /\ outcome = "taken" /\ UNCHANGED <<endpoint, faults>>

\* A batch begins; one that cannot be resolved sends nothing, and neither does
\* one holding a payload a channel cannot carry.
Begin(s, entries, retries, whole, outcome) ==
    LET refused == backend.impl = "redis" /\ backend.topic
                     /\ \E i \in DOMAIN entries : ~EnvelopeOK(entries[i])
        goes    == outcome = "taken" /\ ~refused
    IN  /\ outcome \in {"taken", "failed"} /\ Resolves(outcome)
        /\ call' = [call EXCEPT ![s] = [NoCall EXCEPT
              !.entries = entries, !.open = goes, !.error = ~goes,
              !.unsent = IF goes THEN <<>> ELSE IdsOf(entries),
              !.retries = retries, !.whole = whole]]
        /\ UNCHANGED <<backend, held, ids, refusal, resets>>

SendBatch(s, entries, outcome) ==
    ~backend.topic /\ call[s] = NoCall /\ Begin(s, entries, 0, TRUE, outcome)

PublishBatch(s, entries, outcome) ==
    backend.topic /\ call[s] = NoCall /\ Begin(s, entries, 0, TRUE, outcome)

Chunk(here) ==
    SubSeq(here.entries, here.next,
           Min({here.next + (IF backend.impl = "aws" THEN MaxBatchEntries ELSE Len(here.entries)) - 1,
                Len(here.entries)}))

\* An answer names an entry by its place in the request.
IndexOf(chunk, place) == place

\* The answers of a request that completed, in the order the service gives them.
Answers(chunk, refused, names) ==
    LET took == SetToSortSeq(DOMAIN chunk \ refused, LAMBDA i, j : i < j)
    IN  [successful |-> [k \in DOMAIN took |->
            [id |-> chunk[IndexOf(chunk, took[k])].id, mid |-> names[k]]],
         failed |-> IdsOf(AtPlaces(chunk, {IndexOf(chunk, i) : i \in refused}))]

\* Mutant: the entries after a failed request are sent all the same.
AfterFailure_GoesOn(here, chunk) ==
    [here EXCEPT !.next = @ + Len(chunk), !.open = here.next + Len(chunk) <= Len(here.entries),
                 !.error = TRUE, !.unsent = @ \o IdsOf(chunk)]

\* The batch stops at the first request that fails.
AfterFailure(here, chunk) ==
    [here EXCEPT !.open = FALSE, !.error = TRUE, !.unsent = Unsent(here.entries, here.next)]

\* One request of a batch, all of it where there is no ceiling.
Request(s, outcome, refused) ==
    LET here  == call[s]
        chunk == Chunk(here)
        after == Arrives(AtPlaces(chunk, DOMAIN chunk \ refused), outcome)
        told  == Answers(chunk, refused, after.names)
    IN  /\ here.open
        /\ refused \subseteq DOMAIN chunk /\ (refused # {} => outcome \in {"taken", "lost"})
        /\ Fault(outcome, refused)
        /\ held' = after.q /\ ids' = after.ids
        /\ call' = [call EXCEPT ![s] =
             IF outcome \in {"taken", "twice"}
             THEN [here EXCEPT !.next = @ + Len(chunk),
                               !.open = here.next + Len(chunk) <= Len(here.entries),
                               !.successful = @ \o told.successful,
                               !.failed = @ \o told.failed,
                               !.whole = @ /\ refused = {}]
             ELSE [AfterFailure(here, chunk) EXCEPT !.whole = @ /\ refused = {}]]
        /\ UNCHANGED <<backend, endpoint, refusal, resets>>

SendChunk(s, outcome, refused) ==
    backend.impl = "aws" /\ ~backend.topic /\ Request(s, outcome, refused)
PublishChunk(s, outcome, refused) ==
    backend.impl = "aws" /\ backend.topic /\ Request(s, outcome, refused)

\* The pipeline of a session: applied or not, each command with its own answer.
StreamExec(s, outcome, refused) ==
    backend.impl = "redis" /\ ~backend.topic /\ Request(s, outcome, refused)
ChannelExec(s, outcome, refused) ==
    backend.impl = "redis" /\ backend.topic /\ Request(s, outcome, refused)

\* A refusal a test arranged fires once, and leaves the whole batch unsent.
Double(s) ==
    LET here  == call[s]
        after == Arrives(here.entries, "taken")
    IN  /\ backend.impl = "double" /\ here.open
        /\ refusal' = FALSE
        /\ IF refusal
           THEN call' = [call EXCEPT ![s] = AfterFailure(here, here.entries)] /\ UNCHANGED <<held, ids>>
           ELSE /\ held' = after.q /\ ids' = after.ids
                /\ call' = [call EXCEPT ![s] = [here EXCEPT !.open = FALSE,
                      !.successful = Answers(here.entries, {}, after.names).successful]]
        /\ UNCHANGED <<backend, endpoint, faults, resets>>

DoubleSend(s)    == ~backend.topic /\ Double(s)
DoublePublish(s) == backend.topic /\ Double(s)

-----------------------------------------------------------------------------
(* One message                                                             *)

\* Bound: an entry is sent alone until the service holds it.
Unheld(e) == \A i \in DOMAIN held : held[i].w.n # e.n

\* The reference resolves and the one request is made; nothing is retried.
One(e, outcome) ==
    LET carried == backend.impl = "redis" /\ backend.topic => EnvelopeOK(e)
        after   == Arrives(IF carried THEN <<e>> ELSE <<>>, outcome)
    IN  /\ backend.impl # "double" /\ Unheld(e) /\ outcome # "stranger"
        /\ endpoint' \in IF backend.impl = "redis" THEN Opened ELSE {endpoint}
        /\ IF endpoint' = "broken" THEN outcome = "failed" /\ UNCHANGED faults ELSE Fault(outcome, {})
        /\ held' = after.q /\ ids' = after.ids
        /\ UNCHANGED <<backend, call, refusal, resets>>

\* The double takes it unless a test arranged otherwise.
DoubleOne(e) ==
    LET after == Arrives(IF refusal THEN <<>> ELSE <<e>>, "taken")
    IN  /\ backend.impl = "double" /\ Unheld(e)
        /\ refusal' = FALSE /\ held' = after.q /\ ids' = after.ids
        /\ UNCHANGED <<backend, endpoint, call, faults, resets>>

Send(e, outcome)    == ~backend.topic /\ One(e, outcome)
Publish(e, outcome) == backend.topic /\ One(e, outcome)

-----------------------------------------------------------------------------
(* What callers, tests and the end of the session do                       *)

\* A caller sends again, in their order, the entries whose names came back
\* unsent.
Retry(s, outcome) ==
    LET here  == call[s]
        again == SelectSeq(here.entries, LAMBDA e : e.id \in ToSet(here.unsent))
    IN  /\ ~here.open /\ here.unsent # <<>> /\ here.retries < MaxRetries
        /\ Begin(s, again, here.retries + 1, here.whole, outcome)

Arrange ==
    /\ backend.impl = "double" /\ ~refusal /\ resets < MaxResets
    /\ refusal' = TRUE
    /\ UNCHANGED <<backend, endpoint, held, ids, call, faults, resets>>

\* What was sent is forgotten; the names handed out are not.
Reset ==
    /\ backend.impl = "double" /\ resets < MaxResets
    /\ held' = <<>> /\ resets' = resets + 1
    /\ UNCHANGED <<backend, endpoint, ids, call, refusal, faults>>

\* The session releases its client, if one was built.
Close ==
    /\ endpoint = "open"
    /\ endpoint' = "closed"
    /\ UNCHANGED <<backend, held, ids, call, refusal, faults, resets>>

-----------------------------------------------------------------------------
Init ==
    /\ backend \in Backends
    /\ endpoint = "unopened" /\ held = <<>> /\ ids = 0
    /\ call = [s \in Senders |-> NoCall]
    /\ refusal = FALSE /\ faults = 0 /\ resets = 0

Sending(s) ==
    \E outcome \in Outcomes :
        \/ \E entries \in Batches[s] : SendBatch(s, entries, outcome) \/ PublishBatch(s, entries, outcome)
        \/ \E refused \in SUBSET DOMAIN Chunk(call[s]) :
             \/ SendChunk(s, outcome, refused) \/ PublishChunk(s, outcome, refused)
             \/ StreamExec(s, outcome, refused) \/ ChannelExec(s, outcome, refused)
        \/ Retry(s, outcome)

Next ==
    \/ \E s \in Senders : Sending(s) \/ DoubleSend(s) \/ DoublePublish(s)
    \/ \E e \in Singles, outcome \in Outcomes : Send(e, outcome) \/ Publish(e, outcome)
    \/ \E e \in Singles : DoubleOne(e)
    \/ Arrange \/ Reset \/ Close

Spec == Init /\ [][Next]_vars

-----------------------------------------------------------------------------
(* Properties                                                              *)

Count(seq, id) == Cardinality({i \in DOMAIN seq : seq[i] = id})
Ended(s) == call[s] # NoCall /\ ~call[s].open

\* A batch that came back has each entry it was handed in exactly one of its
\* three lists, entries that share a name as often as they share it, and an
\* error exactly when something was left unsent: whichever request failed,
\* before or after the service took it (SendBatch, PublishBatch and the same of
\* the session and of the doubles).
EveryEntryAccounted ==
    \A s \in Senders : Ended(s) =>
        /\ call[s].error <=> call[s].unsent # <<>>
        /\ \A id \in ToSet(IdsOf(call[s].entries)) :
             Count(IdsOf(call[s].entries), id) =
                 Count(IdsOf(call[s].successful), id) + Count(call[s].failed, id)
                     + Count(call[s].unsent, id)

Names(s) == {<<e.id, e.n>> : e \in ToSet(call[s].entries)}

\* The message a success names is one the service holds, and is the message of an
\* entry of that name, though the service answers by place, some of a request
\* were refused and an answer to an earlier attempt was lost (sendChunk,
\* publishChunk, indexOf).
AnswersMatched ==
    \A s \in Senders : \A k \in DOMAIN call[s].successful :
        LET told == call[s].successful[k]
        IN  resets = 0 => \E i \in DOMAIN held :
                held[i].mid = told.mid /\ <<told.id, held[i].w.n>> \in Names(s)

Firsts(s, batch) ==
    LET ns  == {e.n : e \in ToSet(batch)}
        own == SelectSeq([i \in DOMAIN held |-> held[i].w.n], LAMBDA n : n \in ns)
    IN  [once |-> Len(own) = Cardinality(ToSet(own)),
         seq  |-> FoldLeft(LAMBDA acc, n : IF n \in ToSet(acc) THEN acc ELSE Append(acc, n), <<>>, own)]

\* While the service refuses none of a batch, it takes the messages of the batch
\* in the order they were given and without a gap, through requests that fail,
\* lose their answer or are sent again; with deduplication it keeps each of them
\* once (SendBatch stops at the first request that fails, applyFIFO).
AcceptedInOrder ==
    \A s \in Senders : call[s].whole /\ resets = 0 =>
        \A batch \in Batches[s] : LET got == Firsts(s, batch) IN
            /\ ToSet(call[s].entries) \subseteq ToSet(batch) =>
                 IsPrefix(got.seq, [i \in DOMAIN batch |-> batch[i].n])
            /\ backend.fifo => got.once
=============================================================================
