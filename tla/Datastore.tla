------------------------------ MODULE Datastore ------------------------------
(***************************************************************************)
(* The DynamoDB data store: resources/aws/datastore behind the portable    *)
(* contract of resources/datastore.  Handlers read, modify and write back, *)
(* send batches cut into requests and page through listings; they share    *)
(* one table, which applies one request at a time.  A request can fail     *)
(* before it is applied, or be applied and its answer lost; the AWS client *)
(* underneath then gives up or sends the same request again, revision and  *)
(* all, whatever was written in between.                                   *)
(*                                                                         *)
(* The store tests run against, celeritytest.Datastore, is held to the     *)
(* same promises: it keeps the items in memory, one lock makes each call a *)
(* single step, and nothing fails on the way.  It keeps each item twice,   *)
(* encoded, which reads return, and as fields, which conditions, filters   *)
(* and updates use; a change it refuses or undoes can stay in the fields.  *)
(*                                                                         *)
(* An item is the set of tokens written into it: every write carries a     *)
(* token of its own, so what a write did can be told from the table.  A    *)
(* revision is a number never used before (nextRevision draws 16 random    *)
(* bytes); 0 is datastore.Unrevisioned.                                    *)
(***************************************************************************)
EXTENDS Naturals, FiniteSets, Sequences, SequencesExt, FiniteSetsExt, Places

CONSTANTS
    NKeys,          \* the keys are 1..NKeys, in the order a listing reads them
    Partitions, PartitionOf,   \* the partition of each key
    Handlers,       \* the invocations that use the table, each a call at a time
    ChunkSize,      \* writesPerRequest and getsPerRequest
    MaxUpdates,     \* datastore.MaxUpdates
    MaxAtomicOps,   \* datastore.MaxAtomicOps
    Conds,          \* the conditions and filters callers pass
    MaxWrites,      \* bound: tokens, and so writes, of one behaviour
    MaxFaults,      \* bound: requests that fail or lose their answer
    Impls           \* the stores a run has: "dynamodb", "memory"

ASSUME SizesAssumption ==
    /\ NKeys \in Nat \ {0} /\ ChunkSize \in Nat \ {0}
    /\ MaxUpdates \in Nat \ {0} /\ MaxAtomicOps \in Nat \ {0}
    /\ MaxWrites \in Nat /\ MaxFaults \in Nat
    /\ PartitionOf \in [1..NKeys -> Partitions]
    /\ Impls \subseteq {"dynamodb", "memory"}

Keys   == 1..NKeys
BadKey == 0         \* a key whose sort value does not fit the table's key schema
Tokens == 1..MaxWrites
Absent == [held |-> {}, rev |-> 0, exists |-> FALSE, leaked |-> {}]

VARIABLES
    impl,       \* the store behind the handle
    table,      \* the items, by key
    schema,     \* "unread" | "ready" | "broken": the key schema, read once
    seen,       \* per handler: what its last Get returned
    batch,      \* per handler: the batch under way
    listing,    \* per handler: the listing under way
    used,       \* tokens handed out
    faults,     \* failures so far
    acked,      \* per key: tokens acknowledged and not legitimately replaced
    refused,    \* tokens of writes answered with one of the package's errors
    pending,    \* per handler: the applied request its client is to send again
    rewound,    \* keys whose revision an update sent again has set back
    unsettled   \* tokens sent again, or left in the double's fields by a refusal

sendVars == <<pending, rewound, unsettled>>
vars == <<impl, table, schema, seen, batch, listing, used, faults, acked, refused, sendVars>>

-----------------------------------------------------------------------------
(* Conditions and revisions                                                *)

NoCond == [op |-> "none", of |-> {}]

\* A test of a value, whichever operator makes it, asks what was written into the
\* item, and fails where there is none; the double asks its fields.
Compare(leaf, item) == leaf.of \subseteq item.held \cup item.leaked

HoldsLeaf(leaf, item) ==
    CASE leaf.op = "exists"    -> item # Absent
      [] leaf.op = "notExists" -> item = Absent
      [] leaf.op = "contains"  -> Compare(leaf, item)

\* A group of no conditions is refused before a request is made.
GroupOK(cond) == cond.op \in {"and", "or"} => cond.of # {}

WriteCondition(cond, item) ==
    CASE cond.op = "none" -> TRUE
      [] cond.op = "and"  -> \A leaf \in cond.of : HoldsLeaf(leaf, item)
      [] cond.op = "or"   -> \E leaf \in cond.of : HoldsLeaf(leaf, item)
      [] OTHER            -> HoldsLeaf(cond, item)

NoRevision   == [known |-> TRUE, asked |-> FALSE, value |-> 0]
ZeroRevision == [known |-> FALSE, asked |-> TRUE, value |-> 0]
IfUnchanged(rev) == [known |-> TRUE, asked |-> TRUE, value |-> rev]

\* An unrevisioned read asks that the item still carries no revision.
RevisionCondition(rev, item) == rev.asked => rev.value = item.rev

\* What a request is conditional on, evaluated by the store.
WriteExpression(cond, rev, item) ==
    WriteCondition(cond, item) /\ RevisionCondition(rev, item)

\* What writeExpression itself refuses.
ExpressionOK(cond, rev) == GroupOK(cond) /\ rev.known

-----------------------------------------------------------------------------
(* The table                                                               *)

\* A put stamps a revision never used before: the number of its token.
PutItem(held, t) == [held |-> held \cup {t}, rev |-> t, exists |-> TRUE, leaked |-> {}]

\* Mutant: an update leaves the revision as it was.
UpdateItem_Unstamped(item, t) ==
    [item EXCEPT !.held = @ \cup item.leaked \cup {t}, !.leaked = {}]

\* The store applies the mutations to the item it holds (the double, to its
\* fields, which it then encodes) and stamps a revision.
UpdateItem(item, t) == PutItem(item.held \cup item.leaked, t)

\* Every update asks, besides the caller's conditions, that the item exists.
UpdateExpression(cond, rev, item) == item # Absent /\ WriteExpression(cond, rev, item)

\* schema.key refuses a key that does not fit the table's keys, and applyKey an
\* item whose own key says another; 0 stands for an item that carries none.
SchemaKey(k)         == k # BadKey
ApplyKey(k, carried) == carried \in {0, k}
KeyFits(k, carried)  == SchemaKey(k) /\ ApplyKey(k, carried)

\* How one request ends: answered, failed, applied with the answer lost, or the
\* same with the client underneath about to send it again.
Outcomes == {"answered", "failed", "lost", "again"}

Fault(outcome) ==
    /\ outcome # "answered" => faults < MaxFaults
    /\ faults' = IF outcome = "answered" THEN faults ELSE faults + 1

\* The table after a request, what stays acknowledged in it, and which items
\* have matched each listing's filter ever since the listing began. A listing of
\* the store in memory resumes at a position, which a write moves: see MemPage.
Changed(new, replaced, told) ==
    /\ table' = [k \in Keys |-> IF k \in DOMAIN new THEN new[k] ELSE table[k]]
    /\ acked' = [k \in Keys |->
                   IF k \notin DOMAIN new THEN acked[k]
                   ELSE ((IF k \in replaced THEN {} ELSE acked[k]) \cup told) \cap
                        (IF new[k] = Absent THEN {} ELSE Tokens)]
    /\ listing' = [l \in Handlers |-> [listing[l] EXCEPT !.stable =
                     {k \in @ : /\ table'[k] # Absent
                                /\ WriteCondition(listing[l].filter, table'[k])
                                /\ impl = "memory" => table' = table}]]

-----------------------------------------------------------------------------
(* Single requests of a writer                                             *)

\* The key schema is read by the first call and held with its outcome.
TableSchema ==
    /\ schema = "unread"
    /\ \/ schema' = "ready" /\ UNCHANGED faults
       \/ schema' = "broken" /\ Fault("failed")
    /\ UNCHANGED <<table, seen, batch, listing, used, acked, refused, sendVars>>

NothingSeen == [key |-> 0, held |-> {}, rev |-> NoRevision]

Get(w, k) ==
    /\ seen' = [seen EXCEPT ![w] =
                  IF table[k] = Absent THEN NothingSeen   \* ErrNotFound
                  ELSE [key |-> k, held |-> table[k].held,
                        rev |-> IfUnchanged(table[k].rev)]]
    /\ UNCHANGED <<table, schema, batch, listing, used, faults, acked, refused, sendVars>>

Nothing == [k \in {} |-> Absent]

\* A write carrying token t.  valid: nothing was refused before a request was
\* made; holds: the store met its conditions; new: what the store applies;
\* replaced: the keys written without regard to what was under them.
Write(t, valid, holds, outcome, new, replaced) ==
    /\ valid \/ outcome = "answered"
    /\ Fault(outcome)
    /\ Changed(IF valid /\ outcome # "failed" THEN new ELSE Nothing, replaced,
               IF outcome = "answered" /\ valid /\ holds THEN {t} ELSE {})
    /\ refused' = refused \cup
         (IF outcome = "answered" /\ ~(valid /\ holds) THEN {t} ELSE {})
    /\ UNCHANGED <<schema, batch>>

\* What a write of one kind asks of the item under its key.
RequestHolds(kind, k, cond, rev) ==
    IF kind = "update" THEN UpdateExpression(cond, rev, table[k])
    ELSE WriteExpression(cond, rev, table[k])

\* A request for one item: its conditions, what its caller had read (a put under
\* a revision writes that back) and the revision it stamps, drawn once.
Request(kind, k, cond, rev, read) ==
    [kind |-> kind, key |-> k, cond |-> cond, rev |-> rev, read |-> read, token |-> used + 1]

NoRequest == [kind |-> "none", key |-> 0, cond |-> NoCond, rev |-> NoRevision,
              read |-> NothingSeen, token |-> 0]

RequestItem(req) ==
    CASE req.kind = "put"    -> PutItem(req.read.held, req.token)
      [] req.kind = "update" -> UpdateItem(table[req.key], req.token)
      [] req.kind = "delete" -> Absent

Send(w, req, valid, outcome) ==
    LET holds == RequestHolds(req.kind, req.key, req.cond, req.rev) IN
    /\ outcome = "again" => valid /\ holds
    /\ Write(req.token, valid, holds, outcome,
             IF holds THEN [x \in {req.key} |-> RequestItem(req)] ELSE Nothing,
             {k \in {req.key} : req.kind = "delete" \/ (req.kind = "put" /\ ~req.rev.asked)})
    /\ pending' = [pending EXCEPT ![w] = IF outcome = "again" THEN req ELSE NoRequest]
    /\ unsettled' = unsettled \cup (IF outcome = "again" THEN {req.token} ELSE {})

\* The first sending of a request, by a call.
Sent(w, req, valid) ==
    /\ used + 1 \in Tokens /\ used' = used + 1
    /\ \E outcome \in Outcomes : Send(w, req, valid, outcome)
    /\ UNCHANGED rewound

\* The client underneath sends again a request whose answer it did not get. Its
\* conditions are asked of the item as it is now; an update without any goes in
\* a second time and puts back the revision it stamped the first time.
Resend(w, outcome) ==
    LET req == pending[w] IN
    /\ req.kind # "none"
    /\ Send(w, req, TRUE, outcome)
    /\ rewound' = rewound \cup {k \in {req.key} : req.kind = "update" /\ table'[k] # table[k]}
    /\ UNCHANGED <<seen, used>>

Forget(w) == seen' = [seen EXCEPT ![w] = NothingSeen]

\* The revisions a writer can hand back for a key: none, the zero value, and
\* the one it read.
RevisionsFor(w, k) ==
    {NoRevision, ZeroRevision} \cup (IF seen[w].key = k THEN {seen[w].rev} ELSE {})

\* With a revision, what was read and the writer's token; without, a new item.
Put(w, k, carried, cond, rev) ==
    /\ Sent(w, Request("put", k, cond, rev, IF rev.asked THEN seen[w] ELSE NothingSeen),
            KeyFits(k, carried) /\ ExpressionOK(cond, rev))
    /\ Forget(w)

\* No mutation is invalid, and more than the ceiling are refused.
MutationsOK(n) == n \in 1..MaxUpdates

\* n mutations in one request.
Update(w, k, n, cond, rev) ==
    /\ Sent(w, Request("update", k, cond, rev, NothingSeen),
            MutationsOK(n) /\ KeyFits(k, 0) /\ ExpressionOK(cond, rev))
    /\ UNCHANGED seen

Delete(w, k, cond, rev) ==
    /\ Sent(w, Request("delete", k, cond, rev, NothingSeen),
            KeyFits(k, 0) /\ ExpressionOK(cond, rev))
    /\ Forget(w)

AtomicKinds == {"put", "update", "delete"}

TransactItem(kind, k, t) ==
    CASE kind = "put"    -> PutItem({}, t)
      [] kind = "update" -> UpdateItem(table[k], t)
      [] kind = "delete" -> Absent

\* Mutant: each operation is applied on its own.
TransactApplies_Each(ops, cond, rev) ==
    {k \in DOMAIN ops : RequestHolds(ops[k], k, cond, rev)}

\* Every operation of a transaction is applied, or none of them.
TransactApplies(ops, cond, rev) ==
    IF \A k \in DOMAIN ops : RequestHolds(ops[k], k, cond, rev) THEN DOMAIN ops ELSE {}

\* ops gives the kind of operation for each key it addresses. The client gives a
\* transaction a token by which the store knows it when it is sent again, so that
\* a resend answers what the first sending did.
Atomically(w, partition, ops, cond, rev) ==
    LET t == used + 1 IN
    /\ DOMAIN ops # {} /\ t \in Tokens /\ used' = t
    /\ \E outcome \in Outcomes \ {"again"} :
         Write(t, /\ Cardinality(DOMAIN ops) <= MaxAtomicOps
                  /\ \A k \in DOMAIN ops : PartitionOf[k] = partition /\ KeyFits(k, 0)
                  /\ ExpressionOK(cond, rev),
               \A k \in DOMAIN ops : RequestHolds(ops[k], k, cond, rev), outcome,
               [k \in TransactApplies(ops, cond, rev) |-> TransactItem(ops[k], k, t)],
               {k \in DOMAIN ops : ops[k] # "update"})
    /\ UNCHANGED <<seen, sendVars>>

-----------------------------------------------------------------------------
(* Batches, cut into requests                                              *)

\* asked: what the caller wants done; todo: what its current call has left;
\* missed: what the call will return; settled: what was applied or answered;
\* got: the items a BatchGet delivers.
NoBatch == [mode |-> "idle", token |-> 0, asked |-> <<>>, todo |-> <<>>,
            missed |-> <<>>, settled |-> {}, got |-> {}]

BatchOps == [key : {BadKey} \cup Keys, kind : {"put", "delete", "get"}]

BatchStart(b, ops) ==
    /\ ops # <<>>
    /\ used + 1 \in Tokens /\ used' = used + 1
    /\ batch' = [batch EXCEPT ![b] = [NoBatch EXCEPT !.mode = "call", !.token = used + 1,
                                                     !.asked = ops, !.todo = ops]]
    /\ Forget(b)
    /\ UNCHANGED <<table, schema, listing, faults, acked, refused, sendVars>>

Chunk(ops) == SubSeq(ops, 1, Min({ChunkSize, Len(ops)}))
Rest(ops)  == SubSeq(ops, Min({ChunkSize, Len(ops)}) + 1, Len(ops))

\* What the store could not get to, as the caller's own operations.
OpsFor(ops, unprocessed) == AtPlaces(ops, {i \in DOMAIN ops : ops[i].key \in unprocessed})

\* Mutant: what was not processed is looked for in the last chunk only.
Missed_LastChunk(call, unprocessed) == OpsFor(Chunk(call.todo), unprocessed)

\* What a call will return, after one more of its requests.
Missed(call, unprocessed) == call.missed \o OpsFor(Chunk(call.todo), unprocessed)

\* The items the store read, each with the revision taken off it.
DeliverRevisions(keys) ==
    {[key |-> k, held |-> table[k].held, rev |-> IfUnchanged(table[k].rev)] :
        k \in {k \in Keys : k \in keys /\ table[k] # Absent}}

\* What a request leaves of a call: an error ends it and returns nothing,
\* whatever the requests before it did.
ChunkDone(call, ok, unprocessed, got) ==
    IF ~ok THEN [call EXCEPT !.mode = "failed", !.missed = <<>>, !.got = {}]
    ELSE [call EXCEPT !.todo = Rest(@),
                      !.missed = Missed(call, unprocessed),
                      !.settled = @ \cup {op \in ToSet(Chunk(call.todo)) : op.key \notin unprocessed},
                      !.got = @ \cup got,
                      !.mode = IF Rest(call.todo) = <<>> THEN "returned" ELSE "call"]

\* A request is built when every key of the chunk fits; the store may be
\* throttled and leave keys of it unprocessed.
Built(chunk) == \A i \in DOMAIN chunk : KeyFits(chunk[i].key, 0)

Sendable(b, reads, outcome, unprocessed) ==
    LET chunk == Chunk(batch[b].todo) IN
    /\ batch[b].mode = "call" /\ (chunk[1].kind = "get") = reads
    /\ unprocessed \subseteq {op.key : op \in ToSet(chunk)}
    /\ Built(chunk) \/ (outcome = "answered" /\ unprocessed = {})
    /\ Fault(IF unprocessed # {} THEN "failed" ELSE outcome)

WriteChunk(b, outcome, unprocessed) ==
    LET chunk == Chunk(batch[b].todo)
        sent  == {op \in ToSet(chunk) : op.key \notin unprocessed}
        new   == [k \in {op.key : op \in sent} |->
                    IF \E op \in sent : op.key = k /\ op.kind = "delete" THEN Absent
                    ELSE PutItem({}, batch[b].token)]
    IN  /\ Sendable(b, FALSE, outcome, unprocessed)
        /\ Changed(IF Built(chunk) /\ outcome # "failed" THEN new ELSE Nothing, Keys,
                   IF outcome = "answered" THEN {batch[b].token} ELSE {})
        /\ batch' = [batch EXCEPT ![b] =   \* a chunk sent again is the call's next one
                       IF outcome = "again" THEN @
                       ELSE ChunkDone(@, Built(chunk) /\ outcome = "answered", unprocessed, {})]
        /\ UNCHANGED <<schema, seen, used, refused, sendVars>>

GetChunk(b, outcome, unprocessed) ==
    LET chunk == Chunk(batch[b].todo)
        keys  == {op.key : op \in ToSet(chunk)} \ unprocessed
    IN  /\ Sendable(b, TRUE, outcome, unprocessed)
        /\ batch' = [batch EXCEPT ![b] =
                       ChunkDone(@, Built(chunk) /\ outcome = "answered", unprocessed,
                                 IF Built(chunk) THEN DeliverRevisions(keys) ELSE {})]
        /\ UNCHANGED <<table, schema, seen, listing, used, acked, refused, sendVars>>

\* The caller's loop: what came back is sent again.
BatchRetry(b) ==
    /\ batch[b].mode = "returned" /\ batch[b].missed # <<>>
    /\ batch' = [batch EXCEPT ![b] =
                   [@ EXCEPT !.mode = "call", !.todo = batch[b].missed, !.missed = <<>>]]
    /\ UNCHANGED <<table, schema, seen, listing, used, faults, acked, refused, sendVars>>

\* The caller goes on, perhaps with one of the items a BatchGet delivered.
BatchEnd(b, item) ==
    /\ item \in batch[b].got \/ item = NothingSeen
    /\ batch[b].mode \in {"failed", "returned"}
    /\ batch' = [batch EXCEPT ![b] = NoBatch]
    /\ seen' = [seen EXCEPT ![b] = item]
    /\ UNCHANGED <<table, schema, listing, used, faults, acked, refused, sendVars>>

-----------------------------------------------------------------------------
(* Listings, a page at a time                                              *)

NoListing == [mode |-> "idle", over |-> {}, filter |-> NoCond, cursor |-> 0,
              stable |-> {}, got |-> [k \in Keys |-> 0]]

\* The keys of a query: a partition, narrowed by a range of sort values.
SortBetween(low, high) == {k \in Keys : low <= k /\ k <= high}

KeyCondition(partition, low, high) ==
    {k \in SortBetween(low, high) : PartitionOf[k] = partition}

\* over: the keys of a query for Items, every key for Scanned.
ListStart(l, over, filter) ==
    /\ listing' = [listing EXCEPT ![l] =
         [NoListing EXCEPT !.mode = "run", !.over = over, !.filter = filter,
            !.stable = {k \in over : table[k] # Absent /\ WriteCondition(filter, table[k])}]]
    /\ Forget(l)
    /\ UNCHANGED <<table, schema, batch, used, faults, acked, refused, sendVars>>

\* Mutant: an empty page ends the listing.
EndsAfter_Empty(page, more) == page = {} \/ ~more

\* Only a missing cursor ends a listing: a filter can leave a page empty.
EndsAfter(page, more) == ~more

\* What the request asks for: the items that follow the cursor.
QueryInput(l) ==
    {k \in listing[l].over : k > listing[l].cursor /\ table[k] # Absent}

\* How often each item was yielded, counted as far as twice.
Yield(got, page) == [k \in Keys |-> IF k \in page /\ got[k] < 2 THEN got[k] + 1 ELSE got[k]]

\* The store stops after some item, or at the end; the filter is applied to what
\* was read.
Page(l, last, more) ==
    LET read == {k \in QueryInput(l) : k <= last}
        page == {k \in read : WriteCondition(listing[l].filter, table[k])}
    IN  /\ listing[l].mode = "run"
        /\ IF more THEN last \in read ELSE last = NKeys
        /\ listing' = [listing EXCEPT ![l] =
             [@ EXCEPT !.cursor = last, !.got = Yield(listing[l].got, page),
                       !.mode = IF EndsAfter(page, more) THEN "done" ELSE "run"]]
        /\ UNCHANGED <<table, schema, seen, batch, used, faults, acked, refused, sendVars>>

\* A failed request is yielded once, and a loop may break: both end a listing.
ListStop(l, failed) ==
    /\ listing[l].mode = "run" \/ (listing[l].mode = "done" /\ ~failed)
    /\ failed => impl = "dynamodb"
    /\ Fault(IF failed THEN "failed" ELSE "answered")
    /\ listing' = [listing EXCEPT ![l] = NoListing]
    /\ UNCHANGED <<table, schema, seen, batch, used, acked, refused, sendVars>>

-----------------------------------------------------------------------------
(* The store in memory                                                     *)

\* What a change that was refused or undone leaves of itself: walk follows a
\* dotted path into the objects the stored fields hold, and changes those.
Spilt(item, t) == [held |-> item.held, rev |-> item.rev, exists |-> item.exists,
                   leaked |-> item.leaked \cup {t}]

\* A write carrying token t, applied whole under the lock or refused; spill: the
\* items in whose fields a refused one leaves something.
MemWrite(t, holds, new, replaced, spill) ==
    /\ t \in Tokens /\ used' = t
    /\ Changed(IF holds THEN new ELSE [k \in spill |-> Spilt(table[k], t)],
               IF holds THEN replaced ELSE {}, IF holds THEN {t} ELSE {})
    /\ refused' = refused \cup (IF holds THEN {} ELSE {t})
    /\ unsettled' = unsettled \cup (IF holds \/ spill = {} THEN {} ELSE {t})
    /\ UNCHANGED <<schema, batch, faults, pending, rewound>>

\* A revision is asked of an item that is there.  Every item carries one; 0 is
\* that of an item a test seeded.
MemCheck(cond, rev, item) ==
    /\ rev.known
    /\ rev.asked => item # Absent /\ item.rev = rev.value
    /\ WriteCondition(cond, item)

MemPut(w, k, cond, rev) ==
    LET t == used + 1
        held == IF rev.asked THEN seen[w].held ELSE {}
    IN  /\ MemWrite(t, MemCheck(cond, rev, table[k]),
                    [x \in {k} |-> PutItem(held, t)], IF rev.asked THEN {} ELSE {k}, {})
        /\ Forget(w)

MemDelete(w, k, cond, rev) ==
    /\ MemWrite(used + 1, MemCheck(cond, rev, table[k]), [x \in {k} |-> Absent], {k}, {})
    /\ Forget(w)

\* Nothing is created where there is no item; no mutation at all only stamps a
\* revision, which the token then stands for.
MemUpdateHolds(cond, rev, item) == item # Absent /\ MemCheck(cond, rev, item)

\* bad is the place of the first change that is invalid, 0 when there is none; the
\* changes before it have been made, to a copy of the fields that shares what is
\* nested in them.
MemUpdate(w, k, n, bad, cond, rev, spill) ==
    LET t == used + 1
        checked == n <= MaxUpdates /\ MemUpdateHolds(cond, rev, table[k])
    IN  /\ spill # {} => checked /\ bad > 1
        /\ MemWrite(t, checked /\ bad = 0, [x \in {k} |-> UpdateItem(table[k], t)], {}, spill)
        /\ UNCHANGED seen

MemApplies(kind, k, cond, rev) ==
    IF kind = "update" THEN MemUpdateHolds(cond, rev, table[k]) ELSE MemCheck(cond, rev, table[k])

\* The operations are applied one by one and the snapshot is restored when one of
\* them fails, on its conditions or as invalid (not sound); what the updates
\* before it changed in place is in the snapshot too.
MemAtomically(w, partition, ops, sound, cond, rev, spill) ==
    LET t       == used + 1
        begun   == /\ Cardinality(DOMAIN ops) <= MaxAtomicOps
                   /\ \A k \in DOMAIN ops : PartitionOf[k] = partition
        applies == sound /\ \A k \in DOMAIN ops : MemApplies(ops[k], k, cond, rev)
    IN  /\ DOMAIN ops # {}
        /\ spill # {} => begun /\ ~applies
        /\ \A k \in spill : ops[k] = "update" /\ MemApplies("update", k, cond, rev)
        /\ MemWrite(t, begun /\ applies, [k \in DOMAIN ops |-> TransactItem(ops[k], k, t)],
                    {k \in DOMAIN ops : ops[k] # "update"}, spill)
        /\ UNCHANGED seen

\* A whole batch call, and what it returns as not done.
MemReturn(call, missed, got) ==
    [call EXCEPT !.mode = "returned", !.todo = <<>>, !.missed = OpsFor(call.todo, missed),
                 !.settled = @ \cup {op \in ToSet(call.todo) : op.key \notin missed},
                 !.got = @ \cup got]

\* Each operation on its own; a put whose item is not an object is handed back.
MemBatchWrite(b, unapplied) ==
    LET ops  == ToSet(batch[b].todo)
        new  == [k \in {op.key : op \in ops} \ unapplied |->
                   IF \E op \in ops : op.key = k /\ op.kind = "delete" THEN Absent
                   ELSE PutItem({}, batch[b].token)]
    IN  /\ batch[b].mode = "call" /\ batch[b].todo[1].kind # "get"
        /\ unapplied \subseteq {op.key : op \in {o \in ops : o.kind = "put"}}
        /\ Fault(IF unapplied = {} THEN "answered" ELSE "failed")
        /\ Changed(new, Keys, {batch[b].token})
        /\ batch' = [batch EXCEPT ![b] = MemReturn(@, unapplied, {})]
        /\ UNCHANGED <<schema, seen, used, refused, sendVars>>

\* A key that holds nothing is among the keys handed back.
MemBatchGet(b) ==
    LET keys == {op.key : op \in ToSet(batch[b].todo)} IN
    /\ batch[b].mode = "call" /\ batch[b].todo[1].kind = "get"
    /\ batch' = [batch EXCEPT ![b] =
         MemReturn(@, {k \in keys : table[k] = Absent}, DeliverRevisions(keys))]
    /\ UNCHANGED <<table, schema, seen, listing, used, faults, acked, refused, sendVars>>

\* What a query or a scan matches, in order: the filter comes before the page.
MemMatched(l) ==
    InOrder({k \in listing[l].over :
               table[k] # Absent /\ WriteCondition(listing[l].filter, table[k])})

\* The cursor is how many of the matching items have been given, and one past
\* what matches now is refused.
MemPage(l, limit) ==
    LET matched == MemMatched(l)
        start   == listing[l].cursor
        end     == IF limit = 0 THEN Len(matched) ELSE Min({start + limit, Len(matched)})
        page    == {matched[i] : i \in (start + 1)..end}
    IN  /\ listing[l].mode = "run"
        /\ listing' = [listing EXCEPT ![l] =
             IF start > Len(matched) THEN NoListing
             ELSE [@ EXCEPT !.cursor = end, !.got = Yield(listing[l].got, page),
                     !.mode = IF EndsAfter(page, end < Len(matched)) THEN "done" ELSE "run"]]
        /\ UNCHANGED <<table, schema, seen, batch, used, faults, acked, refused, sendVars>>

-----------------------------------------------------------------------------
Init ==
    /\ impl \in Impls
    /\ table \in [Keys -> {Absent, [Absent EXCEPT !.exists = TRUE]}]
    /\ schema = IF impl = "dynamodb" THEN "unread" ELSE "ready"
    /\ seen = [w \in Handlers |-> NothingSeen]
    /\ batch = [b \in Handlers |-> NoBatch]
    /\ listing = [l \in Handlers |-> NoListing]
    /\ used = 0 /\ faults = 0
    /\ acked = [k \in Keys |-> {}]
    /\ refused = {}
    /\ pending = [w \in Handlers |-> NoRequest]
    /\ rewound = {} /\ unsettled = {}

\* A batch of distinct keys, in key order, all gets or puts and deletes; the last
\* operation may address what is not a key of the table.
Batches ==
    LET lists == {InOrder(ks) : ks \in SUBSET Keys}
        ops(s) == {[i \in DOMAIN s |-> [key |-> s[i], kind |-> kinds[i]]] :
                     kinds \in [DOMAIN s -> {"put", "delete"}] \cup [DOMAIN s -> {"get"}]}
        good  == UNION {ops(s) : s \in lists}
    IN  good \cup {Append(o, [key |-> BadKey, kind |-> o[1].kind]) : o \in good \ {<<>>}}

\* A write of one item, or of several at once.
DynamoWrite(h) ==
    \/ \E k \in Keys, cond \in Conds : \E rev \in RevisionsFor(h, k) :
         \/ \E carried \in {0} \cup Keys : Put(h, k, carried, cond, rev)
         \/ \E n \in 0..(MaxUpdates + 1) : Update(h, k, n, cond, rev)
         \/ Delete(h, k, cond, rev)
    \/ \E ks \in SUBSET Keys, partition \in Partitions, cond \in Conds :
         \E ops \in [ks -> AtomicKinds] : Atomically(h, partition, ops, cond, NoRevision)

MemoryWrite(h) ==
    \/ \E k \in Keys, cond \in Conds : \E rev \in RevisionsFor(h, k) :
         \/ MemPut(h, k, cond, rev)
         \/ \E n \in 0..(MaxUpdates + 1), spill \in SUBSET {k} :
              \E bad \in 0..n : MemUpdate(h, k, n, bad, cond, rev, spill)
         \/ MemDelete(h, k, cond, rev)
    \/ \E ks \in SUBSET Keys, partition \in Partitions, cond \in Conds :
         \E ops \in [ks -> AtomicKinds], sound \in BOOLEAN, spill \in SUBSET ks :
            MemAtomically(h, partition, ops, sound, cond, NoRevision, spill)

\* The calls a handler can make when it has none under way.
Call(h) ==
    /\ schema = "ready"
    /\ batch[h].mode = "idle" /\ listing[h].mode = "idle" /\ pending[h].kind = "none"
    /\ \/ \E k \in Keys : Get(h, k)
       \/ impl = "dynamodb" /\ DynamoWrite(h)
       \/ impl = "memory" /\ MemoryWrite(h)
       \/ \E ops \in Batches :
            /\ impl = "memory" => \A i \in DOMAIN ops : ops[i].key # BadKey
            /\ BatchStart(h, ops)
       \/ \E over \in {Keys} \cup
                {KeyCondition(p, low, high) : p \in Partitions, low \in Keys, high \in {NKeys}} :
            \E filter \in Conds : ListStart(h, over, filter)

\* A call goes on: request by request and page by page, or under the lock.
DynamoProceed(h) ==
    \/ \E outcome \in Outcomes : Resend(h, outcome)
    \/ \E unprocessed \in SUBSET Keys :
         \/ \E outcome \in Outcomes : WriteChunk(h, outcome, unprocessed)
         \/ \E outcome \in Outcomes \ {"again"} : GetChunk(h, outcome, unprocessed)
    \/ \E last \in Keys, more \in BOOLEAN : Page(h, last, more)

MemoryProceed(h) ==
    \/ \E unapplied \in SUBSET Keys : MemBatchWrite(h, unapplied)
    \/ MemBatchGet(h)
    \/ \E limit \in 0..NKeys : MemPage(h, limit)

Proceed(h) ==
    \/ impl = "dynamodb" /\ DynamoProceed(h)
    \/ impl = "memory" /\ MemoryProceed(h)
    \/ BatchRetry(h)
    \/ \E item \in batch[h].got \cup {NothingSeen} : BatchEnd(h, item)
    \/ \E failed \in BOOLEAN : ListStop(h, failed)

Next ==
    /\ \/ TableSchema
       \/ \E h \in Handlers : Call(h) \/ Proceed(h)
    /\ UNCHANGED impl

Spec == Init /\ [][Next]_vars

-----------------------------------------------------------------------------
Items == [held : SUBSET Tokens, rev : 0..MaxWrites, exists : BOOLEAN, leaked : SUBSET Tokens]

\* Types of the table, of the calls under way and of the history kept about them.
TypeOK ==
    /\ impl \in Impls
    /\ table \in [Keys -> Items]
    /\ schema \in {"unread", "ready", "broken"}
    /\ \A w \in Handlers : /\ seen[w].key \in 0..NKeys /\ seen[w].held \subseteq Tokens
                          /\ seen[w].rev.value \in 0..MaxWrites
    /\ \A b \in Handlers : /\ batch[b].mode \in {"idle", "call", "returned", "failed"}
                           /\ ToSet(batch[b].todo) \subseteq BatchOps
                           /\ ToSet(batch[b].missed) \subseteq BatchOps
    /\ \A l \in Handlers : /\ listing[l].mode \in {"idle", "run", "done"}
                          /\ listing[l].got \in [Keys -> 0..2]
    /\ used \in 0..MaxWrites /\ faults \in 0..MaxFaults
    /\ acked \in [Keys -> SUBSET Tokens] /\ refused \subseteq Tokens
    /\ \A w \in Handlers : pending[w].key \in 0..NKeys /\ pending[w].token \in 0..MaxWrites
    /\ rewound \subseteq Keys /\ unsettled \subseteq Tokens

\* Revisions protect an item: what a put under a revision or an update was
\* acknowledged with stays in it until a write that asked for no revision
\* replaces it, whatever requests were lost and sent again in between. Every kind
\* of write stamps a revision (datastore.go Put, update.go updateExpression,
\* batch.go writeRequest, atomic.go), so that none of them can slip between another
\* handler's read and its write. The exception is a key on which an update was
\* applied a second time, after something else was written: that puts an earlier
\* revision back (update.go:50), and RevisionsProtect below is then false.
NoLostUpdate == \A k \in Keys \ rewound : acked[k] \subseteq table[k].held

\* The same without the exception, as revision.go states it: a write under a
\* revision can "require that nothing has changed the item since it was read".
RevisionsProtect == \A k \in Keys : acked[k] \subseteq table[k].held

\* A write answered with one of the package's own errors (condition failed, not
\* found, invalid revision, wrong partition, too many operations) left nothing
\* behind in any item, and an atomic write refused on one key left nothing in
\* another, unless it is unsettled: a request the client sent again is refused for
\* what its first sending did, and the double keeps in its fields, from where the
\* next update writes them, the nested changes of an update it refused as invalid
\* or undid with an atomic write.
RefusedNotApplied == \A k \in Keys : table[k].held \cap (refused \ unsettled) = {}

\* When a batch call returns without an error, each operation the caller asked
\* for was applied (or answered), in this call or in the ones before it, or is
\* among what the call returns; across chunks, throttling and retries.
BatchAccounted ==
    \A b \in Handlers : batch[b].mode = "returned" =>
        ToSet(batch[b].asked) = batch[b].settled \cup ToSet(batch[b].missed)

\* An item that was in the table and matched the filter all through a listing is
\* yielded exactly once by the time the listing ends without an error, whatever
\* pages the store made of it and whatever else was written meanwhile. (The
\* store in memory promises this only while nothing is written.)
StableListedOnce ==
    \A l \in Handlers : listing[l].mode = "done" =>
        \A k \in listing[l].stable : listing[l].got[k] = 1

=============================================================================
