-------------------------------- MODULE Cache --------------------------------
(***************************************************************************)
(* The key-value cache: resources/redis behind the contract of             *)
(* resources/cache.  Handlers of one or several applications share one     *)
(* Redis keyspace, each application under a prefix of its own, on a single *)
(* instance or on a cluster whose keyspace is cut into shards.             *)
(*                                                                         *)
(* Every operation of the contract is the command it sends, or the few it  *)
(* is cut into; Redis itself (Reply, After) is external.  A value is the   *)
(* sequence of tokens written into it, so that what a write did can be     *)
(* told from the keyspace, and a token carries the application it is of.   *)
(***************************************************************************)
EXTENDS Integers, FiniteSets, Sequences, SequencesExt, FiniteSetsExt, Places

CONSTANTS
    Apps, Handlers, AppOf,  \* the applications, the handlers and whose they are
    Batchers,               \* the handlers whose calls take several commands
    NNames,                 \* the names a handler uses are 1..NNames
    NoTag,                  \* of a name that carries no hash tag
    Shards, Placement,      \* the shard a tag or an untagged key hashes to
    Deployments,            \* what _clusterMode and the caller's naming may be
    SetModes,               \* the options callers give Set
    TxVerbs,                \* the commands callers queue in a transaction
    BatchNames,             \* the names callers give a batch
    MaxWrites,              \* bound: tokens, and so writes, of one application
    MaxFaults               \* bound: commands that fail or lose their answer

Names == 1..NNames
Keys  == [app : Apps, name : Names]
Toks  == Apps \X (1..MaxWrites)
Kinds == {"string", "number", "list", "set", "zset", "hash"}

ASSUME CacheAssumption ==
    /\ NNames \in Nat \ {0} /\ MaxWrites \in Nat /\ MaxFaults \in Nat
    /\ AppOf \in [Handlers -> Apps] /\ NoTag \notin Keys
    /\ Batchers \subseteq Handlers /\ BatchNames \subseteq Seq(Names)
    /\ \A d \in Deployments, k \in Keys :
          (IF d.tagOf[k.name] # NoTag THEN d.tagOf[k.name] ELSE k) \in DOMAIN Placement
    /\ \A x \in DOMAIN Placement : Placement[x] \in Shards
ASSUME SetModesAssumption == \A o \in SetModes : o.OnlyIfAbsent \in BOOLEAN

VARIABLES
    deployed,   \* whether the cache is clustered, and the tag each name carries
    store,      \* the keyspace
    calls,      \* per handler: the call that takes several commands
    used,       \* per application: tokens handed out
    faults,     \* failures so far
    claims,     \* <<key, token>>: conditional writes answered true and not since ended
    crossed     \* a cluster was sent one command for keys of two shards

vars == <<deployed, store, calls, used, faults, claims, crossed>>

None == [kind |-> "none", els |-> <<>>, num |-> 0, ttl |-> FALSE]
Value(kind, els, num, ttl) == [kind |-> kind, els |-> els, num |-> num, ttl |-> ttl]

-----------------------------------------------------------------------------
(* Keys and shards                                                         *)

\* The name a command is sent under.
Key(app, name) == [app |-> app, name |-> name]
KeyNames(app, names) == [i \in DOMAIN names |-> Key(app, names[i])]
Clustered    == deployed.clustered
HashTag(key) == IF deployed.tagOf[key.name] # NoTag THEN deployed.tagOf[key.name] ELSE key
SlotOf(key)  == Placement[HashTag(key)]

\* ErrCrossSlot, reported before a command is sent.
SameSlot(keys) ==
    Clustered => \A i, j \in DOMAIN keys : SlotOf(keys[i]) = SlotOf(keys[j])

\* One group of keys per shard, in the order the shards are first named.
BySlot(keys) ==
    IF ~Clustered \/ Len(keys) <= 1 THEN <<keys>>
    ELSE LET on(i)  == {j \in DOMAIN keys : SlotOf(keys[j]) = SlotOf(keys[i])}
             order  == InOrder({i \in DOMAIN keys : \A j \in on(i) : i <= j})
         IN  [g \in DOMAIN order |-> AtPlaces(keys, on(order[g]))]

-----------------------------------------------------------------------------
(* The commands an operation sends                                         *)

Cmd(verb, kind, keys, toks, mode, ttl) ==
    [verb |-> verb, kind |-> kind, keys |-> keys, toks |-> toks, mode |-> mode, ttl |-> ttl]
One(verb, kind, k)       == Cmd(verb, kind, <<k>>, <<>>, "plain", FALSE)
With(verb, kind, k, t)   == Cmd(verb, kind, <<k>>, <<t>>, "plain", FALSE)

\* Nothing to do is answered without a command.
NoCmd(k) == Cmd("none", "any", <<k>>, <<>>, "plain", FALSE)
Many(verb, kind, k, toks) ==
    IF toks = <<>> THEN NoCmd(k) ELSE Cmd(verb, kind, <<k>>, toks, "plain", FALSE)

Get(k)       == One("get", "string", k)
\* Mutant: the options send no condition.
Set_NoCondition(k, t, o) == Cmd("set", "any", <<k>>, <<t>>, "plain", o.Expires)
\* What the options come to: NX wins over XX, and a lifetime goes with either.
Set(k, t, o) == Cmd("set", "any", <<k>>, <<t>>,
    IF o.OnlyIfAbsent THEN "NX" ELSE IF o.OnlyIfPresent THEN "XX" ELSE "plain", o.Expires)
Delete(k)    == One("del", "any", k)
GetSet(k, t) == With("getset", "string", k, t)
Append_(k, t) == With("append", "string", k, t)

Increment(k)      == Cmd("incr", "string", <<k>>, <<>>, "+", FALSE)
Decrement(k)      == Cmd("incr", "string", <<k>>, <<>>, "-", FALSE)
IncrementFloat(k) == Cmd("incr", "string", <<k>>, <<>>, "+", FALSE)

HashGet(k, f)       == With("elem", "hash", k, f)
HashSet(k, fields)  == Many("add", "hash", k, fields)
HashDelete(k, fields) == Many("rem", "hash", k, fields)
HashGetAll(k)       == One("all", "hash", k)
HashExists(k, f)    == With("has", "hash", k, f)
HashIncrement(k, f) == With("add", "hash", k, f)
HashKeys(k)         == One("all", "hash", k)
HashLen(k)          == One("len", "hash", k)

\* A push lands at the tail and a pop takes from the head unless asked otherwise.
ResolveEndOptions(end, fallback) == IF end = "" THEN fallback ELSE end
ListLen(k)    == One("len", "list", k)
ListPush(k, toks, end) ==
    IF toks = <<>> THEN ListLen(k)
    ELSE Cmd("push", "list", <<k>>, toks, ResolveEndOptions(end, "right"), FALSE)
ListPop(k, end)   == Cmd("pop", "list", <<k>>, <<>>, ResolveEndOptions(end, "left"), FALSE)
ListRange(k)      == One("all", "list", k)
ListTrim(k)       == One("trim", "list", k)
ListIndex(k)      == One("first", "list", k)

SetAdd(k, members)    == Many("add", "set", k, members)
SetRemove(k, members) == Many("rem", "set", k, members)
SetMembers(k)         == One("all", "set", k)
SetIsMember(k, m)     == With("has", "set", k, m)
SetLen(k)             == One("len", "set", k)
\* SetUnion, SetIntersect and SetDiff: one command over several keys of one shard.
Combine(keys) ==
    IF keys = <<>> THEN NoCmd([app |-> CHOOSE a \in Apps : TRUE, name |-> 1])
    ELSE Cmd("combine", "set", keys, <<>>, "plain", FALSE)

\* A member's score is the number of its token; an open bound lets every score by.
Bound(score, open) == IF score = {} THEN open ELSE CHOOSE s \in score : TRUE
Scored(t) == t[2]
SortedSetAdd(k, members)    == Many("add", "zset", k, members)
SortedSetRemove(k, members) == Many("rem", "zset", k, members)
SortedSetScore(k, m)        == With("elem", "zset", k, m)
SortedSetRank(k, m)         == With("elem", "zset", k, m)
SortedSetRange(k)           == One("all", "zset", k)
SortedSetIncrement(k, m)    == With("add", "zset", k, m)
SortedSetLen(k)             == One("len", "zset", k)
SortedSetRemoveByRank(k)    == One("trim", "zset", k)
Band(app, low, high) ==
    SetToSeq({t \in Toks : /\ t[1] = app
                           /\ Scored(t) \in Bound(low, 0)..Bound(high, MaxWrites)})
SortedSetRangeByScore(k, low, high)  == Cmd("some", "zset", <<k>>, Band(k.app, low, high), "plain", FALSE)
SortedSetCountByScore(k, low, high)  == Cmd("some", "zset", <<k>>, Band(k.app, low, high), "plain", FALSE)
SortedSetRemoveByScore(k, low, high) == Cmd("rem", "zset", <<k>>, Band(k.app, low, high), "plain", FALSE)

Exists(k)     == One("exists", "any", k)
TTL(k)        == One("ttl", "any", k)
Expire(k)     == One("expire", "any", k)
Persist(k)    == One("persist", "any", k)
Type(k)       == One("type", "any", k)
Rename(k, to) == Cmd("rename", "any", <<k, to>>, <<>>, "plain", FALSE)

-----------------------------------------------------------------------------
(* Redis                                                                   *)

TypeOf(value) == IF value.kind = "number" THEN "string" ELSE value.kind
WrongType(c, s) == \E i \in DOMAIN c.keys :
    c.kind # "any" /\ s[c.keys[i]] # None /\ TypeOf(s[c.keys[i]]) # c.kind

\* t: "nil" | "value" | "error" | "no key"; n: the integer; els: the elements.
Answer(t, n, els) == [t |-> t, n |-> n, els |-> els]
Number(n) == Answer("value", n, <<>>)

Holds(c, s) == CASE c.mode = "NX" -> s[c.keys[1]] = None
                 [] c.mode = "XX" -> s[c.keys[1]] # None
                 [] OTHER         -> TRUE

\* What Redis answers to a command on a keyspace.
Reply(c, s) ==
    LET v   == s[c.keys[1]]
        els == SelectSeq(v.els, LAMBDA t : t \in ToSet(c.toks))
    IN
    IF WrongType(c, s) \/ (c.verb = "incr" /\ v.kind = "string") THEN Answer("error", 0, <<>>)
    ELSE CASE c.verb \in {"get", "getset"} -> IF v = None THEN Answer("nil", 0, <<>>)
                                              ELSE Answer("value", v.num, v.els)
           [] c.verb = "elem"    -> IF ToSet(v.els) \cap ToSet(c.toks) = {} THEN Answer("nil", 0, <<>>)
                                 ELSE Answer("value", 0, els)
           [] c.verb \in {"first", "pop"} ->
                IF v = None THEN Answer("nil", 0, <<>>)
                ELSE Answer("value", 0, <<IF c.mode = "right" THEN Last(v.els) ELSE v.els[1]>>)
           [] c.verb = "set"     -> IF Holds(c, s) THEN Number(1) ELSE Answer("nil", 0, <<>>)
           [] c.verb = "ttl"     -> Number(IF v = None THEN -2 ELSE IF v.ttl THEN 1 ELSE -1)
           [] c.verb = "persist" -> Number(IF v.ttl THEN 1 ELSE 0)
           [] c.verb \in {"del", "exists", "expire", "type"} -> Number(IF v = None THEN 0 ELSE 1)
           [] c.verb = "rename"  -> IF v = None THEN Answer("no key", 0, <<>>) ELSE Number(1)
           [] c.verb \in {"has", "rem", "some"} -> Answer("value", Len(els), els)
           [] OTHER              -> Answer("value", Len(v.els), v.els)

\* A collection left with no element is gone.
Kept(v, els) == IF els = <<>> THEN None ELSE [v EXCEPT !.els = els]
Into(c, v, els) ==
    [kind |-> IF c.kind = "string" \/ c.kind = "any" THEN "string" ELSE c.kind,
     els |-> els, num |-> 0, ttl |-> v.ttl]

\* What a command leaves under the first of its keys.
Left(c, v) ==
    CASE c.verb = "set"     -> Value("string", c.toks, 0, c.ttl)
      [] c.verb = "getset"  -> Value("string", c.toks, 0, FALSE)
      [] c.verb = "append"  -> Into(c, v, v.els \o c.toks)
      [] c.verb = "add"     -> Into(c, v, v.els \o SelectSeq(c.toks, LAMBDA t : t \notin ToSet(v.els)))
      [] c.verb = "push"    -> Into(c, v, IF c.mode = "left" THEN Reverse(c.toks) \o v.els ELSE v.els \o c.toks)
      [] c.verb = "pop"     -> IF v = None THEN v
                               ELSE Kept(v, IF c.mode = "left" THEN Tail(v.els) ELSE Front(v.els))
      [] c.verb = "trim"    -> IF v = None THEN v ELSE Kept(v, <<v.els[1]>>)
      [] c.verb = "rem"     -> IF v = None THEN v
                               ELSE Kept(v, SelectSeq(v.els, LAMBDA t : t \notin ToSet(c.toks)))
      [] c.verb = "incr"    -> Value("number", <<>>, v.num + (IF c.mode = "-" THEN -1 ELSE 1), v.ttl)
      [] c.verb = "expire"  -> IF v = None THEN v ELSE [v EXCEPT !.ttl = TRUE]
      [] c.verb = "persist" -> [v EXCEPT !.ttl = FALSE]
      [] c.verb \in {"del", "rename"} -> None
      [] OTHER              -> v

Put(s, key, value) == [k \in Keys |-> IF k = key THEN value ELSE s[k]]

\* What Redis holds after a command it does not refuse.
After(c, s) ==
    IF Reply(c, s).t \in {"error", "no key"} \/ ~Holds(c, s) THEN s
    ELSE IF c.verb = "rename" THEN Put(Put(s, c.keys[1], None), c.keys[2], s[c.keys[1]])
    ELSE Put(s, c.keys[1], Left(c, s[c.keys[1]]))

-----------------------------------------------------------------------------
(* What an operation tells its caller                                      *)

\* The answers nil is given for, rather than a failure.
Missing(c) == IF c.verb \in {"get", "getset", "elem", "first"} THEN "ErrNotFound" ELSE "empty"

\* Nothing under the key, as TYPE and TTL say it.
SaysGone(c, r) == (c.verb = "type" /\ r.n = 0) \/ (c.verb = "ttl" /\ r.n = -2)

\* Mutant: every nil reply is a key that is not there.
Told_NilIsMissing(c, r) ==
    CASE r.t = "error"              -> "failed"
      [] r.t \in {"no key", "nil"}  -> "ErrNotFound"
      [] r.t = "value"              -> IF SaysGone(c, r) THEN "ErrNotFound" ELSE "found"

\* A reply as the operation reports it.
Told(c, r) ==
    CASE r.t = "error"  -> "failed"
      [] r.t = "no key" -> "ErrNotFound"
      [] r.t = "nil"    -> Missing(c)
      [] r.t = "value"  -> IF SaysGone(c, r) THEN "ErrNotFound" ELSE "found"

-----------------------------------------------------------------------------
(* One command                                                             *)

KeysOf(app) == {Key(app, n) : n \in Names}
Fresh(app)  == <<app, used[app] + 1>>

\* The commands of one call, over the names and the tokens of an application.
ReadsOfKey(k) ==
    {Get(k), HashGetAll(k), HashKeys(k), HashLen(k), ListRange(k), ListLen(k), ListIndex(k),
     SetMembers(k), SetLen(k), SortedSetRange(k), SortedSetLen(k), Exists(k), TTL(k), Type(k)}
ReadsOfElement(k, t) ==
    {HashGet(k, t), HashExists(k, t), SetIsMember(k, t), SortedSetScore(k, t), SortedSetRank(k, t),
     SortedSetRangeByScore(k, {t[2]}, {}), SortedSetCountByScore(k, {}, {t[2]})}
Elements(app) == {app} \X (1..MaxWrites)
KeyReads(app)     == UNION {ReadsOfKey(k) : k \in KeysOf(app)}
ElementReads(app) == UNION {ReadsOfElement(p[1], p[2]) : p \in KeysOf(app) \X Elements(app)}
Combinations(app) == {Combine(KeyNames(app, names)) : names \in {<<>>, <<1>>, [i \in Names |-> i]}}
Reads(app) == KeyReads(app) \cup ElementReads(app) \cup Combinations(app)

Writes(app, t) ==
    UNION {{GetSet(k, t), Append_(k, t), HashSet(k, <<t>>), HashIncrement(k, t),
            ListPush(k, <<t>>, ""), ListPush(k, <<t>>, "left"), SetAdd(k, <<t>>),
            SortedSetAdd(k, <<t>>), SortedSetIncrement(k, t), Increment(k), Decrement(k),
            IncrementFloat(k), Expire(k)} : k \in KeysOf(app)}

Removals(app) ==
    UNION {{Delete(k), ListPop(k, ""), ListPop(k, "right"), ListTrim(k),
            SortedSetRemoveByRank(k), Persist(k), HashSet(k, <<>>), ListPush(k, <<>>, ""), SortedSetRemoveByScore(k, {}, {1})}
             : k \in KeysOf(app)}
    \cup UNION {{HashDelete(k, <<t>>), SetRemove(k, <<t>>), SortedSetRemove(k, <<t>>)}
                   : k \in KeysOf(app), t \in Elements(app)}
    \cup {Rename(Key(app, m), Key(app, n)) : m, n \in Names}

\* How a command fares: answered; failed before Redis had it; applied with the
\* answer lost; or applied, its answer lost, and sent again by the client.
Outcomes == {"answered", "failed", "lost", "resent"}

Fault(outcome) ==
    /\ outcome # "answered" => faults < MaxFaults
    /\ faults' = IF outcome = "answered" THEN faults ELSE faults + 1

\* The keyspace a command leaves, and the reply its sender hears.
Effect(c, outcome) ==
    CASE outcome = "failed" -> store
      [] outcome = "resent" -> After(c, After(c, store))
      [] OTHER              -> After(c, store)
Heard(c, outcome) == IF outcome = "resent" THEN Reply(c, After(c, store)) ELSE Reply(c, store)
IsHeard(outcome)  == outcome \in {"answered", "resent"}

\* A command is sent and fares as outcome says.  ends: it is meant to replace
\* what its keys hold, so that a claim on them is over; claim: it is a
\* conditional write, and its caller holds the key once told so.
Send(c, outcome, ends, claim) ==
    /\ Fault(outcome)
    /\ store' = Effect(c, outcome)
    /\ claims' = {p \in claims : ~(ends /\ store'[p[1]] # store[p[1]])} \cup
                 (IF claim /\ IsHeard(outcome) /\ Told(c, Heard(c, outcome)) = "found"
                  THEN {<<c.keys[1], c.toks[1]>>} ELSE {})
    /\ crossed' = (crossed \/ (outcome # "failed" /\ ~SameSlot(c.keys)))

\* asked: the keys a call is about; done: what Redis did or held for them; got:
\* what the call collected; end: how it ended, "open" until then.
Idle == [op |-> "idle", todo |-> <<>>, asked |-> {}, done |-> {}, got |-> {},
         at |-> 0, visits |-> {}, kind |-> "any", stable |-> {}, end |-> "open"]

Matching(kind, value) == value # None /\ kind \in {"any", TypeOf(value)}

\* The keys that have been there, of the kind a walk asks for, since it began.
Steady(new) == [h \in Handlers |-> [new[h] EXCEPT !.stable =
                  {k \in @ : Matching(new[h].kind, store'[k])}]]

Spent(app, n) == /\ used[app] + n <= MaxWrites
                 /\ used' = [used EXCEPT ![app] = @ + n]

\* A call that is one command.  One whose keys are on two shards is refused.
Single(h, c, outcome, claim) ==
    /\ calls[h] = Idle
    /\ IF SameSlot(c.keys) THEN Send(c, outcome, ~claim, claim)
       ELSE outcome = "answered" /\ UNCHANGED <<store, faults, claims, crossed>>
    /\ calls' = Steady(calls)

\* Failed, or applied with the answer lost, these leave what a call not made or
\* one answered leaves.
WriteOne(h, c, outcome)  == Spent(AppOf[h], 1) /\ Single(h, c, outcome, FALSE)
RemoveOne(h, c, outcome) == UNCHANGED used /\ Single(h, c, outcome, FALSE)
WriteSet(h, k, o, outcome) ==
    Spent(AppOf[h], 1) /\ Single(h, Set(k, Fresh(AppOf[h]), o), outcome, o.OnlyIfAbsent)

\* The lifetime of a key runs out.
Lapse(k) ==
    /\ store[k].ttl /\ store' = Put(store, k, None)
    /\ claims' = {p \in claims : p[1] # k}
    /\ calls' = Steady(calls) /\ UNCHANGED <<used, faults, crossed>>

-----------------------------------------------------------------------------
(* Calls of several commands                                               *)

Start(h, call) == calls[h] = Idle /\ calls' = [calls EXCEPT ![h] = call]
Return(h) ==
    /\ calls[h].end # "open" /\ calls' = [calls EXCEPT ![h] = Idle]
    /\ UNCHANGED <<store, used, faults, claims, crossed>>

BatchOps == {"GetMany", "SetMany", "DeleteMany"}
IsBatch(call, op) == call.op = op /\ call.end = "open"

\* One command per shard.  A batch of no keys sends nothing.
BatchStart(h, op, names) ==
    LET keys == KeyNames(AppOf[h], names) IN
    /\ names # <<>>
    /\ Start(h, [Idle EXCEPT !.op = op, !.todo = BySlot(keys), !.asked = ToSet(keys),
                             !.at = used[AppOf[h]]])
    /\ IF op = "SetMany" THEN Spent(AppOf[h], Len(names)) ELSE UNCHANGED used
    /\ UNCHANGED <<store, faults, claims, crossed>>

\* A failed command ends the call and leaves the groups after it unsent.
GroupDone(call, outcome, done, got) ==
    [call EXCEPT !.todo = Tail(@),
                 !.done = @ \cup done,
                 !.got = IF IsHeard(outcome) THEN @ \cup got ELSE @,
                 !.end = IF ~IsHeard(outcome) THEN "error" ELSE IF Len(call.todo) = 1 THEN "ok" ELSE "open"]

\* Mutant: values are matched to keys by position in the whole batch.
Found_ByPosition(call, group, values) ==
    LET keys == SetToSortSeq(call.asked, LAMBDA a, b : a.name < b.name) IN
    {<<keys[i], values[i]>> : i \in {i \in DOMAIN group : values[i] # <<>>}}

\* The values of one command, each under the key of its place in the group; a
\* key that holds no string is left out.
Found(call, group, values) ==
    {<<group[i], values[i]>> : i \in {i \in DOMAIN group : values[i] # <<>>}}

TextOf(value) == IF TypeOf(value) = "string" THEN <<value.num, value.els>> ELSE <<>>

GetMany(h, outcome) ==
    LET group  == Head(calls[h].todo)
        values == [i \in DOMAIN group |-> TextOf(store[group[i]])]
    IN  /\ IsBatch(calls[h], "GetMany") /\ Fault(outcome)
        /\ calls' = [calls EXCEPT ![h] = GroupDone(calls[h], outcome,
              {<<k, TextOf(store[k])>> : k \in {k \in ToSet(group) : TextOf(store[k]) # <<>>}},
              Found(calls[h], group, values))]
        /\ crossed' = (crossed \/ ~SameSlot(group))
        /\ UNCHANGED <<store, used, claims>>

\* The value of each key, looked up by the caller's own name: here the token of
\* the name's place among the caller's.
Pairs(h, group) ==
    [k \in ToSet(group) |->
       Value("string", <<<<k.app, calls[h].at + Cardinality({j \in calls[h].asked : j.name <= k.name})>>>>, 0, FALSE)]

Group(h, op, outcome, new) ==
    LET group == Head(calls[h].todo) IN
    /\ IsBatch(calls[h], op) /\ Fault(outcome)
    /\ store' = IF outcome = "failed" THEN store
                ELSE [k \in Keys |-> IF k \in ToSet(group) THEN new[k] ELSE store[k]]
    /\ claims' = {p \in claims : store'[p[1]] = store[p[1]]}
    /\ crossed' = (crossed \/ (outcome # "failed" /\ ~SameSlot(group)))
    /\ calls' = Steady([calls EXCEPT ![h] = GroupDone(calls[h], outcome,
                  IF outcome = "failed" THEN {} ELSE {<<k, <<>>>> : k \in ToSet(group)},
                  IF outcome = "answered"
                  THEN {<<k, <<>>>> : k \in {k \in ToSet(group) : store[k] # None}} ELSE {})])
    /\ UNCHANGED used

SetMany(h, outcome)    == Group(h, "SetMany", outcome, Pairs(h, Head(calls[h].todo)))
DeleteMany(h, outcome) == Group(h, "DeleteMany", outcome, [k \in ToSet(Head(calls[h].todo)) |-> None])

\* The writes a transaction can queue.
Queueable(h) == {c \in Writes(AppOf[h], Fresh(AppOf[h])) \cup Removals(AppOf[h])
                       \cup {Set(k, Fresh(AppOf[h]), o) : k \in KeysOf(AppOf[h]), o \in SetModes} :
                   c.verb \in TxVerbs}

\* Mutant: a command's first key stands for all of them.
RecordedKeys_First(queue) == [i \in DOMAIN queue |-> queue[i].keys[1]]

\* Every key the recorder is given.
RecordedKeys(queue) == FlattenSeq([i \in DOMAIN queue |-> queue[i].keys])

\* The client's error for a group is the first a command of it was answered with.
FirstError(replies) ==
    LET bad == {i \in DOMAIN replies : replies[i].t # "value"} IN
    IF bad = {} THEN "none" ELSE replies[Min(bad)].t

\* The group applied in order, with nothing in between.
Applied(queue) == FoldLeft(LAMBDA s, c : After(c, s), store, queue)
Replies(queue) == [i \in DOMAIN queue |-> Reply(queue[i], Applied(SubSeq(queue, 1, i - 1)))]

Transaction(h, queue, outcome) ==
    /\ calls[h] = Idle /\ Spent(AppOf[h], 1)
    /\ IF ~SameSlot(RecordedKeys(queue))
       THEN outcome = "answered" /\ UNCHANGED <<store, calls, faults, claims, crossed>>
       ELSE /\ Fault(outcome)
            /\ store' = IF outcome = "failed" THEN store ELSE Applied(queue)
            /\ claims' = {p \in claims : store'[p[1]] = store[p[1]]}
            /\ crossed' = (crossed \/ ~SameSlot(FlattenSeq([i \in DOMAIN queue |-> queue[i].keys])))
            /\ calls' = Steady([calls EXCEPT ![h] = [Idle EXCEPT
                 !.op  = "Transaction",
                 !.end = IF outcome = "answered" /\ FirstError(Replies(queue)) \in {"none", "nil"}
                         THEN "ok" ELSE IF outcome = "answered" THEN "refused" ELSE "error"]])

-----------------------------------------------------------------------------
(* Walking the keys                                                        *)

ShardOf(key) == IF Clustered THEN SlotOf(key) ELSE CHOOSE s \in Shards : TRUE

\* The clients a walk visits.  The masters of a cluster append themselves to one
\* slice from goroutines of their own, so any of them may be lost.
Visited == IF Clustered THEN (SUBSET Shards) \ {{}} ELSE {{CHOOSE s \in Shards : TRUE}}

ScanStart(h, kind, shards) ==
    /\ Start(h, [Idle EXCEPT !.op = "Scan", !.at = 1, !.visits = shards, !.kind = kind,
                   !.asked  = {k \in KeysOf(AppOf[h]) : ShardOf(k) \in shards},
                   !.stable = {k \in KeysOf(AppOf[h]) : Matching(kind, store[k])}])
    /\ UNCHANGED <<store, used, faults, claims, crossed>>

\* Mutant: an empty page ends the walk.
WalkEnds_EmptyPage(at, page) == at = NNames \/ page = {}

\* Redis has been round the whole keyspace; a page of nothing does not say so.
WalkEnds(at, page) == at = NNames

\* A page of one shard, the caller taking every key of it or stopping there.
Walk(h, goes, outcome) ==
    LET call  == calls[h]
        shard == CHOOSE s \in call.visits : TRUE
        page == {k \in KeysOf(AppOf[h]) : /\ k.name = call.at /\ ShardOf(k) = shard
                                          /\ Matching(call.kind, store[k])}
        left == IF WalkEnds(call.at, page) THEN call.visits \ {shard} ELSE call.visits
    IN  /\ call.op = "Scan" /\ call.end = "open" /\ Fault(outcome)
        /\ calls' = [calls EXCEPT ![h] =
             IF outcome = "failed" THEN [call EXCEPT !.end = "error"]
             ELSE [call EXCEPT !.got = call.got \cup {<<k, <<>>>> : k \in page},
                               !.visits = left,
                               !.at = IF left = call.visits THEN call.at + 1 ELSE 1,
                               !.end = IF ~goes /\ page # {} THEN "stopped"
                                       ELSE IF left = {} THEN "ok" ELSE "open"]]
        /\ UNCHANGED <<store, used, claims, crossed>>

-----------------------------------------------------------------------------

Init ==
    /\ deployed \in Deployments
    /\ store = [k \in Keys |-> None] /\ calls = [h \in Handlers |-> Idle]
    /\ used = [a \in Apps |-> 0] /\ faults = 0 /\ claims = {} /\ crossed = FALSE

\* A handler with no call under way makes one: of one command, or of several.
CallOnce(h, app) ==
    \/ \E c \in Writes(app, Fresh(app)), outcome \in {"answered", "resent"} : WriteOne(h, c, outcome)
    \/ \E c \in {c \in Removals(app) : After(c, store) # store}, outcome \in {"answered", "resent"} :
         RemoveOne(h, c, outcome)
    \/ \E k \in KeysOf(app), o \in SetModes, outcome \in Outcomes : WriteSet(h, k, o, outcome)

CallMany(h, app) ==
    \/ /\ used[app] < MaxWrites
       /\ \E q \in BoundedSeq(Queueable(h), 2), outcome \in Outcomes \ {"resent"} :
            Transaction(h, q, outcome)
    \/ \E op \in BatchOps, names \in BatchNames : BatchStart(h, op, names)
    \/ \E kind \in {"any", "list"}, shards \in Visited : ScanStart(h, kind, shards)

\* A call of several commands sends its next.
Proceed(h) ==
    \/ \E outcome \in Outcomes : GetMany(h, outcome)
    \/ \E outcome \in Outcomes : SetMany(h, outcome)
    \/ \E outcome \in Outcomes : DeleteMany(h, outcome)
    \/ \E goes \in BOOLEAN, outcome \in {"answered", "failed"} : Walk(h, goes, outcome)
    \/ Return(h)

Next ==
    /\ \/ \E h \in Handlers \ Batchers : CallOnce(h, AppOf[h])
       \/ \E h \in Batchers : IF calls[h] = Idle THEN CallMany(h, AppOf[h]) ELSE Proceed(h)
       \/ \E k \in Keys : Lapse(k)
    /\ UNCHANGED deployed

Spec == Init /\ [][Next]_vars

-----------------------------------------------------------------------------
(* Properties                                                              *)

Values == {None} \cup [kind : Kinds, els : Seq(Toks), num : Int, ttl : BOOLEAN]

\* The cache and the calls under way are of their types: no key is left holding
\* a collection with nothing in it, which Redis does not have.
TypeOK ==
    /\ \A k \in Keys : /\ store[k] \in Values
                       /\ store[k] # None /\ store[k].kind # "number" => store[k].els # <<>>
    /\ used \in [Apps -> 0..MaxWrites] /\ faults \in 0..MaxFaults
    /\ claims \subseteq Keys \X Toks /\ crossed \in BOOLEAN
    /\ \A h \in Handlers : /\ calls[h].op \in BatchOps \cup {"idle", "Scan", "Transaction"}
                           /\ calls[h].end \in {"open", "ok", "error", "refused", "stopped"}

\* A handler told that its IfNotExists write was made holds the key until its
\* value is replaced, removed, moved or runs out: no other handler's conditional
\* write takes it, whatever commands are lost or sent twice (Strings.Set).
ClaimHeld == \A p \in claims : p[2] \in ToSet(store[p[1]].els)

\* No command that names keys of two shards reaches a cluster, from a batch, a
\* rename, a set combination or a transaction (sameSlot, bySlot, recordingTx).
NoCrossShardCommand == Clustered => ~crossed

\* A SetMany or DeleteMany that reported success covered every key it was given,
\* and a GetMany gives each key it read the value Redis held under it, however
\* the keys were grouped by shard and whatever happened between the commands.
BatchWhole ==
    \A h \in Handlers : LET call == calls[h] IN
        call.end = "ok" =>
            /\ call.op \in {"SetMany", "DeleteMany"} => {p[1] : p \in call.done} = call.asked
            /\ call.op = "GetMany" => call.got = call.done

\* A walk that ran to its end yielded every key, of the shards it visited, that
\* held what it asked for all along: a page of nothing is not the end (walk).
WalkComplete ==
    \A h \in Handlers : LET call == calls[h] IN
        call.op = "Scan" /\ call.end = "ok" =>
            call.stable \cap call.asked \subseteq {p[1] : p \in call.got}

\* While a claim stands every handler is told of it, through any operation.  A
\* read finds the claimant's value, asking whether anything is there finds that
\* something is, a read of another structure fails, and another handler's
\* IfNotExists write is told false and not an error, and stores nothing, though
\* it be sent twice: of a race no second winner comes (Strings.Set, missing).
ClaimSeen ==
    \A p \in claims :
        /\ \A c \in Reads(p[1].app) : c.keys = <<p[1]>> =>
             LET r == Reply(c, store) IN
             /\ Told(c, r) = (IF c.kind \in {"any", "string"} THEN "found" ELSE "failed")
             /\ c.verb = "get" => r.els = <<p[2]>>
             /\ c.verb = "exists" => r.n = 1
        /\ \A o \in SetModes, outcome \in {"answered", "resent"}, t \in Toks :
             LET c == Set(p[1], t, o) IN
             o.OnlyIfAbsent => Told(c, Heard(c, outcome)) = "empty" /\ Effect(c, outcome) = store

==============================================================================
