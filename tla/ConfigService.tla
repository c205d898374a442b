---------------------------- MODULE ConfigService ---------------------------
(***************************************************************************)
(* Package config and its two providers: the stores the environment        *)
(* describes, the namespaces celerity.New builds over them, the backends   *)
(* that read a store (Secrets Manager, the Lambda extension in front of    *)
(* it, Parameter Store page by page, a local session's Valkey), and        *)
(* namespace.load with its lock, its refresh interval and what it does     *)
(* when the store cannot be read.                                          *)
(*                                                                         *)
(* A key is a sequence of names and separators, so that a prefix and the   *)
(* spellings of a nested field are what they are in the code.  A value is  *)
(* [store, key, version]: which store holds it, under what, and how often  *)
(* it was rotated.                                                         *)
(***************************************************************************)
EXTENDS Integers, FiniteSets, Sequences, SequencesExt, Functions

CONSTANTS
    Readers,        \* goroutines reading configuration
    Deployments,    \* what a process may be deployed as
    Calls,          \* the reads each reader makes
    DefaultRefresh, \* the interval where the environment gives none
    Latency,        \* bound: how long a fetch takes
    MaxRotations    \* bound: values rotated in the stores

\* A deployment is [platform, linked, described, refresh, extension, wired, file,
\* inline, topology, holds, until]: CELERITY_PLATFORM, the provider modules linked, the
\* store descriptions in the environment, the interval it sets, whether the
\* extension is attached, whether the application gives its service the links, the
\* state of the links file and of the links variable, the topology either of them
\* carries, for every store the keys written to it, and the bound of the clock.  A
\* description is [key, namespace, prefix, id, kind].

ASSUME ReadersFinite == IsFiniteSet(Readers)
ASSUME TimesNat == DefaultRefresh \in Nat \ {0} /\ Latency \in Nat
ASSUME RotationsNat == MaxRotations \in Nat
ASSUME DeploymentsShape ==
    \A p \in Deployments :
        /\ IsFiniteSet(p.described) /\ p.until \in Nat
        /\ \A d \in p.described : d.id \in DOMAIN p.holds /\ d.prefix \in STRING
        /\ \A id \in DOMAIN p.holds :
              id \in STRING /\ IsFiniteSet(p.holds[id]) /\ p.holds[id] \subseteq Seq(STRING)
ASSUME CallsShape ==
    \A r \in Readers : \A c \in Calls[r] :
        c.via \in {"only", "named", "resource"} /\ c.op \in {"get", "all", "bind"}

VARIABLES
    dep,         \* the deployment this process runs in
    clock,
    stores,      \* external: what each store holds, a value for every key
    extension,   \* external: what the extension has cached of each store
    rotations,   \* how often a value was rotated
    new,         \* whether celerity.New has run
    errs,        \* App.errs: what New could not build
    svc,         \* Service.namespaces: a record for every name registered
    links,       \* Service.links
    awsConfig,   \* the AWS provider's once: "none", "ok" or "failed"
    held,        \* namespace.values, .checkedAt and .mu, by name
    at,          \* where each reader is: its pc, its call, what it fetched
    answer       \* what each reader's last call returned

vars == <<dep, clock, stores, extension, rotations, new, errs, svc, links, awsConfig,
          held, at, answer>>
external == <<stores, extension, rotations>>
service == <<dep, new, errs, svc, links>>

NotSet == ""
Resources == "resources"
DefaultNamespace == "default"
Nothing == <<>>               \* the empty map, and a nil one
Slash == "/"
Separators == <<"_", Slash>>

Entry(k, v) == [x \in {k} |-> v]
Merge(f, g) == [k \in DOMAIN f \cup DOMAIN g |-> IF k \in DOMAIN g THEN g[k] ELSE f[k]]

-----------------------------------------------------------------------------
(* What the environment describes.                                         *)

CurrentPlatform ==
    IF dep.platform \in {"aws", "azure", "gcp", "local"} THEN dep.platform ELSE "other"

\* An interval that is not a positive number holds values for ever.
RefreshInterval ==
    IF dep.refresh = NotSet THEN DefaultRefresh
    ELSE IF dep.refresh = "off" THEN 0 ELSE DefaultRefresh + 1

\* CELERITY_CONFIG_<key>_STORE_ID, save where the key is STORE.
NamedStoreKey(d) == d.key \notin {NotSet, "store"}

FirstNonEmpty(s) == SelectSeq(s, LAMBDA v : v # NotSet)[1]

StoreName(d) ==
    IF d.key = NotSet THEN DefaultNamespace
    ELSE FirstNonEmpty(<<d.namespace, d.prefix, d.key>>)

DiscoverStores == {d \in dep.described : d.id # NotSet /\ (d.key = NotSet \/ NamedStoreKey(d))}

ProviderFor(platform) == platform \in dep.linked

AwsBackend(kind) ==
    CASE kind = "parameter-store" -> "parameters"
      [] kind \in {"secrets-manager", NotSet} ->
            IF dep.extension THEN "extension" ELSE "secrets"
      [] OTHER -> "unsupported"

BackendFor(kind) ==
    IF ~ProviderFor(CurrentPlatform) THEN "empty"
    ELSE IF CurrentPlatform = "local" THEN "local" ELSE AwsBackend(kind)

Caches(backend) == backend = "extension"

Namespace(d) ==
    LET backend == BackendFor(d.kind)
    IN  [id      |-> d.id,
         backend |-> backend,
         prefix  |-> d.prefix,
         refresh |-> IF Caches(backend) THEN 0 ELSE RefreshInterval]

\* Descriptions that come to the same name replace one another, in the order of a
\* Go map and of an unstable sort: any one of them may be the last.
FromEnvironment ==
    LET names == {StoreName(d) : d \in DiscoverStores}
        under(n) == {d \in DiscoverStores : StoreName(d) = n}
    IN  {[n \in names |-> Namespace(f[n])] :
            f \in {g \in [names -> DiscoverStores] : \A n \in names : g[n] \in under(n)}}

\* The links file first, the variable only where there is no file.
LoadLinks ==
    IF dep.file = "written" THEN dep.topology
    ELSE IF dep.file = "absent" /\ dep.inline = "written" THEN dep.topology
    ELSE Nothing

Unheld == [values |-> Nothing, nil |-> TRUE, checkedAt |-> 0, mu |-> {}, asOf |-> 0,
           failing |-> FALSE]

\* celerity.New: any store described that the linked provider cannot read costs
\* the whole service, also one another of its name would have replaced.
\* The links are not loaded here: a service has them when the application gives them.
New ==
    /\ ~new /\ new' = TRUE
    /\ errs' = (\E d \in DiscoverStores : BackendFor(d.kind) = "unsupported")
    /\ \E s \in FromEnvironment :
        /\ svc' = IF errs' THEN Nothing ELSE s
        /\ held' = [n \in DOMAIN svc' |-> Unheld]
    /\ links' = IF dep.wired THEN LoadLinks ELSE Nothing
    /\ UNCHANGED <<dep, clock, external, awsConfig, at, answer>>

-----------------------------------------------------------------------------
(* Which namespace a read goes to.                                         *)

Refused == "refused"

\* Mutant: one of the application's stores answers for all of them.
Only_First ==
    LET names == DOMAIN svc \ {Resources}
    IN  IF names = {} THEN Refused ELSE CHOOSE n \in names : TRUE

Only ==
    LET names == DOMAIN svc \ {Resources}
    IN  IF Cardinality(names) = 1 THEN CHOOSE n \in names : TRUE ELSE Refused

ByName(n) == IF n \in DOMAIN svc THEN n ELSE Refused

Find(kind, name) == name \in DOMAIN links /\ links[name].type = kind

ResourceKey(c) == links[c.name].key

\* The namespace a call reads, or that there is none.
Reads(c) ==
    CASE c.via = "only"     -> Only
      [] c.via = "named"    -> ByName(c.name)
      [] c.via = "resource" -> IF Find(c.kind, c.name) THEN ByName(Resources) ELSE Refused

-----------------------------------------------------------------------------
(* What a read takes from the values loaded.                               *)

\* Every key a tag could be written under, given those of the level above.
Candidates(prefixes, tag) ==
    IF prefixes = <<>> THEN <<<<tag>>>>
    ELSE FlattenSeq([i \in DOMAIN prefixes |->
            [j \in DOMAIN Separators |-> prefixes[i] \o <<Separators[j], tag>>]])

\* An embedded struct is no level: its fields are bound under no prefix at all,
\* whatever the struct it is embedded in is nested beneath.
BindEmbedded == <<>>

\* The keys of a field, from its levels, outermost first.
BindStruct(levels) ==
    FoldLeft(LAMBDA prefixes, l :
                IF l = "embedded" THEN BindEmbedded ELSE Candidates(prefixes, l),
             <<>>, levels)

\* The first of a field's keys that is there, if any is.
LookupField(values, levels) ==
    LET keys == BindStruct(levels)
        there == {i \in DOMAIN keys : keys[i] \in DOMAIN values}
    IN  {keys[i] : i \in {j \in there : \A other \in there : j <= other}}

\* A whole number is what a value was before anybody rotated it.
SetConfigField(field, value) == field.type = "string" \/ value.version = 1

\* The fields filled, each with its value, and whether all that were present parsed:
\* the first that does not ends it.
BindValues(values, fields) ==
    LET present(i) == LookupField(values, fields[i].levels) # {}
        value(i) == values[CHOOSE k \in LookupField(values, fields[i].levels) : TRUE]
        bad == {i \in DOMAIN fields : present(i) /\ ~SetConfigField(fields[i], value(i))}
        upTo == IF bad = {} THEN Len(fields)
                ELSE (CHOOSE i \in bad : \A j \in bad : i <= j) - 1
    IN  [got |-> [i \in {j \in 1 .. upTo : present(j)} |-> value(i)],
         ok  |-> bad = {}]

Get(values, key) ==
    IF key \in DOMAIN values THEN [got |-> Entry(key, values[key]), ok |-> TRUE]
    ELSE [got |-> Nothing, ok |-> FALSE]

\* Get, All and Bind on a namespace, and the Get that Resource makes.
Take(c, values) ==
    CASE c.via = "resource"   -> Get(values, ResourceKey(c))
      [] c.via # "resource" /\ c.op = "get"  -> Get(values, c.key)
      [] c.via # "resource" /\ c.op = "all"  -> [got |-> values, ok |-> TRUE]
      [] c.via # "resource" /\ c.op = "bind" -> BindValues(values, c.fields)

-----------------------------------------------------------------------------
(* namespace.load.                                                         *)

Idle == [pc |-> "idle", call |-> Nothing, on |-> NotSet, got |-> Nothing, page |-> 0,
         began |-> 0, saw |-> Nothing]
Unanswered == [status |-> "none", call |-> Nothing, got |-> Nothing, on |-> NotSet,
               age |-> 0, stood |-> FALSE]

Pc(r, p) == at[r].pc = p
On(r) == at[r].on
Ns(r) == svc[On(r)]
Held(r) == held[On(r)]

Answer(r, status, c, n, got, age, stood) ==
    answer' = [answer EXCEPT ![r] =
        [status |-> status, call |-> c, on |-> n, got |-> got, age |-> age, stood |-> stood]]

\* A call that names no namespace is refused; any other waits for the namespace's
\* lock, whatever its context.
Ask(r) ==
    /\ new /\ Pc(r, "idle")
    /\ \E c \in Calls[r] :
        IF Reads(c) = Refused
        THEN /\ answer' = [answer EXCEPT ![r] = [Unanswered EXCEPT !.status = Refused]]
             /\ at' = at
        ELSE /\ at' = [at EXCEPT ![r].pc = "lock", ![r].call = c, ![r].on = Reads(c)]
             /\ answer' = [answer EXCEPT ![r] = Unanswered]
    /\ UNCHANGED <<service, clock, external, awsConfig, held>>

\* Mutant: values are kept one tick longer than the interval.
Stale_OffByOne(n) == svc[n].refresh > 0 /\ clock - held[n].checkedAt > svc[n].refresh

Stale(n) == svc[n].refresh > 0 /\ clock - held[n].checkedAt >= svc[n].refresh

\* What load hands back is read at once, outside the lock.
Return(r, h) ==
    LET t == Take(at[r].call, h.values)
    IN  /\ at' = [at EXCEPT ![r] = Idle]
        /\ Answer(r, IF t.ok THEN "ok" ELSE "missing", at[r].call, On(r), t.got,
                  clock - h.asOf, h.failing)

\* The lock is free and what is held is fresh: it is returned at once.
ServeHeld(r) ==
    /\ Pc(r, "lock") /\ Held(r).mu = {}
    /\ ~Held(r).nil /\ ~Stale(On(r))
    /\ Return(r, Held(r))
    /\ UNCHANGED <<service, clock, external, awsConfig, held>>

\* Otherwise the store is read, with the lock held throughout.
Fetch(r) ==
    /\ Pc(r, "lock") /\ Held(r).mu = {}
    /\ Held(r).nil \/ Stale(On(r))
    /\ held' = [held EXCEPT ![On(r)].mu = @ \cup {r}]
    /\ at' = [at EXCEPT ![r].pc = Ns(r).backend, ![r].began = clock,
                        ![r].saw = stores[Ns(r).id]]
    /\ UNCHANGED <<service, clock, external, awsConfig, answer>>

Replied(r, values) == at' = [at EXCEPT ![r].pc = "reply", ![r].got = values]
Failed(r) == at' = [at EXCEPT ![r].pc = "error"]

\* EmptyBackend: every store reads as empty where no provider serves the platform.
ReadEmpty(r) ==
    /\ Pc(r, "empty") /\ Replied(r, Nothing)
    /\ UNCHANGED <<service, clock, external, awsConfig, held, answer>>

\* The local session's Valkey: a key that is not there is an empty store.
ReadLocal(r) ==
    /\ Pc(r, "local")
    /\ Replied(r, stores[Ns(r).id]) \/ Failed(r)
    /\ UNCHANGED <<service, clock, external, awsConfig, held, answer>>

\* The provider's configuration is loaded once, with the context of whoever asked
\* first, and what came of it is kept.
LoadAwsConfig(r) ==
    /\ Pc(r, "secrets") \/ Pc(r, "parameters")
    /\ awsConfig = "none"
    /\ awsConfig' \in {"ok", "failed"}
    /\ UNCHANGED <<service, clock, external, held, at, answer>>

NoClient(r) ==
    /\ Pc(r, "secrets") \/ Pc(r, "parameters")
    /\ awsConfig = "failed" /\ Failed(r)
    /\ UNCHANGED <<service, clock, external, awsConfig, held, answer>>

\* One secret holds the whole store; one not written yet is an empty store.
ReadSecret(r) ==
    /\ Pc(r, "secrets") /\ awsConfig = "ok"
    /\ Replied(r, stores[Ns(r).id]) \/ Failed(r)
    /\ UNCHANGED <<service, clock, external, awsConfig, held, answer>>

\* The extension answers from its cache, filling it first where it holds nothing or
\* its own interval is up.
ExtensionRead(id) == {stores[id]} \cup IF extension[id] = Nothing THEN {} ELSE {extension[id]}

\* Anything wrong with the extension sends the read to the service behind it.
ReadExtension(r) ==
    /\ Pc(r, "extension")
    /\ \/ \E v \in ExtensionRead(Ns(r).id) :
            /\ extension' = [extension EXCEPT ![Ns(r).id] = v]
            /\ Replied(r, v)
       \/ /\ extension' = extension
          /\ at' = [at EXCEPT ![r].pc = "secrets"]
    /\ UNCHANGED <<service, clock, stores, rotations, awsConfig, held, answer>>

\* A page of a store is one parameter, under its full path.
Pages(id) == SetToSeq(DOMAIN stores[id])
Parameter(id, k) == <<id, Slash>> \o k

CutPath(id, name) == IF IsPrefix(<<id, Slash>>, name) THEN SubSeq(name, 3, Len(name)) ELSE name

Collect(r, i) ==
    LET id == Ns(r).id
        k == Pages(id)[i]
    IN  Merge(at[r].got, Entry(CutPath(id, Parameter(id, k)), stores[id][k]))

\* Mutant: a page that fails ends the paging, and what was collected is the store.
ReadPage_Kept(r) ==
    /\ Pc(r, "parameters") /\ awsConfig = "ok"
    /\ LET i == at[r].page + 1
       IN  \/ i > Len(Pages(Ns(r).id)) /\ Replied(r, at[r].got)
           \/ /\ i <= Len(Pages(Ns(r).id))
              /\ at' = [at EXCEPT ![r].page = i, ![r].got = Collect(r, i)]
           \/ Replied(r, at[r].got)
    /\ UNCHANGED <<service, clock, external, awsConfig, held, answer>>

\* Parameters are read a page at a time until there is no token for the next; the
\* store may be rotated between two pages.  An error leaves nothing of the fetch.
ReadPage(r) ==
    /\ Pc(r, "parameters") /\ awsConfig = "ok"
    /\ LET i == at[r].page + 1
       IN  \/ i > Len(Pages(Ns(r).id)) /\ Replied(r, at[r].got)
           \/ /\ i <= Len(Pages(Ns(r).id))
              /\ at' = [at EXCEPT ![r].page = i, ![r].got = Collect(r, i)]
           \/ Failed(r)
    /\ UNCHANGED <<service, clock, external, awsConfig, held, answer>>

\* Only the keys under the prefix, with the prefix removed.
ApplyPrefix(prefix, values) ==
    IF prefix = NotSet THEN values
    ELSE LET under == {k \in DOMAIN values : IsPrefix(<<prefix, Slash>>, k) /\ Len(k) > 2}
         IN  [k \in {SubSeq(u, 3, Len(u)) : u \in under} |-> values[<<prefix, Slash>> \o k]]

\* Mutant: the lock is not released once the store has answered.
Record_KeepsLock(r) ==
    /\ Pc(r, "reply")
    /\ held' = [held EXCEPT ![On(r)].values = ApplyPrefix(Ns(r).prefix, at[r].got),
                            ![On(r)].nil = FALSE, ![On(r)].checkedAt = clock,
                            ![On(r)].asOf = at[r].began, ![On(r)].failing = FALSE]
    /\ Return(r, held'[On(r)])
    /\ UNCHANGED <<service, clock, external, awsConfig>>

\* The store answered: what it holds under the prefix is held from now on.
Record(r) ==
    /\ Pc(r, "reply")
    /\ held' = [held EXCEPT ![On(r)].values = ApplyPrefix(Ns(r).prefix, at[r].got),
                            ![On(r)].nil = FALSE, ![On(r)].checkedAt = clock,
                            ![On(r)].asOf = at[r].began, ![On(r)].failing = FALSE,
                            ![On(r)].mu = @ \ {r}]
    /\ Return(r, held'[On(r)])
    /\ UNCHANGED <<service, clock, external, awsConfig>>

\* It did not: checkedAt is set all the same, what is held stands, and the caller is
\* told only where nothing was ever read.
RecordError(r) ==
    /\ Pc(r, "error")
    /\ held' = [held EXCEPT ![On(r)].checkedAt = clock, ![On(r)].failing = TRUE,
                            ![On(r)].mu = @ \ {r}]
    /\ IF Held(r).nil
       THEN /\ at' = [at EXCEPT ![r] = Idle]
            /\ Answer(r, "failed", at[r].call, On(r), Nothing, 0, FALSE)
       ELSE Return(r, held'[On(r)])
    /\ UNCHANGED <<service, clock, external, awsConfig>>

-----------------------------------------------------------------------------
Init ==
    /\ dep \in Deployments
    /\ clock = 0 /\ rotations = 0
    /\ stores = [id \in DOMAIN dep.holds |->
                    [k \in dep.holds[id] |-> [store |-> id, key |-> k, version |-> 1]]]
    /\ extension = [id \in DOMAIN dep.holds |-> Nothing]
    /\ new = FALSE /\ errs = FALSE /\ svc = Nothing /\ links = Nothing
    /\ awsConfig = "none" /\ held = Nothing
    /\ at = [r \in Readers |-> Idle]
    /\ answer = [r \in Readers |-> Unanswered]

\* Time passes, but not past the latency of a fetch.
Tick ==
    /\ new /\ clock < dep.until
    /\ \A r \in Readers : at[r].pc \notin {"idle", "lock"} => clock - at[r].began < Latency
    /\ clock' = clock + 1
    /\ UNCHANGED <<service, external, awsConfig, held, at, answer>>

Rotate ==
    /\ new /\ rotations < MaxRotations
    /\ \E id \in DOMAIN stores : \E k \in DOMAIN stores[id] :
        stores' = [stores EXCEPT ![id][k].version = @ + 1]
    /\ rotations' = rotations + 1
    /\ UNCHANGED <<service, clock, extension, awsConfig, held, at, answer>>

Locks(r) == ServeHeld(r) \/ Fetch(r)
Backend(r) ==
    \/ ReadEmpty(r) \/ ReadLocal(r) \/ LoadAwsConfig(r) \/ NoClient(r)
    \/ ReadSecret(r) \/ ReadExtension(r) \/ ReadPage(r)
Reader(r) == Locks(r) \/ Backend(r) \/ Record(r) \/ RecordError(r)

Next == New \/ Tick \/ Rotate \/ \E r \in Readers : Ask(r) \/ Reader(r)

Spec == Init /\ [][Next]_vars

(* A reader that waits for the lock gets it (Go's mutex hands over to a    *)
(* waiter that starves), and a fetch returns.                              *)
FairSpec == Spec /\ \A r \in Readers : SF_vars(Locks(r)) /\ WF_vars(Reader(r))

-----------------------------------------------------------------------------
(* As long as the store answers, no load returns a value read from the     *)
(* store more than the interval and one fetch ago (namespace.go,           *)
(* WithRefresh: "a caller is never handed values that have already been    *)
(* judged too old").  It holds of the backends the refresh is for: what    *)
(* the extension caches, and what a deployment asked to hold, is exempt.   *)
ServedFresh ==
    \A r \in Readers : LET a == answer[r] IN
        /\ a.on # NotSet /\ ~a.stood /\ a.status \in {"ok", "missing"}
        /\ dep.refresh # "off" /\ ~(dep.extension /\ svc[a.on].backend = "extension")
        => a.age < RefreshInterval + Latency

\* What the namespace is left holding, against the store as this reader's fetch saw it.
ReadWhole(r, n) ==
    /\ at[r].on = n /\ n \in DOMAIN svc
    /\ LET saw == ApplyPrefix(svc[n].prefix, at[r].saw)
       IN  /\ svc[n].backend # "empty" => DOMAIN saw = DOMAIN held'[n].values
           /\ svc[n].backend \notin {"empty", "extension"} =>
                \A k \in DOMAIN saw : held'[n].values[k].version >= saw[k].version

(* What a namespace comes to hold is a whole reading of its store, however *)
(* its pages, the lock and rotations of the store interleave: every key    *)
(* the store held under the prefix when the fetch began, at a version no   *)
(* older than it had then (parameterStore.Fetch: a store read as its first *)
(* page "is a subtly wrong configuration rather than a failure").  The     *)
(* extension's cache, and a platform no provider serves, make no promise   *)
(* of the version or of any key.                                           *)
ReadingIsWhole ==
    [][\A n \in DOMAIN held \cap DOMAIN held' :
         held'[n].values # held[n].values => \E r \in Readers : ReadWhole(r, n)]_vars

\* The stores the environment describes under a name, and the application's own.
DescribedAs(n) == {d \in DiscoverStores : StoreName(d) = n}
ApplicationStores == {d \in DiscoverStores : StoreName(d) # Resources}

(* A read is answered from the store it means, or not at all: one that     *)
(* names no namespace only where the application has one store of its own  *)
(* (Service.only: "reading from whichever happened to be registered first  *)
(* would be a value from the wrong store"), one that names a namespace     *)
(* from a store described under that name, and a resource only from the    *)
(* resources store, only for a resource of the kind asked for, under the   *)
(* key the topology gives it.                                              *)
AnsweredByTheStoreMeant ==
    \A r \in Readers : LET a == answer[r] IN a.status = "ok" =>
        LET from == {a.got[k].store : k \in DOMAIN a.got}
        IN  CASE a.call.via = "only" ->
                    /\ \A d, e \in ApplicationStores : StoreName(d) = StoreName(e)
                    /\ from \subseteq {d.id : d \in ApplicationStores}
              [] a.call.via = "named" -> from \subseteq {d.id : d \in DescribedAs(a.call.name)}
              [] a.call.via = "resource" ->
                    /\ from \subseteq {d.id : d \in DescribedAs(Resources)}
                    /\ dep.topology[a.call.name].type = a.call.kind
                    /\ DOMAIN a.got = {dep.topology[a.call.name].key}

(* Every load returns: a reader is never left waiting for the lock or for  *)
(* somebody else's fetch, whichever backend it goes through.               *)
LoadsReturn == \A r \in Readers : Pc(r, "lock") ~> Pc(r, "idle")

=============================================================================
