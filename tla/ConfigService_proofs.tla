------------------------ MODULE ConfigService_proofs ------------------------
(***************************************************************************)
(* Proofs about the configuration service, for every set of readers and    *)
(* deployments, every interval and latency: no load hands out values       *)
(* judged too old, a namespace comes to hold only whole readings of its    *)
(* store, and a read is answered from the store it means.                  *)
(*                                                                         *)
(* What is held follows from what was fetched, and what was fetched from   *)
(* the store at the time: the invariant relates the values a reader has    *)
(* collected so far to the store as it was when its fetch began and as it  *)
(* is now.                                                                 *)
(***************************************************************************)
EXTENDS ConfigService, FiniteSetTheorems, TLAPS

Backends == {"empty", "local", "parameters", "extension", "secrets"}
Fetching == Backends \cup {"reply", "error"}

(* A reader and what a namespace holds are the records they are.           *)
IsReader(a) ==
    /\ a = [pc |-> a.pc, call |-> a.call, on |-> a.on, got |-> a.got, page |-> a.page,
            began |-> a.began, saw |-> a.saw]
    /\ a.pc \in {"idle", "lock"} \cup Fetching
    /\ a.page \in Nat /\ a.began \in Nat
IsHeld(h) ==
    /\ h = [values |-> h.values, nil |-> h.nil, checkedAt |-> h.checkedAt, mu |-> h.mu,
            asOf |-> h.asOf, failing |-> h.failing]
    /\ h.nil \in BOOLEAN /\ h.failing \in BOOLEAN /\ h.checkedAt \in Nat /\ h.asOf \in Nat

Shapes ==
    /\ dep \in Deployments /\ clock \in Nat
    /\ DOMAIN at = Readers /\ \A r \in Readers : IsReader(at[r])
    /\ DOMAIN answer = Readers
    /\ DOMAIN held = DOMAIN svc /\ \A n \in DOMAIN svc : IsHeld(held[n])

(* The namespaces are those of the stores described, or none at all, and   *)
(* nobody asks before they are built.                                      *)
Built ==
    /\ \A n \in DOMAIN svc :
         \E d \in DiscoverStores :
            StoreName(d) = n /\ svc[n] = Namespace(d) /\ svc[n].backend # "unsupported"
    /\ DOMAIN svc = {} \/ DOMAIN svc = {StoreName(d) : d \in DiscoverStores}
    /\ DOMAIN links = {} \/ links = dep.topology
    /\ ~new => /\ DOMAIN svc = {}
               /\ \A r \in Readers : at[r].pc = "idle" /\ answer[r].status = "none"

(* A reader under way is on the namespace its call means.                  *)
Asked ==
    \A r \in Readers : at[r].pc # "idle" =>
        /\ at[r].call \in Calls[r]
        /\ On(r) = Reads(at[r].call) /\ On(r) \in DOMAIN svc /\ On(r) # Refused

ServiceInv == Shapes /\ Built /\ Asked

(* How old what is held, and what is being fetched, can be.                *)
Ages ==
    /\ \A r \in Readers : at[r].pc \in Fetching =>
         at[r].began <= clock /\ clock - at[r].began <= Latency
    /\ \A n \in DOMAIN svc :
         ~held[n].nil /\ ~held[n].failing => held[n].checkedAt - held[n].asOf <= Latency
    /\ ServedFresh

(* The values of a store: all of its keys, each as that store's.           *)
Of(id, values) == \A k \in DOMAIN values : values[k].store = id
Whole(id, values) == DOMAIN values = dep.holds[id] /\ Of(id, values)

StoresKept ==
    /\ DOMAIN stores = DOMAIN dep.holds /\ DOMAIN extension = DOMAIN dep.holds
    /\ \A id \in DOMAIN stores :
         /\ Whole(id, stores[id])
         /\ \A k \in DOMAIN stores[id] :
              /\ stores[id][k] = [store |-> stores[id][k].store, key |-> stores[id][k].key,
                                  version |-> stores[id][k].version]
              /\ stores[id][k].version \in Nat
         /\ extension[id] = Nothing \/ Whole(id, extension[id])

(* What a reader has fetched: as much of the store as it has got to, no    *)
(* older than when its fetch began.                                        *)
NoOlder(values, saw) == \A k \in DOMAIN values : values[k].version >= saw[k].version
Collected(r) ==
    LET id == Ns(r).id
        a == at[r]
    IN  /\ a.page \in 0 .. Len(Pages(id))
        /\ DOMAIN a.got = {Pages(id)[i] : i \in 1 .. a.page}
        /\ Of(id, a.got) /\ NoOlder(a.got, a.saw)
Reading(r) ==
    LET id == Ns(r).id
        a == at[r]
    IN  /\ DOMAIN a.got \subseteq dep.holds[id] /\ Of(id, a.got)
        /\ Ns(r).backend # "empty" => DOMAIN a.got = DOMAIN a.saw
        /\ Ns(r).backend \notin {"empty", "extension"} => NoOlder(a.got, a.saw)
FetchedBy(r) ==
    /\ at[r].pc \in {"idle", "lock"} => at[r].got = Nothing /\ at[r].page = 0
    /\ at[r].pc \in Fetching =>
         /\ DOMAIN at[r].saw = dep.holds[Ns(r).id] /\ NoOlder(stores[Ns(r).id], at[r].saw)
         /\ \A k \in DOMAIN at[r].saw : at[r].saw[k].version \in Nat
    /\ at[r].pc = "empty" => Ns(r).backend = "empty"
    /\ at[r].pc = "extension" => Ns(r).backend = "extension"
    /\ at[r].pc = "parameters" => Collected(r)
    /\ at[r].pc = "reply" => Reading(r)
Fetched == \A r \in Readers : FetchedBy(r)

HeldFromStore == \A n \in DOMAIN svc : Of(svc[n].id, held[n].values)

ReadingInv == StoresKept /\ Fetched /\ HeldFromStore
-----------------------------------------------------------------------------
(* How a step changes a reader.                                            *)

LEMMA IdleReader == IsReader(Idle) /\ Idle.pc = "idle"
  BY DEF Idle, IsReader, Fetching, Backends

(* What Answer leaves in the caller's hands.                               *)
LEMMA Answered ==
    ASSUME NEW r \in Readers, NEW status, NEW c, NEW n, NEW got, NEW age, NEW stood,
           DOMAIN answer = Readers, Answer(r, status, c, n, got, age, stood)
    PROVE  /\ DOMAIN answer' = Readers
           /\ \A q \in Readers : q # r => answer'[q] = answer[q]
           /\ answer'[r].status = status /\ answer'[r].call = c /\ answer'[r].on = n
           /\ answer'[r].got = got /\ answer'[r].age = age /\ answer'[r].stood = stood
  BY DEF Answer

(* The steps of a fetch move one reader, on the namespace it is on, and    *)
(* nothing of the service.                                                 *)
Moves(r) ==
    /\ UNCHANGED <<service, clock, held, answer>>
    /\ DOMAIN at' = Readers /\ \A q \in Readers : q # r => at'[q] = at[q]
    /\ IsReader(at'[r])
    /\ at[r].pc \in Backends /\ at'[r].pc \in Fetching
    /\ at'[r].call = at[r].call /\ at'[r].on = at[r].on
    /\ at'[r].began = at[r].began /\ at'[r].saw = at[r].saw

LEMMA BackendSteps ==
    ASSUME NEW r \in Readers, Shapes, Backend(r)
    PROVE  Moves(r)
  <1>1. DOMAIN at = Readers /\ IsReader(at[r])
    BY DEF Shapes
  <1>2. ASSUME NEW v, Replied(r, v), at[r].pc \in Backends
        PROVE  /\ DOMAIN at' = Readers /\ \A q \in Readers : q # r => at'[q] = at[q]
               /\ IsReader(at'[r]) /\ at'[r].pc \in Fetching
               /\ at'[r].call = at[r].call /\ at'[r].on = at[r].on
               /\ at'[r].began = at[r].began /\ at'[r].saw = at[r].saw
    BY <1>1, <1>2 DEF Replied, IsReader, Fetching, Backends
  <1>3. ASSUME Failed(r), at[r].pc \in Backends
        PROVE  /\ DOMAIN at' = Readers /\ \A q \in Readers : q # r => at'[q] = at[q]
               /\ IsReader(at'[r]) /\ at'[r].pc \in Fetching
               /\ at'[r].call = at[r].call /\ at'[r].on = at[r].on
               /\ at'[r].began = at[r].began /\ at'[r].saw = at[r].saw
    BY <1>1, <1>3 DEF Failed, IsReader, Fetching, Backends
  <1>4. CASE ReadEmpty(r)
    <2>1. at[r].pc \in Backends /\ Replied(r, Nothing) /\ UNCHANGED <<service, clock, held, answer>>
      BY <1>4 DEF ReadEmpty, Pc, Backends
    <2> QED BY <2>1, <1>2 DEF Moves
  <1>5. CASE ReadLocal(r)
    <2>1. /\ at[r].pc \in Backends /\ UNCHANGED <<service, clock, held, answer>>
          /\ Replied(r, stores[Ns(r).id]) \/ Failed(r)
      BY <1>5 DEF ReadLocal, Pc, Backends
    <2> QED BY <2>1, <1>2, <1>3 DEF Moves
  <1>6. CASE LoadAwsConfig(r)
    <2>1. at[r].pc \in Backends /\ UNCHANGED <<service, clock, held, answer>> /\ at' = at
      BY <1>6 DEF LoadAwsConfig, Pc, Backends
    <2> QED BY <2>1, <1>1 DEF Moves, Fetching
  <1>7. CASE NoClient(r)
    <2>1. at[r].pc \in Backends /\ Failed(r) /\ UNCHANGED <<service, clock, held, answer>>
      BY <1>7 DEF NoClient, Pc, Backends
    <2> QED BY <2>1, <1>3 DEF Moves
  <1>8. CASE ReadSecret(r)
    <2>1. /\ at[r].pc \in Backends /\ UNCHANGED <<service, clock, held, answer>>
          /\ Replied(r, stores[Ns(r).id]) \/ Failed(r)
      BY <1>8 DEF ReadSecret, Pc, Backends
    <2> QED BY <2>1, <1>2, <1>3 DEF Moves
  <1>9. CASE ReadExtension(r)
    <2>1. /\ at[r].pc \in Backends /\ UNCHANGED <<service, clock, held, answer>>
          /\ (\E v : Replied(r, v)) \/ at' = [at EXCEPT ![r].pc = "secrets"]
      BY <1>9 DEF ReadExtension, Pc, Backends
    <2>2. CASE at' = [at EXCEPT ![r].pc = "secrets"]
      BY <2>1, <2>2, <1>1 DEF Moves, IsReader, Fetching, Backends
    <2> QED BY <2>1, <2>2, <1>2 DEF Moves
  <1>10. CASE ReadPage(r)
    <2>1. /\ at[r].pc \in Backends /\ at[r].pc = "parameters"
          /\ UNCHANGED <<service, clock, held, answer>>
          /\ \/ Replied(r, at[r].got) \/ Failed(r)
             \/ at' = [at EXCEPT ![r].page = at[r].page + 1, ![r].got = Collect(r, at[r].page + 1)]
      BY <1>10 DEF ReadPage, Pc, Backends
    <2>2. CASE at' = [at EXCEPT ![r].page = at[r].page + 1, ![r].got = Collect(r, at[r].page + 1)]
      <3> DEFINE g == Collect(r, at[r].page + 1)
      <3> HIDE DEF g
      <3>1. at' = [at EXCEPT ![r].page = at[r].page + 1, ![r].got = g]
        BY <2>2 DEF g
      <3> QED BY <3>1, <2>1, <1>1 DEF Moves, IsReader, Fetching, Backends
    <2> QED BY <2>1, <2>2, <1>2, <1>3 DEF Moves
  <1> QED BY <1>4, <1>5, <1>6, <1>7, <1>8, <1>9, <1>10 DEF Backend

(* A reader that is answered is idle again; its answer is what its call    *)
(* takes of the values handed back.                                        *)
GoesIdle(r) ==
    /\ DOMAIN at' = Readers /\ \A q \in Readers : q # r => at'[q] = at[q]
    /\ at'[r] = Idle
    /\ DOMAIN answer' = Readers /\ \A q \in Readers : q # r => answer'[q] = answer[q]
Given(r, h) ==
    LET t == Take(at[r].call, h.values) IN
    /\ answer'[r].status \in {"ok", "missing"} /\ (answer'[r].status = "ok" => t.ok)
    /\ answer'[r].call = at[r].call /\ answer'[r].on = at[r].on
    /\ answer'[r].got = t.got /\ answer'[r].age = clock - h.asOf
    /\ answer'[r].stood = h.failing

LEMMA ReturnSteps ==
    ASSUME NEW r \in Readers, Shapes, NEW h, Return(r, h)
    PROVE  GoesIdle(r) /\ Given(r, h)
  <1> DEFINE t == Take(at[r].call, h.values)
             status == IF t.ok THEN "ok" ELSE "missing"
  <1>1. DOMAIN at = Readers /\ DOMAIN answer = Readers
    BY DEF Shapes
  <1>2. at' = [at EXCEPT ![r] = Idle]
    BY DEF Return
  <1>3. Answer(r, status, at[r].call, On(r), t.got, clock - h.asOf, h.failing)
    BY DEF Return
  <1>4. status \in {"ok", "missing"} /\ (status = "ok" => t.ok)
    OBVIOUS
  <1> HIDE DEF status
  <1>5. /\ DOMAIN answer' = Readers
        /\ \A q \in Readers : q # r => answer'[q] = answer[q]
        /\ answer'[r].status = status /\ answer'[r].call = at[r].call /\ answer'[r].on = On(r)
        /\ answer'[r].got = t.got /\ answer'[r].age = clock - h.asOf
        /\ answer'[r].stood = h.failing
    BY <1>1, <1>3, Answered
  <1>6. GoesIdle(r)
    BY <1>1, <1>2, <1>5 DEF GoesIdle
  <1>7. Given(r, h)
    BY <1>4, <1>5 DEF Given, On
  <1> QED BY <1>6, <1>7

(* What a load that ends leaves of what its namespace holds, and of every  *)
(* other one.                                                              *)
HeldBy(r) ==
    /\ DOMAIN held' = DOMAIN held
    /\ \A n \in DOMAIN held : n # On(r) => held'[n] = held[n]
    /\ IsHeld(held'[On(r)])

Quiet == UNCHANGED <<service, clock, external, awsConfig>>

LEMMA ServeSteps ==
    ASSUME NEW r \in Readers, Shapes, ServeHeld(r)
    PROVE  /\ Quiet /\ held' = held /\ GoesIdle(r) /\ Given(r, Held(r))
           /\ at[r].pc = "lock" /\ ~Held(r).nil /\ ~Stale(On(r))
  <1>1. Return(r, Held(r)) /\ Quiet /\ held' = held
    BY DEF ServeHeld, Quiet
  <1> QED BY <1>1, ReturnSteps DEF ServeHeld, Pc

LEMMA FetchSteps ==
    ASSUME NEW r \in Readers, Shapes, Asked, Fetch(r)
    PROVE  /\ Quiet /\ answer' = answer /\ HeldBy(r)
           /\ held'[On(r)].values = held[On(r)].values
           /\ held'[On(r)].nil = held[On(r)].nil /\ held'[On(r)].failing = held[On(r)].failing
           /\ held'[On(r)].checkedAt = held[On(r)].checkedAt
           /\ held'[On(r)].asOf = held[On(r)].asOf
           /\ DOMAIN at' = Readers /\ \A q \in Readers : q # r => at'[q] = at[q]
           /\ at[r].pc = "lock"
           /\ at'[r] = [at[r] EXCEPT !.pc = Ns(r).backend, !.began = clock,
                                     !.saw = stores[Ns(r).id]]
  <1>1. at[r].pc = "lock" /\ On(r) \in DOMAIN held /\ IsHeld(held[On(r)])
    BY DEF Fetch, Pc, Asked, Shapes
  <1>2. held' = [held EXCEPT ![On(r)].mu = held[On(r)].mu \cup {r}]
    BY DEF Fetch
  <1>3. /\ HeldBy(r)
        /\ held'[On(r)].values = held[On(r)].values
        /\ held'[On(r)].nil = held[On(r)].nil /\ held'[On(r)].failing = held[On(r)].failing
        /\ held'[On(r)].checkedAt = held[On(r)].checkedAt
        /\ held'[On(r)].asOf = held[On(r)].asOf
    BY <1>1, <1>2 DEF HeldBy, IsHeld
  <1>4. at' = [at EXCEPT ![r].pc = Ns(r).backend, ![r].began = clock, ![r].saw = stores[Ns(r).id]]
    BY DEF Fetch
  <1>5. DOMAIN at = Readers
    BY DEF Shapes
  <1>6. Quiet /\ answer' = answer
    BY DEF Fetch, Quiet
  <1> QED BY <1>1, <1>3, <1>4, <1>5, <1>6

LEMMA RecordSteps ==
    ASSUME NEW r \in Readers, Shapes, Asked, Record(r)
    PROVE  /\ Quiet /\ GoesIdle(r) /\ Given(r, held'[On(r)]) /\ HeldBy(r)
           /\ at[r].pc = "reply"
           /\ held'[On(r)].values = ApplyPrefix(Ns(r).prefix, at[r].got)
           /\ held'[On(r)].nil = FALSE /\ held'[On(r)].failing = FALSE
           /\ held'[On(r)].checkedAt = clock /\ held'[On(r)].asOf = at[r].began
  <1> DEFINE v == ApplyPrefix(Ns(r).prefix, at[r].got)
  <1>1. /\ at[r].pc = "reply" /\ On(r) \in DOMAIN held /\ IsHeld(held[On(r)])
        /\ clock \in Nat /\ at[r].began \in Nat
    BY DEF Record, Pc, Asked, Shapes, IsReader
  <1> HIDE DEF v
  <1>2. held' = [held EXCEPT ![On(r)].values = v,
                             ![On(r)].nil = FALSE, ![On(r)].checkedAt = clock,
                             ![On(r)].asOf = at[r].began, ![On(r)].failing = FALSE,
                             ![On(r)].mu = held[On(r)].mu \ {r}]
    BY DEF Record, v
  <1>3. held'[On(r)] = [values |-> v, nil |-> FALSE, checkedAt |-> clock,
                        mu |-> held[On(r)].mu \ {r}, asOf |-> at[r].began, failing |-> FALSE]
    BY <1>1, <1>2 DEF IsHeld
  <1>4. /\ HeldBy(r)
        /\ held'[On(r)].values = v
        /\ held'[On(r)].nil = FALSE /\ held'[On(r)].failing = FALSE
        /\ held'[On(r)].checkedAt = clock /\ held'[On(r)].asOf = at[r].began
    BY <1>1, <1>2, <1>3 DEF HeldBy, IsHeld
  <1>5. Return(r, held'[On(r)]) /\ Quiet
    BY DEF Record, Quiet
  <1>6. GoesIdle(r) /\ Given(r, held'[On(r)])
    BY <1>5, ReturnSteps
  <1> QED BY <1>1, <1>4, <1>5, <1>6 DEF v

(* A fetch that failed: told to the caller only where nothing was held.    *)
Told(r) ==
    /\ answer'[r].status = "failed"
    /\ answer'[r].call = at[r].call /\ answer'[r].on = at[r].on

LEMMA RecordErrorSteps ==
    ASSUME NEW r \in Readers, Shapes, Asked, RecordError(r)
    PROVE  /\ Quiet /\ GoesIdle(r) /\ HeldBy(r)
           /\ Told(r) \/ (Given(r, held'[On(r)]) /\ ~held[On(r)].nil)
           /\ at[r].pc = "error"
           /\ held'[On(r)].values = held[On(r)].values
           /\ held'[On(r)].nil = held[On(r)].nil /\ held'[On(r)].failing = TRUE
  <1>1. /\ at[r].pc = "error" /\ On(r) \in DOMAIN held /\ IsHeld(held[On(r)])
        /\ clock \in Nat
    BY DEF RecordError, Pc, Asked, Shapes
  <1>2. held' = [held EXCEPT ![On(r)].checkedAt = clock, ![On(r)].failing = TRUE,
                             ![On(r)].mu = held[On(r)].mu \ {r}]
    BY DEF RecordError
  <1>3. held'[On(r)] = [values |-> held[On(r)].values, nil |-> held[On(r)].nil,
                        checkedAt |-> clock, mu |-> held[On(r)].mu \ {r},
                        asOf |-> held[On(r)].asOf, failing |-> TRUE]
    BY <1>1, <1>2 DEF IsHeld
  <1>4. /\ HeldBy(r)
        /\ held'[On(r)].values = held[On(r)].values
        /\ held'[On(r)].nil = held[On(r)].nil /\ held'[On(r)].failing = TRUE
    BY <1>1, <1>2, <1>3 DEF HeldBy, IsHeld
  <1>5. Quiet
    BY DEF RecordError, Quiet
  <1>6. CASE held[On(r)].nil
    <2>1. /\ at' = [at EXCEPT ![r] = Idle]
          /\ Answer(r, "failed", at[r].call, On(r), Nothing, 0, FALSE)
      BY <1>6 DEF RecordError, Held
    <2>2. /\ DOMAIN answer' = Readers
          /\ \A q \in Readers : q # r => answer'[q] = answer[q]
          /\ answer'[r].status = "failed" /\ answer'[r].call = at[r].call
          /\ answer'[r].on = On(r)
      BY <2>1 DEF Answer, Shapes
    <2>3. GoesIdle(r) /\ Told(r)
      BY <2>1, <2>2 DEF GoesIdle, Told, Shapes, On
    <2> QED BY <1>1, <1>4, <1>5, <2>3
  <1>7. CASE ~held[On(r)].nil
    <2>1. Return(r, held'[On(r)])
      BY <1>7 DEF RecordError, Held
    <2> QED BY <2>1, <1>1, <1>4, <1>5, <1>7, ReturnSteps
  <1> QED BY <1>6, <1>7

(* What the environment describes does not change under a running process, *)
(* and where a call goes does not once New has run.                        *)
LEMMA SameEnvironment ==
    ASSUME dep' = dep, NEW d
    PROVE  DiscoverStores' = DiscoverStores /\ Namespace(d)' = Namespace(d)
  <1>1. DiscoverStores' = DiscoverStores
    BY DEF DiscoverStores
  <1>2. CurrentPlatform' = CurrentPlatform /\ RefreshInterval' = RefreshInterval
    BY DEF CurrentPlatform, RefreshInterval
  <1>3. BackendFor(d.kind)' = BackendFor(d.kind)
    BY <1>2 DEF BackendFor, ProviderFor, AwsBackend
  <1> QED BY <1>1, <1>2, <1>3 DEF Namespace

LEMMA SameReads ==
    ASSUME svc' = svc, links' = links, NEW r
    PROVE  Reads(at[r].call)' = Reads(at'[r].call)
  <1>1. /\ Only' = Only /\ ByName(Resources)' = ByName(Resources)
        /\ ByName(at[r].call.name)' = ByName(at'[r].call.name)
    BY DEF Only, ByName
  <1>2. Find(at[r].call.kind, at[r].call.name)' = Find(at'[r].call.kind, at'[r].call.name)
    BY DEF Find
  <1> QED BY <1>1, <1>2 DEF Reads

LEMMA NoNames == DOMAIN Nothing = {}
  BY DEF Nothing

(* New registers a namespace for every name described, or none at all.     *)
LEMMA NewSteps ==
    ASSUME New
    PROVE  /\ ~new /\ new' = TRUE /\ UNCHANGED <<dep, clock, external, awsConfig, at, answer>>
           /\ DOMAIN held' = DOMAIN svc' /\ \A n \in DOMAIN svc' : held'[n] = Unheld
           /\ \A n \in DOMAIN svc' :
                \E d \in DiscoverStores :
                   StoreName(d) = n /\ svc'[n] = Namespace(d) /\ svc'[n].backend # "unsupported"
           /\ DOMAIN svc' = {} \/ DOMAIN svc' = {StoreName(d) : d \in DiscoverStores}
           /\ DOMAIN links' = {} \/ links' = dep.topology
  <1> DEFINE names == {StoreName(d) : d \in DiscoverStores}
  <1>5. errs' = (\E d \in DiscoverStores : BackendFor(d.kind) = "unsupported")
    BY DEF New
  <1>1. PICK s \in FromEnvironment :
            /\ svc' = IF errs' THEN Nothing ELSE s
            /\ held' = [n \in DOMAIN svc' |-> Unheld]
    BY DEF New
  <1>2. PICK f \in [names -> DiscoverStores] :
            /\ \A n \in names : StoreName(f[n]) = n
            /\ s = [n \in names |-> Namespace(f[n])]
    <2>1. PICK f \in {g \in [names -> DiscoverStores] :
                        \A n \in names : g[n] \in {d \in DiscoverStores : StoreName(d) = n}} :
              s = [n \in names |-> Namespace(f[n])]
      BY <1>1 DEF FromEnvironment
    <2> QED BY <2>1
  <1>3. CASE errs'
    <2>1. svc' = Nothing /\ DOMAIN svc' = {}
      BY <1>1, <1>3, NoNames
    <2>2. DOMAIN held' = DOMAIN svc'
      BY <1>1
    <2> QED BY <2>1, <2>2, NoNames DEF New, LoadLinks
  <1>4. CASE ~errs'
    <2>2. \A n \in names : s[n] = Namespace(f[n]) /\ f[n] \in DiscoverStores
      BY <1>2
    <2>5. \A d \in DiscoverStores : Namespace(d).backend # "unsupported"
      <3>1. \A d \in DiscoverStores : BackendFor(d.kind) # "unsupported"
        BY <1>4, <1>5
      <3>2. \A d : Namespace(d).backend = BackendFor(d.kind)
        BY DEF Namespace
      <3> QED BY <3>1, <3>2
    <2>1. svc' = s /\ DOMAIN s = names /\ \A n \in DOMAIN s : s[n].backend # "unsupported"
      BY <1>1, <1>2, <1>4, <2>2, <2>5
    <2>3. DOMAIN held' = DOMAIN svc' /\ \A n \in DOMAIN svc' : held'[n] = Unheld
      BY <1>1
    <2>4. \A n \in DOMAIN svc' :
             \E d \in DiscoverStores :
                StoreName(d) = n /\ svc'[n] = Namespace(d) /\ svc'[n].backend # "unsupported"
      BY <2>1, <2>2, <1>2
    <2> QED BY <2>1, <2>3, <2>4, NoNames DEF New, LoadLinks
  <1> QED BY <1>3, <1>4

(* Ask refuses the call, or puts the reader before the lock.               *)
LEMMA AskSteps ==
    ASSUME NEW r \in Readers, Shapes, Ask(r)
    PROVE  /\ Quiet /\ held' = held /\ new /\ at[r].pc = "idle"
           /\ DOMAIN answer' = Readers /\ \A q \in Readers : q # r => answer'[q] = answer[q]
           /\ answer'[r].status \in {"none", Refused}
           /\ \/ at' = at
              \/ /\ DOMAIN at' = Readers /\ \A q \in Readers : q # r => at'[q] = at[q]
                 /\ IsReader(at'[r]) /\ at'[r].pc = "lock"
                 /\ at'[r].call \in Calls[r] /\ at'[r].on = Reads(at'[r].call)
                 /\ Reads(at'[r].call) # Refused
                 /\ at'[r].got = at[r].got /\ at'[r].page = at[r].page
  <1>1. Quiet /\ held' = held /\ new /\ at[r].pc = "idle"
    BY DEF Ask, Quiet, Pc
  <1>2. DOMAIN at = Readers /\ DOMAIN answer = Readers /\ IsReader(at[r])
    BY DEF Shapes
  <1>3. PICK c \in Calls[r] :
            IF Reads(c) = Refused
            THEN /\ answer' = [answer EXCEPT ![r] = [Unanswered EXCEPT !.status = Refused]]
                 /\ at' = at
            ELSE /\ at' = [at EXCEPT ![r].pc = "lock", ![r].call = c, ![r].on = Reads(c)]
                 /\ answer' = [answer EXCEPT ![r] = Unanswered]
    BY DEF Ask
  <1>4. CASE Reads(c) = Refused
    BY <1>1, <1>2, <1>3, <1>4 DEF Unanswered
  <1>5. CASE Reads(c) # Refused
    <2> DEFINE n == Reads(c)
    <2>1. n # Refused
      BY <1>5
    <2>2. at' = [at EXCEPT ![r].pc = "lock", ![r].call = c, ![r].on = n]
      BY <1>3, <1>5
    <2>3. answer' = [answer EXCEPT ![r] = Unanswered]
      BY <1>3, <1>5
    <2>4. DOMAIN answer' = Readers /\ answer'[r].status = "none"
      BY <2>3, <1>2 DEF Unanswered
    <2> HIDE DEF n
    <2>5. /\ DOMAIN at' = Readers /\ \A q \in Readers : q # r => at'[q] = at[q]
          /\ IsReader(at'[r]) /\ at'[r].pc = "lock" /\ at'[r].call = c /\ at'[r].on = n
          /\ at'[r].got = at[r].got /\ at'[r].page = at[r].page
      BY <2>2, <1>2 DEF IsReader, Fetching, Backends
    <2> QED BY <2>1, <2>3, <2>4, <2>5, <1>1, <1>2 DEF n
  <1> QED BY <1>4, <1>5

(* What a description comes to as a namespace.                             *)
LEMMA NamespaceIs ==
    ASSUME NEW d
    PROVE  /\ Namespace(d).backend \in Backends \cup {"unsupported"}
           /\ Namespace(d).id = d.id /\ Namespace(d).prefix = d.prefix
           /\ Namespace(d).backend # "extension" => Namespace(d).refresh = RefreshInterval
           /\ Namespace(d).backend = "extension" => dep.extension
  <1> DEFINE b == BackendFor(d.kind)
  <1>1. b \in Backends \cup {"unsupported"}
    BY DEF BackendFor, AwsBackend, Backends
  <1>2. b = "extension" => dep.extension
    BY DEF BackendFor, AwsBackend
  <1>3. /\ Namespace(d).backend = b /\ Namespace(d).id = d.id /\ Namespace(d).prefix = d.prefix
        /\ Namespace(d).refresh = IF Caches(b) THEN 0 ELSE RefreshInterval
    BY DEF Namespace
  <1> HIDE DEF b
  <1> QED BY <1>1, <1>2, <1>3 DEF Caches

(* A call that is not refused goes to a namespace registered; one that     *)
(* names none, to the only one the application has.                        *)
LEMMA ReadsRegistered ==
    ASSUME NEW c, c.via \in {"only", "named", "resource"}, Reads(c) # Refused
    PROVE  /\ Reads(c) \in DOMAIN svc
           /\ c.via = "only" => /\ Cardinality(DOMAIN svc \ {Resources}) = 1
                                /\ Reads(c) \in DOMAIN svc \ {Resources}
           /\ c.via = "named" => Reads(c) = c.name
           /\ c.via = "resource" => Reads(c) = Resources /\ Find(c.kind, c.name)
  <1>1. CASE c.via = "only"
    <2> DEFINE names == DOMAIN svc \ {Resources}
    <2>1. Reads(c) = Only
      BY <1>1 DEF Reads
    <2>2. Cardinality(names) = 1 /\ Reads(c) = CHOOSE n \in names : TRUE
      BY <2>1 DEF Only
    <2>3. names # {}
      BY <2>2, FS_EmptySet
    <2> HIDE DEF names
    <2>4. (CHOOSE n \in names : TRUE) \in names
      BY <2>3
    <2> QED BY <1>1, <2>2, <2>4 DEF names
  <1>2. CASE c.via = "named"
    <2>1. Reads(c) = ByName(c.name)
      BY <1>2 DEF Reads
    <2> QED BY <1>2, <2>1 DEF ByName
  <1>3. CASE c.via = "resource"
    <2>1. Reads(c) = IF Find(c.kind, c.name) THEN ByName(Resources) ELSE Refused
      BY <1>3 DEF Reads
    <2> QED BY <1>3, <2>1 DEF ByName
  <1> QED BY <1>1, <1>2, <1>3

-----------------------------------------------------------------------------
(* ServiceInv is an invariant.                                             *)

LEMMA ServiceInit == ASSUME Init PROVE ServiceInv
  <1>1. \A r \in Readers : at[r] = Idle /\ answer[r] = Unanswered
    BY DEF Init
  <1>2. DOMAIN at = Readers /\ DOMAIN answer = Readers
    BY DEF Init
  <1>3. DOMAIN svc = {} /\ DOMAIN held = {} /\ DOMAIN links = {}
    BY NoNames DEF Init
  <1>4. Shapes
    BY <1>1, <1>2, <1>3, IdleReader DEF Init, Shapes
  <1>5. Built
    BY <1>1, <1>3, IdleReader DEF Built, Unanswered
  <1>6. Asked
    BY <1>1, IdleReader DEF Asked
  <1> QED BY <1>4, <1>5, <1>6 DEF ServiceInv

(* The service once built stays as it was built.                           *)
LEMMA BuiltKept ==
    ASSUME Built, UNCHANGED service, DOMAIN at' = Readers,
           ~new => \A r \in Readers : at'[r].pc = "idle" /\ answer'[r].status = "none"
    PROVE  Built'
  <1>1. dep' = dep /\ svc' = svc /\ links' = links /\ new' = new
    BY DEF service
  <1>2. DiscoverStores' = DiscoverStores /\ \A d : Namespace(d)' = Namespace(d)
    BY <1>1, SameEnvironment
  <1>3. \A n \in DOMAIN svc' :
           \E d \in DiscoverStores' :
              StoreName(d) = n /\ svc'[n] = Namespace(d)' /\ svc'[n].backend # "unsupported"
    BY <1>1, <1>2 DEF Built
  <1> QED BY <1>1, <1>2, <1>3 DEF Built

(* One reader has moved, within its call or to the end of it.              *)
LEMMA AskedKept ==
    ASSUME NEW r \in Readers, Asked, UNCHANGED service,
           \A q \in Readers : q # r => at'[q] = at[q],
           at'[r].pc = "idle" \/ (at[r].pc # "idle" /\ at'[r].call = at[r].call
                                  /\ at'[r].on = at[r].on)
    PROVE  Asked'
  <1>1. svc' = svc /\ links' = links
    BY DEF service
  <1>2. ASSUME NEW q \in Readers, at'[q].pc # "idle"
        PROVE  /\ at'[q].call \in Calls[q] /\ at'[q].on = Reads(at[q].call)' /\ at'[q].on \in DOMAIN svc'
               /\ at'[q].on # Refused
    <2>1. at[q].pc # "idle" /\ at'[q].call = at[q].call /\ at'[q].on = at[q].on
      BY <1>2
    <2>2. /\ at[q].call \in Calls[q] /\ at[q].on = Reads(at[q].call) /\ at[q].on \in DOMAIN svc
          /\ at[q].on # Refused
      BY <2>1 DEF Asked, On
    <2>3. Reads(at[q].call)' = Reads(at'[q].call)
      BY <1>1, SameReads
    <2> QED BY <1>1, <2>1, <2>2, <2>3
  <1> QED BY <1>2 DEF Asked, On

LEMMA ServiceStep == ASSUME ServiceInv, [Next]_vars PROVE ServiceInv'
  <1> USE DEF ServiceInv
  <1>1. ASSUME NEW r \in Readers, GoesIdle(r), UNCHANGED <<service, clock>>,
               at[r].pc # "idle",
               held' = held \/ HeldBy(r)
        PROVE  ServiceInv'
    <2>1. at'[r].pc = "idle" /\ IsReader(at'[r])
      BY <1>1, IdleReader DEF GoesIdle
    <2>2. new
      BY <1>1 DEF Built
    <2>3. On(r) \in DOMAIN svc
      BY <1>1 DEF Asked
    <2>4. DOMAIN held' = DOMAIN svc' /\ \A n \in DOMAIN svc' : IsHeld(held'[n])
      BY <1>1, <2>3 DEF HeldBy, Shapes, service
    <2>5. Shapes'
      BY <1>1, <2>1, <2>4 DEF Shapes, GoesIdle, service
    <2>6. Built'
      BY <1>1, <2>2, BuiltKept DEF GoesIdle
    <2>7. Asked'
      BY <1>1, <2>1, AskedKept DEF GoesIdle
    <2> QED BY <2>5, <2>6, <2>7
  <1>2. CASE New
    <2>1. /\ ~new /\ UNCHANGED <<dep, clock, at, answer>>
          /\ DOMAIN held' = DOMAIN svc' /\ \A n \in DOMAIN svc' : held'[n] = Unheld
          /\ \A n \in DOMAIN svc' :
                \E d \in DiscoverStores :
                   StoreName(d) = n /\ svc'[n] = Namespace(d) /\ svc'[n].backend # "unsupported"
          /\ DOMAIN svc' = {} \/ DOMAIN svc' = {StoreName(d) : d \in DiscoverStores}
          /\ DOMAIN links' = {} \/ links' = dep.topology
          /\ new' = TRUE
      BY <1>2, NewSteps
    <2>2. \A r \in Readers : at[r].pc = "idle"
      BY <2>1 DEF Built
    <2>3. IsHeld(Unheld)
      BY DEF IsHeld, Unheld
    <2>4. Shapes'
      BY <2>1, <2>3 DEF Shapes
    <2>5. DiscoverStores' = DiscoverStores /\ \A d : Namespace(d)' = Namespace(d)
      BY <2>1, SameEnvironment
    <2>6. \A n \in DOMAIN svc' :
             \E d \in DiscoverStores' :
                StoreName(d) = n /\ svc'[n] = Namespace(d)' /\ svc'[n].backend # "unsupported"
      BY <2>1, <2>5
    <2>7. Built'
      BY <2>1, <2>5, <2>6 DEF Built
    <2>8. Asked'
      BY <2>1, <2>2 DEF Asked
    <2> QED BY <2>4, <2>7, <2>8
  <1>3. CASE Tick
    <2>1. UNCHANGED <<service, held, at, answer>> /\ new /\ clock' = clock + 1
      BY <1>3 DEF Tick
    <2>2. Shapes'
      BY <2>1 DEF Shapes, service
    <2>3. Built'
      BY <2>1, BuiltKept DEF Shapes
    <2>4. Asked'
      <3>1. \A q : Reads(at[q].call)' = Reads(at'[q].call)
        BY <2>1, SameReads DEF service
      <3> QED BY <2>1, <3>1 DEF Asked, On, service
    <2> QED BY <2>2, <2>3, <2>4
  <1>4. CASE Rotate \/ UNCHANGED vars
    <2>1. UNCHANGED <<service, clock, held, at, answer>>
      BY <1>4 DEF Rotate, vars, service
    <2>2. Shapes'
      BY <2>1 DEF Shapes, service
    <2>3. Built'
      BY <2>1, BuiltKept DEF Shapes, Built
    <2>4. Asked'
      <3>1. \A q : Reads(at[q].call)' = Reads(at'[q].call)
        BY <2>1, SameReads DEF service
      <3> QED BY <2>1, <3>1 DEF Asked, On, service
    <2> QED BY <2>2, <2>3, <2>4
  <1>5. ASSUME NEW r \in Readers, Ask(r) PROVE ServiceInv'
    <2>1. /\ Quiet /\ held' = held /\ new /\ at[r].pc = "idle"
          /\ DOMAIN answer' = Readers
          /\ \/ at' = at
             \/ /\ DOMAIN at' = Readers /\ \A q \in Readers : q # r => at'[q] = at[q]
                /\ IsReader(at'[r]) /\ at'[r].pc = "lock"
                /\ at'[r].call \in Calls[r] /\ at'[r].on = Reads(at'[r].call)
                /\ Reads(at'[r].call) # Refused
      BY <1>5, AskSteps
    <2>2. DOMAIN at' = Readers /\ \A q \in Readers : IsReader(at'[q])
      BY <2>1 DEF Shapes
    <2>3. Shapes'
      BY <2>1, <2>2 DEF Shapes, Quiet, service
    <2>4. Built'
      BY <2>1, <2>2, BuiltKept DEF Quiet
    <2>5. Asked'
      <3>1. \A q : Reads(at[q].call)' = Reads(at'[q].call)
        BY <2>1, SameReads DEF Quiet, service
      <3>2. svc' = svc
        BY <2>1 DEF Quiet, service
      <3>3. CASE at' = at
        BY <3>1, <3>2, <3>3 DEF Asked, On
      <3>4. CASE at' # at
        <4>1. at'[r].call.via \in {"only", "named", "resource"}
          BY <2>1, <3>4, CallsShape
        <4>2. Reads(at'[r].call) \in DOMAIN svc
          BY <2>1, <3>4, <4>1, ReadsRegistered
        <4>3. Reads(at[r].call)' = Reads(at'[r].call)
          BY <3>1
        <4>4. ASSUME NEW q \in Readers, at'[q].pc # "idle"
              PROVE  /\ at'[q].call \in Calls[q] /\ at'[q].on = Reads(at[q].call)' /\ at'[q].on \in DOMAIN svc'
                     /\ at'[q].on # Refused
          <5>1. CASE q = r
            BY <5>1, <2>1, <3>2, <3>4, <4>2, <4>3
          <5>2. CASE q # r
            <6>1. at'[q] = at[q] /\ at[q].pc # "idle"
              BY <2>1, <3>4, <4>4, <5>2
            <6>2. /\ at[q].call \in Calls[q] /\ at[q].on = Reads(at[q].call) /\ at[q].on \in DOMAIN svc
                  /\ at[q].on # Refused
              BY <6>1 DEF Asked, On
            <6>3. Reads(at[q].call)' = Reads(at'[q].call)
              BY <3>1
            <6> QED BY <6>1, <6>2, <6>3, <3>2
          <5> QED BY <5>1, <5>2
        <4> QED BY <4>4 DEF Asked, On
      <3> QED BY <3>3, <3>4
    <2> QED BY <2>3, <2>4, <2>5
  <1>6. ASSUME NEW r \in Readers, ServeHeld(r) PROVE ServiceInv'
    <2>1. Quiet /\ held' = held /\ GoesIdle(r) /\ at[r].pc = "lock"
      BY <1>6, ServeSteps
    <2> QED BY <2>1, <1>1 DEF Quiet
  <1>7. ASSUME NEW r \in Readers, Fetch(r) PROVE ServiceInv'
    <2>1. /\ Quiet /\ answer' = answer /\ HeldBy(r)
          /\ DOMAIN at' = Readers /\ \A q \in Readers : q # r => at'[q] = at[q]
          /\ at[r].pc = "lock"
          /\ at'[r] = [at[r] EXCEPT !.pc = Ns(r).backend, !.began = clock,
                                    !.saw = stores[Ns(r).id]]
      BY <1>7, FetchSteps
    <2>2. On(r) \in DOMAIN svc /\ new
      BY <2>1 DEF Asked, Built
    <2>3. Ns(r).backend \in Backends
      <3>1. PICK d \in DiscoverStores : Ns(r) = Namespace(d) /\ Ns(r).backend # "unsupported"
        BY <2>2 DEF Built, Ns
      <3> QED BY <3>1, NamespaceIs
    <2>4. IsReader(at'[r]) /\ at'[r].call = at[r].call /\ at'[r].on = at[r].on
      BY <2>1, <2>3 DEF Shapes, IsReader, Fetching
    <2>5. DOMAIN held' = DOMAIN svc' /\ \A n \in DOMAIN svc' : IsHeld(held'[n])
      BY <2>1, <2>2 DEF HeldBy, Shapes, Quiet, service
    <2>6. Shapes'
      BY <2>1, <2>4, <2>5 DEF Shapes, Quiet, service
    <2>7. Built'
      BY <2>1, <2>2, BuiltKept DEF Quiet
    <2>8. Asked'
      BY <2>1, <2>4, AskedKept DEF Quiet
    <2> QED BY <2>6, <2>7, <2>8
  <1>8. ASSUME NEW r \in Readers, Backend(r) PROVE ServiceInv'
    <2>1. Moves(r)
      BY <1>8, BackendSteps
    <2>2. at[r].pc # "idle" /\ new
      BY <2>1 DEF Moves, Backends, Built
    <2>3. Shapes'
      BY <2>1 DEF Moves, Shapes, service
    <2>4. Built'
      BY <2>1, <2>2, BuiltKept DEF Moves
    <2>5. Asked'
      BY <2>1, <2>2, AskedKept DEF Moves
    <2> QED BY <2>3, <2>4, <2>5
  <1>9. ASSUME NEW r \in Readers, Record(r) PROVE ServiceInv'
    <2>1. Quiet /\ GoesIdle(r) /\ HeldBy(r) /\ at[r].pc = "reply"
      BY <1>9, RecordSteps
    <2> QED BY <2>1, <1>1 DEF Quiet
  <1>10. ASSUME NEW r \in Readers, RecordError(r) PROVE ServiceInv'
    <2>1. Quiet /\ GoesIdle(r) /\ HeldBy(r) /\ at[r].pc = "error"
      BY <1>10, RecordErrorSteps
    <2> QED BY <2>1, <1>1 DEF Quiet
  <1> QED BY <1>2, <1>3, <1>4, <1>5, <1>6, <1>7, <1>8, <1>9, <1>10
          DEF Next, Reader, Locks

-----------------------------------------------------------------------------
(* No load hands out what was judged too old.                              *)

IsFresh(a) ==
    /\ a.on # NotSet /\ ~a.stood /\ a.status \in {"ok", "missing"}
    /\ dep.refresh # "off" /\ ~(dep.extension /\ svc[a.on].backend = "extension")
    => a.age < RefreshInterval + Latency

LEMMA IntervalIs ==
    /\ RefreshInterval \in Nat
    /\ dep.refresh # "off" => RefreshInterval > 0
  BY TimesNat DEF RefreshInterval

(* What is held is not stale: unless it is exempt, it was checked less     *)
(* than the interval ago.                                                  *)
LEMMA NotStale ==
    ASSUME ServiceInv, NEW n \in DOMAIN svc, ~Stale(n), dep.refresh # "off",
           ~(dep.extension /\ svc[n].backend = "extension")
    PROVE  clock - held[n].checkedAt < RefreshInterval
  <1>1. PICK d \in DiscoverStores : svc[n] = Namespace(d)
    BY DEF ServiceInv, Built
  <1>2. svc[n].refresh = RefreshInterval
    BY <1>1, NamespaceIs
  <1>3. clock \in Nat /\ held[n].checkedAt \in Nat
    BY DEF ServiceInv, Shapes, IsHeld
  <1> QED BY <1>2, <1>3, IntervalIs DEF Stale

LEMMA AgesInit == ASSUME Init PROVE Ages
  <1>1. \A r \in Readers : at[r] = Idle /\ answer[r] = Unanswered
    BY DEF Init
  <1>2. DOMAIN svc = {}
    BY NoNames DEF Init
  <1>3. \A r \in Readers : answer[r].status = "none"
    BY <1>1 DEF Unanswered
  <1>4. ServedFresh
    BY <1>3 DEF ServedFresh
  <1> QED BY <1>1, <1>2, <1>4, IdleReader DEF Ages, Fetching, Backends

(* An answer is as fresh as it was, whatever happens after it.             *)
LEMMA FreshKept ==
    ASSUME NEW r \in Readers, UNCHANGED service, answer'[r] = answer[r], IsFresh(answer[r])
    PROVE  IsFresh(answer[r])'
  <1>1. RefreshInterval' = RefreshInterval /\ dep' = dep /\ svc' = svc
    BY DEF RefreshInterval, service
  <1> QED BY <1>1 DEF IsFresh

LEMMA FreshMeans == ServedFresh <=> \A r \in Readers : IsFresh(answer[r])
  BY DEF ServedFresh, IsFresh

LEMMA FreshMeansNext == ServedFresh' <=> \A r \in Readers : IsFresh(answer[r])'
  BY DEF ServedFresh, IsFresh

(* What is being fetched, and what is held, in the terms of one reader and *)
(* one namespace.                                                          *)
FetchAge(r) == at[r].pc \in Fetching => at[r].began <= clock /\ clock - at[r].began <= Latency
HeldAge(n) == ~held[n].nil /\ ~held[n].failing => held[n].checkedAt - held[n].asOf <= Latency

LEMMA AgesMeans ==
    /\ Ages <=> /\ \A r \in Readers : FetchAge(r) /\ IsFresh(answer[r])
                /\ \A n \in DOMAIN svc : HeldAge(n)
    /\ Ages' <=> /\ \A r \in Readers : FetchAge(r)' /\ IsFresh(answer[r])'
                 /\ \A n \in DOMAIN svc' : HeldAge(n)'
  BY FreshMeans, FreshMeansNext DEF Ages, FetchAge, HeldAge

LEMMA AgesStep ==
    ASSUME ServiceInv, Ages, [Next]_vars
    PROVE  Ages'
  <1>1. /\ \A r \in Readers : FetchAge(r) /\ IsFresh(answer[r])
        /\ \A n \in DOMAIN svc : HeldAge(n)
    BY AgesMeans
  <1>2. SUFFICES /\ \A r \in Readers : FetchAge(r)' /\ IsFresh(answer[r])'
                 /\ \A n \in DOMAIN svc' : HeldAge(n)'
    BY AgesMeans
  <1>3. /\ Latency \in Nat /\ clock \in Nat /\ DOMAIN held = DOMAIN svc
        /\ \A r \in Readers : at[r].began \in Nat
        /\ \A n \in DOMAIN svc : held[n].checkedAt \in Nat /\ held[n].asOf \in Nat
    BY TimesNat DEF ServiceInv, Shapes, IsReader, IsHeld
  <1>4. ASSUME NEW r \in Readers, NEW q \in Readers, UNCHANGED service, clock' = clock, q # r,
               \A p \in Readers : p # r => at'[p] = at[p],
               \A p \in Readers : p # r => answer'[p] = answer[p]
        PROVE  FetchAge(q)' /\ IsFresh(answer[q])'
    <2>1. IsFresh(answer[q])'
      BY <1>1, <1>4, FreshKept
    <2>2. FetchAge(q)'
      BY <1>1, <1>4 DEF FetchAge
    <2> QED BY <2>1, <2>2
  <1>5. ASSUME NEW r \in Readers, at'[r] = Idle PROVE FetchAge(r)'
    BY <1>5, IdleReader DEF FetchAge, Fetching, Backends
  <1>6. CASE New
    <2>1. /\ ~new /\ UNCHANGED <<clock, at, answer>>
          /\ \A n \in DOMAIN svc' : held'[n] = Unheld
      BY <1>6, NewSteps
    <2>2. \A r \in Readers : at[r].pc = "idle" /\ answer[r].status = "none"
      BY <2>1 DEF ServiceInv, Built
    <2>3. \A r \in Readers : FetchAge(r)' /\ IsFresh(answer[r])'
      BY <2>1, <2>2 DEF FetchAge, IsFresh, Fetching, Backends
    <2>4. \A n \in DOMAIN svc' : HeldAge(n)'
      BY <2>1 DEF HeldAge, Unheld
    <2> QED BY <2>3, <2>4
  <1>7. CASE Tick
    <2>1. /\ UNCHANGED <<service, held, at, answer>> /\ clock' = clock + 1
          /\ \A r \in Readers : at[r].pc \notin {"idle", "lock"} => clock - at[r].began < Latency
      BY <1>7 DEF Tick
    <2>2. \A r \in Readers : IsFresh(answer[r])'
      BY <1>1, <2>1, FreshKept
    <2>3. \A r \in Readers : FetchAge(r)'
      BY <1>1, <1>3, <2>1 DEF FetchAge, Fetching, Backends
    <2>4. \A n \in DOMAIN svc' : HeldAge(n)'
      BY <1>1, <2>1 DEF HeldAge, service
    <2> QED BY <2>2, <2>3, <2>4
  <1>8. CASE Rotate \/ UNCHANGED vars
    <2>1. UNCHANGED <<service, clock, held, at, answer>>
      BY <1>8 DEF Rotate, vars, service
    <2>2. \A r \in Readers : IsFresh(answer[r])'
      BY <1>1, <2>1, FreshKept
    <2>3. \A r \in Readers : FetchAge(r)'
      BY <1>1, <2>1 DEF FetchAge
    <2>4. \A n \in DOMAIN svc' : HeldAge(n)'
      BY <1>1, <2>1 DEF HeldAge, service
    <2> QED BY <2>2, <2>3, <2>4
  <1>9. ASSUME NEW r \in Readers, Ask(r)
        PROVE  /\ \A q \in Readers : FetchAge(q)' /\ IsFresh(answer[q])'
               /\ \A n \in DOMAIN svc' : HeldAge(n)'
    <2>1. /\ Quiet /\ held' = held /\ at[r].pc = "idle"
          /\ \A q \in Readers : q # r => answer'[q] = answer[q]
          /\ answer'[r].status \in {"none", Refused}
          /\ \A q \in Readers : q # r => at'[q] = at[q]
          /\ at'[r].pc \in {"idle", "lock"}
      BY <1>9, AskSteps DEF ServiceInv
    <2>2. UNCHANGED service /\ clock' = clock /\ svc' = svc
      BY <2>1 DEF Quiet, service
    <2>3. FetchAge(r)' /\ IsFresh(answer[r])'
      BY <2>1 DEF FetchAge, Fetching, Backends, IsFresh, Refused
    <2>4. \A n \in DOMAIN svc' : HeldAge(n)'
      BY <1>1, <2>1, <2>2 DEF HeldAge
    <2> QED BY <1>4, <2>1, <2>2, <2>3, <2>4
  <1>10. ASSUME NEW r \in Readers, ServeHeld(r)
        PROVE  /\ \A q \in Readers : FetchAge(q)' /\ IsFresh(answer[q])'
               /\ \A n \in DOMAIN svc' : HeldAge(n)'
    <2>1. /\ Quiet /\ held' = held /\ GoesIdle(r) /\ Given(r, Held(r))
          /\ at[r].pc = "lock" /\ ~Held(r).nil /\ ~Stale(On(r))
      BY <1>10, ServeSteps DEF ServiceInv
    <2>2. UNCHANGED service /\ clock' = clock /\ svc' = svc /\ dep' = dep
      BY <2>1 DEF Quiet, service
    <2>3. FetchAge(r)'
      BY <1>5, <2>1 DEF GoesIdle
    <2>4. On(r) \in DOMAIN svc
      BY <2>1 DEF ServiceInv, Asked
    <2>5. /\ answer'[r].on = On(r) /\ answer'[r].age = clock - held[On(r)].asOf
          /\ answer'[r].stood = held[On(r)].failing
      BY <2>1 DEF Given, Held, On
    <2>6. RefreshInterval' = RefreshInterval
      BY <2>2 DEF RefreshInterval
    <2>7. IsFresh(answer[r])'
      <3>1. SUFFICES ASSUME ~held[On(r)].failing, dep.refresh # "off",
                            ~(dep.extension /\ svc[On(r)].backend = "extension")
                     PROVE  clock - held[On(r)].asOf < RefreshInterval + Latency
        BY <2>2, <2>5, <2>6 DEF IsFresh
      <3>2. clock - held[On(r)].checkedAt < RefreshInterval
        BY <2>1, <2>4, <3>1, NotStale
      <3>3. held[On(r)].checkedAt - held[On(r)].asOf <= Latency
        BY <1>1, <2>1, <2>4, <3>1 DEF HeldAge, Held
      <3> QED BY <3>2, <3>3, <1>3, <2>4, IntervalIs
    <2>8. \A n \in DOMAIN svc' : HeldAge(n)'
      BY <1>1, <2>1, <2>2 DEF HeldAge
    <2> QED BY <1>4, <2>1, <2>2, <2>3, <2>7, <2>8 DEF GoesIdle
  <1>11. ASSUME NEW r \in Readers, Fetch(r)
        PROVE  /\ \A q \in Readers : FetchAge(q)' /\ IsFresh(answer[q])'
               /\ \A n \in DOMAIN svc' : HeldAge(n)'
    <2>1. /\ Quiet /\ answer' = answer /\ HeldBy(r)
          /\ held'[On(r)].nil = held[On(r)].nil /\ held'[On(r)].failing = held[On(r)].failing
          /\ held'[On(r)].checkedAt = held[On(r)].checkedAt
          /\ held'[On(r)].asOf = held[On(r)].asOf
          /\ \A q \in Readers : q # r => at'[q] = at[q]
          /\ at'[r] = [at[r] EXCEPT !.pc = Ns(r).backend, !.began = clock,
                                    !.saw = stores[Ns(r).id]]
      BY <1>11, FetchSteps DEF ServiceInv
    <2>2. UNCHANGED service /\ clock' = clock /\ svc' = svc
      BY <2>1 DEF Quiet, service
    <2>3. at'[r].began = clock
      BY <2>1 DEF ServiceInv, Shapes, IsReader
    <2>4. FetchAge(r)'
      BY <1>3, <2>2, <2>3 DEF FetchAge
    <2>5. IsFresh(answer[r])'
      BY <1>1, <2>1, <2>2, FreshKept
    <2>6. \A n \in DOMAIN svc' : HeldAge(n)'
      BY <1>1, <1>3, <2>1, <2>2 DEF HeldAge, HeldBy
    <2> QED BY <1>4, <2>1, <2>2, <2>4, <2>5, <2>6
  <1>12. ASSUME NEW r \in Readers, Backend(r)
        PROVE  /\ \A q \in Readers : FetchAge(q)' /\ IsFresh(answer[q])'
               /\ \A n \in DOMAIN svc' : HeldAge(n)'
    <2>1. Moves(r)
      BY <1>12, BackendSteps DEF ServiceInv
    <2>2. UNCHANGED service /\ clock' = clock /\ svc' = svc /\ held' = held /\ answer' = answer
      BY <2>1 DEF Moves, service
    <2>3. FetchAge(r)'
      BY <1>1, <2>1, <2>2 DEF FetchAge, Moves, Fetching
    <2>4. IsFresh(answer[r])'
      BY <1>1, <2>2, FreshKept
    <2>5. \A n \in DOMAIN svc' : HeldAge(n)'
      BY <1>1, <2>2 DEF HeldAge
    <2> QED BY <1>4, <2>1, <2>2, <2>3, <2>4, <2>5 DEF Moves
  <1>13. ASSUME NEW r \in Readers, Record(r)
        PROVE  /\ \A q \in Readers : FetchAge(q)' /\ IsFresh(answer[q])'
               /\ \A n \in DOMAIN svc' : HeldAge(n)'
    <2>1. /\ Quiet /\ GoesIdle(r) /\ Given(r, held'[On(r)]) /\ HeldBy(r) /\ at[r].pc = "reply"
          /\ held'[On(r)].checkedAt = clock /\ held'[On(r)].asOf = at[r].began
      BY <1>13, RecordSteps DEF ServiceInv
    <2>2. UNCHANGED service /\ clock' = clock /\ svc' = svc /\ dep' = dep
      BY <2>1 DEF Quiet, service
    <2>3. FetchAge(r)'
      BY <1>5, <2>1 DEF GoesIdle
    <2>4. clock - at[r].began <= Latency
      BY <1>1, <2>1 DEF FetchAge, Fetching
    <2>5. answer'[r].age = clock - at[r].began
      BY <2>1 DEF Given
    <2>6. RefreshInterval' = RefreshInterval
      BY <2>2 DEF RefreshInterval
    <2>7. IsFresh(answer[r])'
      BY <1>3, <2>2, <2>4, <2>5, <2>6, IntervalIs DEF IsFresh
    <2>8. \A n \in DOMAIN svc' : HeldAge(n)'
      BY <1>1, <1>3, <2>1, <2>2, <2>4 DEF HeldAge, HeldBy
    <2> QED BY <1>4, <2>1, <2>2, <2>3, <2>7, <2>8 DEF GoesIdle
  <1>14. ASSUME NEW r \in Readers, RecordError(r)
        PROVE  /\ \A q \in Readers : FetchAge(q)' /\ IsFresh(answer[q])'
               /\ \A n \in DOMAIN svc' : HeldAge(n)'
    <2>1. /\ Quiet /\ GoesIdle(r) /\ HeldBy(r)
          /\ Told(r) \/ Given(r, held'[On(r)])
          /\ held'[On(r)].failing = TRUE
      BY <1>14, RecordErrorSteps DEF ServiceInv
    <2>2. UNCHANGED service /\ clock' = clock /\ svc' = svc
      BY <2>1 DEF Quiet, service
    <2>3. FetchAge(r)'
      BY <1>5, <2>1 DEF GoesIdle
    <2>4. answer'[r].status = "failed" \/ answer'[r].stood = TRUE
      BY <2>1 DEF Told, Given
    <2>5. IsFresh(answer[r])'
      BY <2>4 DEF IsFresh
    <2>6. \A n \in DOMAIN svc' : HeldAge(n)'
      BY <1>1, <1>3, <2>1, <2>2 DEF HeldAge, HeldBy
    <2> QED BY <1>4, <2>1, <2>2, <2>3, <2>5, <2>6 DEF GoesIdle
  <1> QED BY <1>6, <1>7, <1>8, <1>9, <1>10, <1>11, <1>12, <1>13, <1>14
          DEF Next, Reader, Locks

(* namespace.load judges the age of what it holds before handing it out:   *)
(* for every interval and latency, nothing an answering store gave longer  *)
(* than the interval and one fetch ago is returned.                        *)
THEOREM NothingStaleIsServed == Spec => []ServedFresh
  <1>1. Init => ServiceInv /\ Ages
    BY ServiceInit, AgesInit
  <1>2. ServiceInv /\ Ages /\ [Next]_vars => (ServiceInv /\ Ages)'
    BY ServiceStep, AgesStep
  <1>3. Ages => ServedFresh
    BY DEF Ages
  <1> QED BY <1>1, <1>2, <1>3, PTL DEF Spec

-----------------------------------------------------------------------------
(* Keys and pages.                                                         *)

(* A key put under a path and cut from it again is the key.                *)
LEMMA UnderPath ==
    ASSUME NEW S, NEW a \in S, NEW b \in S, NEW s \in Seq(S)
    PROVE  /\ IsPrefix(<<a, b>>, <<a, b>> \o s)
           /\ SubSeq(<<a, b>> \o s, 3, Len(<<a, b>> \o s)) = s
  <1>1. Len(<<a, b>> \o s) = 2 + Len(s) /\ Len(s) \in Nat
    OBVIOUS
  <1>2. SubSeq(<<a, b>> \o s, 3, Len(<<a, b>> \o s)) = s
    OBVIOUS
  <1>3. IsPrefix(<<a, b>>, <<a, b>> \o s)
    BY <1>1 DEF IsPrefix
  <1> QED BY <1>2, <1>3

(* And the other way round: what is left of a key under a path, put back.  *)
LEMMA PutBack ==
    ASSUME NEW S, NEW a \in S, NEW b \in S, NEW u \in Seq(S), IsPrefix(<<a, b>>, u)
    PROVE  <<a, b>> \o SubSeq(u, 3, Len(u)) = u
  <1>1. Len(u) \in Nat /\ Len(u) >= 2 /\ u[1] = a /\ u[2] = b
    <2>1. Len(u) \in Nat /\ Len(u) >= 2 /\ SubSeq(<<a, b>>, 1, 2) = SubSeq(u, 1, 2)
      BY DEF IsPrefix
    <2>2. SubSeq(u, 1, 2)[1] = u[1] /\ SubSeq(u, 1, 2)[2] = u[2]
      BY <2>1
    <2>3. SubSeq(<<a, b>>, 1, 2)[1] = a /\ SubSeq(<<a, b>>, 1, 2)[2] = b
      OBVIOUS
    <2> QED BY <2>1, <2>2, <2>3
  <1> DEFINE w == SubSeq(u, 3, Len(u))
  <1>2. w \in Seq(S) /\ Len(w) = Len(u) - 2 /\ \A i \in 1 .. Len(w) : w[i] = u[i + 2]
    BY <1>1
  <1> HIDE DEF w
  <1>3. <<a, b>> \o w \in Seq(S) /\ Len(<<a, b>> \o w) = Len(u)
    <2>1. w \in Seq(S)
      BY <1>2
    <2>2. <<a, b>> \o w \in Seq(S)
      BY <2>1
    <2>3. Len(<<a, b>> \o w) = 2 + Len(w)
      BY <2>1
    <2> QED BY <1>1, <1>2, <2>2, <2>3
  <1>4. \A i \in 1 .. Len(u) : (<<a, b>> \o w)[i] = u[i]
    <2>1. w \in Seq(S)
      BY <1>2
    <2>2. \A i \in 1 .. Len(<<a, b>> \o w) :
             (<<a, b>> \o w)[i] = IF i = 1 THEN a ELSE IF i = 2 THEN b ELSE w[i - 2]
      BY <2>1
    <2> QED BY <1>1, <1>2, <1>3, <2>2
  <1>5. <<a, b>> \o w = u
    <2> DEFINE v == <<a, b>> \o w
    <2>1. v \in Seq(S) /\ Len(v) = Len(u) /\ \A i \in 1 .. Len(u) : v[i] = u[i]
      BY <1>3, <1>4
    <2> HIDE DEF v
    <2>2. v = u
      BY <2>1
    <2> QED BY <2>2 DEF v
  <1> QED BY <1>5 DEF w

(* The names of keys and the separator, and the keys made of them.         *)
Names == STRING \cup {Slash}

LEMMA KeysOfNames ==
    Slash \in Names /\ STRING \subseteq Names /\ \A s \in Seq(STRING) : s \in Seq(Names)
  <1>1. ASSUME NEW T, NEW U, T \subseteq U, NEW s \in Seq(T) PROVE s \in Seq(U)
    BY <1>1
  <1>2. STRING \subseteq Names /\ Slash \in Names
    BY DEF Names
  <1> HIDE DEF Names
  <1> QED BY <1>1, <1>2

(* The pages of a store are its keys, each once.                           *)
LEMMA PagesAre ==
    ASSUME NEW id, IsFiniteSet(DOMAIN stores[id])
    PROVE  /\ Len(Pages(id)) \in Nat
           /\ \A i \in 1 .. Len(Pages(id)) : Pages(id)[i] \in DOMAIN stores[id]
           /\ {Pages(id)[i] : i \in 1 .. Len(Pages(id))} = DOMAIN stores[id]
  <1> DEFINE S == DOMAIN stores[id]
             m == Cardinality(S)
             p == SetToSeq(S)
  <1>1. IsFiniteSet(S) /\ m \in Nat
    BY FS_CardinalityType
  <1>2. ExistsBijection(1 .. m, S)
    BY FS_CardinalityType
  <1> HIDE DEF S, m
  <1>3. PICK f \in Bijection(1 .. m, S) : TRUE
    BY <1>2 DEF ExistsBijection
  <1>4. f \in [1 .. m -> S] /\ IsInjective(f)
    BY <1>3 DEF Bijection, Injection, IsInjective
  <1>5. p \in [1 .. m -> S] /\ IsInjective(p)
    BY <1>4 DEF SetToSeq, m
  <1> HIDE DEF p
  <1>6. p \in Injection(1 .. m, S)
    BY <1>5 DEF Injection, IsInjective
  <1>7. p \in Surjection(1 .. m, S)
    <2>1. IsFiniteSet(1 .. m) /\ Cardinality(1 .. m) = m
      BY <1>1, FS_Interval
    <2> QED BY <2>1, <1>1, <1>6, FS_Injection DEF m
  <1>8. Len(p) = m
    BY <1>1, <1>5
  <1>9. {p[i] : i \in 1 .. m} = S
    BY <1>5, <1>7 DEF Surjection
  <1> QED BY <1>1, <1>5, <1>8, <1>9 DEF Pages, p, S

(* The keys under a prefix depend on the keys alone, and each value is one *)
(* of those it was taken from, under the key it had there.                 *)
Full(prefix, k) == IF prefix = NotSet THEN k ELSE <<prefix, Slash>> \o k

LEMMA Applied ==
    ASSUME NEW prefix \in STRING, NEW values, DOMAIN values \subseteq Seq(STRING)
    PROVE  \A k \in DOMAIN ApplyPrefix(prefix, values) :
              /\ Full(prefix, k) \in DOMAIN values
              /\ ApplyPrefix(prefix, values)[k] = values[Full(prefix, k)]
  <1>1. CASE prefix = NotSet
    BY <1>1 DEF ApplyPrefix, Full
  <1>2. CASE prefix # NotSet
    <2> DEFINE under == {k \in DOMAIN values : IsPrefix(<<prefix, Slash>>, k) /\ Len(k) > 2}
    <2>1. ApplyPrefix(prefix, values)
             = [k \in {SubSeq(u, 3, Len(u)) : u \in under} |-> values[<<prefix, Slash>> \o k]]
      BY <1>2 DEF ApplyPrefix
    <2>2. ASSUME NEW k \in DOMAIN ApplyPrefix(prefix, values)
          PROVE  <<prefix, Slash>> \o k \in DOMAIN values
      <3>1. PICK u \in under : k = SubSeq(u, 3, Len(u))
        BY <2>1
      <3>2. u \in Seq(STRING) /\ IsPrefix(<<prefix, Slash>>, u) /\ u \in DOMAIN values
        OBVIOUS
      <3>3. prefix \in Names /\ Slash \in Names /\ u \in Seq(Names)
        BY <3>2, KeysOfNames
      <3>4. <<prefix, Slash>> \o SubSeq(u, 3, Len(u)) = u
        BY <3>2, <3>3, PutBack
      <3> QED BY <3>1, <3>2, <3>4
    <2> QED BY <1>2, <2>1, <2>2 DEF Full
  <1> QED BY <1>1, <1>2

LEMMA AppliedKeys ==
    ASSUME NEW prefix, NEW v, NEW w, DOMAIN v = DOMAIN w
    PROVE  DOMAIN ApplyPrefix(prefix, v) = DOMAIN ApplyPrefix(prefix, w)
  BY DEF ApplyPrefix

-----------------------------------------------------------------------------
(* ReadingInv is an invariant.                                             *)

(* A namespace is over one of the stores there are.                        *)
LEMMA StoreOf ==
    ASSUME ServiceInv, NEW n \in DOMAIN svc
    PROVE  /\ svc[n].id \in DOMAIN dep.holds /\ svc[n].id \in STRING /\ svc[n].prefix \in STRING
           /\ IsFiniteSet(dep.holds[svc[n].id]) /\ dep.holds[svc[n].id] \subseteq Seq(STRING)
  <1>1. PICK d \in DiscoverStores : svc[n] = Namespace(d)
    BY DEF ServiceInv, Built
  <1>2. svc[n].id = d.id /\ svc[n].prefix = d.prefix
    BY <1>1, NamespaceIs
  <1>3. d \in dep.described /\ dep \in Deployments
    BY <1>1 DEF DiscoverStores, ServiceInv, Shapes
  <1>4. d.id \in DOMAIN dep.holds /\ d.prefix \in STRING
    BY <1>3, DeploymentsShape
  <1>5. /\ d.id \in STRING /\ IsFiniteSet(dep.holds[d.id])
        /\ dep.holds[d.id] \subseteq Seq(STRING)
    BY <1>3, <1>4, DeploymentsShape
  <1> QED BY <1>2, <1>4, <1>5

LEMMA OnAStore ==
    ASSUME ServiceInv, NEW r \in Readers, at[r].pc # "idle"
    PROVE  /\ On(r) \in DOMAIN svc
           /\ Ns(r).id \in DOMAIN dep.holds /\ Ns(r).id \in STRING /\ Ns(r).prefix \in STRING
           /\ IsFiniteSet(dep.holds[Ns(r).id]) /\ dep.holds[Ns(r).id] \subseteq Seq(STRING)
  <1>1. On(r) \in DOMAIN svc
    BY DEF ServiceInv, Asked
  <1> QED BY <1>1, StoreOf DEF Ns

(* The stores keep their keys, and a version never goes back.              *)
Grown ==
    \A id \in DOMAIN stores :
        /\ DOMAIN stores'[id] = DOMAIN stores[id]
        /\ \A k \in DOMAIN stores[id] : stores'[id][k].version >= stores[id][k].version

(* What one store holds.                                                   *)
StoreKept(id) ==
    /\ Whole(id, stores[id])
    /\ \A k \in DOMAIN stores[id] :
         /\ stores[id][k] = [store |-> stores[id][k].store, key |-> stores[id][k].key,
                             version |-> stores[id][k].version]
         /\ stores[id][k].version \in Nat
ExtensionKept(id) == extension[id] = Nothing \/ Whole(id, extension[id])

LEMMA StoresMeans ==
    /\ StoresKept <=>
         /\ DOMAIN stores = DOMAIN dep.holds /\ DOMAIN extension = DOMAIN dep.holds
         /\ \A id \in DOMAIN stores : StoreKept(id) /\ ExtensionKept(id)
    /\ StoresKept' <=>
         /\ DOMAIN stores' = DOMAIN dep'.holds /\ DOMAIN extension' = DOMAIN dep'.holds
         /\ \A id \in DOMAIN stores' : StoreKept(id)' /\ ExtensionKept(id)'
  BY DEF StoresKept, StoreKept, ExtensionKept

LEMMA StoresInit == ASSUME Init PROVE StoresKept
  <1>1. /\ stores = [id \in DOMAIN dep.holds |->
                        [k \in dep.holds[id] |-> [store |-> id, key |-> k, version |-> 1]]]
        /\ extension = [id \in DOMAIN dep.holds |-> Nothing]
    BY DEF Init
  <1>2. ASSUME NEW id \in DOMAIN stores PROVE StoreKept(id) /\ ExtensionKept(id)
    <2>1. /\ DOMAIN stores[id] = dep.holds[id] /\ extension[id] = Nothing
          /\ \A k \in DOMAIN stores[id] :
               stores[id][k] = [store |-> id, key |-> k, version |-> 1]
      BY <1>1
    <2>2. ASSUME NEW k \in DOMAIN stores[id]
          PROVE  /\ stores[id][k].store = id /\ stores[id][k].version \in Nat
                 /\ stores[id][k] = [store |-> stores[id][k].store, key |-> stores[id][k].key,
                                     version |-> stores[id][k].version]
      <3> DEFINE v == stores[id][k]
      <3>1. v = [store |-> id, key |-> k, version |-> 1]
        BY <2>1
      <3> HIDE DEF v
      <3>2. v.store = id /\ v.key = k /\ v.version = 1
        BY <3>1
      <3>3. v = [store |-> v.store, key |-> v.key, version |-> v.version]
        BY <3>1, <3>2
      <3> QED BY <3>2, <3>3 DEF v
    <2>3. Whole(id, stores[id])
      BY <2>1, <2>2 DEF Whole, Of
    <2>4. StoreKept(id)
      BY <2>2, <2>3 DEF StoreKept
    <2> QED BY <2>1, <2>4 DEF ExtensionKept
  <1> QED BY <1>1, <1>2, StoresMeans

LEMMA Versions ==
    ASSUME StoresKept
    PROVE  \A id \in DOMAIN stores : \A k \in DOMAIN stores[id] : stores[id][k].version \in Nat
  BY DEF StoresKept

LEMMA StoresSame ==
    ASSUME StoresKept, UNCHANGED <<stores, extension>>, dep' = dep
    PROVE  StoresKept' /\ Grown
  <1>1. StoresKept'
    BY DEF StoresKept, Whole
  <1>2. Grown
    BY Versions DEF Grown
  <1> QED BY <1>1, <1>2

LEMMA StoresStep ==
    ASSUME ServiceInv, StoresKept, [Next]_vars
    PROVE  StoresKept' /\ Grown
  <1>1. /\ DOMAIN stores = DOMAIN dep.holds /\ DOMAIN extension = DOMAIN dep.holds
        /\ \A id \in DOMAIN stores : StoreKept(id) /\ ExtensionKept(id)
    BY StoresMeans
  <1>2. CASE Rotate
    <2>1. PICK i \in DOMAIN stores : \E k \in DOMAIN stores[i] :
              stores' = [stores EXCEPT ![i][k].version = stores[i][k].version + 1]
      BY <1>2 DEF Rotate
    <2>2. PICK j \in DOMAIN stores[i] :
              stores' = [stores EXCEPT ![i][j].version = stores[i][j].version + 1]
      BY <2>1
    <2>3. dep' = dep /\ extension' = extension
      BY <1>2 DEF Rotate, service
    <2>4. /\ DOMAIN stores' = DOMAIN stores /\ DOMAIN stores'[i] = DOMAIN stores[i]
          /\ \A id \in DOMAIN stores : id # i => stores'[id] = stores[id]
          /\ \A k \in DOMAIN stores[i] : k # j => stores'[i][k] = stores[i][k]
          /\ stores'[i][j] = [stores[i][j] EXCEPT !.version = stores[i][j].version + 1]
      BY <2>2
    <2>5. StoreKept(i)
      BY <1>1
    <2>6. /\ stores'[i][j] = [store |-> stores[i][j].store, key |-> stores[i][j].key,
                              version |-> stores[i][j].version + 1]
          /\ stores[i][j].version \in Nat /\ stores[i][j].store = i
      BY <2>4, <2>5 DEF StoreKept, Whole, Of
    <2>7. StoreKept(i)'
      <3>1. ASSUME NEW k \in DOMAIN stores'[i]
            PROVE  /\ stores'[i][k].store = i /\ stores'[i][k].version \in Nat
                   /\ stores'[i][k] = [store |-> stores'[i][k].store, key |-> stores'[i][k].key,
                                       version |-> stores'[i][k].version]
        <4>1. CASE k = j
          BY <4>1, <2>6
        <4>2. CASE k # j
          BY <4>2, <2>4, <2>5 DEF StoreKept, Whole, Of
        <4> QED BY <4>1, <4>2
      <3>2. DOMAIN stores'[i] = dep'.holds[i]
        BY <2>3, <2>4, <2>5 DEF StoreKept, Whole
      <3> QED BY <3>1, <3>2 DEF StoreKept, Whole, Of
    <2>8. ASSUME NEW id \in DOMAIN stores' PROVE StoreKept(id)' /\ ExtensionKept(id)'
      <3>1. ExtensionKept(id)'
        BY <1>1, <2>3, <2>4 DEF ExtensionKept, Whole
      <3>2. CASE id # i
        <4>1. StoreKept(id) /\ stores'[id] = stores[id]
          BY <1>1, <2>4, <3>2
        <4> QED BY <4>1, <2>3, <3>1 DEF StoreKept, Whole
      <3> QED BY <3>1, <3>2, <2>7
    <2>9. StoresKept'
      BY <1>1, <2>3, <2>4, <2>8, StoresMeans
    <2>10. \A k \in DOMAIN stores[i] : stores'[i][k].version >= stores[i][k].version
      BY <2>4, <2>5, <2>6 DEF StoreKept
    <2>11. Grown
      BY <2>4, <2>10, Versions DEF Grown
    <2> QED BY <2>9, <2>11
  <1>3. ASSUME NEW r \in Readers, ReadExtension(r) PROVE StoresKept' /\ Grown
    <2>1. stores' = stores /\ dep' = dep /\ at[r].pc = "extension"
      BY <1>3 DEF ReadExtension, service, Pc
    <2>2. Ns(r).id \in DOMAIN dep.holds
      BY <2>1, OnAStore
    <2>3. CASE extension' = extension
      BY <2>1, <2>3, StoresSame
    <2>4. ASSUME NEW v \in ExtensionRead(Ns(r).id),
                 extension' = [extension EXCEPT ![Ns(r).id] = v]
          PROVE  StoresKept' /\ Grown
      <3> DEFINE i == Ns(r).id
      <3>1. Whole(i, v)
        BY <2>2, <2>4, <1>1 DEF ExtensionRead, StoreKept, ExtensionKept
      <3> HIDE DEF i
      <3>2. /\ DOMAIN extension' = DOMAIN extension
            /\ \A id \in DOMAIN extension : extension'[id] = extension[id] \/ (id = i /\ extension'[id] = v)
        BY <2>4 DEF i
      <3>3. ASSUME NEW id \in DOMAIN stores' PROVE StoreKept(id)' /\ ExtensionKept(id)'
        <4>1. StoreKept(id) /\ ExtensionKept(id)
          BY <1>1, <2>1
        <4>2. StoreKept(id)'
          BY <4>1, <2>1 DEF StoreKept, Whole
        <4>3. ExtensionKept(id)'
          BY <4>1, <1>1, <2>1, <3>1, <3>2 DEF ExtensionKept, Whole
        <4> QED BY <4>2, <4>3
      <3>4. StoresKept'
        BY <1>1, <2>1, <3>2, <3>3, StoresMeans
      <3>5. Grown
        BY <2>1, Versions DEF Grown
      <3> QED BY <3>4, <3>5
    <2> QED BY <1>3, <2>3, <2>4 DEF ReadExtension
  <1>4. CASE UNCHANGED <<stores, extension>> /\ dep' = dep
    BY <1>4, StoresSame
  <1>5. CASE New
    BY <1>4, <1>5 DEF New, external
  <1>6. CASE Tick \/ UNCHANGED vars
    BY <1>4, <1>6 DEF Tick, vars, external, service
  <1>7. ASSUME NEW r \in Readers, Ask(r) \/ Locks(r) \/ Record(r) \/ RecordError(r)
        PROVE  StoresKept' /\ Grown
    BY <1>4, <1>7 DEF Ask, Locks, ServeHeld, Fetch, Record, RecordError, external, service
  <1>8. ASSUME NEW r \in Readers, Backend(r) PROVE StoresKept' /\ Grown
    BY <1>3, <1>4, <1>8 DEF Backend, ReadEmpty, ReadLocal, LoadAwsConfig, NoClient, ReadSecret,
          ReadPage, external, service
  <1> QED BY <1>2, <1>5, <1>6, <1>7, <1>8 DEF Next, Reader

(* A reader that did not move has fetched what it had, though the store    *)
(* was rotated under it.                                                   *)
LEMMA FetchedKept ==
    ASSUME ServiceInv, StoresKept, NEW q \in Readers, FetchedBy(q), at'[q] = at[q],
           UNCHANGED service, Grown, DOMAIN stores' = DOMAIN stores,
           StoresKept'
    PROVE  FetchedBy(q)'
  <1>1. CASE at[q].pc \in {"idle", "lock"}
    BY <1>1 DEF FetchedBy, Fetching, Backends
  <1>2. CASE at[q].pc \notin {"idle", "lock"}
    <2> DEFINE id == Ns(q).id
    <2>1. id \in DOMAIN stores
      BY <1>2, OnAStore DEF StoresKept
    <2>2. Ns(q)' = Ns(q) /\ dep' = dep
      BY DEF Ns, On, service
    <2>3. DOMAIN stores'[id] = DOMAIN stores[id]
      BY <2>1 DEF Grown
    <2>4. Pages(id)' = Pages(id)
      BY <2>2, <2>3 DEF Pages
    <2>5. at[q].pc \in Fetching
      BY <1>2 DEF ServiceInv, Shapes, IsReader
    <2>6. /\ DOMAIN at[q].saw = dep.holds[id] /\ NoOlder(stores[id], at[q].saw)
          /\ \A k \in DOMAIN at[q].saw : at[q].saw[k].version \in Nat
      BY <2>5 DEF FetchedBy
    <2>7. DOMAIN stores[id] = dep.holds[id]
      BY <2>1 DEF StoresKept, Whole
    <2>8. \A k \in DOMAIN stores[id] :
             /\ stores[id][k].version \in Nat /\ stores'[id][k].version \in Nat
             /\ stores'[id][k].version >= stores[id][k].version
      <3>1. \A k \in DOMAIN stores'[id] : stores'[id][k].version \in Nat
        BY <2>1 DEF StoresKept
      <3> QED BY <2>1, <2>3, <3>1, Versions DEF Grown
    <2>9. NoOlder(stores'[id], at[q].saw)
      BY <2>3, <2>6, <2>7, <2>8 DEF NoOlder
    <2>10. Collected(q) => Collected(q)'
      BY <2>2, <2>4 DEF Collected
    <2>11. Reading(q) => Reading(q)'
      BY <2>2 DEF Reading
    <2> QED BY <1>2, <2>2, <2>6, <2>9, <2>10, <2>11 DEF FetchedBy
  <1> QED BY <1>1, <1>2

(* What a backend replies is a reading of the store.                       *)
LEMMA ReplyIsReading ==
    ASSUME NEW r \in Readers, NEW v, Shapes, Replied(r, v), Moves(r), FetchedBy(r),
           stores' = stores,
           DOMAIN v \subseteq dep.holds[Ns(r).id], Of(Ns(r).id, v),
           Ns(r).backend # "empty" => DOMAIN v = DOMAIN at[r].saw,
           Ns(r).backend \notin {"empty", "extension"} => NoOlder(v, at[r].saw)
    PROVE  FetchedBy(r)'
  <1>1. at'[r].pc = "reply" /\ at'[r].got = v
    BY DEF Replied, Shapes, IsReader
  <1>2. Ns(r)' = Ns(r) /\ dep' = dep
    BY DEF Moves, Ns, On, service
  <1>3. at'[r].saw = at[r].saw /\ at[r].pc \in Fetching
    BY DEF Moves, Fetching
  <1>4. Reading(r)'
    BY <1>1, <1>2, <1>3 DEF Reading
  <1> QED BY <1>1, <1>2, <1>3, <1>4 DEF FetchedBy, Fetching

(* Another pc, with nothing more fetched than was.                         *)
LEMMA MovedOn ==
    ASSUME NEW r \in Readers, Shapes, Moves(r), FetchedBy(r), stores' = stores,
           at'[r].pc \in {"error", "secrets"}
    PROVE  FetchedBy(r)'
  <1>1. Ns(r)' = Ns(r) /\ dep' = dep
    BY DEF Moves, Ns, On, service
  <1>2. at'[r].saw = at[r].saw /\ at[r].pc \in Fetching
    BY DEF Moves, Fetching
  <1> QED BY <1>1, <1>2 DEF FetchedBy, Fetching, Backends

(* A page adds one key of the store.                                       *)
LEMMA PageAdds ==
    ASSUME ServiceInv, StoresKept, NEW r \in Readers, FetchedBy(r), at[r].pc = "parameters",
           NEW i, i = at[r].page + 1, i <= Len(Pages(Ns(r).id))
    PROVE  LET id == Ns(r).id  got == Collect(r, i)
           IN  /\ i \in 0 .. Len(Pages(id))
               /\ DOMAIN got = {Pages(id)[j] : j \in 1 .. i}
               /\ Of(id, got) /\ NoOlder(got, at[r].saw)
  <1> DEFINE id == Ns(r).id
             k == Pages(id)[i]
  <1>1. /\ id \in DOMAIN stores /\ id \in STRING
        /\ IsFiniteSet(dep.holds[id]) /\ dep.holds[id] \subseteq Seq(STRING)
    BY OnAStore DEF StoresKept
  <1>2. DOMAIN stores[id] = dep.holds[id] /\ Of(id, stores[id])
    BY <1>1 DEF StoresKept, Whole
  <1>3. /\ Len(Pages(id)) \in Nat
        /\ \A j \in 1 .. Len(Pages(id)) : Pages(id)[j] \in DOMAIN stores[id]
    BY <1>1, <1>2, PagesAre
  <1>4. at[r].page \in Nat
    BY DEF ServiceInv, Shapes, IsReader
  <1>5. i \in 1 .. Len(Pages(id)) /\ k \in DOMAIN stores[id]
    BY <1>3, <1>4
  <1>6. CutPath(id, Parameter(id, k)) = k
    <2>1. k \in Seq(Names) /\ id \in Names /\ Slash \in Names
      BY <1>1, <1>2, <1>5, KeysOfNames
    <2> HIDE DEF id, k
    <2>2. /\ IsPrefix(<<id, Slash>>, <<id, Slash>> \o k)
          /\ SubSeq(<<id, Slash>> \o k, 3, Len(<<id, Slash>> \o k)) = k
      BY <2>1, UnderPath
    <2> QED BY <2>2 DEF CutPath, Parameter
  <1>7. Collect(r, i) = Merge(at[r].got, Entry(k, stores[id][k]))
    BY <1>6 DEF Collect
  <1> DEFINE got == Collect(r, i)
  <1>8. /\ DOMAIN got = DOMAIN at[r].got \cup {k}
        /\ got[k] = stores[id][k]
        /\ \A x \in DOMAIN at[r].got : x # k => got[x] = at[r].got[x]
    BY <1>7 DEF Merge, Entry
  <1>9. /\ at[r].page \in 0 .. Len(Pages(id))
        /\ DOMAIN at[r].got = {Pages(id)[j] : j \in 1 .. at[r].page}
        /\ Of(id, at[r].got) /\ NoOlder(at[r].got, at[r].saw)
    BY DEF FetchedBy, Collected
  <1>10. stores[id][k].version >= at[r].saw[k].version /\ stores[id][k].store = id
    BY <1>2, <1>5 DEF FetchedBy, NoOlder, Of, Fetching, Backends
  <1> HIDE DEF got
  <1>11. Of(id, got) /\ NoOlder(got, at[r].saw)
    BY <1>8, <1>9, <1>10 DEF Of, NoOlder
  <1>12. DOMAIN got = {Pages(id)[j] : j \in 1 .. i}
    <2>1. 1 .. i = (1 .. at[r].page) \cup {i}
      BY <1>4
    <2> QED BY <2>1, <1>8, <1>9
  <1> QED BY <1>5, <1>11, <1>12 DEF got

LEMMA BackendFetches ==
    ASSUME ServiceInv, StoresKept, NEW r \in Readers, FetchedBy(r), Backend(r)
    PROVE  FetchedBy(r)'
  <1>1. Moves(r) /\ Shapes
    BY BackendSteps DEF ServiceInv
  <1>2. stores' = stores
    BY DEF Backend, ReadEmpty, ReadLocal, LoadAwsConfig, NoClient, ReadSecret, ReadExtension,
           ReadPage, external
  <1>3. at[r].pc \in Fetching /\ at[r].pc # "idle"
    BY <1>1 DEF Moves, Fetching, Backends
  <1> DEFINE id == Ns(r).id
  <1>4. id \in DOMAIN stores /\ IsFiniteSet(dep.holds[id])
    BY <1>3, OnAStore DEF StoresKept
  <1>5. Whole(id, stores[id]) /\ (extension[id] = Nothing \/ Whole(id, extension[id]))
    BY <1>4 DEF StoresKept
  <1>6. DOMAIN at[r].saw = dep.holds[id] /\ NoOlder(stores[id], at[r].saw)
    BY <1>3 DEF FetchedBy
  <1>7. ASSUME Replied(r, stores[id]) PROVE FetchedBy(r)'
    BY <1>1, <1>2, <1>5, <1>6, <1>7, ReplyIsReading DEF Whole
  <1>8. ASSUME Failed(r) PROVE FetchedBy(r)'
    <2>1. at'[r].pc = "error"
      BY <1>1, <1>8 DEF Failed, Shapes, IsReader
    <2> QED BY <2>1, <1>1, <1>2, MovedOn
  <1>9. CASE ReadEmpty(r)
    <2>1. Replied(r, Nothing) /\ Ns(r).backend = "empty"
      BY <1>9 DEF ReadEmpty, Pc, FetchedBy
    <2>2. DOMAIN Nothing \subseteq dep.holds[id] /\ Of(id, Nothing)
      BY NoNames DEF Of
    <2> QED BY <2>1, <2>2, <1>1, <1>2, ReplyIsReading
  <1>10. CASE ReadLocal(r) \/ ReadSecret(r) \/ NoClient(r)
    BY <1>7, <1>8, <1>10 DEF ReadLocal, ReadSecret, NoClient
  <1>11. CASE LoadAwsConfig(r)
    <2>1. at' = at /\ UNCHANGED service
      BY <1>11 DEF LoadAwsConfig
    <2>2. Grown /\ StoresKept'
      BY <1>11, StoresStep DEF Next, Reader, Backend
    <2> QED BY <2>1, <2>2, <1>2, FetchedKept
  <1>12. CASE ReadExtension(r)
    <2>1. Ns(r).backend = "extension"
      BY <1>12 DEF ReadExtension, Pc, FetchedBy
    <2>2. CASE at' = [at EXCEPT ![r].pc = "secrets"]
      <3>1. at'[r].pc = "secrets"
        BY <2>2, <1>1 DEF Shapes, IsReader
      <3> QED BY <3>1, <1>1, <1>2, MovedOn
    <2>3. ASSUME NEW v \in ExtensionRead(id), Replied(r, v) PROVE FetchedBy(r)'
      <3>1. Whole(id, v)
        BY <1>5, <2>3 DEF ExtensionRead
      <3>2. DOMAIN v = dep.holds[id] /\ Of(id, v)
        BY <3>1 DEF Whole
      <3> QED BY <3>2, <2>1, <2>3, <1>1, <1>2, <1>6, ReplyIsReading
    <2> QED BY <1>12, <2>2, <2>3 DEF ReadExtension
  <1>13. CASE ReadPage(r)
    <2>1. at[r].pc = "parameters"
      BY <1>13 DEF ReadPage, Pc
    <2>2. /\ at[r].page \in 0 .. Len(Pages(id))
          /\ DOMAIN at[r].got = {Pages(id)[i] : i \in 1 .. at[r].page}
          /\ Of(id, at[r].got) /\ NoOlder(at[r].got, at[r].saw)
      BY <2>1 DEF FetchedBy, Collected
    <2>3. /\ Len(Pages(id)) \in Nat
          /\ {Pages(id)[i] : i \in 1 .. Len(Pages(id))} = DOMAIN stores[id]
      BY <1>4, <1>5, PagesAre DEF Whole
    <2> DEFINE i == at[r].page + 1
    <2>4. CASE i > Len(Pages(id)) /\ Replied(r, at[r].got)
      <3>1. at[r].page = Len(Pages(id))
        BY <2>2, <2>3, <2>4
      <3>2. DOMAIN at[r].got = dep.holds[id]
        BY <2>2, <2>3, <3>1, <1>5 DEF Whole
      <3> QED BY <2>2, <2>4, <3>2, <1>1, <1>2, <1>6, ReplyIsReading
    <2>5. CASE i <= Len(Pages(id)) /\ at' = [at EXCEPT ![r].page = i, ![r].got = Collect(r, i)]
      <3> DEFINE got == Collect(r, i)
      <3>1. /\ i \in 0 .. Len(Pages(id))
            /\ DOMAIN got = {Pages(id)[j] : j \in 1 .. i}
            /\ Of(id, got) /\ NoOlder(got, at[r].saw)
        BY <2>1, <2>5, PageAdds
      <3>2. at' = [at EXCEPT ![r].page = i, ![r].got = got]
        BY <2>5
      <3> HIDE DEF got, i
      <3>3. at'[r].pc = "parameters" /\ at'[r].page = i /\ at'[r].got = got
        BY <2>1, <3>2, <1>1 DEF Shapes, IsReader
      <3>4. Ns(r)' = Ns(r) /\ dep' = dep /\ at'[r].saw = at[r].saw
        BY <1>1 DEF Moves, Ns, On, service
      <3>5. Pages(id)' = Pages(id)
        BY <1>2, <3>4 DEF Pages
      <3>6. Collected(r)'
        BY <3>1, <3>3, <3>4, <3>5 DEF Collected
      <3> QED BY <1>2, <1>3, <3>3, <3>4, <3>6 DEF FetchedBy, Fetching, Backends
    <2> QED BY <1>8, <1>13, <2>4, <2>5 DEF ReadPage
  <1> QED BY <1>9, <1>10, <1>11, <1>12, <1>13 DEF Backend

(* Values taken from under a prefix are still the store's.                 *)
LEMMA PrefixKeepsStore ==
    ASSUME NEW id, NEW prefix \in STRING, NEW values, DOMAIN values \subseteq Seq(STRING),
           Of(id, values)
    PROVE  Of(id, ApplyPrefix(prefix, values))
  BY Applied DEF Of

LEMMA HeldKept ==
    ASSUME HeldFromStore, svc' = svc, DOMAIN held' = DOMAIN held, DOMAIN held = DOMAIN svc,
           \A n \in DOMAIN held : held'[n].values = held[n].values
    PROVE  HeldFromStore'
  BY DEF HeldFromStore, Of

LEMMA ReadingInit == ASSUME Init PROVE ReadingInv
  <1>1. \A r \in Readers : at[r] = Idle
    BY DEF Init
  <1>2. Idle.pc = "idle" /\ Idle.got = Nothing /\ Idle.page = 0
    BY DEF Idle
  <1>3. Fetched
    BY <1>1, <1>2 DEF Fetched, FetchedBy, Fetching, Backends
  <1>4. HeldFromStore
    BY NoNames DEF Init, HeldFromStore
  <1> QED BY <1>3, <1>4, StoresInit DEF ReadingInv

LEMMA ReadingStep == ASSUME ServiceInv, ReadingInv, [Next]_vars PROVE ReadingInv'
  <1>1. StoresKept /\ Fetched /\ HeldFromStore
    BY DEF ReadingInv
  <1>2. StoresKept' /\ Grown
    BY <1>1, StoresStep
  <1>3. DOMAIN held = DOMAIN svc /\ DOMAIN at = Readers
    BY DEF ServiceInv, Shapes
  <1>4. SUFFICES Fetched' /\ HeldFromStore'
    BY <1>2 DEF ReadingInv
  <1>5. ASSUME NEW q \in Readers, at'[q] = at[q], UNCHANGED service PROVE FetchedBy(q)'
    <2>1. DOMAIN stores' = DOMAIN stores
      BY <1>1, <1>2, <1>5 DEF StoresKept, service
    <2> QED BY <1>1, <1>2, <1>5, <2>1, FetchedKept DEF Fetched
  <1>6. ASSUME NEW r \in Readers, at'[r] = Idle PROVE FetchedBy(r)'
    BY <1>6 DEF FetchedBy, Idle, Fetching, Backends
  <1>7. CASE New
    <2>1. /\ ~new /\ UNCHANGED <<dep, stores, at>>
          /\ \A n \in DOMAIN svc' : held'[n] = Unheld
      BY <1>7, NewSteps DEF external
    <2>2. \A r \in Readers : at'[r].pc = "idle" /\ at'[r].got = Nothing /\ at'[r].page = 0
      BY <1>1, <2>1 DEF ServiceInv, Built, Fetched, FetchedBy
    <2>3. Fetched'
      BY <2>2 DEF Fetched, FetchedBy, Fetching, Backends
    <2>4. Unheld.values = Nothing
      BY DEF Unheld
    <2>5. HeldFromStore'
      BY <2>1, <2>4, NoNames DEF HeldFromStore, Of
    <2> QED BY <2>3, <2>5
  <1>8. CASE Tick \/ Rotate \/ UNCHANGED vars
    <2>1. UNCHANGED <<service, held, at>>
      BY <1>8 DEF Tick, Rotate, vars, service
    <2>2. Fetched'
      BY <1>5, <2>1 DEF Fetched
    <2>3. HeldFromStore'
      BY <1>1, <1>3, <2>1, HeldKept DEF service
    <2> QED BY <2>2, <2>3
  <1>9. ASSUME NEW r \in Readers, Ask(r) PROVE Fetched' /\ HeldFromStore'
    <2>1. /\ Quiet /\ held' = held /\ at[r].pc = "idle"
          /\ \/ at' = at
             \/ /\ \A q \in Readers : q # r => at'[q] = at[q]
                /\ at'[r].pc = "lock" /\ at'[r].got = at[r].got /\ at'[r].page = at[r].page
      BY <1>9, AskSteps DEF ServiceInv
    <2>2. UNCHANGED service /\ svc' = svc
      BY <2>1 DEF Quiet, service
    <2>3. HeldFromStore'
      BY <1>1, <1>3, <2>1, <2>2, HeldKept
    <2>4. ASSUME NEW q \in Readers PROVE FetchedBy(q)'
      <3>1. CASE at'[q] = at[q]
        BY <3>1, <1>5, <2>2
      <3>2. CASE at'[q] # at[q]
        <4>1. q = r /\ at'[q].pc = "lock" /\ at'[q].got = at[q].got /\ at'[q].page = at[q].page
          BY <3>2, <2>1
        <4>2. at[q].got = Nothing /\ at[q].page = 0
          BY <1>1, <2>1, <4>1 DEF Fetched, FetchedBy
        <4> QED BY <4>1, <4>2 DEF FetchedBy, Fetching, Backends
      <3> QED BY <3>1, <3>2
    <2> QED BY <2>3, <2>4 DEF Fetched
  <1>10. ASSUME NEW r \in Readers, ServeHeld(r) PROVE Fetched' /\ HeldFromStore'
    <2>1. Quiet /\ held' = held /\ GoesIdle(r)
      BY <1>10, ServeSteps DEF ServiceInv
    <2>2. UNCHANGED service /\ svc' = svc
      BY <2>1 DEF Quiet, service
    <2>3. HeldFromStore'
      BY <1>1, <1>3, <2>1, <2>2, HeldKept
    <2>4. Fetched'
      BY <1>5, <1>6, <2>1, <2>2 DEF Fetched, GoesIdle
    <2> QED BY <2>3, <2>4
  <1>11. ASSUME NEW r \in Readers, Fetch(r) PROVE Fetched' /\ HeldFromStore'
    <2>1. /\ Quiet /\ HeldBy(r) /\ held'[On(r)].values = held[On(r)].values
          /\ \A q \in Readers : q # r => at'[q] = at[q]
          /\ at[r].pc = "lock"
          /\ at'[r] = [at[r] EXCEPT !.pc = Ns(r).backend, !.began = clock,
                                    !.saw = stores[Ns(r).id]]
      BY <1>11, FetchSteps DEF ServiceInv
    <2>2. UNCHANGED service /\ svc' = svc /\ dep' = dep /\ stores' = stores
      BY <2>1 DEF Quiet, service, external
    <2>3. HeldFromStore'
      BY <1>1, <1>3, <2>1, <2>2, HeldKept DEF HeldBy
    <2> DEFINE id == Ns(r).id
               b == Ns(r).backend
    <2>4. /\ at'[r].pc = b /\ at'[r].saw = stores[id] /\ at'[r].on = at[r].on
          /\ at'[r].got = at[r].got /\ at'[r].page = at[r].page
      BY <2>1 DEF ServiceInv, Shapes, IsReader
    <2>5. at'[r].got = Nothing /\ at'[r].page = 0
      BY <1>1, <2>1, <2>4 DEF Fetched, FetchedBy
    <2>6. Ns(r)' = Ns(r)
      BY <2>2, <2>4 DEF Ns, On
    <2>7. id \in DOMAIN stores /\ IsFiniteSet(dep.holds[id]) /\ On(r) \in DOMAIN svc
      BY <1>1, <2>1, OnAStore DEF StoresKept
    <2>8. b \in Backends
      <3>1. PICK d \in DiscoverStores : Ns(r) = Namespace(d) /\ Ns(r).backend # "unsupported"
        BY <2>7 DEF ServiceInv, Built, Ns
      <3> QED BY <3>1, NamespaceIs
    <2>9. DOMAIN stores[id] = dep.holds[id] /\ \A k \in DOMAIN stores[id] : stores[id][k].version \in Nat
      BY <1>1, <2>7, Versions DEF StoresKept, Whole
    <2>10. NoOlder(stores[id], stores[id])
      BY <2>9 DEF NoOlder
    <2>11. Collected(r)'
      <3>1. Len(Pages(id)) \in Nat /\ Pages(id)' = Pages(id)
        BY <2>2, <2>6, <2>7, <2>9, PagesAre DEF Pages
      <3>2. 1 .. 0 = {}
        OBVIOUS
      <3>3. DOMAIN at'[r].got = {} /\ at'[r].page = 0
        BY <2>5, NoNames
      <3> QED BY <2>6, <3>1, <3>2, <3>3 DEF Collected, Of, NoOlder
    <2>12. FetchedBy(r)'
      <3> HIDE DEF id, b
      <3>1. Ns(r)'.id = id /\ Ns(r)'.backend = b
        BY <2>6 DEF id, b
      <3> QED BY <2>2, <2>4, <2>8, <2>9, <2>10, <2>11, <3>1 DEF FetchedBy, Fetching, Backends
    <2>13. Fetched'
      BY <1>5, <2>1, <2>2, <2>12 DEF Fetched
    <2> QED BY <2>3, <2>13
  <1>12. ASSUME NEW r \in Readers, Backend(r) PROVE Fetched' /\ HeldFromStore'
    <2>1. Moves(r)
      BY <1>12, BackendSteps DEF ServiceInv
    <2>2. UNCHANGED service /\ svc' = svc /\ held' = held
      BY <2>1 DEF Moves, service
    <2>3. HeldFromStore'
      BY <1>1, <1>3, <2>2, HeldKept
    <2>4. FetchedBy(r)'
      BY <1>1, <1>12, BackendFetches DEF Fetched
    <2>5. Fetched'
      BY <1>5, <2>1, <2>2, <2>4 DEF Fetched, Moves
    <2> QED BY <2>3, <2>5
  <1>13. ASSUME NEW r \in Readers, Record(r) PROVE Fetched' /\ HeldFromStore'
    <2>1. /\ Quiet /\ GoesIdle(r) /\ HeldBy(r) /\ at[r].pc = "reply"
          /\ held'[On(r)].values = ApplyPrefix(Ns(r).prefix, at[r].got)
      BY <1>13, RecordSteps DEF ServiceInv
    <2>2. UNCHANGED service /\ svc' = svc
      BY <2>1 DEF Quiet, service
    <2>3. Fetched'
      BY <1>5, <1>6, <2>1, <2>2 DEF Fetched, GoesIdle
    <2>4. DOMAIN at[r].got \subseteq dep.holds[Ns(r).id] /\ Of(Ns(r).id, at[r].got)
      BY <1>1, <2>1 DEF Fetched, FetchedBy, Reading
    <2>5. Ns(r).prefix \in STRING /\ DOMAIN at[r].got \subseteq Seq(STRING)
      BY <2>1, <2>4, OnAStore
    <2>6. Of(Ns(r).id, held'[On(r)].values)
      BY <2>1, <2>4, <2>5, PrefixKeepsStore
    <2>7. HeldFromStore'
      BY <1>1, <1>3, <2>1, <2>2, <2>6 DEF HeldFromStore, HeldBy, Ns, Of
    <2> QED BY <2>3, <2>7
  <1>14. ASSUME NEW r \in Readers, RecordError(r) PROVE Fetched' /\ HeldFromStore'
    <2>1. /\ Quiet /\ GoesIdle(r) /\ HeldBy(r)
          /\ held'[On(r)].values = held[On(r)].values
      BY <1>14, RecordErrorSteps DEF ServiceInv
    <2>2. UNCHANGED service /\ svc' = svc
      BY <2>1 DEF Quiet, service
    <2>3. Fetched'
      BY <1>5, <1>6, <2>1, <2>2 DEF Fetched, GoesIdle
    <2>4. HeldFromStore'
      BY <1>1, <1>3, <2>1, <2>2, HeldKept DEF HeldBy
    <2> QED BY <2>3, <2>4
  <1> QED BY <1>7, <1>8, <1>9, <1>10, <1>11, <1>12, <1>13, <1>14
          DEF Next, Reader, Locks

-----------------------------------------------------------------------------
(* What a namespace comes to hold is whole.                                *)

LEMMA RecordsWhole ==
    ASSUME ServiceInv, ReadingInv, NEW r \in Readers, Record(r)
    PROVE  ReadWhole(r, On(r))
  <1> DEFINE got == at[r].got
             saw == at[r].saw
             p == Ns(r).prefix
  <1>1. at[r].pc = "reply" /\ held'[On(r)].values = ApplyPrefix(p, got)
    BY RecordSteps DEF ServiceInv
  <1>2. /\ On(r) \in DOMAIN svc /\ p \in STRING
        /\ dep.holds[Ns(r).id] \subseteq Seq(STRING)
    BY <1>1, OnAStore
  <1>3. Reading(r) /\ DOMAIN saw = dep.holds[Ns(r).id]
    BY <1>1 DEF ReadingInv, Fetched, FetchedBy, Fetching
  <1>4. Ns(r).backend # "empty" => DOMAIN got = DOMAIN saw
    BY <1>3 DEF Reading
  <1>5. Ns(r).backend # "empty" => DOMAIN ApplyPrefix(p, saw) = DOMAIN ApplyPrefix(p, got)
    BY <1>4, AppliedKeys
  <1>6. ASSUME Ns(r).backend \notin {"empty", "extension"}, NEW k \in DOMAIN ApplyPrefix(p, saw)
        PROVE  ApplyPrefix(p, got)[k].version >= ApplyPrefix(p, saw)[k].version
    <2>1. NoOlder(got, saw) /\ DOMAIN got = DOMAIN saw /\ DOMAIN saw \subseteq Seq(STRING)
      BY <1>2, <1>3, <1>6 DEF Reading
    <2>2. k \in DOMAIN ApplyPrefix(p, got)
      BY <1>5, <1>6
    <2> HIDE DEF got, saw, p
    <2>3. ApplyPrefix(p, saw)[k] = saw[Full(p, k)]
      BY <1>2, <1>6, <2>1, Applied
    <2>4. Full(p, k) \in DOMAIN got /\ ApplyPrefix(p, got)[k] = got[Full(p, k)]
      BY <1>2, <2>1, <2>2, Applied
    <2> QED BY <2>1, <2>3, <2>4 DEF NoOlder
  <1> QED BY <1>1, <1>2, <1>5, <1>6 DEF ReadWhole, On, Ns

LEMMA WholeStep ==
    ASSUME ServiceInv, ReadingInv, [Next]_vars, NEW n \in DOMAIN held \cap DOMAIN held',
           held'[n].values # held[n].values
    PROVE  \E r \in Readers : ReadWhole(r, n)
  <1>1. DOMAIN held = DOMAIN svc
    BY DEF ServiceInv, Shapes
  <1>2. CASE New
    BY <1>1, <1>2, NewSteps DEF ServiceInv, Built
  <1>3. CASE Tick \/ Rotate \/ UNCHANGED vars
    BY <1>3 DEF Tick, Rotate, vars
  <1>4. ASSUME NEW r \in Readers, Ask(r) \/ ServeHeld(r) PROVE FALSE
    BY <1>4 DEF Ask, ServeHeld
  <1>5. ASSUME NEW r \in Readers, Fetch(r) PROVE FALSE
    <2>1. HeldBy(r) /\ held'[On(r)].values = held[On(r)].values
      BY <1>5, FetchSteps DEF ServiceInv
    <2> QED BY <2>1 DEF HeldBy
  <1>6. ASSUME NEW r \in Readers, Backend(r) PROVE FALSE
    <2>1. held' = held
      BY <1>6, BackendSteps DEF Moves, ServiceInv
    <2> QED BY <2>1
  <1>7. ASSUME NEW r \in Readers, Record(r) PROVE ReadWhole(r, n)
    <2>1. HeldBy(r)
      BY <1>7, RecordSteps DEF ServiceInv
    <2>2. n = On(r)
      BY <2>1 DEF HeldBy
    <2> QED BY <1>7, <2>2, RecordsWhole
  <1>8. ASSUME NEW r \in Readers, RecordError(r) PROVE FALSE
    <2>1. HeldBy(r) /\ held'[On(r)].values = held[On(r)].values
      BY <1>8, RecordErrorSteps DEF ServiceInv
    <2> QED BY <2>1 DEF HeldBy
  <1> QED BY <1>2, <1>3, <1>4, <1>5, <1>6, <1>7, <1>8 DEF Next, Reader, Locks

(* However the pages of a fetch, the lock and rotations of the store       *)
(* interleave, in any number of readers and over stores of any size, the   *)
(* values a namespace takes up have every key the store had under the      *)
(* prefix when the fetch began, none older than it was then.               *)
THEOREM ReadingsAreWhole == Spec => ReadingIsWhole
  <1>1. Init => ServiceInv /\ ReadingInv
    BY ServiceInit, ReadingInit
  <1>2. ServiceInv /\ ReadingInv /\ [Next]_vars => (ServiceInv /\ ReadingInv)'
    BY ServiceStep, ReadingStep
  <1>3. ServiceInv /\ ReadingInv /\ [Next]_vars =>
            [\A n \in DOMAIN held \cap DOMAIN held' :
               held'[n].values # held[n].values => \E r \in Readers : ReadWhole(r, n)]_vars
    BY WholeStep
  <1> QED BY <1>1, <1>2, <1>3, PTL DEF Spec, ReadingIsWhole

-----------------------------------------------------------------------------
(* A read is answered from the store it means.                             *)

(* What a call takes of the values is some of them; a resource's is its    *)
(* one key.                                                                *)
LEMMA TakesOfThem ==
    ASSUME NEW c, NEW values, c.via \in {"only", "named", "resource"},
           c.op \in {"get", "all", "bind"}, NEW id, Of(id, values)
    PROVE  /\ Of(id, Take(c, values).got)
           /\ c.via = "resource" /\ Take(c, values).ok =>
                DOMAIN Take(c, values).got = {ResourceKey(c)}
  <1>1. ASSUME NEW key PROVE /\ Of(id, Get(values, key).got)
                             /\ Get(values, key).ok => DOMAIN Get(values, key).got = {key}
    <2>1. CASE key \in DOMAIN values
      <3>1. Get(values, key).got = Entry(key, values[key])
        BY <2>1 DEF Get
      <3>2. DOMAIN Entry(key, values[key]) = {key} /\ Entry(key, values[key])[key] = values[key]
        BY DEF Entry
      <3> QED BY <2>1, <3>1, <3>2 DEF Of
    <2>2. CASE key \notin DOMAIN values
      <3>1. Get(values, key).got = Nothing /\ Get(values, key).ok = FALSE
        BY <2>2 DEF Get
      <3> QED BY <3>1, NoNames DEF Of
    <2> QED BY <2>1, <2>2
  <1>2. ASSUME NEW fields PROVE Of(id, BindValues(values, fields).got)
    <2> DEFINE found(i) == LookupField(values, fields[i].levels)
               got == BindValues(values, fields).got
    <2>1. \A k \in DOMAIN got :
             found(k) # {} /\ got[k] = values[CHOOSE x \in found(k) : TRUE]
      BY DEF BindValues
    <2>2. \A k : found(k) \subseteq DOMAIN values
      BY DEF LookupField
    <2> HIDE DEF found, got
    <2>3. ASSUME NEW k \in DOMAIN got PROVE got[k].store = id
      <3>1. (CHOOSE x \in found(k) : TRUE) \in DOMAIN values
        BY <2>1, <2>2
      <3> QED BY <2>1, <3>1 DEF Of
    <2> QED BY <2>3 DEF Of, got
  <1>3. CASE c.via = "resource"
    <2>1. Take(c, values) = Get(values, ResourceKey(c))
      BY <1>3 DEF Take
    <2> QED BY <1>1, <2>1
  <1>4. CASE c.via # "resource"
    <2>1. CASE c.op = "get"
      <3>1. Take(c, values) = Get(values, c.key)
        BY <1>4, <2>1 DEF Take
      <3> QED BY <1>1, <1>4, <3>1
    <2>2. CASE c.op = "all"
      <3>1. Take(c, values).got = values
        BY <1>4, <2>2 DEF Take
      <3> QED BY <1>4, <3>1
    <2>3. CASE c.op = "bind"
      <3>1. Take(c, values) = BindValues(values, c.fields)
        BY <1>4, <2>3 DEF Take
      <3> QED BY <1>2, <1>4, <3>1
    <2> QED BY <2>1, <2>2, <2>3
  <1> QED BY <1>3, <1>4

(* The namespaces besides the resources' are the application's stores, and *)
(* where there is one name all of them come to it.                         *)
LEMMA OneStore ==
    ASSUME ServiceInv, DOMAIN svc # {}, Cardinality(DOMAIN svc \ {Resources}) = 1
    PROVE  \A d, e \in ApplicationStores : StoreName(d) = StoreName(e)
  <1> DEFINE names == DOMAIN svc \ {Resources}
  <1>1. DOMAIN svc = {StoreName(d) : d \in DiscoverStores}
    BY DEF ServiceInv, Built
  <1>2. IsFiniteSet(DiscoverStores)
    <2>1. dep \in Deployments /\ DiscoverStores \subseteq dep.described
      BY DEF ServiceInv, Shapes, DiscoverStores
    <2>2. IsFiniteSet(dep.described)
      BY <2>1, DeploymentsShape
    <2> QED BY <2>1, <2>2, FS_Subset
  <1>3. IsFiniteSet(DOMAIN svc)
    <2> DEFINE f == [d \in DiscoverStores |-> StoreName(d)]
    <2>1. f \in Surjection(DiscoverStores, DOMAIN svc)
      BY <1>1 DEF Surjection
    <2> HIDE DEF f
    <2> QED BY <1>2, <2>1, FS_Surjection
  <1>4. IsFiniteSet(names)
    BY <1>3, FS_Subset
  <1>5. Cardinality(names) = 1
    OBVIOUS
  <1> HIDE DEF names
  <1>6. PICK x : names = {x}
    BY <1>4, <1>5, FS_Singleton
  <1>7. \A d \in ApplicationStores : StoreName(d) \in names
    BY <1>1 DEF ApplicationStores, names
  <1> QED BY <1>6, <1>7

Meant(a) ==
    a.status = "ok" =>
        LET from == {a.got[k].store : k \in DOMAIN a.got}
        IN  CASE a.call.via = "only" ->
                    /\ \A d, e \in ApplicationStores : StoreName(d) = StoreName(e)
                    /\ from \subseteq {d.id : d \in ApplicationStores}
              [] a.call.via = "named" -> from \subseteq {d.id : d \in DescribedAs(a.call.name)}
              [] a.call.via = "resource" ->
                    /\ from \subseteq {d.id : d \in DescribedAs(Resources)}
                    /\ dep.topology[a.call.name].type = a.call.kind
                    /\ DOMAIN a.got = {dep.topology[a.call.name].key}

LEMMA MeantMeans ==
    /\ AnsweredByTheStoreMeant <=> \A r \in Readers : Meant(answer[r])
    /\ AnsweredByTheStoreMeant' <=> \A r \in Readers : Meant(answer[r])'
  BY DEF AnsweredByTheStoreMeant, Meant

LEMMA MeantKept ==
    ASSUME NEW r \in Readers, dep' = dep, answer'[r] = answer[r], Meant(answer[r])
    PROVE  Meant(answer[r])'
  <1>1. ApplicationStores' = ApplicationStores /\ \A n : DescribedAs(n)' = DescribedAs(n)
    BY DEF ApplicationStores, DescribedAs, DiscoverStores
  <1>2. DescribedAs(answer[r].call.name)' = DescribedAs(answer'[r].call.name)
    BY DEF DescribedAs, DiscoverStores
  <1> QED BY <1>1, <1>2 DEF Meant

(* What a call is given of values of its namespace's store.                *)
LEMMA GivenAsMeant ==
    ASSUME ServiceInv, NEW r \in Readers, at[r].pc # "idle", dep' = dep, NEW h,
           Given(r, h), Of(Ns(r).id, h.values)
    PROVE  Meant(answer[r])'
  <1> DEFINE c == at[r].call
             t == Take(c, h.values)
             n == On(r)
             a == answer'[r]
  <1>1. c \in Calls[r] /\ n = Reads(c) /\ n \in DOMAIN svc /\ n # Refused
    BY DEF ServiceInv, Asked
  <1>2. c.via \in {"only", "named", "resource"} /\ c.op \in {"get", "all", "bind"}
    BY <1>1, CallsShape
  <1>3. a.call = c /\ a.got = t.got /\ (a.status = "ok" => t.ok)
    BY DEF Given
  <1>4. Of(Ns(r).id, t.got) /\ (c.via = "resource" /\ t.ok => DOMAIN t.got = {ResourceKey(c)})
    BY <1>2, TakesOfThem
  <1>5. {a.got[k].store : k \in DOMAIN a.got} \subseteq {Ns(r).id}
    BY <1>3, <1>4 DEF Of
  <1>6. PICK d \in DiscoverStores : StoreName(d) = n /\ Ns(r).id = d.id
    <2>1. PICK d \in DiscoverStores : StoreName(d) = n /\ svc[n] = Namespace(d)
      BY <1>1 DEF ServiceInv, Built
    <2> QED BY <2>1, NamespaceIs DEF Ns
  <1>7. ApplicationStores' = ApplicationStores /\ DescribedAs(Resources)' = DescribedAs(Resources)
    BY DEF ApplicationStores, DescribedAs, DiscoverStores
  <1>8. DescribedAs(answer[r].call.name)' = DescribedAs(a.call.name)
    BY DEF DescribedAs, DiscoverStores
  <1>9. SUFFICES ASSUME a.status = "ok" PROVE Meant(answer[r])'
    BY DEF Meant
  <1>10. CASE c.via = "only"
    <2>1. Reads(c) \in DOMAIN svc \ {Resources} /\ Cardinality(DOMAIN svc \ {Resources}) = 1
      BY <1>1, <1>2, <1>10, ReadsRegistered
    <2>2. \A x, y \in ApplicationStores : StoreName(x) = StoreName(y)
      BY <2>1, OneStore
    <2>3. d \in ApplicationStores
      BY <1>1, <1>6, <2>1 DEF ApplicationStores
    <2> QED BY <1>3, <1>5, <1>6, <1>7, <1>10, <2>2, <2>3 DEF Meant
  <1>11. CASE c.via = "named"
    <2>1. n = c.name
      BY <1>1, <1>2, <1>11, ReadsRegistered
    <2>2. d \in DescribedAs(a.call.name)
      BY <1>3, <1>6, <2>1 DEF DescribedAs
    <2> QED BY <1>3, <1>5, <1>6, <1>8, <1>11, <2>2 DEF Meant
  <1>12. CASE c.via = "resource"
    <2>1. n = Resources /\ Find(c.kind, c.name)
      BY <1>1, <1>2, <1>12, ReadsRegistered
    <2>2. links = dep.topology
      BY <2>1 DEF Find, ServiceInv, Built
    <2>3. /\ dep'.topology[a.call.name].type = a.call.kind
          /\ DOMAIN a.got = {dep'.topology[a.call.name].key}
      BY <1>3, <1>4, <1>9, <1>12, <2>1, <2>2 DEF Find, ResourceKey
    <2>4. d \in DescribedAs(Resources)
      BY <1>6, <2>1 DEF DescribedAs
    <2> QED BY <1>3, <1>5, <1>6, <1>7, <1>12, <2>3, <2>4 DEF Meant
  <1> QED BY <1>2, <1>10, <1>11, <1>12

LEMMA MeantStep ==
    ASSUME ServiceInv, ReadingInv, ReadingInv', AnsweredByTheStoreMeant, [Next]_vars
    PROVE  AnsweredByTheStoreMeant'
  <1>1. \A r \in Readers : Meant(answer[r])
    BY MeantMeans
  <1>2. SUFFICES \A r \in Readers : Meant(answer[r])'
    BY MeantMeans
  <1>3. CASE answer' = answer /\ dep' = dep
    BY <1>1, <1>3, MeantKept
  <1>4. ASSUME NEW r \in Readers, dep' = dep, \A q \in Readers : q # r => answer'[q] = answer[q],
               Meant(answer[r])'
        PROVE  \A q \in Readers : Meant(answer[q])'
    BY <1>1, <1>4, MeantKept
  <1>5. CASE New \/ Tick \/ Rotate \/ UNCHANGED vars
    BY <1>3, <1>5 DEF New, Tick, Rotate, vars, service
  <1>6. ASSUME NEW r \in Readers, Ask(r) PROVE \A q \in Readers : Meant(answer[q])'
    <2>1. /\ Quiet /\ \A q \in Readers : q # r => answer'[q] = answer[q]
          /\ answer'[r].status \in {"none", Refused}
      BY <1>6, AskSteps DEF ServiceInv
    <2>2. Meant(answer[r])'
      BY <2>1 DEF Meant, Refused
    <2> QED BY <1>4, <2>1, <2>2 DEF Quiet, service
  <1>7. ASSUME NEW r \in Readers, ServeHeld(r) PROVE \A q \in Readers : Meant(answer[q])'
    <2>1. Quiet /\ GoesIdle(r) /\ Given(r, Held(r)) /\ at[r].pc = "lock"
      BY <1>7, ServeSteps DEF ServiceInv
    <2>2. On(r) \in DOMAIN svc /\ dep' = dep
      BY <2>1 DEF ServiceInv, Asked, Quiet, service
    <2>3. Of(Ns(r).id, Held(r).values)
      BY <2>2 DEF ReadingInv, HeldFromStore, Ns, Held
    <2>4. Meant(answer[r])'
      BY <2>1, <2>2, <2>3, GivenAsMeant
    <2> QED BY <1>4, <2>1, <2>2, <2>4 DEF GoesIdle
  <1>8. ASSUME NEW r \in Readers, Fetch(r) \/ Backend(r) PROVE \A q \in Readers : Meant(answer[q])'
    <2>1. answer' = answer /\ dep' = dep
      BY <1>8, FetchSteps, BackendSteps DEF ServiceInv, Moves, Quiet, service
    <2> QED BY <2>1, <1>3
  <1>9. ASSUME NEW r \in Readers, Record(r) \/ RecordError(r)
        PROVE  \A q \in Readers : Meant(answer[q])'
    <2>1. /\ Quiet /\ GoesIdle(r) /\ HeldBy(r) /\ at[r].pc # "idle"
          /\ Told(r) \/ Given(r, held'[On(r)])
      BY <1>9, RecordSteps, RecordErrorSteps DEF ServiceInv
    <2>2. On(r) \in DOMAIN svc /\ dep' = dep /\ svc' = svc
      BY <2>1 DEF ServiceInv, Asked, Quiet, service
    <2>3. Of(Ns(r).id, held'[On(r)].values)
      BY <2>2 DEF ReadingInv, HeldFromStore, Ns, Of
    <2>4. Meant(answer[r])'
      <3>1. CASE Told(r)
        BY <3>1 DEF Told, Meant
      <3>2. CASE Given(r, held'[On(r)])
        BY <3>2, <2>1, <2>2, <2>3, GivenAsMeant
      <3> QED BY <2>1, <3>1, <3>2
    <2> QED BY <1>4, <2>1, <2>2, <2>4 DEF GoesIdle
  <1> QED BY <1>5, <1>6, <1>7, <1>8, <1>9 DEF Next, Reader, Locks

(* Whatever stores an environment describes and however their names fall   *)
(* together: a read that names no namespace is answered only where all the *)
(* application's stores come to one name, a named one from a store of that *)
(* name, and a resource from the resources store under the key the         *)
(* topology gives it.                                                      *)
THEOREM ReadsAreAnsweredAsMeant == Spec => []AnsweredByTheStoreMeant
  <1>1. Init => ServiceInv /\ ReadingInv /\ AnsweredByTheStoreMeant
    <2>1. Init => AnsweredByTheStoreMeant
      <3>1. Unanswered.status = "none"
        BY DEF Unanswered
      <3>2. ASSUME Init PROVE \A r \in Readers : answer[r].status = "none"
        BY <3>1, <3>2 DEF Init
      <3> QED BY <3>2 DEF AnsweredByTheStoreMeant
    <2> QED BY <2>1, ServiceInit, ReadingInit
  <1>2. ServiceInv /\ ReadingInv /\ AnsweredByTheStoreMeant /\ [Next]_vars =>
            (ServiceInv /\ ReadingInv /\ AnsweredByTheStoreMeant)'
    BY ServiceStep, ReadingStep, MeantStep
  <1> QED BY <1>1, <1>2, PTL DEF Spec

=============================================================================
