----------------------------- MODULE Resources ------------------------------
(***************************************************************************)
(* How an application comes by its resources, and how it gives them back:  *)
(* handles taken from the linked providers during registration             *)
(* (resources/handles.go, registry.go, aws/provider.go, local/local.go),   *)
(* clients, connection pools and settings built once on first use          *)
(* (aws/internal/service, aws/sqldb, redis, aws/cache), tokens signed for  *)
(* the connections of a pool, and the life of the process around them:     *)
(* choosing a mode, dialling the runtime, serving, flushing telemetry and  *)
(* releasing the pools (celerity/run.go, celerity/runtime.go,              *)
(* internal/ipc/grpc.go, internal/ipc/dial.go).                            *)
(*                                                                         *)
(* Callers are goroutines of handlers.  Serve waits for the handlers       *)
(* themselves, so a call still under way once serving has ended is one of  *)
(* a goroutine a handler left running.                                     *)
(***************************************************************************)
EXTENDS Integers, Sequences, SequencesExt, FiniteSets, Places

CONSTANTS
    Callers,      \* goroutines that use resources
    Builds,       \* the builds, environments and deployments a behaviour may be of
    TokenLifetime,\* elastiCacheTokenLifetime
    TokenMargin,  \* elastiCacheTokenMargin
    SetupTime,    \* the longest that opening a connection takes
    RetryFor,     \* DialConfig.RetryFor
    FirstBackoff, \* the first wait between two attempts to dial
    BackoffLimit, \* a wait this long or longer is not doubled
    MaxTime,      \* bound: how far the clock of the tokens goes
    MaxFaults     \* bound: reads, builds, dials and closes that fail

ASSUME ResourcesAssumption ==
    /\ TokenLifetime \in Nat /\ TokenMargin \in 1 .. TokenLifetime - 1
    /\ SetupTime \in 0 .. TokenMargin
    /\ RetryFor \in Nat /\ FirstBackoff \in Nat \ {0} /\ BackoffLimit \in Nat
    /\ MaxTime \in Nat /\ MaxFaults \in Nat

\* A build is [env, explicit, linked, platform, kinds, backends, drivers,
\* handlers, app, record, uses]: the variables a process starts with, whether a
\* provider was given explicitly, the providers linked, the platform the
\* configuration names, the resource packages and local backends linked, the SQL
\* drivers linked, whether a handler is registered, the resources the application
\* takes in order, what the deployment recorded of each, and what each caller does.
ASSUME BuildsAssumption ==
    \A b \in Builds :
        /\ b.linked \in Seq({"aws", "local"})
        /\ b.app \in Seq(DOMAIN b.record)
        /\ \A h \in Callers : \A u \in b.uses[h] : u.r \in ToSet(b.app) /\ u.read \in BOOLEAN

Absent == ""
Malformed == "malformed"
Home == "home"        \* the application's own region
None == "none"

VARIABLES
    build,      \* which of Builds this behaviour is of
    phase,      \* registering | dialling | serving | flushing | releasing | ended
    handles,    \* per resource: untaken, nil, or the provider whose handle it is
    refs,       \* App.resourceRefs
    errs,       \* what registration and the run reported
    once,       \* every sync.Once and what it guards: new | building | ok | failed | closed
    made,       \* per sync.Once that built a client or a pool: what it connects to
    token,      \* when the token a cache holds was signed, or -1
    call,       \* per caller: what it is doing
    dial,       \* the attempts to dial: time waited and the next wait
    signalled,  \* whether the context that serves is cancelled
    expired,    \* whether the budget of the release is spent
    release,    \* what is still to be released, in order
    draining,   \* callers that held a connection when its pool's turn came
    polled,     \* whether the pool whose turn it is was seen idle
    late,       \* pools and clients opened after the release began
    cut,        \* pools closed under a caller that was being waited for
    now,        \* the clock of the tokens
    faults      \* faults so far

registration == <<handles, refs, errs>>
usage == <<once, made, token, call, late, now>>
releasing == <<release, draining, polled, cut, expired>>
vars == <<build, phase, registration, usage, releasing, dial, signalled, faults>>

-----------------------------------------------------------------------------
(* Registration: taking handles                                            *)

DetectMode ==
    CASE build.env.extract -> "extract"
      [] ~build.env.extract /\ (build.env.socket \/ build.env.ipc) -> "runtime"
      [] OTHER -> IF build.env.lambda THEN "serverless" ELSE "runtime"

Detect(p) == build.platform = p

DetectedProvider ==
    IF Len(build.linked) = 1 THEN build.linked[1]
    ELSE LET first == SelectInSeq(build.linked, Detect)
         IN  IF first = 0 THEN None ELSE build.linked[first]

FallbackProvider(excluding) ==
    LET first == SelectInSeq(build.linked, LAMBDA p : p # excluding)
    IN  IF first = 0 THEN None ELSE build.linked[first]

ProviderFor == IF build.explicit THEN "fake" ELSE DetectedProvider

\* The AWS provider builds what the resource packages linked register.
AwsBuilds(kind) == kind \in build.kinds

\* A development session serves a queue and a topic itself.
LocalKinds == {"queue", "topic"}
LocalBackend(kind) == kind \in build.backends
Delegate(kind) == IF FallbackProvider("local") = "aws" /\ AwsBuilds(kind) THEN "aws" ELSE None
LocalBuilds(kind) ==
    IF kind \in LocalKinds THEN IF LocalBackend(kind) THEN "local" ELSE None
    ELSE Delegate(kind)

\* Whose handle a provider answers with, and None where it answers an error.
BuiltBy(p, kind) ==
    CASE p = "fake"  -> "fake"
      [] p = "aws"   -> IF AwsBuilds(kind) THEN "aws" ELSE None
      [] p = "local" -> LocalBuilds(kind)

Untaken(r) == handles[r] = "untaken"

RecordResourceRef(r) == refs' = refs \cup {r}
ResourceError(r) == errs' = errs \cup {<<"handle", r>>}

\* Mutant: a resource nothing can build is no error.
Resolve_Quiet(r) ==
    LET by == IF ProviderFor = None THEN None ELSE BuiltBy(ProviderFor, build.record[r].kind)
    IN  /\ RecordResourceRef(r)
        /\ handles' = [handles EXCEPT ![r] = IF by = None THEN "nil" ELSE by]
        /\ IF ProviderFor = None /\ DetectMode # "extract" THEN ResourceError(r) ELSE UNCHANGED errs

\* The reference is recorded whether or not anything can build the handle, and a
\* missing provider is an error except while the application describes itself.
Resolve(r) ==
    LET by == IF ProviderFor = None THEN None ELSE BuiltBy(ProviderFor, build.record[r].kind)
        expected == ProviderFor = None /\ DetectMode = "extract"
    IN  /\ RecordResourceRef(r)
        /\ handles' = [handles EXCEPT ![r] = IF by = None THEN "nil" ELSE by]
        /\ IF by = None /\ ~expected THEN ResourceError(r) ELSE UNCHANGED errs

TakeHandle ==
    /\ phase = "registering"
    /\ \E i \in DOMAIN build.app :
         /\ Untaken(build.app[i]) /\ \A j \in 1 .. i - 1 : ~Untaken(build.app[j])
         /\ Resolve(build.app[i])
    /\ UNCHANGED <<build, phase, usage, releasing, dial, signalled, faults>>

-----------------------------------------------------------------------------
(* What the deployment recorded                                            *)

Optional(v, fallback) == IF v = Absent THEN fallback ELSE v
Boolean(v, fallback) == IF v = Absent THEN fallback ELSE v # "false"

IsIAM(rec) == rec.auth = "iam"

Required(v) == v # Absent
Number(v) == v # Malformed

\* A Reader keeps the first failure, so one value that is absent or malformed
\* makes the whole of what it read unusable.
Reader(reads) == FALSE \notin reads

ReadRecorded(rec) == Reader({Required(rec.host), Required(rec.user), Number(rec.port)})
Recorded(rec) == Reader({Required(rec.host), Number(rec.port)})

DefaultPort(rec) ==
    CASE rec.kind = "cache" -> "6379"
      [] OTHER -> IF rec.engine = "mysql" THEN "3306" ELSE "5432"

\* A token is a credential: it is not sent in the clear whatever was recorded.
Encrypted(rec) == Boolean(rec.ssl, TRUE) \/ IsIAM(rec)

RegionOf(rec) == Optional(rec.region, Home)

\* Where a password comes from: literal, or a secret holding the plain password,
\* an object with a password, or an object with none.
InSecret(rec) == rec.password \in {"plain", "object", "other"}
PasswordIn(rec) == rec.password # "other"
SecretNeeded(rec) == ~IsIAM(rec) /\ InSecret(rec)

ReadPassword(rec) == IsIAM(rec) \/ (rec.password # Absent /\ PasswordIn(rec))

\* The connections a pool may have open.
ReadPool(rec) ==
    IF rec.poolMax # 0 THEN rec.poolMax ELSE IF build.env.lambda THEN 2 ELSE 10

ReadSettings(rec) == ReadRecorded(rec) /\ ReadPassword(rec)

DriverFor(rec) == rec.engine \in build.drivers

\* A cache needs no password, and needs a user to sign a token for.
Signer(rec) == rec.user # Absent
Authenticate(rec) == IsIAM(rec) => Signer(rec)

PoolHost(rec, read) == IF read THEN Optional(rec.readHost, rec.host) ELSE rec.host

Endpoint(rec, read) ==
    [host |-> PoolHost(rec, read), port |-> Optional(rec.port, DefaultPort(rec)),
     region |-> RegionOf(rec), encrypted |-> Encrypted(rec), iam |-> IsIAM(rec)]

\* What an application building a client of its own is given.
Connection(rec) ==
    [host |-> rec.host, port |-> Optional(rec.port, DefaultPort(rec)),
     region |-> RegionOf(rec), encrypted |-> Encrypted(rec), iam |-> IsIAM(rec)]

\* A client of an AWS service is built for a region and for nothing else.
ConfigFor(region) ==
    [host |-> Absent, port |-> Absent, region |-> Optional(region, Home),
     encrypted |-> TRUE, iam |-> TRUE]

-----------------------------------------------------------------------------
(* What is built once                                                      *)

Session == <<"session", Absent, Absent>>
LocalConnection == <<"local", Absent, Absent>>
SettingsOf(r) == <<"settings", r, Absent>>
PoolOf(r, read) == <<"pool", r, IF read THEN "reader" ELSE "writer">>
CacheOf(r) == <<"cache", r, Absent>>

\* Mutant: one client serves every region.
KeyFor_AnyRegion(rec) == <<"client", rec.kind, Absent>>

KeyFor(rec) == <<"client", rec.kind, rec.region>>

KeyOf(u) ==
    LET rec == build.record[u.r] IN
    CASE rec.kind = "sqlDatabase" -> PoolOf(u.r, u.read)
      [] rec.kind = "cache" -> CacheOf(u.r)
      [] OTHER -> IF handles[u.r] = "local" THEN LocalConnection ELSE KeyFor(rec)

Resources(b) == ToSet(b.app)
Keys(b) ==
    {Session, LocalConnection}
        \cup {SettingsOf(r) : r \in Resources(b)}
        \cup {PoolOf(r, read) : r \in Resources(b), read \in BOOLEAN}
        \cup {CacheOf(r) : r \in Resources(b)}
        \cup {<<"client", b.record[r].kind, x>> :
                 r \in Resources(b), x \in {Absent} \cup {b.record[q].region : q \in Resources(b)}}

IsPool(k) == k[1] = "pool"

\* database/sql counts a connection as in use from before it is opened.
InUse(k) == {h \in Callers : call[h].at \in {"opening", "using"} /\ KeyOf(call[h].use) = k}

Idle == [at |-> "idle", use |-> None, since |-> 0, signed |-> -1]

\* A fault is a read, a build, a dial or a close that fails, the context of the
\* caller being cancelled included.
Faults(S) == {None} \cup (IF faults < MaxFaults THEN S ELSE {})
CountFault(f) == faults' = IF f = None THEN faults ELSE faults + 1

\* The ambient AWS configuration is loaded once, and a failure is kept.
SessionConfig(f) ==
    IF once[Session] # "new" THEN once[Session] ELSE IF f = "session" THEN "failed" ELSE "ok"

SessionFault(needed) == IF needed /\ once[Session] = "new" THEN {"session"} ELSE {}

-----------------------------------------------------------------------------
(* Using a resource                                                        *)

Give(h) == [call EXCEPT ![h] = Idle]

Begin(h) ==
    /\ call[h].at = "idle"
    /\ \E u \in build.uses[h] :
         /\ handles[u.r] \in {"aws", "local"}
         /\ call' = [call EXCEPT ![h].use = u,
                       ![h].at = IF build.record[u.r].kind = "sqlDatabase" THEN "settings" ELSE "enter"]
    /\ UNCHANGED <<build, phase, registration, once, made, token, late, now, releasing, dial,
                   signalled, faults>>

\* Read once, on the first use of the database; a failure is kept as well.
ConnectionSettings(h) ==
    /\ call[h].at = "settings"
    /\ LET r == call[h].use.r
           rec == build.record[r]
           k == SettingsOf(r)
       IN  \/ /\ once[k] = "new"
              /\ \E f \in Faults({"read"} \cup SessionFault(SecretNeeded(rec))) :
                   LET session == IF SecretNeeded(rec) /\ ReadRecorded(rec)
                                  THEN SessionConfig(f) ELSE once[Session]
                       ok == f = None /\ ReadSettings(rec) /\ (SecretNeeded(rec) => session = "ok")
                   IN  /\ once' = [once EXCEPT ![Session] = session,
                                               ![k] = IF ok THEN "ok" ELSE "failed"]
                       /\ call' = IF ok THEN [call EXCEPT ![h].at = "enter"] ELSE Give(h)
                       /\ CountFault(f)
           \/ /\ once[k] = "ok" /\ call' = [call EXCEPT ![h].at = "enter"]
              /\ UNCHANGED <<once, faults>>
           \/ /\ once[k] = "failed" /\ call' = Give(h)
              /\ UNCHANGED <<once, faults>>
    /\ UNCHANGED <<build, phase, registration, made, token, late, now, releasing, dial, signalled>>

\* sync.Once.Do: the first caller builds, the others wait for it, and everyone
\* after gets what it built or the error it failed with.
Enter(h) ==
    /\ call[h].at = "enter"
    /\ LET k == KeyOf(call[h].use) IN
       /\ once[k] # "building"
       /\ once' = [once EXCEPT ![k] = IF @ = "new" THEN "building" ELSE @]
       /\ call' = CASE once[k] = "new"    -> [call EXCEPT ![h].at = "building"]
                    [] once[k] = "failed" -> Give(h)
                    [] OTHER              -> [call EXCEPT ![h].at = "connect"]
    /\ UNCHANGED <<build, phase, registration, made, token, late, now, releasing, dial, signalled,
                   faults>>

\* The end of a build: of a pool (build, openWith), of a cache's client
\* (connect, options), of a service client (Clients.Get) or of the connection
\* a development session shares.
Opens(h, k, what, f) ==
    /\ once' = [once EXCEPT ![k] = "ok", ![Session] = IF what.session THEN SessionConfig(f) ELSE @]
    /\ made' = [made EXCEPT ![k] = what.endpoint]
    /\ late' = IF phase = "releasing" THEN late \cup {k} ELSE late
    /\ call' = [call EXCEPT ![h].at = "connect"]

\* What a build needs and what it connects to.
BuildPool(rec, read) ==
    [ok |-> DriverFor(rec), session |-> FALSE, endpoint |-> Endpoint(rec, read)]
BuildCache(rec) ==
    [ok |-> Recorded(rec) /\ Authenticate(rec), session |-> SecretNeeded(rec),
     endpoint |-> Endpoint(rec, FALSE)]
BuildClient(rec) == [ok |-> TRUE, session |-> TRUE, endpoint |-> ConfigFor(KeyFor(rec)[3])]
BuildLocal == [ok |-> TRUE, session |-> FALSE, endpoint |-> ConfigFor(Absent)]

What(u) ==
    LET rec == build.record[u.r] IN
    CASE rec.kind = "sqlDatabase" -> BuildPool(rec, u.read)
      [] rec.kind = "cache" -> BuildCache(rec)
      [] OTHER -> IF handles[u.r] = "aws" THEN BuildClient(rec) ELSE BuildLocal

Build(h) ==
    /\ call[h].at = "building"
    /\ LET k == KeyOf(call[h].use)
           what == What(call[h].use)
       IN  \E f \in Faults({"build"} \cup SessionFault(what.session)) :
             /\ IF f = None /\ what.ok /\ (what.session => SessionConfig(f) = "ok")
                THEN Opens(h, k, what, f)
                ELSE /\ once' = [once EXCEPT ![k] = "failed",
                           ![Session] = IF what.session /\ what.ok /\ f # "build"
                                        THEN SessionConfig(f) ELSE @]
                     /\ call' = Give(h)
                     /\ UNCHANGED <<made, late>>
             /\ CountFault(f)
    /\ UNCHANGED <<build, phase, registration, token, now, releasing, dial, signalled>>

\* Mutant: a token is used until the moment it expires.
Credentials_NoMargin(r) ==
    IF token[r] # -1 /\ now < token[r] + TokenLifetime THEN token[r] ELSE now

\* A cache holds its token until it is nearly spent.
Credentials(r) ==
    IF token[r] # -1 /\ now < token[r] + TokenLifetime - TokenMargin THEN token[r] ELSE now

\* A connection is opened with the recorded password, with a token signed for it
\* (a pool) or with the one the cache holds.
Connect(h) ==
    /\ call[h].at = "connect"
    /\ LET u == call[h].use
           rec == build.record[u.r]
           k == KeyOf(u)
           signs == IsIAM(rec) /\ (IsPool(k) \/ Credentials(u.r) = now)
       IN  \/ /\ k[1] \in {"client", "local"}
              /\ call' = [call EXCEPT ![h].at = "using"]
              /\ UNCHANGED <<once, token, faults>>
           \/ /\ k[1] \in {"pool", "cache"} /\ once[k] = "closed"
              /\ call' = Give(h)
              /\ UNCHANGED <<once, token, faults>>
           \/ /\ k[1] \in {"pool", "cache"} /\ once[k] = "ok"
              /\ IsPool(k) => Cardinality(InUse(k)) < ReadPool(rec)
              /\ \E f \in Faults(SessionFault(signs)) :
                   LET session == IF signs THEN SessionConfig(f) ELSE once[Session]
                       signed == IF ~IsIAM(rec) THEN -1 ELSE IF IsPool(k) THEN now ELSE Credentials(u.r)
                   IN  /\ once' = [once EXCEPT ![Session] = session]
                       /\ IF signs /\ session # "ok"
                          THEN call' = Give(h) /\ UNCHANGED token
                          ELSE /\ call' = [call EXCEPT ![h].at = "opening", ![h].signed = signed,
                                            ![h].since = IF IsIAM(rec) THEN now ELSE 0]
                               /\ token' = IF k[1] = "cache" /\ IsIAM(rec)
                                           THEN [token EXCEPT ![u.r] = signed] ELSE token
                       /\ CountFault(f)
    /\ UNCHANGED <<build, phase, registration, made, late, now, releasing, dial, signalled>>

\* The server takes the connection, or opening it fails; a pool closed meanwhile
\* gives none.
Connected(h) ==
    /\ call[h].at = "opening"
    /\ \E f \in Faults({"open"}) :
         /\ IF f = None /\ once[KeyOf(call[h].use)] = "ok"
            THEN /\ call' = [call EXCEPT ![h].at = "using", ![h].signed = -1, ![h].since = 0]
                 /\ UNCHANGED draining
            ELSE call' = Give(h) /\ draining' = draining \ {h}
         /\ CountFault(f)
    /\ UNCHANGED <<build, phase, registration, once, made, token, late, now, release, polled, cut,
                   expired, dial, signalled>>

\* Close on a connection gives it back to its pool.
GiveBack(h) ==
    /\ call[h].at = "using"
    /\ call' = Give(h)
    /\ draining' = draining \ {h}
    /\ UNCHANGED <<build, phase, registration, once, made, token, late, now, release, polled, cut,
                   expired, dial, signalled, faults>>

\* Time passes for tokens; no connection takes longer than SetupTime to open.
Tick ==
    /\ phase \in {"serving", "flushing", "releasing"}
    /\ now < MaxTime
    /\ \E r \in DOMAIN token : token[r] # -1
    /\ \A h \in Callers :
         call[h].at = "opening" /\ call[h].signed # -1 => now - call[h].since < SetupTime
    /\ now' = now + 1
    /\ UNCHANGED <<build, phase, registration, once, made, token, call, late, releasing, dial,
                   signalled, faults>>

-----------------------------------------------------------------------------
(* The life of the process                                                 *)

\* The address the runtime published: a socket, or a port where it says so.
Target == build.env.socket \/ build.env.fallback

RunContext ==
    /\ phase = "registering" /\ \A r \in Resources(build) : ~Untaken(r)
    /\ \/ /\ errs # {}
          /\ phase' = "ended" /\ UNCHANGED errs
       \/ /\ errs = {} /\ ~build.handlers
          /\ phase' = "ended" /\ errs' = {<<"empty">>}
       \/ /\ errs = {} /\ build.handlers /\ DetectMode = "extract"
          /\ phase' = "ended" /\ UNCHANGED errs
       \/ /\ errs = {} /\ build.handlers /\ DetectMode = "serverless"
          /\ phase' = "serving" /\ UNCHANGED errs
       \/ /\ errs = {} /\ build.handlers /\ DetectMode = "runtime"
          /\ phase' = IF Target THEN "dialling" ELSE "flushing"
          /\ errs' = IF Target THEN errs ELSE {<<"dial">>}
    /\ UNCHANGED <<build, handles, refs, usage, releasing, dial, signalled, faults>>

Signal ==
    /\ phase \in {"dialling", "serving"} /\ DetectMode = "runtime" /\ ~signalled
    /\ signalled' = TRUE
    /\ UNCHANGED <<build, phase, registration, usage, releasing, dial, faults>>

FirstDial == [waited |-> 0, backoff |-> FirstBackoff]
NextBackoff(backoff) == IF backoff < BackoffLimit THEN 2 * backoff ELSE backoff

\* Dialling is retried, as a process commonly starts before the runtime listens,
\* until the context is cancelled or the time to retry for is over.
OpenStream ==
    /\ phase = "dialling"
    /\ \/ /\ ~signalled
          /\ phase' = "serving" /\ dial' = FirstDial /\ UNCHANGED errs
       \/ /\ signalled \/ dial.waited > RetryFor
          /\ phase' = "flushing" /\ dial' = FirstDial /\ errs' = {<<"dial">>}
       \/ /\ ~signalled /\ dial.waited <= RetryFor
          /\ dial' = [waited |-> dial.waited + dial.backoff, backoff |-> NextBackoff(dial.backoff)]
          /\ UNCHANGED <<phase, errs>>
    /\ UNCHANGED <<build, handles, refs, usage, releasing, signalled, faults>>

\* Serve returns: the runtime drained, the stream ended or the context was
\* cancelled.  A serverless process is not shut down but torn down.
ServeEnds ==
    /\ phase = "serving"
    /\ phase' = IF DetectMode = "serverless" THEN "ended" ELSE "flushing"
    /\ \E failed \in BOOLEAN : errs' = IF failed THEN errs \cup {<<"serve">>} ELSE errs
    /\ UNCHANGED <<build, handles, refs, usage, releasing, dial, signalled, faults>>

\* What a linked package registered to be released.
TakenOf(kind) ==
    LET IsOne(r) == build.record[r].kind = kind /\ handles[r] = "aws"
    IN  AtPlaces(build.app, {i \in DOMAIN build.app : IsOne(build.app[i])})
ReleaseCaches == [i \in DOMAIN TakenOf("cache") |-> CacheOf(TakenOf("cache")[i])]
ReleaseDatabases ==
    LET dbs == TakenOf("sqlDatabase")
    IN  FlattenSeq([i \in DOMAIN dbs |-> <<PoolOf(dbs[i], FALSE), PoolOf(dbs[i], TRUE)>>])
AwsHoldings == ReleaseCaches \o ReleaseDatabases
LocalHoldings == IF build.backends = {} THEN <<>> ELSE <<LocalConnection>>
Holdings(p) == IF p = "aws" THEN AwsHoldings ELSE LocalHoldings

Release == FlattenSeq([i \in DOMAIN build.linked |-> Holdings(build.linked[i])])

Turn(order) ==
    /\ release' = order
    /\ draining' = IF order = <<>> THEN {} ELSE InUse(Head(order))
    /\ polled' = FALSE

Flush(f) == errs' = IF f = None THEN errs ELSE errs \cup {<<f>>}

\* The telemetry held is handed over, and the release begins whatever came of it.
FlushTelemetry ==
    /\ phase = "flushing"
    /\ phase' = "releasing"
    /\ \E f \in Faults({"flush"}) : Flush(f) /\ CountFault(f)
    /\ Turn(Release)
    /\ UNCHANGED <<build, handles, refs, usage, cut, expired, dial, signalled>>

\* Mutant: the release runs under the signal's context.
ReleaseDone_Cancelled == expired \/ signalled

\* The context of the release is its own: the signal does not cancel it.
ReleaseDone == expired

ReleaseExpires ==
    /\ phase = "releasing" /\ ~expired
    /\ expired' = TRUE
    /\ UNCHANGED <<build, phase, registration, usage, release, draining, polled, cut, dial,
                   signalled, faults>>

\* Nothing to give back: never opened, still being opened, or failed to open.
ReleaseSkips(k) ==
    /\ once[k] # "ok"
    /\ Turn(Tail(release))
    /\ UNCHANGED <<once, cut, errs, faults>>

\* Mutant: the first error ends the release.
AfterError_Stops(f) == IF f = None THEN Tail(release) ELSE <<>>

\* A holder that fails to close is reported without stopping the rest.
AfterError(f) == Tail(release)

Closes(k) ==
    \E f \in Faults({"close"}) :
      /\ once' = [once EXCEPT ![k] = "closed"]
      /\ errs' = IF f = None THEN errs ELSE errs \cup {k}
      /\ cut' = IF draining = {} \/ ~IsPool(k) THEN cut ELSE cut \cup {k}
      /\ Turn(AfterError(f))
      /\ CountFault(f)

\* A cache and the connection of a session are closed at once.
ReleaseClient(k) == once[k] = "ok" /\ ~IsPool(k) /\ Closes(k)

\* A pool is polled until none of its connections is in use, then closed.
PollPool(k) ==
    /\ once[k] = "ok" /\ IsPool(k) /\ ~polled /\ InUse(k) = {}
    /\ polled' = TRUE
    /\ UNCHANGED <<once, errs, cut, release, draining, faults>>

ClosePool(k) == once[k] = "ok" /\ IsPool(k) /\ polled /\ Closes(k)

\* Mutant: a pool that is in use is waited for without a limit.
CutPool_Never(k) == FALSE /\ UNCHANGED <<once, errs, cut, release, draining, polled, faults>>

\* The budget is spent: the pool is closed with queries running, and that is said.
CutPool(k) ==
    /\ once[k] = "ok" /\ IsPool(k) /\ ~polled /\ InUse(k) # {} /\ ReleaseDone
    /\ once' = [once EXCEPT ![k] = "closed"]
    /\ errs' = errs \cup {k}
    /\ cut' = IF draining = {} THEN cut ELSE cut \cup {k}
    /\ Turn(Tail(release))
    /\ UNCHANGED faults

ReleaseStep ==
    /\ phase = "releasing"
    /\ \/ /\ release # <<>>
          /\ LET k == Head(release) IN
             \/ ReleaseSkips(k)
             \/ ReleaseClient(k)
             \/ PollPool(k)
             \/ ClosePool(k)
             \/ CutPool(k)
          /\ UNCHANGED phase
       \/ /\ release = <<>>
          /\ phase' = "ended"
          /\ UNCHANGED <<once, errs, cut, release, draining, polled, faults>>
    /\ UNCHANGED <<build, handles, refs, made, token, call, late, now, expired, dial, signalled>>

-----------------------------------------------------------------------------
Init ==
    /\ build \in Builds
    /\ phase = "registering"
    /\ handles = [r \in Resources(build) |-> "untaken"]
    /\ refs = {} /\ errs = {}
    /\ once = [k \in Keys(build) |-> "new"]
    /\ made = [k \in Keys(build) |-> None]
    /\ token = [r \in Resources(build) |-> -1]
    /\ call = [h \in Callers |-> Idle]
    /\ dial = FirstDial
    /\ signalled = FALSE /\ expired = FALSE
    /\ release = <<>> /\ draining = {} /\ polled = FALSE
    /\ late = {} /\ cut = {}
    /\ now = 0 /\ faults = 0

Process == RunContext \/ OpenStream \/ FlushTelemetry \/ ReleaseStep

\* Goroutines run from the first event served to the end of the process.
Running == phase \in {"serving", "flushing", "releasing"} /\ <<"dial">> \notin errs

Use(h) ==
    /\ Running
    /\ \/ Begin(h) \/ ConnectionSettings(h) \/ Enter(h) \/ Build(h)
       \/ Connect(h) \/ Connected(h) \/ GiveBack(h)

Next ==
    \/ TakeHandle \/ Signal \/ ServeEnds \/ ReleaseExpires \/ Tick
    \/ RunContext \/ OpenStream \/ FlushTelemetry \/ ReleaseStep
    \/ \E h \in Callers : Use(h)

\* The process itself runs on, and timers fire; a handler may hold a connection
\* for ever, and the runtime may never drain.
Spec == Init /\ [][Next]_vars /\ WF_vars(Process) /\ WF_vars(ReleaseExpires)

-----------------------------------------------------------------------------
(* Properties                                                              *)

(* "The alternative is a nil client failing later with nothing to say      *)
(* about why" (service/registry.go, builderFor): a process that serves has *)
(* a handle for every resource the application took, whichever providers   *)
(* and packages the build linked.                                          *)
NoNilHandleServed ==
    phase \in {"dialling", "serving"} => \A r \in Resources(build) : handles[r] \in {"aws", "local", "fake"}

(* A caller reaches its resource where the deployment recorded it: through *)
(* a client of that region, though clients are shared (clients.go), at the *)
(* replica where there is one (sqldatabase.go, Reader), never in the clear *)
(* with a token (sqlsettings.go, recorded.go), and where an application    *)
(* building its own client is told to (redis/connection.go).               *)
ReachedAsRecorded ==
    \A h \in Callers : call[h].at \in {"opening", "using"} =>
        LET u == call[h].use
            rec == build.record[u.r]
            m == made[KeyOf(u)]
        IN  handles[u.r] = "aws" =>
              /\ m.region = IF rec.region = Absent THEN Home ELSE rec.region
              /\ m.iam => m.encrypted
              /\ rec.kind = "sqlDatabase" =>
                    /\ ~u.read \/ rec.readHost = Absent => m.host = rec.host
                    /\ u.read /\ rec.readHost # Absent => m.host = rec.readHost
              /\ rec.kind = "cache" => m = Connection(rec)

(* "A connection is never opened with one that expires while it is being   *)
(* made" (iam.go): a token is still accepted for as long as the connection *)
(* it was handed to takes to open, however long ago it was signed.         *)
TokensFresh ==
    \A h \in Callers :
        call[h].at = "opening" /\ call[h].signed # -1 => now - call[h].signed < TokenLifetime

(* When a process ends, everything the providers held is closed: an error  *)
(* in closing one pool does not leave the others open (registry.go,        *)
(* Release).  Only what was opened once the release had begun is excepted. *)
ReleasedIsClosed ==
    phase = "ended" /\ DetectMode = "runtime" =>
        \A k \in DOMAIN once : IsPool(k) \/ k[1] \in {"cache", "local"} => once[k] # "ok" \/ k \in late

(* "The wait is what makes a shutdown drain rather than cut"               *)
(* (sqldatabase.go, closePool): a connection in use when its pool's turn   *)
(* comes is waited for until the release's own budget is spent, whatever   *)
(* asked for the shutdown, and a pool closed under it is reported.         *)
CutOnlyWhenSpent == cut # {} => expired /\ cut \subseteq errs

(* A shutdown ends though a handler never gives its connection back, and   *)
(* dialling ends though the runtime never listens (run.go, releaseTimeout; *)
(* grpc.go, openStream).                                                   *)
ShutdownEnds ==
    phase \in {"dialling", "flushing", "releasing"} ~> phase \in {"serving", "ended"}
=============================================================================
