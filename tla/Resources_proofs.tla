-------------------------- MODULE Resources_proofs --------------------------
(***************************************************************************)
(* Proofs about resources and the life of the process around them, for     *)
(* every set of callers and builds and every lifetime and margin: no       *)
(* process serves with a nil handle, callers reach what the deployment     *)
(* recorded, tokens outlive the connections opened with them, a pool is    *)
(* cut under a caller only once the budget of the release is spent, and    *)
(* what the providers held is closed when the process ends.                *)
(***************************************************************************)
EXTENDS Resources, FiniteSetTheorems, SequenceTheorems, TLAPS, WellFoundedInduction

Stages == {"idle", "settings", "enter", "building", "connect", "opening", "using"}
OnceStates == {"new", "building", "ok", "failed", "closed"}
Uses == UNION {UNION {b.uses[h] : h \in Callers} : b \in Builds}

IsCall(c) ==
    /\ c = [at |-> c.at, use |-> c.use, since |-> c.since, signed |-> c.signed]
    /\ c.at \in Stages /\ c.since \in Int /\ c.signed \in Int

Types ==
    /\ build \in Builds
    /\ handles \in [Resources(build) -> {"untaken", "nil", "aws", "local", "fake"}]
    /\ once \in [Keys(build) -> OnceStates]
    /\ DOMAIN made = Keys(build)
    /\ token \in [Resources(build) -> Int]
    /\ DOMAIN call = Callers /\ \A h \in Callers : IsCall(call[h])
    /\ now \in Nat

(* Nothing is used before registration is over, so handles are only taken  *)
(* while nobody depends on them.                                           *)
UsedLater ==
    phase = "registering" =>
        /\ \A h \in Callers : call[h].at = "idle"
        /\ \A k \in Keys(build) : once[k] = "new"

(* A call is of a resource of the build that has a handle.                 *)
UsesTaken ==
    \A h \in Callers : call[h].at # "idle" =>
        call[h].use \in build.uses[h] /\ handles[call[h].use.r] \in {"aws", "local"}

UsageInv == Types /\ UsedLater /\ UsesTaken

(* A missing handle is an error unless the application describes itself.   *)
MissingReported ==
    /\ phase = "registering" /\ errs = {} /\ DetectMode # "extract" =>
         \A r \in Resources(build) : handles[r] # "nil"
    /\ NoNilHandleServed

(* A sync.Once is left in the state its caller is past: one caller builds, *)
(* and what was built or closed is what the key stands for.                *)
BuiltOnce ==
    \A g, h \in Callers :
        call[g].at = "building" /\ call[h].at = "building" /\ KeyOf(call[g].use) = KeyOf(call[h].use)
            => g = h
PastOnce ==
    \A h \in Callers :
        /\ call[h].at = "building" => once[KeyOf(call[h].use)] = "building"
        /\ call[h].at \in {"connect", "opening", "using"} =>
               once[KeyOf(call[h].use)] \in {"ok", "closed"}
MadeForUse ==
    phase # "registering" => \A u \in Uses :
        /\ u.r \in Resources(build) /\ u.read \in BOOLEAN
        /\ handles[u.r] \in {"aws", "local"}
        /\ once[KeyOf(u)] \in {"ok", "closed"}
        => made[KeyOf(u)] = What(u).endpoint

OnceInv == BuiltOnce /\ PastOnce /\ MadeForUse

(* A token held by a cache was signed before now, and one handed to a      *)
(* connection was not nearly spent when opening it began.                  *)
TokenInv ==
    /\ \A r \in Resources(build) : token[r] = -1 \/ token[r] \in 0 .. now
    /\ \A h \in Callers : call[h].at = "opening" /\ call[h].signed # -1 =>
         /\ call[h].signed \in 0 .. call[h].since /\ call[h].since \in 0 .. now
         /\ now - call[h].since <= SetupTime
         /\ call[h].signed = call[h].since
              \/ call[h].since - call[h].signed < TokenLifetime - TokenMargin

(* Only a caller that holds a connection of the pool whose turn it is is   *)
(* waited for, none is once the pool was seen idle, and nothing is cut     *)
(* before the release.                                                     *)
CutInv ==
    /\ phase \notin {"releasing", "ended"} => cut = {}
    /\ phase = "releasing" /\ release # <<>> => draining \subseteq InUse(Head(release))
    /\ polled => draining = {}
    /\ CutOnlyWhenSpent

(* A handle is of a provider the build links, and the local provider only  *)
(* serves kinds it has a backend for.                                      *)
HandlesLinked ==
    \A r \in Resources(build) :
        /\ handles[r] = "aws" => "aws" \in ToSet(build.linked)
        /\ handles[r] = "local" =>
             /\ "local" \in ToSet(build.linked)
             /\ build.record[r].kind \in LocalKinds \cap build.backends

(* What has to be given back, and what a handle taken makes a provider     *)
(* answerable for.                                                         *)
Holdable(k) == IsPool(k) \/ k[1] \in {"cache", "local"}
Owned ==
    {CacheOf(r) : r \in {q \in Resources(build) : handles[q] = "aws" /\ build.record[q].kind = "cache"}}
    \cup {PoolOf(r, read) :
             r \in {q \in Resources(build) : handles[q] = "aws" /\ build.record[q].kind = "sqlDatabase"},
             read \in BOOLEAN}
    \cup {k \in {LocalConnection} : \E r \in Resources(build) : handles[r] = "local"}

(* What is open is owned, and once the release has begun it still waits    *)
(* for its turn or was opened since.                                       *)
OpenIsOwned == \A k \in Keys(build) : Holdable(k) /\ once[k] = "ok" => k \in Owned
OpenIsReleased ==
    /\ phase = "releasing" =>
         /\ release \in Seq(Keys(build))
         /\ \A k \in Keys(build) : Holdable(k) /\ once[k] = "ok" => k \in ToSet(release) \cup late
    /\ phase = "ended" /\ DetectMode = "runtime" =>
         \A k \in Keys(build) : Holdable(k) /\ once[k] = "ok" => k \in late

HeldInv == HandlesLinked /\ OpenIsOwned /\ OpenIsReleased

-----------------------------------------------------------------------------
(* What the operators of the model answer.                                 *)

LEMMA LeastPosition ==
    ASSUME NEW n \in Nat, NEW S \in SUBSET (1 .. n), S # {}
    PROVE  Min(S) \in S
  <1>1. S # {} /\ S \subseteq Nat
    OBVIOUS
  <1>2. PICK x \in S : \A y \in S : ~ (<<y, x>> \in OpToRel(<, Nat))
    BY <1>1, WFMin, NatLessThanWellFounded, Zenon
  <1>3. \A y \in S : x <= y
    <2>1. \A y \in S : ~ (y < x)
      BY <1>1, <1>2 DEF OpToRel
    <2> QED  BY <1>1, <2>1
  <1> QED  BY <1>3 DEF Min

(* A provider, where one is found, is one of those the build links.        *)
LEMMA ProviderIsLinked ==
    ASSUME build \in Builds
    PROVE  ProviderFor \in {"fake", "aws", "local", None}
  <1>1. build.linked \in Seq({"aws", "local"})
    BY BuildsAssumption
  <1>2. Len(build.linked) \in Nat
    BY <1>1
  <1>3. \A i \in 1 .. Len(build.linked) : build.linked[i] \in {"aws", "local"}
    BY <1>1
  <1> DEFINE I == {i \in 1 .. Len(build.linked) : Detect(build.linked[i])}
  <1>4. SelectInSeq(build.linked, Detect) = IF I # {} THEN Min(I) ELSE 0
    BY Zenon DEF SelectInSeq
  <1>5. I # {} => Min(I) \in I
    <2>1. I \in SUBSET (1 .. Len(build.linked))
      OBVIOUS
    <2> HIDE DEF I
    <2> QED  BY <1>2, <2>1, LeastPosition
  <1>6. SelectInSeq(build.linked, Detect) \in 0 .. Len(build.linked)
    <2>1. I \subseteq 0 .. Len(build.linked) /\ 0 \in 0 .. Len(build.linked)
      BY <1>2
    <2> HIDE DEF I
    <2> QED  BY <1>4, <1>5, <2>1
  <1>7. DetectedProvider \in {"aws", "local", None}
    <2> DEFINE first == SelectInSeq(build.linked, Detect)
    <2>1. DetectedProvider = IF Len(build.linked) = 1 THEN build.linked[1]
                             ELSE IF first = 0 THEN None ELSE build.linked[first]
      BY Zenon DEF DetectedProvider
    <2> HIDE DEF first
    <2>2. first \in 0 .. Len(build.linked)
      BY <1>6 DEF first
    <2>3. first # 0 => first \in 1 .. Len(build.linked)
      BY <1>2, <2>2
    <2>4. Len(build.linked) = 1 => build.linked[1] \in {"aws", "local"}
      BY <1>3
    <2> QED  BY <1>3, <2>1, <2>3, <2>4
  <1> QED  BY <1>7 DEF ProviderFor

LEMMA HandleIsKnown ==
    ASSUME NEW p \in {"fake", "aws", "local"}, NEW kind
    PROVE  BuiltBy(p, kind) \in {"fake", "aws", "local", None}
  BY DEF BuiltBy, LocalBuilds, Delegate, None

(* The key of a use is one of the build, and neither the session nor       *)
(* settings of a database.                                                 *)
LEMMA KeyOfUse ==
    ASSUME NEW u, u.r \in Resources(build), u.read \in BOOLEAN
    PROVE  /\ KeyOf(u) \in Keys(build)
           /\ KeyOf(u) # Session
           /\ \A r : KeyOf(u) # SettingsOf(r)
  <1> DEFINE rec == build.record[u.r]
  <1>1. CASE rec.kind = "sqlDatabase"
    <2>1. KeyOf(u) = PoolOf(u.r, u.read)
      BY <1>1 DEF KeyOf
    <2> QED  BY <2>1 DEF PoolOf, Keys, Session, SettingsOf
  <1>2. CASE rec.kind = "cache"
    <2>1. KeyOf(u) = CacheOf(u.r)
      BY <1>2 DEF KeyOf
    <2> QED  BY <2>1 DEF CacheOf, Keys, Session, SettingsOf
  <1>3. CASE rec.kind \notin {"sqlDatabase", "cache"}
    <2>1. KeyOf(u) = IF handles[u.r] = "local" THEN LocalConnection ELSE KeyFor(rec)
      BY <1>3 DEF KeyOf
    <2>2. LocalConnection \in Keys(build)
      BY DEF Keys
    <2>3. KeyFor(rec) \in Keys(build)
      BY DEF KeyFor, Keys
    <2> QED  BY <2>1, <2>2, <2>3 DEF KeyFor, LocalConnection, Session, SettingsOf
  <1> QED  BY <1>1, <1>2, <1>3

(* What a use is served by follows from the kind of its resource.          *)
ByKind(u) ==
    LET rec == build.record[u.r] IN
    /\ rec.kind = "sqlDatabase" => KeyOf(u) = PoolOf(u.r, u.read) /\ What(u) = BuildPool(rec, u.read)
    /\ rec.kind = "cache" => KeyOf(u) = CacheOf(u.r) /\ What(u) = BuildCache(rec)
    /\ rec.kind \notin {"sqlDatabase", "cache"} =>
         /\ KeyOf(u) = IF handles[u.r] = "local" THEN LocalConnection ELSE KeyFor(rec)
         /\ What(u) = IF handles[u.r] = "aws" THEN BuildClient(rec) ELSE BuildLocal

LEMMA KeyAndBuild == ASSUME NEW u PROVE ByKind(u)
  BY DEF ByKind, KeyOf, What

LEMMA KindOfKey ==
    ASSUME NEW u
    PROVE  /\ KeyOf(u)[1] = "pool" <=> build.record[u.r].kind = "sqlDatabase"
           /\ KeyOf(u)[1] = "cache" <=> build.record[u.r].kind = "cache"
  BY KeyAndBuild DEF ByKind, PoolOf, CacheOf, LocalConnection, KeyFor

(* Uses that share a key are served from the same place.                   *)
LEMMA SharedKeySharedEndpoint ==
    ASSUME NEW u, u.read \in BOOLEAN, handles[u.r] \in {"aws", "local"},
           NEW v, v.read \in BOOLEAN, handles[v.r] \in {"aws", "local"},
           KeyOf(u) = KeyOf(v)
    PROVE  What(u).endpoint = What(v).endpoint
  <1> DEFINE ru == build.record[u.r]
             rv == build.record[v.r]
  <1>u. ByKind(u)
    BY KeyAndBuild
  <1>v. ByKind(v)
    BY KeyAndBuild
  <1>k. /\ ru.kind = "sqlDatabase" <=> rv.kind = "sqlDatabase"
        /\ ru.kind = "cache" <=> rv.kind = "cache"
    BY KindOfKey
  <1>1. CASE ru.kind = "sqlDatabase"
    <2>1. KeyOf(u) = PoolOf(u.r, u.read) /\ What(u) = BuildPool(ru, u.read)
      BY <1>u, <1>1 DEF ByKind
    <2>2. rv.kind = "sqlDatabase"
      BY <1>1, <1>k
    <2>3. KeyOf(v) = PoolOf(v.r, v.read) /\ What(v) = BuildPool(rv, v.read)
      BY <1>v, <2>2 DEF ByKind
    <2>4. u.r = v.r /\ u.read = v.read
      <3>1. PoolOf(u.r, u.read)[2] = u.r /\ PoolOf(v.r, v.read)[2] = v.r
        BY DEF PoolOf
      <3>2. /\ PoolOf(u.r, u.read)[3] = IF u.read THEN "reader" ELSE "writer"
            /\ PoolOf(v.r, v.read)[3] = IF v.read THEN "reader" ELSE "writer"
        BY DEF PoolOf
      <3>3. u.r = v.r
        BY <2>1, <2>3, <3>1, Zenon
      <3> QED  BY <2>1, <2>3, <3>2, <3>3
    <2> QED  BY <2>1, <2>3, <2>4
  <1>2. CASE ru.kind = "cache"
    <2>1. KeyOf(u) = CacheOf(u.r) /\ What(u) = BuildCache(ru)
      BY <1>u, <1>2 DEF ByKind
    <2>2. rv.kind = "cache"
      BY <1>2, <1>k
    <2>3. KeyOf(v) = CacheOf(v.r) /\ What(v) = BuildCache(rv)
      BY <1>v, <2>2 DEF ByKind
    <2>4. u.r = v.r
      <3>1. CacheOf(u.r)[2] = u.r /\ CacheOf(v.r)[2] = v.r
        BY DEF CacheOf
      <3> QED  BY <2>1, <2>3, <3>1, Zenon
    <2> QED  BY <2>1, <2>3, <2>4
  <1>3. CASE ru.kind \notin {"sqlDatabase", "cache"}
    <2>1. /\ KeyOf(u) = IF handles[u.r] = "local" THEN LocalConnection ELSE KeyFor(ru)
          /\ What(u) = IF handles[u.r] = "aws" THEN BuildClient(ru) ELSE BuildLocal
      BY <1>u, <1>3 DEF ByKind
    <2>2. rv.kind \notin {"sqlDatabase", "cache"}
      BY <1>3, <1>k
    <2>3. /\ KeyOf(v) = IF handles[v.r] = "local" THEN LocalConnection ELSE KeyFor(rv)
          /\ What(v) = IF handles[v.r] = "aws" THEN BuildClient(rv) ELSE BuildLocal
      BY <1>v, <2>2 DEF ByKind
    <2>4. KeyFor(ru) # LocalConnection /\ KeyFor(rv) # LocalConnection
      BY DEF KeyFor, LocalConnection
    <2>5. CASE handles[u.r] = "local"
      BY <2>1, <2>3, <2>4, <2>5
    <2>6. CASE handles[u.r] = "aws"
      <3>1. handles[v.r] = "aws" /\ KeyFor(ru) = KeyFor(rv)
        BY <2>1, <2>3, <2>4, <2>6
      <3>2. What(u).endpoint = ConfigFor(KeyFor(ru)[3]) /\ What(v).endpoint = ConfigFor(KeyFor(rv)[3])
        BY <2>1, <2>3, <2>6, <3>1 DEF BuildClient
      <3> QED  BY <3>1, <3>2
    <2> QED  BY <2>5, <2>6
  <1> QED  BY <1>1, <1>2, <1>3

-----------------------------------------------------------------------------
(* What a step of a caller changes of the callers: its own call only.      *)

Frame == UNCHANGED <<build, phase, handles, refs, errs, now, release, polled, cut, expired>>

OwnCall(h) ==
    /\ DOMAIN call' = Callers
    /\ IsCall(call'[h])
    /\ \A g \in Callers : g # h => call'[g] = call[g]

(* The call moves on and is otherwise what it was.                         *)
MovesTo(h, at) == call'[h] = [at |-> at, use |-> call[h].use, since |-> call[h].since,
                              signed |-> call[h].signed]

Stays == UNCHANGED <<once, made, token, draining>>

LEMMA SessionStates ==
    ASSUME Types
    PROVE  Session \in Keys(build) /\ \A f : SessionConfig(f) \in OnceStates
  <1>1. Session \in Keys(build)
    BY DEF Keys
  <1> QED  BY <1>1 DEF Types, SessionConfig, OnceStates

LEMMA IdleIsCall == IsCall(Idle)
  BY DEF IsCall, Idle, Stages

LEMMA CallGiven ==
    ASSUME Types, NEW h \in Callers, call' = Give(h)
    PROVE  OwnCall(h) /\ call'[h] = Idle
  BY IdleIsCall DEF Types, OwnCall, Give

LEMMA CallMoved ==
    ASSUME Types, NEW h \in Callers, NEW at \in Stages, call' = [call EXCEPT ![h].at = at]
    PROVE  OwnCall(h) /\ MovesTo(h, at)
  <1>1. IsCall(call[h]) /\ DOMAIN call = Callers
    BY DEF Types
  <1>2. MovesTo(h, at)
    BY <1>1 DEF IsCall, MovesTo
  <1>3. IsCall(call'[h])
    BY <1>1, <1>2 DEF IsCall, MovesTo
  <1> QED  BY <1>1, <1>2, <1>3 DEF OwnCall

LEMMA BeginSteps ==
    ASSUME Types, NEW h \in Callers, Begin(h)
    PROVE  /\ Frame /\ Stays /\ OwnCall(h)
           /\ call[h].at = "idle" /\ call'[h].at \in {"settings", "enter"}
           /\ call'[h].use \in build.uses[h]
           /\ handles[call'[h].use.r] \in {"aws", "local"}
  <1>1. Frame /\ Stays /\ call[h].at = "idle"
    BY DEF Begin, Frame, Stays, registration, releasing
  <1>2. IsCall(call[h]) /\ DOMAIN call = Callers
    BY DEF Types
  <1>3. PICK u \in build.uses[h] :
          /\ handles[u.r] \in {"aws", "local"}
          /\ call' = [call EXCEPT ![h].use = u,
                       ![h].at = IF build.record[u.r].kind = "sqlDatabase" THEN "settings" ELSE "enter"]
    BY Zenon DEF Begin
  <1> DEFINE at == IF build.record[u.r].kind = "sqlDatabase" THEN "settings" ELSE "enter"
  <1>4. at \in {"settings", "enter"}
    OBVIOUS
  <1> HIDE DEF at
  <1>5. call' = [call EXCEPT ![h].use = u, ![h].at = at]
    BY <1>3, Zenon DEF at
  <1>6. call'[h] = [at |-> at, use |-> u, since |-> call[h].since, signed |-> call[h].signed]
    BY <1>2, <1>5 DEF IsCall
  <1>7. IsCall(call'[h])
    BY <1>2, <1>4, <1>6 DEF IsCall, Stages
  <1>8. OwnCall(h)
    BY <1>2, <1>5, <1>7 DEF OwnCall
  <1> QED  BY <1>1, <1>3, <1>4, <1>6, <1>8

LEMMA SettingsSteps ==
    ASSUME Types, NEW h \in Callers, ConnectionSettings(h)
    PROVE  /\ Frame /\ UNCHANGED <<made, token, draining>> /\ OwnCall(h)
           /\ call[h].at = "settings"
           /\ call'[h] = Idle \/ MovesTo(h, "enter")
           /\ once' \in [Keys(build) -> OnceStates]
           /\ \A k \in Keys(build) : k # Session /\ k # SettingsOf(call[h].use.r) => once'[k] = once[k]
  <1>1. /\ Frame /\ UNCHANGED <<made, token, draining>>
        /\ call[h].at = "settings"
    BY DEF ConnectionSettings, Frame, registration, releasing
  <1> DEFINE r == call[h].use.r
             rec == build.record[r]
             k == SettingsOf(r)
  <1>2. call' = Give(h) \/ call' = [call EXCEPT ![h].at = "enter"]
    BY DEF ConnectionSettings
  <1>3. OwnCall(h) /\ (call'[h] = Idle \/ MovesTo(h, "enter"))
    BY <1>2, CallGiven, CallMoved DEF Stages
  <1>4. \/ UNCHANGED once
        \/ \E s \in OnceStates, v \in OnceStates : once' = [once EXCEPT ![Session] = s, ![k] = v]
    <2>1. CASE once[k] = "new"
      <3>1. PICK f \in Faults({"read"} \cup SessionFault(SecretNeeded(rec))) :
              LET session == IF SecretNeeded(rec) /\ ReadRecorded(rec)
                             THEN SessionConfig(f) ELSE once[Session]
                  ok == f = None /\ ReadSettings(rec) /\ (SecretNeeded(rec) => session = "ok")
              IN  once' = [once EXCEPT ![Session] = session, ![k] = IF ok THEN "ok" ELSE "failed"]
        BY <2>1 DEF ConnectionSettings
      <3> DEFINE s == IF SecretNeeded(rec) /\ ReadRecorded(rec)
                      THEN SessionConfig(f) ELSE once[Session]
                 v == IF f = None /\ ReadSettings(rec) /\ (SecretNeeded(rec) => s = "ok")
                      THEN "ok" ELSE "failed"
      <3>2. s \in OnceStates /\ v \in OnceStates
        BY SessionStates DEF OnceStates, Types
      <3> HIDE DEF s, v
      <3>3. once' = [once EXCEPT ![Session] = s, ![k] = v]
        BY <3>1, Zenon DEF s, v
      <3> QED  BY <3>2, <3>3
    <2>2. CASE once[k] # "new"
      BY <2>2, Zenon DEF ConnectionSettings
    <2> QED  BY <2>1, <2>2
  <1>5. once' \in [Keys(build) -> OnceStates]
    BY <1>4 DEF Types
  <1>6. \A x \in Keys(build) : x # Session /\ x # k => once'[x] = once[x]
    BY <1>4 DEF Types
  <1> QED  BY <1>1, <1>3, <1>5, <1>6
(* A call under way is of a resource of the build, and has a key of it.    *)
LEMMA UseInBuild ==
    ASSUME UsageInv, NEW h \in Callers, call[h].at # "idle"
    PROVE  LET u == call[h].use IN
           /\ u \in Uses /\ u.r \in Resources(build) /\ u.read \in BOOLEAN
           /\ handles[u.r] \in {"aws", "local"}
           /\ KeyOf(u) \in Keys(build) /\ KeyOf(u) # Session
           /\ \A r : KeyOf(u) # SettingsOf(r)
  <1> DEFINE u == call[h].use
  <1>1. u \in build.uses[h] /\ handles[u.r] \in {"aws", "local"} /\ build \in Builds
    BY DEF UsageInv, UsesTaken, Types
  <1>2. u \in Uses
    BY <1>1 DEF Uses
  <1>3. u.r \in Resources(build) /\ u.read \in BOOLEAN
    BY <1>1, BuildsAssumption DEF Resources
  <1> HIDE DEF u
  <1>4. KeyOf(u) \in Keys(build) /\ KeyOf(u) # Session /\ \A r : KeyOf(u) # SettingsOf(r)
    BY <1>3, KeyOfUse
  <1> QED  BY <1>1, <1>2, <1>3, <1>4 DEF u

LEMMA EnterSteps ==
    ASSUME UsageInv, NEW h \in Callers, Enter(h)
    PROVE  LET k == KeyOf(call[h].use) IN
           /\ Frame /\ UNCHANGED <<made, token, draining>> /\ OwnCall(h)
           /\ call[h].at = "enter"
           /\ \/ /\ once[k] = "new" /\ once' = [once EXCEPT ![k] = "building"]
                 /\ MovesTo(h, "building")
              \/ once' = once /\ call'[h] = Idle
              \/ once' = once /\ once[k] \in {"ok", "closed"} /\ MovesTo(h, "connect")
  <1> DEFINE k == KeyOf(call[h].use)
  <1>1. Frame /\ UNCHANGED <<made, token, draining>> /\ call[h].at = "enter"
    BY DEF Enter, Frame, registration, releasing
  <1>2. k \in Keys(build) /\ Types
    BY <1>1, UseInBuild DEF UsageInv
  <1>3. once[k] \in OnceStates /\ once[k] # "building"
    BY <1>2 DEF Types, Enter
  <1>4. /\ once' = [once EXCEPT ![k] = IF once[k] = "new" THEN "building" ELSE once[k]]
        /\ call' = CASE once[k] = "new"    -> [call EXCEPT ![h].at = "building"]
                     [] once[k] = "failed" -> Give(h)
                     [] OTHER              -> [call EXCEPT ![h].at = "connect"]
    BY DEF Enter
  <1> HIDE DEF k
  <1>5. CASE once[k] = "new"
    <2>1. once' = [once EXCEPT ![k] = "building"] /\ call' = [call EXCEPT ![h].at = "building"]
      BY <1>4, <1>5
    <2> QED  BY <1>1, <1>2, <1>5, <2>1, CallMoved DEF Stages, k
  <1>6. once[k] # "new" => once' = once
    BY <1>2, <1>4 DEF Types
  <1>7. CASE once[k] = "failed"
    <2>1. call' = Give(h)
      BY <1>4, <1>7
    <2> QED  BY <1>1, <1>2, <1>6, <1>7, <2>1, CallGiven DEF k
  <1>8. CASE once[k] \in {"ok", "closed"}
    <2>1. call' = [call EXCEPT ![h].at = "connect"]
      BY <1>4, <1>8
    <2> QED  BY <1>1, <1>2, <1>6, <1>8, <2>1, CallMoved DEF Stages, k
  <1> QED  BY <1>3, <1>5, <1>7, <1>8 DEF OnceStates

LEMMA BuildSteps ==
    ASSUME UsageInv, NEW h \in Callers, Build(h)
    PROVE  LET k == KeyOf(call[h].use) IN
           /\ Frame /\ UNCHANGED <<token, draining>> /\ OwnCall(h)
           /\ call[h].at = "building"
           /\ once' \in [Keys(build) -> OnceStates]
           /\ \A x \in Keys(build) : x # Session /\ x # k => once'[x] = once[x]
           /\ \/ /\ once'[k] = "ok" /\ MovesTo(h, "connect")
                 /\ made' = [made EXCEPT ![k] = What(call[h].use).endpoint]
              \/ once'[k] = "failed" /\ call'[h] = Idle /\ made' = made
  <1> DEFINE k == KeyOf(call[h].use)
             what == What(call[h].use)
  <1>1. Frame /\ UNCHANGED <<token, draining>> /\ call[h].at = "building"
    BY DEF Build, Frame, registration, releasing
  <1>2. k \in Keys(build) /\ k # Session /\ Types
    BY <1>1, UseInBuild DEF UsageInv
  <1>3. PICK f \in Faults({"build"} \cup SessionFault(what.session)) :
          IF f = None /\ what.ok /\ (what.session => SessionConfig(f) = "ok")
          THEN Opens(h, k, what, f)
          ELSE /\ once' = [once EXCEPT ![k] = "failed",
                    ![Session] = IF what.session /\ what.ok /\ f # "build"
                                 THEN SessionConfig(f) ELSE once[Session]]
               /\ call' = Give(h)
               /\ UNCHANGED <<made, late>>
    BY DEF Build
  <1>4. SessionConfig(f) \in OnceStates /\ once[Session] \in OnceStates /\ Session \in Keys(build)
    BY <1>2, SessionStates DEF Types
  <1>5. CASE Opens(h, k, what, f)
    <2> DEFINE s == IF what.session THEN SessionConfig(f) ELSE once[Session]
    <2>1. /\ once' = [once EXCEPT ![k] = "ok", ![Session] = s]
          /\ made' = [made EXCEPT ![k] = what.endpoint]
          /\ call' = [call EXCEPT ![h].at = "connect"]
      BY <1>5, <1>2 DEF Opens
    <2>2. s \in OnceStates
      BY <1>4
    <2> HIDE DEF k, what, s
    <2>3. /\ once' \in [Keys(build) -> OnceStates] /\ once'[k] = "ok"
          /\ \A x \in Keys(build) : x # Session /\ x # k => once'[x] = once[x]
      BY <1>2, <1>4, <2>1, <2>2 DEF Types, OnceStates
    <2> QED  BY <1>1, <1>2, <2>1, <2>3, CallMoved DEF Stages, k, what
  <1>6. CASE ~ Opens(h, k, what, f)
    <2> DEFINE s == IF what.session /\ what.ok /\ f # "build"
                    THEN SessionConfig(f) ELSE once[Session]
    <2>1. /\ once' = [once EXCEPT ![k] = "failed", ![Session] = s]
          /\ made' = made /\ call' = Give(h)
      BY <1>3, <1>6
    <2>2. s \in OnceStates
      BY <1>4
    <2> HIDE DEF k, what, s
    <2>3. /\ once' \in [Keys(build) -> OnceStates] /\ once'[k] = "failed"
          /\ \A x \in Keys(build) : x # Session /\ x # k => once'[x] = once[x]
      BY <1>2, <1>4, <2>1, <2>2 DEF Types, OnceStates
    <2> QED  BY <1>1, <1>2, <2>1, <2>3, CallGiven DEF k
  <1> QED  BY <1>5, <1>6

(* A connection is opened with no token, with one signed for it, or with   *)
(* the one its cache holds, which is then not nearly spent.                *)
OpensWith(h) ==
    LET r == call[h].use.r
        c == call'[h]
    IN  /\ c.at = "opening" /\ c.use = call[h].use
        /\ \/ c.signed = -1
           \/ /\ c.since = now
              /\ \/ c.signed = now
                 \/ /\ token[r] # -1 /\ c.signed = token[r]
                    /\ now < token[r] + TokenLifetime - TokenMargin
        /\ \/ token' = token
           \/ c.signed # -1 /\ token' = [token EXCEPT ![r] = c.signed]

LEMMA ConnectSteps ==
    ASSUME UsageInv, NEW h \in Callers, Connect(h)
    PROVE  /\ Frame /\ UNCHANGED <<made, draining>> /\ OwnCall(h)
           /\ call[h].at = "connect"
           /\ once' \in [Keys(build) -> OnceStates]
           /\ \A x \in Keys(build) : x # Session => once'[x] = once[x]
           /\ \/ MovesTo(h, "using") /\ token' = token
              \/ call'[h] = Idle /\ token' = token
              \/ OpensWith(h)
  <1> DEFINE u == call[h].use
             rec == build.record[u.r]
             k == KeyOf(u)
             signs == IsIAM(rec) /\ (IsPool(k) \/ Credentials(u.r) = now)
  <1>1. Frame /\ UNCHANGED <<made, draining>> /\ call[h].at = "connect"
    BY DEF Connect, Frame, registration, releasing
  <1>2. Types /\ u.r \in Resources(build)
    BY <1>1, UseInBuild DEF UsageInv
  <1>3. CASE /\ call' \in {[call EXCEPT ![h].at = "using"], Give(h)}
             /\ UNCHANGED <<once, token>>
    BY <1>1, <1>2, <1>3, CallGiven, CallMoved DEF Types, Stages
  <1>4. CASE \E f \in Faults(SessionFault(signs)) :
               LET session == IF signs THEN SessionConfig(f) ELSE once[Session]
                   signed == IF ~IsIAM(rec) THEN -1 ELSE IF IsPool(k) THEN now ELSE Credentials(u.r)
               IN  /\ once' = [once EXCEPT ![Session] = session]
                   /\ IF signs /\ session # "ok"
                      THEN call' = Give(h) /\ UNCHANGED token
                      ELSE /\ call' = [call EXCEPT ![h].at = "opening", ![h].signed = signed,
                                        ![h].since = IF IsIAM(rec) THEN now ELSE 0]
                           /\ token' = IF k[1] = "cache" /\ IsIAM(rec)
                                       THEN [token EXCEPT ![u.r] = signed] ELSE token
    <2>1. PICK f :
               LET session == IF signs THEN SessionConfig(f) ELSE once[Session]
                   signed == IF ~IsIAM(rec) THEN -1 ELSE IF IsPool(k) THEN now ELSE Credentials(u.r)
               IN  /\ once' = [once EXCEPT ![Session] = session]
                   /\ IF signs /\ session # "ok"
                      THEN call' = Give(h) /\ UNCHANGED token
                      ELSE /\ call' = [call EXCEPT ![h].at = "opening", ![h].signed = signed,
                                        ![h].since = IF IsIAM(rec) THEN now ELSE 0]
                           /\ token' = IF k[1] = "cache" /\ IsIAM(rec)
                                       THEN [token EXCEPT ![u.r] = signed] ELSE token
      BY <1>4, Zenon
    <2> DEFINE session == IF signs THEN SessionConfig(f) ELSE once[Session]
               signed == IF ~IsIAM(rec) THEN -1 ELSE IF IsPool(k) THEN now ELSE Credentials(u.r)
               since == IF IsIAM(rec) THEN now ELSE 0
    <2>2. session \in OnceStates
      <3>1. SessionConfig(f) \in OnceStates /\ once[Session] \in OnceStates
        BY <1>2, SessionStates DEF Types
      <3> QED  BY <3>1, Zenon
    <2>3. /\ signed = -1
             \/ /\ since = now
                /\ \/ signed = now
                   \/ /\ token[u.r] # -1 /\ signed = token[u.r]
                      /\ now < token[u.r] + TokenLifetime - TokenMargin
          /\ IsIAM(rec) => signed # -1
          /\ since \in Int /\ signed \in Int
      <3>1. token[u.r] \in Int /\ now \in Nat
        BY <1>2 DEF Types
      <3>2. \/ Credentials(u.r) = now
            \/ /\ token[u.r] # -1 /\ Credentials(u.r) = token[u.r]
               /\ now < token[u.r] + TokenLifetime - TokenMargin
        BY DEF Credentials
      <3>3. CASE ~ IsIAM(rec)
        BY <3>3
      <3>4. CASE IsIAM(rec)
        <4>1. since = now /\ signed \in {now, Credentials(u.r)}
          BY <3>4
        <4> HIDE DEF u, rec, k, since, signed
        <4> QED  BY <3>1, <3>2, <4>1
      <3> QED  BY <3>3, <3>4
    <2>4. /\ once' = [once EXCEPT ![Session] = session]
          /\ \/ call' = Give(h) /\ token' = token
             \/ /\ call' = [call EXCEPT ![h].at = "opening", ![h].signed = signed, ![h].since = since]
                /\ token' = token \/ (IsIAM(rec) /\ token' = [token EXCEPT ![u.r] = signed])
      BY <2>1
    <2> HIDE DEF session, signed, since
    <2>5. /\ once' \in [Keys(build) -> OnceStates]
          /\ \A x \in Keys(build) : x # Session => once'[x] = once[x]
      BY <1>2, <2>2, <2>4 DEF Types
    <2>6. CASE call' = Give(h) /\ token' = token
      <3>1. OwnCall(h) /\ call'[h] = Idle
        BY <1>2, <2>6, CallGiven
      <3> QED  BY <1>1, <2>5, <2>6, <3>1
    <2>7. CASE /\ call' = [call EXCEPT ![h].at = "opening", ![h].signed = signed, ![h].since = since]
               /\ token' = token \/ (IsIAM(rec) /\ token' = [token EXCEPT ![u.r] = signed])
      <3>1. IsCall(call[h]) /\ DOMAIN call = Callers
        BY <1>2 DEF Types
      <3>2. call'[h] = [at |-> "opening", use |-> u, since |-> since, signed |-> signed]
        BY <2>7, <3>1 DEF IsCall
      <3>3. IsCall(call'[h])
        BY <2>3, <3>1, <3>2 DEF IsCall, Stages
      <3>4. OwnCall(h)
        BY <2>7, <3>1, <3>3 DEF OwnCall
      <3>5. OpensWith(h)
        <4>1. /\ call'[h].at = "opening" /\ call'[h].use = u
              /\ call'[h].since = since /\ call'[h].signed = signed
          BY <3>2
        <4> QED  BY <2>3, <2>7, <4>1 DEF OpensWith
      <3> QED  BY <1>1, <2>5, <3>4, <3>5
    <2> QED  BY <2>4, <2>6, <2>7
  <1> QED  BY <1>3, <1>4, Zenon DEF Connect

LEMMA ConnectedSteps ==
    ASSUME Types, NEW h \in Callers, Connected(h)
    PROVE  /\ Frame /\ UNCHANGED <<once, made, token>> /\ OwnCall(h)
           /\ call[h].at = "opening"
           /\ \/ /\ call'[h] = [at |-> "using", use |-> call[h].use, since |-> 0, signed |-> -1]
                 /\ draining' = draining
              \/ call'[h] = Idle /\ draining' = draining \ {h}
  <1>1. Frame /\ UNCHANGED <<once, made, token>> /\ call[h].at = "opening"
    BY DEF Connected, Frame, registration
  <1>2. CASE call' = Give(h) /\ draining' = draining \ {h}
    BY <1>1, <1>2, CallGiven
  <1>3. CASE /\ call' = [call EXCEPT ![h].at = "using", ![h].signed = -1, ![h].since = 0]
             /\ draining' = draining
    <2>1. IsCall(call[h]) /\ DOMAIN call = Callers
      BY DEF Types
    <2>2. call'[h] = [at |-> "using", use |-> call[h].use, since |-> 0, signed |-> -1]
      BY <1>3, <2>1 DEF IsCall
    <2>3. IsCall(call'[h])
      BY <2>1, <2>2 DEF IsCall, Stages
    <2>4. OwnCall(h)
      BY <1>3, <2>1, <2>3 DEF OwnCall
    <2> QED  BY <1>1, <1>3, <2>2, <2>4
  <1> QED  BY <1>2, <1>3 DEF Connected

LEMMA GiveBackSteps ==
    ASSUME Types, NEW h \in Callers, GiveBack(h)
    PROVE  /\ Frame /\ UNCHANGED <<once, made, token>> /\ OwnCall(h)
           /\ call[h].at = "using"
           /\ call'[h] = Idle /\ draining' = draining \ {h}
  <1>1. /\ Frame /\ UNCHANGED <<once, made, token>> /\ call[h].at = "using"
        /\ call' = Give(h) /\ draining' = draining \ {h}
    BY DEF GiveBack, Frame, registration
  <1> QED  BY <1>1, CallGiven

(* The release closes what was open and touches nothing else that is used. *)
LEMMA ReleaseSteps ==
    ASSUME Types, ReleaseStep
    PROVE  /\ UNCHANGED <<build, handles, made, token, call, now, expired>>
           /\ phase = "releasing" /\ phase' \in {"releasing", "ended"}
           /\ once' \in [Keys(build) -> OnceStates]
           /\ \A x \in Keys(build) :
                once'[x] = once[x] \/ (once[x] = "ok" /\ once'[x] = "closed")
  <1>1. /\ UNCHANGED <<build, handles, made, token, call, now, expired>>
        /\ phase = "releasing" /\ phase' \in {"releasing", "ended"}
    BY DEF ReleaseStep
  <1>2. \/ once' = once
        \/ \E k : once[k] = "ok" /\ once' = [once EXCEPT ![k] = "closed"]
    <2>1. CASE release # <<>>
      <3> DEFINE k == Head(release)
      <3>1. \/ ReleaseSkips(k) \/ ReleaseClient(k) \/ PollPool(k) \/ ClosePool(k) \/ CutPool(k)
        BY <2>1, Zenon DEF ReleaseStep
      <3> HIDE DEF k
      <3>2. \/ once' = once
            \/ once[k] = "ok" /\ once' = [once EXCEPT ![k] = "closed"]
        BY <3>1 DEF ReleaseSkips, ReleaseClient, PollPool, ClosePool, CutPool, Closes
      <3> QED  BY <3>2
    <2>2. CASE release = <<>>
      BY <2>2, Zenon DEF ReleaseStep
    <2> QED  BY <2>1, <2>2
  <1>3. CASE once' = once
    BY <1>1, <1>3 DEF Types
  <1>4. CASE \E k : once[k] = "ok" /\ once' = [once EXCEPT ![k] = "closed"]
    <2>1. PICK k : once[k] = "ok" /\ once' = [once EXCEPT ![k] = "closed"]
      BY <1>4
    <2> QED  BY <1>1, <2>1 DEF Types, OnceStates
  <1> QED  BY <1>2, <1>3, <1>4

(* Steps of the process leave what is used alone.                          *)
ProcessStep ==
    /\ UNCHANGED <<build, handles, once, made, token, call, now>>
    /\ phase' = "registering" => phase = "registering"

LEMMA ProcessSteps ==
    ASSUME Signal \/ ServeEnds \/ ReleaseExpires \/ RunContext \/ OpenStream \/ FlushTelemetry
    PROVE  ProcessStep
  <1>1. CASE Signal
    BY <1>1 DEF Signal, ProcessStep, registration, usage
  <1>2. CASE ServeEnds
    BY <1>2 DEF ServeEnds, ProcessStep, usage
  <1>3. CASE ReleaseExpires
    BY <1>3 DEF ReleaseExpires, ProcessStep, registration, usage
  <1>4. CASE RunContext
    BY <1>4 DEF RunContext, ProcessStep, usage
  <1>5. CASE OpenStream
    BY <1>5 DEF OpenStream, ProcessStep, usage
  <1>6. CASE FlushTelemetry
    BY <1>6 DEF FlushTelemetry, ProcessStep, usage
  <1> QED  BY <1>1, <1>2, <1>3, <1>4, <1>5, <1>6

LEMMA TakeHandleSteps ==
    ASSUME Types, TakeHandle
    PROVE  /\ UNCHANGED <<build, phase, once, made, token, call, now>>
           /\ phase = "registering"
           /\ \E r \in Resources(build), by \in {"fake", "aws", "local", "nil"} :
                /\ handles' = [handles EXCEPT ![r] = by]
                /\ by = "nil" /\ DetectMode # "extract" => errs' # {}
                /\ errs \subseteq errs'
  <1>1. UNCHANGED <<build, phase, once, made, token, call, now>> /\ phase = "registering"
    BY DEF TakeHandle, usage
  <1>2. PICK i \in DOMAIN build.app : Resolve(build.app[i])
    BY Zenon DEF TakeHandle
  <1> DEFINE r == build.app[i]
             got == IF ProviderFor = None THEN None ELSE BuiltBy(ProviderFor, build.record[r].kind)
             by == IF got = None THEN "nil" ELSE got
  <1>3. r \in Resources(build)
    BY DEF Resources, ToSet
  <1>4. /\ handles' = [handles EXCEPT ![r] = by]
        /\ IF got = None /\ ~ (ProviderFor = None /\ DetectMode = "extract")
           THEN errs' = errs \cup {<<"handle", r>>} ELSE errs' = errs
    BY <1>2 DEF Resolve, ResourceError
  <1>5. got \in {"fake", "aws", "local", None}
    <2>1. ProviderFor \in {"fake", "aws", "local", None}
      BY ProviderIsLinked DEF Types
    <2>2. ProviderFor # None =>
            BuiltBy(ProviderFor, build.record[r].kind) \in {"fake", "aws", "local", None}
      BY <2>1, HandleIsKnown
    <2> QED  BY <2>2
  <1>6. by \in {"fake", "aws", "local", "nil"} /\ (by = "nil" => got = None)
    BY <1>5
  <1> HIDE DEF r, got, by
  <1>7. by = "nil" /\ DetectMode # "extract" => errs' # {}
    BY <1>4, <1>6
  <1>8. errs \subseteq errs'
    BY <1>4
  <1> QED  BY <1>1, <1>3, <1>4, <1>6, <1>7, <1>8

-----------------------------------------------------------------------------
(* Calls and handles fit together.                                         *)

LEMMA UsageInit == Init => UsageInv
  <1> SUFFICES ASSUME Init PROVE UsageInv
    OBVIOUS
  <1>1. \A h \in Callers : call[h] = Idle
    BY DEF Init
  <1>2. Types
    BY <1>1, IdleIsCall DEF Init, Types, OnceStates
  <1>3. UsedLater /\ UsesTaken
    BY <1>1 DEF Init, UsedLater, UsesTaken, Idle
  <1> QED  BY <1>2, <1>3 DEF UsageInv

(* A caller's step that keeps the types of what is built and held.         *)
LEMMA UseKeepsUsage ==
    ASSUME UsageInv, NEW h \in Callers, Running, Frame, OwnCall(h),
           once' \in [Keys(build) -> OnceStates],
           DOMAIN made' = Keys(build),
           token' \in [Resources(build) -> Int],
           \/ call'[h].at = "idle"
           \/ call[h].at # "idle" /\ call'[h].use = call[h].use
           \/ call'[h].use \in build.uses[h] /\ handles[call'[h].use.r] \in {"aws", "local"}
    PROVE  UsageInv'
  <1>1. Types'
    <2>1. \A g \in Callers : IsCall(call'[g])
      BY DEF UsageInv, Types, OwnCall
    <2> QED  BY <2>1 DEF UsageInv, Types, Frame, OwnCall
  <1>2. UsedLater'
    BY DEF Running, Frame, UsedLater
  <1>3. UsesTaken'
    BY DEF UsageInv, UsesTaken, Frame, OwnCall
  <1> QED  BY <1>1, <1>2, <1>3 DEF UsageInv

LEMMA UsageUse == ASSUME UsageInv, NEW h \in Callers, Use(h) PROVE UsageInv'
  <1>0. Running /\ Types
    BY DEF Use, UsageInv
  <1>1. CASE Begin(h)
    <2>1. /\ Frame /\ Stays /\ OwnCall(h) /\ call'[h].use \in build.uses[h]
          /\ handles[call'[h].use.r] \in {"aws", "local"}
      BY <1>0, <1>1, BeginSteps
    <2> QED  BY <1>0, <2>1, UseKeepsUsage DEF Stays, Types
  <1>2. CASE ConnectionSettings(h)
    <2>1. /\ Frame /\ UNCHANGED <<made, token>> /\ OwnCall(h) /\ call[h].at = "settings"
          /\ call'[h] = Idle \/ MovesTo(h, "enter")
          /\ once' \in [Keys(build) -> OnceStates]
      BY <1>0, <1>2, SettingsSteps
    <2>2. call'[h].at = "idle" \/ call'[h].use = call[h].use
      BY <2>1 DEF Idle, MovesTo
    <2> QED  BY <1>0, <2>1, <2>2, UseKeepsUsage DEF Types
  <1>3. CASE Enter(h)
    <2>0. KeyOf(call[h].use) \in Keys(build)
      BY <1>3, UseInBuild DEF Enter
    <2>1. /\ Frame /\ UNCHANGED <<made, token>> /\ OwnCall(h) /\ call[h].at = "enter"
          /\ call'[h] = Idle \/ MovesTo(h, "building") \/ MovesTo(h, "connect")
          /\ once' = once \/ once' = [once EXCEPT ![KeyOf(call[h].use)] = "building"]
      BY <1>3, EnterSteps
    <2>2. call'[h].at = "idle" \/ call'[h].use = call[h].use
      BY <2>1 DEF Idle, MovesTo
    <2>3. once' \in [Keys(build) -> OnceStates]
      BY <1>0, <2>0, <2>1 DEF Types, OnceStates
    <2> QED  BY <1>0, <2>1, <2>2, <2>3, UseKeepsUsage DEF Types
  <1>4. CASE Build(h)
    <2>1. /\ Frame /\ UNCHANGED token /\ OwnCall(h) /\ call[h].at = "building"
          /\ call'[h] = Idle \/ MovesTo(h, "connect")
          /\ \/ made' = made
             \/ made' = [made EXCEPT ![KeyOf(call[h].use)] = What(call[h].use).endpoint]
          /\ once' \in [Keys(build) -> OnceStates]
      BY <1>4, BuildSteps
    <2>2. call'[h].at = "idle" \/ call'[h].use = call[h].use
      BY <2>1 DEF Idle, MovesTo
    <2>3. DOMAIN made' = Keys(build)
      BY <1>0, <2>1 DEF Types
    <2> QED  BY <1>0, <2>1, <2>2, <2>3, UseKeepsUsage DEF Types
  <1>5. CASE Connect(h)
    <2>1. /\ Frame /\ UNCHANGED made /\ OwnCall(h) /\ call[h].at = "connect"
          /\ call'[h] = Idle \/ MovesTo(h, "using") \/ OpensWith(h)
          /\ token' = token \/ OpensWith(h)
          /\ once' \in [Keys(build) -> OnceStates]
      BY <1>5, ConnectSteps
    <2>2. call'[h].at = "idle" \/ call'[h].use = call[h].use
      BY <2>1 DEF Idle, MovesTo, OpensWith
    <2>3. token' \in [Resources(build) -> Int]
      <3>1. call[h].use.r \in Resources(build) /\ call'[h].signed \in Int
        BY <2>1, UseInBuild DEF OwnCall, IsCall
      <3> QED  BY <1>0, <2>1, <3>1 DEF Types, OpensWith
    <2> QED  BY <1>0, <2>1, <2>2, <2>3, UseKeepsUsage DEF Types
  <1>6. CASE Connected(h)
    <2>1. /\ Frame /\ UNCHANGED <<once, made, token>> /\ OwnCall(h) /\ call[h].at = "opening"
          /\ \/ call'[h] = Idle
             \/ call'[h] = [at |-> "using", use |-> call[h].use, since |-> 0, signed |-> -1]
      BY <1>0, <1>6, ConnectedSteps
    <2>2. call'[h].at = "idle" \/ call'[h].use = call[h].use
      BY <2>1 DEF Idle
    <2> QED  BY <1>0, <2>1, <2>2, UseKeepsUsage DEF Types
  <1>7. CASE GiveBack(h)
    <2>1. Frame /\ UNCHANGED <<once, made, token>> /\ OwnCall(h) /\ call'[h].at = "idle"
      BY <1>0, <1>7, GiveBackSteps DEF Idle
    <2> QED  BY <1>0, <2>1, UseKeepsUsage DEF Types
  <1> QED  BY <1>1, <1>2, <1>3, <1>4, <1>5, <1>6, <1>7 DEF Use

LEMMA UsageStep == UsageInv /\ [Next]_vars => UsageInv'
  <1> SUFFICES ASSUME UsageInv, [Next]_vars PROVE UsageInv'
    OBVIOUS
  <1>0. Types
    BY DEF UsageInv
  <1>1. CASE TakeHandle
    <2>1. /\ UNCHANGED <<build, phase, once, made, token, call, now>> /\ phase = "registering"
          /\ handles' \in [Resources(build) -> {"untaken", "nil", "aws", "local", "fake"}]
      BY <1>0, <1>1, TakeHandleSteps DEF Types
    <2>2. \A h \in Callers : call'[h].at = "idle"
      BY <2>1 DEF UsageInv, UsedLater
    <2> QED  BY <2>1, <2>2 DEF UsageInv, Types, UsedLater, UsesTaken
  <1>2. CASE Signal \/ ServeEnds \/ ReleaseExpires \/ RunContext \/ OpenStream \/ FlushTelemetry
    <2>1. ProcessStep
      BY <1>2, ProcessSteps
    <2>2. Types' /\ UsesTaken'
      BY <2>1 DEF UsageInv, Types, UsesTaken, ProcessStep
    <2>3. UsedLater'
      BY <2>1 DEF UsageInv, UsedLater, ProcessStep
    <2> QED  BY <2>2, <2>3 DEF UsageInv
  <1>3. CASE Tick
    <2>1. UNCHANGED <<build, phase, handles, once, made, token, call>> /\ now' = now + 1
      BY <1>3 DEF Tick, registration
    <2> QED  BY <2>1 DEF UsageInv, Types, UsedLater, UsesTaken
  <1>4. CASE ReleaseStep
    <2>1. /\ UNCHANGED <<build, handles, made, token, call, now>>
          /\ phase' \in {"releasing", "ended"} /\ once' \in [Keys(build) -> OnceStates]
      BY <1>0, <1>4, ReleaseSteps
    <2> QED  BY <2>1 DEF UsageInv, Types, UsedLater, UsesTaken
  <1>5. CASE \E h \in Callers : Use(h)
    BY <1>5, UsageUse
  <1>6. CASE UNCHANGED vars
    BY <1>6 DEF UsageInv, Types, UsedLater, UsesTaken, vars, registration, usage
  <1> QED  BY <1>1, <1>2, <1>3, <1>4, <1>5, <1>6 DEF Next

LEMMA UsageAlways == Spec => []UsageInv
  BY UsageInit, UsageStep, PTL DEF Spec

-----------------------------------------------------------------------------
(* No process serves without its handles.                                  *)

LEMMA MissingStep == UsageInv /\ MissingReported /\ [Next]_vars => MissingReported'
  <1> SUFFICES ASSUME UsageInv, MissingReported, [Next]_vars PROVE MissingReported'
    OBVIOUS
  <1>0. Types
    BY DEF UsageInv
  <1>1. CASE TakeHandle
    <2>1. UNCHANGED <<build, phase>> /\ phase = "registering"
      BY <1>0, <1>1, TakeHandleSteps
    <2>2. PICK r \in Resources(build), by \in {"fake", "aws", "local", "nil"} :
            /\ handles' = [handles EXCEPT ![r] = by]
            /\ by = "nil" /\ DetectMode # "extract" => errs' # {}
            /\ errs \subseteq errs'
      BY <1>0, <1>1, TakeHandleSteps
    <2>3. DetectMode' = DetectMode
      BY <2>1 DEF DetectMode
    <2>4. ASSUME errs' = {}, DetectMode # "extract", NEW q \in Resources(build)
          PROVE  handles'[q] # "nil"
      <3>1. errs = {} /\ by # "nil"
        BY <2>2, <2>4
      <3>2. handles[q] # "nil"
        BY <2>1, <2>4, <3>1 DEF MissingReported
      <3> QED  BY <1>0, <2>2, <3>1, <3>2 DEF Types
    <2> QED  BY <2>1, <2>3, <2>4 DEF MissingReported, NoNilHandleServed
  <1>2. CASE RunContext
    <2>1. UNCHANGED <<build, handles>> /\ phase = "registering" /\ phase' # "registering"
      BY <1>2 DEF RunContext
    <2>2. ASSUME phase' \in {"dialling", "serving"}, NEW r \in Resources(build)
          PROVE  handles[r] \in {"aws", "local", "fake"}
      <3>1. errs = {} /\ DetectMode # "extract"
        BY <1>2, <2>2 DEF RunContext
      <3>2. handles[r] # "nil" /\ handles[r] # "untaken"
        BY <1>2, <2>1, <3>1 DEF MissingReported, RunContext, Untaken
      <3> QED  BY <1>0, <3>2 DEF Types
    <2> QED  BY <2>1, <2>2 DEF MissingReported, NoNilHandleServed
  <1>3. CASE OpenStream \/ ServeEnds \/ FlushTelemetry \/ ReleaseStep
    <2>1. /\ UNCHANGED <<build, handles>> /\ phase' # "registering"
          /\ phase' \in {"dialling", "serving"} => phase \in {"dialling", "serving"}
      BY <1>3 DEF OpenStream, ServeEnds, FlushTelemetry, ReleaseStep
    <2> QED  BY <2>1 DEF MissingReported, NoNilHandleServed
  <1>4. CASE \/ UNCHANGED vars \/ Signal \/ ReleaseExpires \/ Tick
             \/ \E h \in Callers : Use(h)
    <2>1. UNCHANGED <<build, phase, handles, errs>>
      <3>1. CASE UNCHANGED vars
        BY <3>1 DEF vars, registration
      <3>2. CASE Signal \/ ReleaseExpires \/ Tick
        BY <3>2 DEF Signal, ReleaseExpires, Tick, registration
      <3>3. CASE \E h \in Callers : Use(h)
        <4>1. PICK h \in Callers : Use(h)
          BY <3>3
        <4>2. Frame
          BY <1>0, <4>1, BeginSteps, SettingsSteps, EnterSteps, BuildSteps, ConnectSteps,
             ConnectedSteps, GiveBackSteps, Zenon DEF Use
        <4> QED  BY <4>2 DEF Frame
      <3> QED  BY <1>4, <3>1, <3>2, <3>3
    <2> QED  BY <2>1 DEF MissingReported, NoNilHandleServed, DetectMode
  <1> QED  BY <1>1, <1>2, <1>3, <1>4 DEF Next

(* For every build, deployment and linking of providers: a process that    *)
(* dials the runtime or serves has a handle for each resource its          *)
(* application took (handles.go, resolve; run.go, RunContext).             *)
THEOREM ServesWithEveryHandle == Spec => []NoNilHandleServed
  <1>1. Init => MissingReported
    BY DEF Init, MissingReported, NoNilHandleServed
  <1>2. MissingReported => NoNilHandleServed
    BY DEF MissingReported
  <1> QED  BY <1>1, <1>2, MissingStep, UsageAlways, PTL DEF Spec

-----------------------------------------------------------------------------
(* Tokens outlive the connections opened with them.                        *)

LEMMA TokenStep == UsageInv /\ UsageInv' /\ TokenInv /\ [Next]_vars => TokenInv'
  <1> SUFFICES ASSUME UsageInv, UsageInv', TokenInv, [Next]_vars PROVE TokenInv'
    OBVIOUS
  <1>0. Types /\ now \in Nat
    BY DEF UsageInv, Types
  <1>1. ASSUME NEW h \in Callers, Use(h) PROVE TokenInv'
    <2>1. CASE Frame /\ OwnCall(h) /\ token' = token /\ (call'[h].at = "opening" => call'[h].signed = -1)
      BY <2>1 DEF TokenInv, Frame, OwnCall
    <2>2. CASE Frame /\ OwnCall(h) /\ call[h].at # "idle" /\ OpensWith(h)
      <3> DEFINE r == call[h].use.r
                 c == call'[h]
      <3>1. r \in Resources(build) /\ token[r] \in Int /\ (token[r] = -1 \/ token[r] \in 0 .. now)
        BY <2>2, UseInBuild DEF UsageInv, Types, TokenInv
      <3>2. c.signed = -1 \/
              /\ c.since = now /\ c.signed \in 0 .. now
              /\ c.signed = c.since \/ c.since - c.signed < TokenLifetime - TokenMargin
        BY <1>0, <2>2, <3>1, ResourcesAssumption DEF OpensWith
      <3>3. \A q \in Resources(build) : token'[q] = -1 \/ token'[q] \in 0 .. now
        BY <1>0, <2>2, <3>1, <3>2 DEF OpensWith, TokenInv, Types
      <3>4. ASSUME NEW g \in Callers, call'[g].at = "opening", call'[g].signed # -1
            PROVE  /\ call'[g].signed \in 0 .. call'[g].since /\ call'[g].since \in 0 .. now
                   /\ now - call'[g].since <= SetupTime
                   /\ call'[g].signed = call'[g].since
                        \/ call'[g].since - call'[g].signed < TokenLifetime - TokenMargin
        <4>1. CASE g = h
          BY <1>0, <3>2, <3>4, <4>1, ResourcesAssumption
        <4>2. CASE g # h
          BY <2>2, <3>4, <4>2 DEF OwnCall, TokenInv
        <4> QED  BY <4>1, <4>2
      <3>5. build' = build /\ now' = now
        BY <2>2 DEF Frame
      <3> QED  BY <3>3, <3>4, <3>5 DEF TokenInv
    <2>3. CASE Begin(h)
      BY <1>0, <2>1, <2>3, BeginSteps DEF Stays
    <2>4. CASE ConnectionSettings(h)
      <3>1. /\ Frame /\ OwnCall(h) /\ token' = token
            /\ call'[h] = Idle \/ MovesTo(h, "enter")
        BY <1>0, <2>4, SettingsSteps
      <3>2. call'[h].at # "opening"
        BY <3>1 DEF MovesTo, Idle
      <3> QED  BY <2>1, <3>1, <3>2
    <2>5. CASE Enter(h)
      <3>1. /\ Frame /\ OwnCall(h) /\ token' = token
            /\ call'[h] = Idle \/ MovesTo(h, "building") \/ MovesTo(h, "connect")
        BY <1>0, <2>5, EnterSteps
      <3>2. call'[h].at # "opening"
        BY <3>1 DEF MovesTo, Idle
      <3> QED  BY <2>1, <3>1, <3>2
    <2>6. CASE Build(h)
      <3>1. /\ Frame /\ OwnCall(h) /\ token' = token
            /\ call'[h] = Idle \/ MovesTo(h, "connect")
        BY <1>0, <2>6, BuildSteps
      <3>2. call'[h].at # "opening"
        BY <3>1 DEF MovesTo, Idle
      <3> QED  BY <2>1, <3>1, <3>2
    <2>7. CASE Connect(h)
      <3>1. /\ Frame /\ OwnCall(h) /\ call[h].at = "connect"
            /\ \/ MovesTo(h, "using") /\ token' = token
               \/ call'[h] = Idle /\ token' = token
               \/ OpensWith(h)
        BY <2>7, ConnectSteps
      <3>2. MovesTo(h, "using") \/ call'[h] = Idle => call'[h].at # "opening"
        BY DEF MovesTo, Idle
      <3> QED  BY <2>1, <2>2, <3>1, <3>2
    <2>8. CASE Connected(h)
      <3>1. /\ Frame /\ OwnCall(h) /\ token' = token
            /\ \/ call'[h] = Idle
               \/ call'[h] = [at |-> "using", use |-> call[h].use, since |-> 0, signed |-> -1]
        BY <1>0, <2>8, ConnectedSteps
      <3>2. call'[h].at # "opening"
        BY <3>1 DEF Idle
      <3> QED  BY <2>1, <3>1, <3>2
    <2>9. CASE GiveBack(h)
      BY <1>0, <2>1, <2>9, GiveBackSteps DEF Idle
    <2> QED  BY <1>1, <2>3, <2>4, <2>5, <2>6, <2>7, <2>8, <2>9 DEF Use
  <1>2. CASE Tick
    <2>1. UNCHANGED <<build, token, call>> /\ now' = now + 1
      BY <1>2 DEF Tick
    <2>2. \A h \in Callers :
            call[h].at = "opening" /\ call[h].signed # -1 => now - call[h].since < SetupTime
      BY <1>2 DEF Tick
    <2>3. \A h \in Callers : call[h].since \in Int /\ call[h].signed \in Int
      BY <1>0 DEF Types, IsCall
    <2> QED  BY <1>0, <2>1, <2>2, <2>3, ResourcesAssumption DEF TokenInv
  <1>3. CASE \/ UNCHANGED vars \/ TakeHandle \/ Signal \/ ServeEnds \/ ReleaseExpires \/ RunContext
             \/ OpenStream \/ FlushTelemetry \/ ReleaseStep
    <2>1. UNCHANGED <<build, token, call, now>>
      <3>1. CASE UNCHANGED vars
        BY <3>1 DEF vars, usage
      <3>2. CASE TakeHandle
        BY <1>0, <3>2, TakeHandleSteps
      <3>3. CASE ReleaseStep
        BY <1>0, <3>3, ReleaseSteps
      <3> QED  BY <1>3, <3>1, <3>2, <3>3, ProcessSteps DEF ProcessStep
    <2> QED  BY <2>1 DEF TokenInv
  <1> QED  BY <1>1, <1>2, <1>3 DEF Next

(* For every lifetime, margin and time a connection takes to open within   *)
(* the margin: a token is accepted for as long as the connection it was    *)
(* handed to is being opened (iam.go, credentials).                        *)
THEOREM TokensOutliveOpening == Spec => []TokensFresh
  <1>1. Init => TokenInv
    BY DEF Init, TokenInv, Idle
  <1>2. UsageInv /\ TokenInv => TokensFresh
    <2> SUFFICES ASSUME UsageInv, TokenInv, NEW h \in Callers,
                        call[h].at = "opening", call[h].signed # -1
                 PROVE  now - call[h].signed < TokenLifetime
      BY DEF TokensFresh
    <2>1. /\ now \in Nat /\ call[h].since \in Int /\ call[h].signed \in Int
          /\ now - call[h].since <= SetupTime
          /\ call[h].signed = call[h].since
               \/ call[h].since - call[h].signed < TokenLifetime - TokenMargin
      BY DEF UsageInv, Types, IsCall, TokenInv
    <2> QED  BY <2>1, ResourcesAssumption
  <1> QED  BY <1>1, <1>2, TokenStep, UsageAlways, PTL DEF Spec

-----------------------------------------------------------------------------
(* A pool is cut only when the budget is spent.                            *)

(* The pool a caller is on does not change while it holds a connection.    *)
LEMMA SameKey ==
    ASSUME UNCHANGED <<build, handles>>, NEW g, call'[g].use = call[g].use
    PROVE  KeyOf(call[g].use)' = KeyOf(call[g].use)
  BY DEF KeyOf

LEMMA SameUsers ==
    ASSUME UNCHANGED <<build, handles, call>>
    PROVE  InUse(Head(release))' = InUse(Head(release'))
  <1>1. \A g \in Callers : KeyOf(call[g].use)' = KeyOf(call[g].use)
    BY SameKey
  <1> QED  BY <1>1 DEF InUse

LEMMA UseKeepsCut ==
    ASSUME CutInv, NEW h \in Callers, Frame, OwnCall(h),
           \/ draining' = draining \ {h}
           \/ /\ draining' = draining
              /\ \/ call[h].at \notin {"opening", "using"}
                 \/ call'[h].at = "using" /\ call'[h].use = call[h].use
    PROVE  CutInv'
  <1>1. UNCHANGED <<build, phase, handles, errs, release, polled, cut, expired>>
    BY DEF Frame
  <1>2. ASSUME phase = "releasing", release # <<>>
        PROVE  draining' \subseteq InUse(Head(release))'
    <2> DEFINE k == Head(release)
    <2>1. draining \subseteq InUse(k)
      BY <1>2 DEF CutInv
    <2>2. SUFFICES ASSUME NEW g \in draining' PROVE g \in InUse(k)'
      OBVIOUS
    <2>3. g \in draining /\ g \in InUse(k)
      BY <2>1, <2>2
    <2>4. g \in Callers /\ call[g].at \in {"opening", "using"} /\ KeyOf(call[g].use) = k
      BY <2>3 DEF InUse
    <2>5. call'[g].at \in {"opening", "using"} /\ call'[g].use = call[g].use
      BY <2>2, <2>4 DEF OwnCall
    <2>6. KeyOf(call[g].use)' = k
      BY <1>1, <2>4, <2>5, SameKey
    <2>7. k' = k
      BY <1>1
    <2> QED  BY <2>4, <2>5, <2>6, <2>7 DEF InUse
  <1> QED  BY <1>1, <1>2 DEF CutInv, CutOnlyWhenSpent

LEMMA TurnKeepsCut ==
    ASSUME UNCHANGED <<build, handles, call>>, phase' = "releasing",
           release' # <<>> => draining' = InUse(Head(release')),
           polled' = FALSE, CutOnlyWhenSpent'
    PROVE  CutInv'
  BY SameUsers DEF CutInv

LEMMA CutStep == UsageInv /\ CutInv /\ [Next]_vars => CutInv'
  <1> SUFFICES ASSUME UsageInv, CutInv, [Next]_vars PROVE CutInv'
    OBVIOUS
  <1>0. Types
    BY DEF UsageInv
  <1>1. ASSUME NEW h \in Callers, Use(h) PROVE CutInv'
    <2>1. CASE Begin(h)
      BY <1>0, <2>1, BeginSteps, UseKeepsCut DEF Stays
    <2>2. CASE ConnectionSettings(h)
      BY <1>0, <2>2, SettingsSteps, UseKeepsCut
    <2>3. CASE Enter(h)
      <3>1. Frame /\ OwnCall(h) /\ draining' = draining /\ call[h].at = "enter"
        BY <2>3, EnterSteps
      <3> QED  BY <3>1, UseKeepsCut
    <2>4. CASE Build(h)
      <3>1. Frame /\ OwnCall(h) /\ draining' = draining /\ call[h].at = "building"
        BY <2>4, BuildSteps
      <3> QED  BY <3>1, UseKeepsCut
    <2>5. CASE Connect(h)
      <3>1. Frame /\ OwnCall(h) /\ draining' = draining /\ call[h].at = "connect"
        BY <2>5, ConnectSteps
      <3> QED  BY <3>1, UseKeepsCut
    <2>6. CASE Connected(h)
      <3>1. /\ Frame /\ OwnCall(h)
            /\ \/ /\ call'[h] = [at |-> "using", use |-> call[h].use, since |-> 0, signed |-> -1]
                  /\ draining' = draining
               \/ draining' = draining \ {h}
        BY <1>0, <2>6, ConnectedSteps
      <3> QED  BY <3>1, UseKeepsCut
    <2>7. CASE GiveBack(h)
      BY <1>0, <2>7, GiveBackSteps, UseKeepsCut
    <2> QED  BY <1>1, <2>1, <2>2, <2>3, <2>4, <2>5, <2>6, <2>7 DEF Use
  <1>2. CASE ReleaseStep
    <2>0. /\ UNCHANGED <<build, handles, call, expired>> /\ phase = "releasing"
          /\ phase' \in {"releasing", "ended"}
      BY <1>0, <1>2, ReleaseSteps
    <2>1. CASE release = <<>>
      <3>1. UNCHANGED <<errs, cut, release, draining, polled>>
        BY <1>2, <2>1, Zenon DEF ReleaseStep
      <3> QED  BY <2>0, <2>1, <3>1 DEF CutInv, CutOnlyWhenSpent
    <2>2. CASE release # <<>>
      <3> DEFINE k == Head(release)
      <3>1. /\ \/ ReleaseSkips(k) \/ ReleaseClient(k) \/ PollPool(k) \/ ClosePool(k) \/ CutPool(k)
            /\ phase' = "releasing"
        BY <1>2, <2>2, <2>0 DEF ReleaseStep
      <3>2. draining \subseteq InUse(k) /\ (polled => draining = {}) /\ CutOnlyWhenSpent
        BY <2>0, <2>2 DEF CutInv
      <3> HIDE DEF k
      <3>3. CASE PollPool(k)
        <4>1. UNCHANGED <<errs, cut, release, draining>> /\ draining = {}
          BY <3>2, <3>3 DEF PollPool
        <4> QED  BY <2>0, <3>2, <4>1 DEF CutInv, CutOnlyWhenSpent
      <3>4. CASE ReleaseSkips(k)
        <4>1. /\ release' # <<>> => draining' = InUse(Head(release'))
              /\ polled' = FALSE /\ UNCHANGED <<cut, errs>>
          BY <3>4 DEF ReleaseSkips, Turn
        <4> QED  BY <2>0, <3>1, <3>2, <4>1, TurnKeepsCut DEF CutOnlyWhenSpent
      <3>5. CASE ReleaseClient(k) \/ ClosePool(k)
        <4>1. /\ release' # <<>> => draining' = InUse(Head(release'))
              /\ polled' = FALSE /\ errs \subseteq errs'
              /\ cut' = IF draining = {} \/ ~IsPool(k) THEN cut ELSE cut \cup {k}
          BY <3>5 DEF ReleaseClient, ClosePool, Closes, Turn
        <4>2. cut' = cut
          BY <3>2, <3>5, <4>1 DEF ReleaseClient, ClosePool
        <4> QED  BY <2>0, <3>1, <3>2, <4>1, <4>2, TurnKeepsCut DEF CutOnlyWhenSpent
      <3>6. CASE CutPool(k)
        <4>1. /\ release' # <<>> => draining' = InUse(Head(release'))
              /\ polled' = FALSE /\ errs' = errs \cup {k} /\ expired
              /\ cut' = cut \/ cut' = cut \cup {k}
          BY <3>6 DEF CutPool, Turn, ReleaseDone
        <4> QED  BY <2>0, <3>1, <3>2, <4>1, TurnKeepsCut DEF CutOnlyWhenSpent
      <3> QED  BY <3>1, <3>3, <3>4, <3>5, <3>6
    <2> QED  BY <2>1, <2>2
  <1>3. CASE FlushTelemetry
    <2>1. /\ UNCHANGED <<build, handles, call, cut, expired>>
          /\ phase = "flushing" /\ phase' = "releasing"
          /\ release' # <<>> => draining' = InUse(Head(release'))
          /\ polled' = FALSE
      BY <1>3 DEF FlushTelemetry, usage, Turn
    <2>2. cut' = {}
      BY <2>1 DEF CutInv
    <2> QED  BY <2>1, <2>2, TurnKeepsCut DEF CutOnlyWhenSpent
  <1>4. CASE ReleaseExpires
    <2>1. /\ UNCHANGED <<build, phase, handles, errs, call, release, draining, polled, cut>>
          /\ expired' = TRUE
      BY <1>4 DEF ReleaseExpires, registration, usage
    <2> QED  BY <2>1, SameUsers DEF CutInv, CutOnlyWhenSpent
  <1>5. CASE TakeHandle \/ RunContext \/ OpenStream \/ ServeEnds
    <2>1. /\ UNCHANGED <<polled, draining, cut>> /\ phase \notin {"releasing", "ended"}
          /\ phase' # "releasing"
      BY <1>5 DEF TakeHandle, RunContext, OpenStream, ServeEnds, releasing
    <2> QED  BY <2>1 DEF CutInv, CutOnlyWhenSpent
  <1>6. CASE Signal \/ Tick \/ UNCHANGED vars
    <2>1. UNCHANGED <<build, phase, handles, errs, call, release, draining, polled, cut, expired>>
      BY <1>6 DEF Signal, Tick, vars, registration, usage, releasing
    <2> QED  BY <2>1, SameUsers DEF CutInv, CutOnlyWhenSpent
  <1> QED  BY <1>1, <1>2, <1>3, <1>4, <1>5, <1>6 DEF Next

(* For every build and however callers use its pools: a connection in use  *)
(* when its pool's turn comes is waited for until the release's budget is  *)
(* spent, and a pool closed under one is reported (sqldatabase.go,         *)
(* closePool; registry.go, Release).                                       *)
THEOREM DrainsBeforeCutting == Spec => []CutOnlyWhenSpent
  <1>1. Init => CutInv
    BY DEF Init, CutInv, CutOnlyWhenSpent
  <1>2. CutInv => CutOnlyWhenSpent
    BY DEF CutInv
  <1> QED  BY <1>1, <1>2, CutStep, UsageAlways, PTL DEF Spec
-----------------------------------------------------------------------------
(* Callers reach what the deployment recorded.                             *)

LEMMA FixedKeys ==
    ASSUME UNCHANGED <<build, handles>>
    PROVE  /\ \A u : KeyOf(u)' = KeyOf(u)
           /\ \A u : (What(u).endpoint)' = What(u).endpoint
  <1>1. \A u : KeyOf(u)' = KeyOf(u)
    BY DEF KeyOf
  <1>2. \A u : What(u)' = What(u)
    BY DEF What, BuildPool, DriverFor
  <1> QED  BY <1>1, <1>2

(* Steps that build nothing: callers only get past what was built, and     *)
(* what was built may be closed.                                           *)
LEMMA NothingBuilt ==
    ASSUME UsageInv, OnceInv, UNCHANGED <<build, handles, made>>,
           \A h \in Callers : call'[h].at = "building" =>
               call[h].at = "building" /\ call'[h].use = call[h].use,
           \A h \in Callers : call'[h].at \in {"connect", "opening", "using"} =>
               /\ call[h].at # "idle" /\ call'[h].use = call[h].use
               /\ \/ call[h].at \in {"connect", "opening", "using"}
                  \/ once[KeyOf(call[h].use)] \in {"ok", "closed"},
           \A k \in Keys(build) :
               \/ k = Session \/ (\E r : k = SettingsOf(r))
               \/ once'[k] = once[k] \/ (once[k] = "ok" /\ once'[k] = "closed"),
           phase' = "registering" \/ phase # "registering"
    PROVE  OnceInv'
  <1>1. ASSUME NEW h \in Callers, call'[h].use = call[h].use
        PROVE  KeyOf(call[h].use)' = KeyOf(call[h].use)
    BY <1>1, SameKey
  <1>2. ASSUME NEW h \in Callers, call[h].at # "idle"
        PROVE  LET k == KeyOf(call[h].use) IN
               once'[k] = once[k] \/ (once[k] = "ok" /\ once'[k] = "closed")
    BY <1>2, UseInBuild
  <1>3. BuiltOnce'
    BY <1>1 DEF OnceInv, BuiltOnce
  <1>4. PastOnce'
    <2> SUFFICES ASSUME NEW h \in Callers
                 PROVE  /\ call'[h].at = "building" => once'[KeyOf(call[h].use)'] = "building"
                        /\ call'[h].at \in {"connect", "opening", "using"} =>
                               once'[KeyOf(call[h].use)'] \in {"ok", "closed"}
      BY DEF PastOnce
    <2>1. CASE call'[h].at = "building"
      BY <1>1, <1>2, <2>1 DEF OnceInv, PastOnce
    <2>2. CASE call'[h].at \in {"connect", "opening", "using"}
      <3>1. once[KeyOf(call[h].use)] \in {"ok", "closed"}
        BY <2>2 DEF OnceInv, PastOnce
      <3> QED  BY <1>1, <1>2, <2>2, <3>1
    <2> QED  BY <2>1, <2>2
  <1>5. MadeForUse'
    <2> SUFFICES ASSUME NEW u \in Uses, phase' # "registering",
                        u.r \in Resources(build), u.read \in BOOLEAN,
                        handles[u.r] \in {"aws", "local"},
                        once'[KeyOf(u)] \in {"ok", "closed"}
                 PROVE  made[KeyOf(u)] = What(u).endpoint
      BY FixedKeys DEF MadeForUse
    <2>1. KeyOf(u) \in Keys(build) /\ KeyOf(u) # Session /\ \A r : KeyOf(u) # SettingsOf(r)
      BY KeyOfUse
    <2>2. once[KeyOf(u)] \in {"ok", "closed"}
      BY <2>1
    <2> QED  BY <2>2 DEF OnceInv, MadeForUse
  <1> QED  BY <1>3, <1>4, <1>5 DEF OnceInv

LEMMA EnterBuilds ==
    ASSUME UsageInv, OnceInv, NEW h \in Callers, Frame, made' = made, OwnCall(h),
           call[h].at = "enter", once[KeyOf(call[h].use)] = "new",
           once' = [once EXCEPT ![KeyOf(call[h].use)] = "building"],
           MovesTo(h, "building")
    PROVE  OnceInv'
  <1> DEFINE k == KeyOf(call[h].use)
  <1>0. UNCHANGED <<build, handles, phase>>
    BY DEF Frame
  <1>1. k \in Keys(build) /\ DOMAIN once = Keys(build)
    BY UseInBuild DEF UsageInv, Types
  <1>2. /\ \A g \in Callers : g # h => call'[g] = call[g]
        /\ call'[h].at = "building" /\ call'[h].use = call[h].use
    BY DEF OwnCall, MovesTo
  <1>3. \A g \in Callers : KeyOf(call[g].use)' = KeyOf(call[g].use)
    BY <1>0, <1>2, SameKey
  <1>4. ASSUME NEW g \in Callers, g # h, call[g].at \in {"building", "connect", "opening", "using"}
        PROVE  KeyOf(call[g].use) # k /\ KeyOf(call[g].use) \in Keys(build)
    BY <1>4, UseInBuild DEF OnceInv, PastOnce
  <1> HIDE DEF k
  <1>5. BuiltOnce'
    BY <1>2, <1>3, <1>4 DEF OnceInv, BuiltOnce, k
  <1>6. PastOnce'
    <2> SUFFICES ASSUME NEW g \in Callers
                 PROVE  /\ call'[g].at = "building" => once'[KeyOf(call[g].use)] = "building"
                        /\ call'[g].at \in {"connect", "opening", "using"} =>
                               once'[KeyOf(call[g].use)] \in {"ok", "closed"}
      BY <1>3 DEF PastOnce
    <2>1. CASE g = h
      BY <1>1, <1>2, <2>1 DEF k
    <2>2. CASE g # h
      BY <1>1, <1>2, <1>4, <2>2 DEF OnceInv, PastOnce, k
    <2> QED  BY <2>1, <2>2
  <1>7. MadeForUse'
    <2> SUFFICES ASSUME NEW u \in Uses, phase # "registering",
                        u.r \in Resources(build), u.read \in BOOLEAN,
                        handles[u.r] \in {"aws", "local"},
                        once'[KeyOf(u)] \in {"ok", "closed"}
                 PROVE  made[KeyOf(u)] = What(u).endpoint
      BY <1>0, FixedKeys DEF MadeForUse
    <2>1. KeyOf(u) \in Keys(build)
      BY KeyOfUse
    <2>2. once[KeyOf(u)] \in {"ok", "closed"}
      BY <1>1, <2>1 DEF k
    <2> QED  BY <2>2 DEF OnceInv, MadeForUse
  <1> QED  BY <1>5, <1>6, <1>7 DEF OnceInv

LEMMA BuildKeepsOnce == ASSUME UsageInv, OnceInv, NEW h \in Callers, Build(h) PROVE OnceInv'
  <1> DEFINE k == KeyOf(call[h].use)
             w == call[h].use
  <1>0. /\ UNCHANGED <<build, handles, phase>> /\ OwnCall(h) /\ call[h].at = "building"
        /\ \A x \in Keys(build) : x # Session /\ x # k => once'[x] = once[x]
        /\ \/ /\ once'[k] = "ok" /\ MovesTo(h, "connect")
              /\ made' = [made EXCEPT ![k] = What(w).endpoint]
           \/ once'[k] = "failed" /\ call'[h] = Idle /\ made' = made
    BY BuildSteps DEF Frame
  <1>1. /\ k \in Keys(build) /\ DOMAIN made = Keys(build)
        /\ w.read \in BOOLEAN /\ handles[w.r] \in {"aws", "local"}
    BY <1>0, UseInBuild DEF UsageInv, Types
  <1>2. /\ \A g \in Callers : g # h => call'[g] = call[g]
        /\ \/ call'[h].at = "connect" /\ call'[h].use = call[h].use /\ once'[k] = "ok"
           \/ call'[h].at = "idle"
    BY <1>0 DEF OwnCall, MovesTo, Idle
  <1>3. \A g \in Callers : call'[g].at # "idle" => KeyOf(call[g].use)' = KeyOf(call[g].use)
    BY <1>0, <1>2, SameKey
  <1>4. ASSUME NEW g \in Callers, g # h, call[g].at \in {"building", "connect", "opening", "using"}
        PROVE  once'[KeyOf(call[g].use)] = once[KeyOf(call[g].use)]
    <2>1. KeyOf(call[g].use) \in Keys(build) /\ KeyOf(call[g].use) # Session
      BY <1>4, UseInBuild
    <2>2. once[k] = "building"
      BY <1>0 DEF OnceInv, PastOnce
    <2>3. KeyOf(call[g].use) # k
      BY <1>0, <1>4, <2>2 DEF OnceInv, PastOnce, BuiltOnce
    <2> QED  BY <1>0, <2>1, <2>3
  <1>5. BuiltOnce'
    BY <1>2, <1>3 DEF OnceInv, BuiltOnce
  <1>6. PastOnce'
    <2> SUFFICES ASSUME NEW g \in Callers, call'[g].at # "idle"
                 PROVE  /\ call'[g].at = "building" => once'[KeyOf(call[g].use)] = "building"
                        /\ call'[g].at \in {"connect", "opening", "using"} =>
                               once'[KeyOf(call[g].use)] \in {"ok", "closed"}
      BY <1>3 DEF PastOnce
    <2>1. CASE g = h
      BY <1>2, <2>1
    <2>2. CASE g # h
      BY <1>2, <1>4, <2>2 DEF OnceInv, PastOnce
    <2> QED  BY <2>1, <2>2
  <1>7. MadeForUse'
    <2> SUFFICES ASSUME NEW u \in Uses, phase # "registering",
                        u.r \in Resources(build), u.read \in BOOLEAN,
                        handles[u.r] \in {"aws", "local"},
                        once'[KeyOf(u)] \in {"ok", "closed"}
                 PROVE  made'[KeyOf(u)] = What(u).endpoint
      BY <1>0, FixedKeys DEF MadeForUse
    <2>1. KeyOf(u) \in Keys(build) /\ KeyOf(u) # Session
      BY KeyOfUse
    <2>2. CASE KeyOf(u) = k
      <3>1. What(u).endpoint = What(w).endpoint
        BY <1>1, <2>2, SharedKeySharedEndpoint
      <3>2. made'[k] = What(w).endpoint
        BY <1>0, <1>1, <2>2
      <3> QED  BY <2>2, <3>1, <3>2
    <2>3. CASE KeyOf(u) # k
      <3>1. once[KeyOf(u)] \in {"ok", "closed"}
        BY <1>0, <2>1, <2>3
      <3>2. made[KeyOf(u)] = What(u).endpoint
        BY <3>1 DEF OnceInv, MadeForUse
      <3>3. made'[KeyOf(u)] = made[KeyOf(u)]
        BY <1>0, <1>1, <2>1, <2>3
      <3> QED  BY <3>2, <3>3
    <2> QED  BY <2>2, <2>3
  <1> QED  BY <1>5, <1>6, <1>7 DEF OnceInv

(* The other steps of a caller build nothing.                              *)
LEMMA UseBuildsNothing ==
    ASSUME UsageInv, OnceInv, NEW h \in Callers, Frame, made' = made, OwnCall(h),
           call'[h].at # "building",
           call'[h].at \in {"connect", "opening", "using"} =>
               /\ call[h].at # "idle" /\ call'[h].use = call[h].use
               /\ \/ call[h].at \in {"connect", "opening", "using"}
                  \/ once[KeyOf(call[h].use)] \in {"ok", "closed"},
           \A k \in Keys(build) :
               k = Session \/ (\E r : k = SettingsOf(r)) \/ once'[k] = once[k]
    PROVE  OnceInv'
  <1>1. UNCHANGED <<build, handles, phase>> /\ \A g \in Callers : g # h => call'[g] = call[g]
    BY DEF Frame, OwnCall
  <1>2. \A g \in Callers : call'[g].at = "building" =>
               call[g].at = "building" /\ call'[g].use = call[g].use
    BY <1>1
  <1>3. \A g \in Callers : call'[g].at \in {"connect", "opening", "using"} =>
               /\ call[g].at # "idle" /\ call'[g].use = call[g].use
               /\ \/ call[g].at \in {"connect", "opening", "using"}
                  \/ once[KeyOf(call[g].use)] \in {"ok", "closed"}
    BY <1>1
  <1>4. \A k \in Keys(build) :
               \/ k = Session \/ (\E r : k = SettingsOf(r))
               \/ once'[k] = once[k] \/ (once[k] = "ok" /\ once'[k] = "closed")
    OBVIOUS
  <1>5. phase' = "registering" \/ phase # "registering"
    BY <1>1
  <1> QED  BY <1>1, <1>2, <1>3, <1>4, <1>5, NothingBuilt

LEMMA OnceUse == ASSUME UsageInv, OnceInv, NEW h \in Callers, Use(h) PROVE OnceInv'
  <1>0. Types
    BY DEF UsageInv
  <1>1. CASE Begin(h)
    <2>1. /\ Frame /\ UNCHANGED <<once, made>> /\ OwnCall(h)
          /\ call'[h].at \in {"settings", "enter"}
      BY <1>0, <1>1, BeginSteps DEF Stays
    <2> QED  BY <2>1, UseBuildsNothing
  <1>2. CASE ConnectionSettings(h)
    <2>1. /\ Frame /\ made' = made /\ OwnCall(h)
          /\ call'[h] = Idle \/ MovesTo(h, "enter")
          /\ \A k \in Keys(build) :
               k = Session \/ (\E r : k = SettingsOf(r)) \/ once'[k] = once[k]
      BY <1>0, <1>2, SettingsSteps
    <2>2. call'[h].at \in {"idle", "enter"}
      BY <2>1 DEF MovesTo, Idle
    <2> QED  BY <2>1, <2>2, UseBuildsNothing
  <1>3. CASE Enter(h)
    <2> DEFINE k == KeyOf(call[h].use)
    <2>1. /\ Frame /\ made' = made /\ OwnCall(h) /\ call[h].at = "enter"
          /\ \/ /\ once[k] = "new" /\ once' = [once EXCEPT ![k] = "building"]
                /\ MovesTo(h, "building")
             \/ once' = once /\ call'[h] = Idle
             \/ once' = once /\ once[k] \in {"ok", "closed"} /\ MovesTo(h, "connect")
      BY <1>3, EnterSteps
    <2>2. CASE /\ once[k] = "new" /\ once' = [once EXCEPT ![k] = "building"]
               /\ MovesTo(h, "building")
      BY <2>1, <2>2, EnterBuilds
    <2>3. CASE once' = once /\ call'[h] = Idle
      <3>1. call'[h].at = "idle"
        BY <2>3 DEF Idle
      <3> QED  BY <2>1, <2>3, <3>1, UseBuildsNothing
    <2>4. CASE once' = once /\ once[k] \in {"ok", "closed"} /\ MovesTo(h, "connect")
      <3>1. call'[h].at = "connect" /\ call'[h].use = call[h].use
        BY <2>4 DEF MovesTo
      <3> QED  BY <2>1, <2>4, <3>1, UseBuildsNothing
    <2> QED  BY <2>1, <2>2, <2>3, <2>4
  <1>4. CASE Build(h)
    BY <1>4, BuildKeepsOnce
  <1>5. CASE Connect(h)
    <2>1. /\ Frame /\ made' = made /\ OwnCall(h) /\ call[h].at = "connect"
          /\ \A k \in Keys(build) : k = Session \/ once'[k] = once[k]
          /\ MovesTo(h, "using") \/ call'[h] = Idle \/ OpensWith(h)
      BY <1>5, ConnectSteps
    <2>2. \/ call'[h].at = "idle"
          \/ call'[h].at \in {"opening", "using"} /\ call'[h].use = call[h].use
      BY <2>1 DEF MovesTo, Idle, OpensWith
    <2> QED  BY <2>1, <2>2, UseBuildsNothing
  <1>6. CASE Connected(h)
    <2>1. /\ Frame /\ UNCHANGED <<once, made>> /\ OwnCall(h) /\ call[h].at = "opening"
          /\ \/ call'[h] = [at |-> "using", use |-> call[h].use, since |-> 0, signed |-> -1]
             \/ call'[h] = Idle
      BY <1>0, <1>6, ConnectedSteps
    <2>2. call'[h].at = "idle" \/ (call'[h].at = "using" /\ call'[h].use = call[h].use)
      BY <2>1 DEF Idle
    <2> QED  BY <2>1, <2>2, UseBuildsNothing
  <1>7. CASE GiveBack(h)
    <2>1. Frame /\ UNCHANGED <<once, made>> /\ OwnCall(h) /\ call'[h].at = "idle"
      BY <1>0, <1>7, GiveBackSteps DEF Idle
    <2> QED  BY <2>1, UseBuildsNothing
  <1> QED  BY <1>1, <1>2, <1>3, <1>4, <1>5, <1>6, <1>7 DEF Use

LEMMA OnceStep == UsageInv /\ OnceInv /\ [Next]_vars => OnceInv'
  <1> SUFFICES ASSUME UsageInv, OnceInv, [Next]_vars PROVE OnceInv'
    OBVIOUS
  <1>0. Types
    BY DEF UsageInv
  <1>1. ASSUME UNCHANGED call, phase = "registering", UNCHANGED <<build, once>>,
               phase' = "registering" \/ UNCHANGED handles
        PROVE  OnceInv'
    <2>1. \A h \in Callers : call'[h].at = "idle"
      BY <1>1 DEF UsageInv, UsedLater
    <2>2. BuiltOnce' /\ PastOnce'
      BY <2>1 DEF BuiltOnce, PastOnce
    <2>3. ASSUME NEW u \in Uses, phase' # "registering", u.r \in Resources(build), u.read \in BOOLEAN
          PROVE  once'[KeyOf(u)'] = "new"
      <3>1. KeyOf(u)' = KeyOf(u)
        BY <1>1, <2>3, FixedKeys
      <3>2. KeyOf(u) \in Keys(build)
        BY <2>3, KeyOfUse
      <3> QED  BY <1>1, <3>1, <3>2 DEF UsageInv, UsedLater
    <2>4. MadeForUse'
      BY <1>1, <2>3 DEF MadeForUse
    <2> QED  BY <2>2, <2>4 DEF OnceInv
  <1>2. ASSUME UNCHANGED <<build, handles, made, call>>, phase # "registering",
               \A k \in Keys(build) :
                 once'[k] = once[k] \/ (once[k] = "ok" /\ once'[k] = "closed")
        PROVE  OnceInv'
    <2>1. \A h \in Callers : call'[h].at = "building" =>
               call[h].at = "building" /\ call'[h].use = call[h].use
      BY <1>2
    <2>2. \A h \in Callers : call'[h].at \in {"connect", "opening", "using"} =>
               /\ call[h].at # "idle" /\ call'[h].use = call[h].use
               /\ \/ call[h].at \in {"connect", "opening", "using"}
                  \/ once[KeyOf(call[h].use)] \in {"ok", "closed"}
      BY <1>2
    <2> QED  BY <1>2, <2>1, <2>2, NothingBuilt
  <1>3. CASE TakeHandle
    BY <1>0, <1>1, <1>3, TakeHandleSteps
  <1>4. CASE Signal \/ ServeEnds \/ ReleaseExpires \/ RunContext \/ OpenStream \/ FlushTelemetry
    <2>1. UNCHANGED <<build, handles, once, made, call>>
      BY <1>4, ProcessSteps DEF ProcessStep
    <2> QED  BY <1>1, <1>2, <2>1
  <1>5. CASE ReleaseStep
    <2>1. /\ UNCHANGED <<build, handles, made, call>> /\ phase = "releasing"
          /\ \A k \in Keys(build) :
               once'[k] = once[k] \/ (once[k] = "ok" /\ once'[k] = "closed")
      BY <1>0, <1>5, ReleaseSteps
    <2> QED  BY <1>2, <2>1
  <1>6. CASE Tick \/ UNCHANGED vars
    <2>1. UNCHANGED <<build, handles, once, made, call>>
      BY <1>6 DEF Tick, vars, registration, usage
    <2> QED  BY <1>1, <1>2, <2>1
  <1>7. CASE \E h \in Callers : Use(h)
    BY <1>7, OnceUse
  <1> QED  BY <1>3, <1>4, <1>5, <1>6, <1>7 DEF Next

(* What an endpoint says is what was recorded.                             *)
EndpointAsRecorded(rec, read) ==
    LET m == Endpoint(rec, read) IN
    /\ m.region = IF rec.region = Absent THEN Home ELSE rec.region
    /\ m.iam => m.encrypted
    /\ m.host = IF read /\ rec.readHost # Absent THEN rec.readHost ELSE rec.host

LEMMA EndpointFields == ASSUME NEW rec, NEW read PROVE EndpointAsRecorded(rec, read)
  <1> DEFINE m == Endpoint(rec, read)
  <1>1. /\ m.region = RegionOf(rec) /\ m.host = PoolHost(rec, read)
    BY DEF Endpoint
  <1>2. m.iam = IsIAM(rec) /\ m.encrypted = Encrypted(rec)
    BY DEF Endpoint
  <1> HIDE DEF m
  <1>3. m.iam => m.encrypted
    BY <1>2, Zenon DEF Encrypted
  <1> QED  BY <1>1, <1>3 DEF EndpointAsRecorded, RegionOf, PoolHost, Optional, m

(* For every build and however its clients, pools and settings are shared  *)
(* and raced for: a caller reaches its resource in the region, at the host *)
(* and with the encryption the deployment recorded (clients.go, Get;       *)
(* sqldatabase.go, Reader; redis/connection.go).                           *)
THEOREM CallersReachWhatWasRecorded == Spec => []ReachedAsRecorded
  <1>1. Init => OnceInv
    BY DEF Init, OnceInv, BuiltOnce, PastOnce, MadeForUse, Idle
  <1>2. UsageInv /\ OnceInv => ReachedAsRecorded
    <2> SUFFICES ASSUME UsageInv, OnceInv, NEW h \in Callers, call[h].at \in {"opening", "using"},
                        handles[call[h].use.r] = "aws"
                 PROVE  LET u == call[h].use
                            rec == build.record[u.r]
                            m == made[KeyOf(u)]
                        IN  /\ m.region = IF rec.region = Absent THEN Home ELSE rec.region
                            /\ m.iam => m.encrypted
                            /\ rec.kind = "sqlDatabase" =>
                                 /\ ~u.read \/ rec.readHost = Absent => m.host = rec.host
                                 /\ u.read /\ rec.readHost # Absent => m.host = rec.readHost
                            /\ rec.kind = "cache" => m = Connection(rec)
      BY DEF ReachedAsRecorded
    <2> DEFINE u == call[h].use
               rec == build.record[u.r]
    <2>1. /\ u \in Uses /\ u.r \in Resources(build) /\ u.read \in BOOLEAN
          /\ handles[u.r] \in {"aws", "local"}
      BY UseInBuild
    <2>2. phase # "registering" /\ once[KeyOf(u)] \in {"ok", "closed"}
      BY DEF UsageInv, UsedLater, OnceInv, PastOnce
    <2>3. made[KeyOf(u)] = What(u).endpoint
      BY <2>1, <2>2 DEF OnceInv, MadeForUse
    <2>4. ByKind(u)
      BY KeyAndBuild
    <2>5. CASE rec.kind = "sqlDatabase"
      <3>1. What(u).endpoint = Endpoint(rec, u.read)
        BY <2>4, <2>5 DEF ByKind, BuildPool
      <3>2. EndpointAsRecorded(rec, u.read)
        BY EndpointFields
      <3> QED  BY <2>1, <2>3, <2>5, <3>1, <3>2 DEF EndpointAsRecorded
    <2>6. CASE rec.kind = "cache"
      <3>1. What(u) = BuildCache(rec)
        BY <2>4, <2>6 DEF ByKind
      <3>2. BuildCache(rec).endpoint = Endpoint(rec, FALSE)
        BY DEF BuildCache
      <3>3. EndpointAsRecorded(rec, FALSE) /\ Endpoint(rec, FALSE) = Connection(rec)
        BY EndpointFields, Zenon DEF Endpoint, Connection, PoolHost
      <3> QED  BY <2>3, <2>6, <3>1, <3>2, <3>3 DEF EndpointAsRecorded
    <2>7. CASE rec.kind \notin {"sqlDatabase", "cache"}
      <3>1. What(u).endpoint = ConfigFor(rec.region)
        BY <2>4, <2>7 DEF ByKind, BuildClient, KeyFor
      <3> QED  BY <2>3, <2>7, <3>1 DEF ConfigFor, Optional
    <2> QED  BY <2>5, <2>6, <2>7
  <1> QED  BY <1>1, <1>2, OnceStep, UsageAlways, PTL DEF Spec


-----------------------------------------------------------------------------
(* Lists: positions put in order, what stands at them, and lists put one   *)
(* after the other.                                                        *)

LEMMA Least ==
    ASSUME NEW S \in SUBSET Nat, S # {}
    PROVE  \E m \in S : \A x \in S : m <= x
  <1>1. PICK m \in S : \A x \in S : ~ (<<x, m>> \in OpToRel(<, Nat))
    BY WFMin, NatLessThanWellFounded, Zenon
  <1>2. \A x \in S : ~ (x < m)
    BY <1>1 DEF OpToRel
  <1> QED BY <1>2

(* That a set of positions can be put in order, by induction over its      *)
(* size: a set as small as can be that cannot would have a least element,  *)
(* and could be put in order once the rest of it was.                      *)
Orders(S) ==
    {s \in [1 .. Cardinality(S) -> S] : \A i, j \in DOMAIN s : i < j => s[i] < s[j]}

LEMMA OrderExists ==
    ASSUME NEW S \in SUBSET Nat, IsFiniteSet(S)
    PROVE  Orders(S) # {}
  <1> DEFINE Bad == {n \in Nat : \E T \in SUBSET Nat :
                                    IsFiniteSet(T) /\ Cardinality(T) = n /\ Orders(T) = {}}
  <1>1. ASSUME Bad # {} PROVE FALSE
    <2>1. PICK n \in Bad : \A x \in Bad : n <= x
      <3>1. Bad \in SUBSET Nat
        OBVIOUS
      <3> HIDE DEF Bad
      <3> QED BY <1>1, <3>1, Least
    <2>2. PICK T \in SUBSET Nat : IsFiniteSet(T) /\ Cardinality(T) = n /\ Orders(T) = {}
      BY <2>1
    <2>3. CASE T = {}
      <3>1. Cardinality(T) = 0 /\ 1 .. 0 = {}
        BY <2>3, FS_EmptySet
      <3>2. [x \in {} |-> x] \in [{} -> T]
        BY <2>3
      <3>3. [x \in {} |-> x] \in Orders(T)
        BY <3>1, <3>2 DEF Orders
      <3> QED BY <3>3, <2>2
    <2>4. CASE T # {}
      <3>1. PICK m \in T : \A x \in T : m <= x
        BY <2>4, Least
      <3> DEFINE U == T \ {m}
      <3>2. U \in SUBSET Nat /\ IsFiniteSet(U) /\ Cardinality(U) = n - 1
        BY <2>2, <3>1, FS_RemoveElement
      <3>3. n \in Nat /\ Cardinality(U) \in Nat
        BY <2>1, <3>2, FS_CardinalityType
      <3>4. n - 1 \notin Bad
        BY <2>1, <3>2, <3>3
      <3>5. Orders(U) # {}
        BY <3>2, <3>3, <3>4
      <3>6. PICK s \in [1 .. (n - 1) -> U] : \A i, j \in 1 .. (n - 1) : i < j => s[i] < s[j]
        BY <3>2, <3>5 DEF Orders
      <3> DEFINE t == [i \in 1 .. n |-> IF i = 1 THEN m ELSE s[i - 1]]
      <3>7. \A i \in 1 .. n : i # 1 => i - 1 \in 1 .. (n - 1) /\ s[i - 1] \in U
        BY <3>2, <3>3, <3>6
      <3>8. t \in [1 .. n -> T]
        BY <3>1, <3>7
      <3>9. ASSUME NEW i \in 1 .. n, NEW j \in 1 .. n, i < j PROVE t[i] < t[j]
        <4>1. j # 1 /\ j - 1 \in 1 .. (n - 1) /\ s[j - 1] \in U /\ t[j] = s[j - 1]
          BY <3>3, <3>7, <3>9
        <4>2. CASE i = 1
          <5>1. t[i] = m /\ m <= s[j - 1] /\ m # s[j - 1]
            BY <3>1, <4>1, <4>2
          <5>2. m \in Nat /\ s[j - 1] \in Nat
            BY <2>2, <3>1, <4>1
          <5> QED BY <4>1, <5>1, <5>2
        <4>3. CASE i # 1
          <5>1. i - 1 \in 1 .. (n - 1) /\ t[i] = s[i - 1] /\ i - 1 < j - 1
            BY <3>3, <3>7, <3>9, <4>3
          <5> QED BY <3>6, <4>1, <5>1
        <4> QED BY <4>2, <4>3
      <3>10. DOMAIN t = 1 .. n
        OBVIOUS
      <3> HIDE DEF t
      <3>11. t \in Orders(T)
        BY <2>2, <3>8, <3>9, <3>10 DEF Orders
      <3> QED BY <3>11, <2>2
    <2> QED BY <2>3, <2>4
  <1>2. Cardinality(S) \in Nat
    BY FS_CardinalityType
  <1> QED BY <1>1, <1>2

LEMMA InOrderIs ==
    ASSUME NEW S \in SUBSET Nat, IsFiniteSet(S)
    PROVE  /\ Cardinality(S) \in Nat
           /\ InOrder(S) \in [1 .. Cardinality(S) -> S]
           /\ {InOrder(S)[i] : i \in 1 .. Cardinality(S)} = S
           /\ \A i, j \in 1 .. Cardinality(S) : i < j => InOrder(S)[i] < InOrder(S)[j]
  <1> DEFINE n == Cardinality(S)
             s == InOrder(S)
  <1>1. n \in Nat
    BY FS_CardinalityType
  <1> HIDE DEF n
  <1>2. s \in [1 .. n -> S] /\ \A i, j \in 1 .. n : i < j => s[i] < s[j]
    <2>1. \E x \in [1 .. n -> S] : \A i, j \in DOMAIN x : i < j => x[i] < x[j]
      BY OrderExists DEF Orders, n
    <2> QED BY <2>1 DEF InOrder, n
  <1> HIDE DEF s
  <1>3. s \in Injection(1 .. n, S)
    <2>1. ASSUME NEW i \in 1 .. n, NEW j \in 1 .. n, s[i] = s[j] PROVE i = j
      <3>1. s[i] \in S /\ s[i] \in Nat
        BY <1>2
      <3>2. ~ (s[i] < s[j]) /\ ~ (s[j] < s[i])
        BY <2>1, <3>1
      <3>3. ~ (i < j) /\ ~ (j < i)
        BY <1>2, <3>2
      <3>4. i \in Int /\ j \in Int
        BY <1>1
      <3> QED BY <3>3, <3>4
    <2> QED BY <1>2, <2>1 DEF Injection, IsInjective
  <1>4. IsFiniteSet(1 .. n) /\ Cardinality(1 .. n) = n
    BY <1>1, FS_Interval
  <1>5. s \in Surjection(1 .. n, S)
    BY <1>3, <1>4, FS_Injection DEF n
  <1>6. {s[i] : i \in 1 .. n} = S
    BY <1>2, <1>5 DEF Surjection
  <1> QED BY <1>1, <1>2, <1>6 DEF s, n

LEMMA AtPlacesIs ==
    ASSUME NEW S, NEW list \in Seq(S), NEW places \in SUBSET DOMAIN list
    PROVE  /\ AtPlaces(list, places) \in Seq(S)
           /\ ToSet(AtPlaces(list, places)) = {list[i] : i \in places}
  <1> DEFINE n == Cardinality(places)
             q == InOrder(places)
             part == AtPlaces(list, places)
  <1>1. DOMAIN list = 1 .. Len(list) /\ Len(list) \in Nat /\ \A i \in DOMAIN list : list[i] \in S
    OBVIOUS
  <1>2. places \in SUBSET Nat /\ IsFiniteSet(places)
    <2>1. IsFiniteSet(1 .. Len(list))
      BY <1>1, FS_Interval
    <2> QED  BY <1>1, <2>1, FS_Subset
  <1>3. n \in Nat /\ q \in [1 .. n -> places] /\ {q[p] : p \in 1 .. n} = places
    BY <1>2, InOrderIs
  <1> HIDE DEF n
  <1>4. part = [p \in 1 .. n |-> list[q[p]]]
    BY <1>3 DEF AtPlaces
  <1> HIDE DEF q, part
  <1>5. \A p \in 1 .. n : list[q[p]] \in S
    BY <1>1, <1>3
  <1>6. part \in Seq(S)
    BY <1>3, <1>4, <1>5
  <1>7. ToSet(part) = {list[i] : i \in places}
    BY <1>3, <1>4 DEF ToSet
  <1> QED  BY <1>6, <1>7 DEF part

LEMMA ToSetConcat ==
    ASSUME NEW S, NEW s \in Seq(S), NEW t \in Seq(S)
    PROVE  s \o t \in Seq(S) /\ ToSet(s \o t) = ToSet(s) \cup ToSet(t)
  <1>1. /\ s \o t \in Seq(S) /\ Len(s \o t) = Len(s) + Len(t)
        /\ \A i \in 1 .. Len(s) + Len(t) :
              (s \o t)[i] = IF i <= Len(s) THEN s[i] ELSE t[i - Len(s)]
    OBVIOUS
  <1>2. Len(s) \in Nat /\ Len(t) \in Nat /\ DOMAIN s = 1 .. Len(s) /\ DOMAIN t = 1 .. Len(t)
        /\ DOMAIN (s \o t) = 1 .. Len(s) + Len(t)
    BY <1>1
  <1>3. ASSUME NEW x \in ToSet(s) PROVE x \in ToSet(s \o t)
    <2>1. PICK i \in DOMAIN s : s[i] = x
      BY <1>3 DEF ToSet
    <2>2. i \in 1 .. Len(s) + Len(t) /\ (s \o t)[i] = x
      BY <1>1, <1>2, <2>1
    <2> QED  BY <1>2, <2>2 DEF ToSet
  <1>4. ASSUME NEW x \in ToSet(t) PROVE x \in ToSet(s \o t)
    <2>1. PICK i \in DOMAIN t : t[i] = x
      BY <1>4 DEF ToSet
    <2>2. Len(s) + i \in 1 .. Len(s) + Len(t) /\ (s \o t)[Len(s) + i] = x
      BY <1>1, <1>2, <2>1
    <2> QED  BY <1>2, <2>2 DEF ToSet
  <1>5. ASSUME NEW x \in ToSet(s \o t) PROVE x \in ToSet(s) \cup ToSet(t)
    <2>1. PICK i \in 1 .. Len(s) + Len(t) : (s \o t)[i] = x
      BY <1>2, <1>5 DEF ToSet
    <2>2. CASE i <= Len(s)
      BY <1>1, <1>2, <2>1, <2>2 DEF ToSet
    <2>3. CASE ~(i <= Len(s))
      <3>1. i - Len(s) \in DOMAIN t /\ t[i - Len(s)] = x
        BY <1>1, <1>2, <2>1, <2>3
      <3> QED  BY <3>1 DEF ToSet
    <2> QED  BY <2>2, <2>3
  <1> QED  BY <1>1, <1>3, <1>4, <1>5

(* Flattening is a recursive function over the places of the list: that    *)
(* there is one, and what it holds, go by induction over the places.       *)
Flattens(ss, n, f) == f = [i \in 1 .. n |-> IF i = 1 THEN ss[i] ELSE f[i - 1] \o ss[i]]

LEMMA FlattensExists ==
    ASSUME NEW ss, NEW n \in Nat
    PROVE  \E f : Flattens(ss, n, f)
  <1> DEFINE Bad == {k \in Nat : ~ \E f : Flattens(ss, k, f)}
  <1>1. ASSUME Bad # {} PROVE FALSE
    <2>1. PICK k \in Bad : \A x \in Bad : k <= x
      <3>1. Bad \in SUBSET Nat
        OBVIOUS
      <3> HIDE DEF Bad
      <3> QED  BY <1>1, <3>1, Least
    <2>2. k \in Nat
      BY <2>1
    <2>3. k # 0
      <3>1. Flattens(ss, 0, [i \in {} |-> i])
        <4>1. 1 .. 0 = {}
          OBVIOUS
        <4> QED  BY <4>1 DEF Flattens
      <3> QED  BY <2>1, <3>1
    <2>4. k - 1 \in Nat /\ k - 1 \notin Bad
      BY <2>1, <2>2, <2>3
    <2>5. PICK g : Flattens(ss, k - 1, g)
      BY <2>4
    <2> DEFINE f == [i \in 1 .. k |-> IF i = 1 THEN ss[i]
                                      ELSE IF i = k THEN g[k - 1] \o ss[i] ELSE g[i]]
    <2>6. \A i \in 1 .. (k - 1) : f[i] = g[i]
      <3>1. \A i \in 1 .. (k - 1) : g[i] = IF i = 1 THEN ss[i] ELSE g[i - 1] \o ss[i]
        BY <2>5 DEF Flattens
      <3> QED  BY <2>2, <3>1
    <2>7. \A i \in 1 .. k : f[i] = IF i = 1 THEN ss[i] ELSE f[i - 1] \o ss[i]
      <3> SUFFICES ASSUME NEW i \in 1 .. k, i # 1 PROVE f[i] = f[i - 1] \o ss[i]
        OBVIOUS
      <3>1. i - 1 \in 1 .. (k - 1)
        BY <2>2
      <3>2. CASE i = k
        <4>1. f[i] = g[k - 1] \o ss[i] /\ f[i - 1] = g[i - 1]
          BY <2>6, <3>1, <3>2
        <4> QED  BY <3>2, <4>1
      <3>3. CASE i # k
        <4>1. i \in 1 .. (k - 1)
          BY <2>2, <3>3
        <4>2. g[i] = g[i - 1] \o ss[i]
          BY <2>5, <4>1 DEF Flattens
        <4> QED  BY <2>6, <3>1, <4>1, <4>2
      <3> QED  BY <3>2, <3>3
    <2>8. f = [i \in 1 .. k |-> IF i = 1 THEN ss[i] ELSE f[i - 1] \o ss[i]]
      <3>1. f = [i \in 1 .. k |-> f[i]]
        OBVIOUS
      <3> HIDE DEF f
      <3> QED  BY <2>7, <3>1
    <2> HIDE DEF f
    <2>9. Flattens(ss, k, f)
      BY <2>8 DEF Flattens
    <2> QED  BY <2>1, <2>9
  <1> QED  BY <1>1

LEMMA FlattenIs ==
    ASSUME NEW S, NEW ss \in Seq(Seq(S))
    PROVE  /\ FlattenSeq(ss) \in Seq(S)
           /\ ToSet(FlattenSeq(ss)) = UNION {ToSet(ss[i]) : i \in DOMAIN ss}
  <1> DEFINE n == Len(ss)
  <1>1. n \in Nat /\ DOMAIN ss = 1 .. n /\ \A i \in 1 .. n : ss[i] \in Seq(S)
    OBVIOUS
  <1>2. CASE n = 0
    <2>1. FlattenSeq(ss) = ss /\ ss = <<>> /\ DOMAIN ss = {}
      BY <1>2 DEF FlattenSeq
    <2>2. ToSet(<<>>) = {}
      BY DEF ToSet
    <2> QED  BY <2>1, <2>2
  <1>3. CASE n # 0
    <2> DEFINE g == CHOOSE f : Flattens(ss, n, f)
    <2>1. FlattenSeq(ss) = g[n]
      BY <1>3 DEF FlattenSeq, Flattens
    <2>2. Flattens(ss, n, g)
      <3>1. \E f : Flattens(ss, n, f)
        BY <1>1, FlattensExists
      <3> QED  BY <3>1, Zenon
    <2> HIDE DEF g, n
    <2>3. \A i \in 1 .. n : g[i] = IF i = 1 THEN ss[i] ELSE g[i - 1] \o ss[i]
      BY <2>2 DEF Flattens
    <2> DEFINE Good(i) == g[i] \in Seq(S) /\ ToSet(g[i]) = UNION {ToSet(ss[j]) : j \in 1 .. i}
               Bad == {i \in 1 .. n : ~ Good(i)}
    <2>4. ASSUME Bad # {} PROVE FALSE
      <3>1. PICK k \in Bad : \A x \in Bad : k <= x
        <4>1. Bad \in SUBSET Nat
          BY <1>1
        <4> HIDE DEF Bad
        <4> QED  BY <2>4, <4>1, Least
      <3>2. k \in 1 .. n /\ ~ Good(k)
        BY <3>1
      <3>3. CASE k = 1
        <4>1. g[1] = ss[1] /\ g[1] \in Seq(S)
          BY <1>1, <2>3, <3>2, <3>3
        <4>2. {ToSet(ss[j]) : j \in 1 .. 1} = {ToSet(ss[1])}
          OBVIOUS
        <4> QED  BY <3>2, <3>3, <4>1, <4>2
      <3>4. CASE k # 1
        <4>0. k \in Nat /\ n \in Nat /\ k - 1 \in 1 .. n /\ ~ (k <= k - 1)
          BY <1>1, <3>2, <3>4
        <4>1. k - 1 \in 1 .. n /\ k - 1 \notin Bad
          <5> HIDE DEF Bad
          <5> QED  BY <3>1, <4>0
        <4>2. Good(k - 1)
          BY <4>1
        <4>3. g[k] = g[k - 1] \o ss[k] /\ ss[k] \in Seq(S) /\ g[k - 1] \in Seq(S)
          BY <1>1, <2>3, <3>2, <3>4, <4>2
        <4>4. g[k] \in Seq(S) /\ ToSet(g[k]) = ToSet(g[k - 1]) \cup ToSet(ss[k])
          <5>1. g[k - 1] \o ss[k] \in Seq(S)
            BY <4>3
          <5> QED  BY <4>3, <5>1, ToSetConcat
        <4>5. 1 .. k = (1 .. (k - 1)) \cup {k}
          BY <1>1, <3>2, <3>4
        <4>6. UNION {ToSet(ss[j]) : j \in 1 .. k}
                = (UNION {ToSet(ss[j]) : j \in 1 .. (k - 1)}) \cup ToSet(ss[k])
          BY <4>5
        <4> QED  BY <3>2, <4>2, <4>4, <4>6
      <3> QED  BY <3>3, <3>4
    <2>5. n \in 1 .. n
      BY <1>1, <1>3 DEF n
    <2>6. Good(n)
      BY <2>4, <2>5
    <2> QED  BY <1>1, <2>1, <2>6 DEF n
  <1> QED  BY <1>2, <1>3

-----------------------------------------------------------------------------
(* What is released: everything a provider the build links answers for.    *)

LEMMA TakenOfIs ==
    ASSUME build \in Builds, NEW kind
    PROVE  /\ TakenOf(kind) \in Seq(Resources(build))
           /\ ToSet(TakenOf(kind))
                = {r \in Resources(build) : handles[r] = "aws" /\ build.record[r].kind = kind}
  <1> DEFINE places == {i \in DOMAIN build.app :
                           build.record[build.app[i]].kind = kind /\ handles[build.app[i]] = "aws"}
  <1>1. build.app \in Seq(DOMAIN build.record)
    BY BuildsAssumption
  <1>2. build.app \in Seq(Resources(build))
    <2>1. Len(build.app) \in Nat /\ build.app = [i \in 1 .. Len(build.app) |-> build.app[i]]
      BY <1>1
    <2>2. \A i \in 1 .. Len(build.app) : build.app[i] \in Resources(build)
      BY <1>1 DEF Resources, ToSet
    <2> QED  BY <2>1, <2>2
  <1>3. TakenOf(kind) = AtPlaces(build.app, places)
    BY Zenon DEF TakenOf
  <1>4. places \in SUBSET DOMAIN build.app
    OBVIOUS
  <1>5. {build.app[i] : i \in places}
          = {r \in Resources(build) : handles[r] = "aws" /\ build.record[r].kind = kind}
    BY DEF Resources, ToSet
  <1> HIDE DEF places
  <1> QED  BY <1>2, <1>3, <1>4, <1>5, AtPlacesIs

LEMMA CachesReleased ==
    ASSUME build \in Builds
    PROVE  /\ ReleaseCaches \in Seq(Keys(build))
           /\ ToSet(ReleaseCaches) = {CacheOf(r) : r \in ToSet(TakenOf("cache"))}
  <1> DEFINE taken == TakenOf("cache")
  <1>1. taken \in Seq(Resources(build))
    BY TakenOfIs
  <1>2. ReleaseCaches = [i \in DOMAIN taken |-> CacheOf(taken[i])]
    BY DEF ReleaseCaches
  <1> HIDE DEF taken
  <1>3. Len(taken) \in Nat /\ DOMAIN taken = 1 .. Len(taken)
        /\ \A i \in DOMAIN taken : taken[i] \in Resources(build)
    BY <1>1
  <1>4. \A r \in Resources(build) : CacheOf(r) \in Keys(build)
    BY DEF Keys
  <1>5. \A i \in 1 .. Len(taken) : CacheOf(taken[i]) \in Keys(build)
    BY <1>3, <1>4
  <1>6. ReleaseCaches \in Seq(Keys(build))
    BY <1>2, <1>3, <1>5
  <1>7. DOMAIN ReleaseCaches = DOMAIN taken /\ \A i \in DOMAIN taken : ReleaseCaches[i] = CacheOf(taken[i])
    BY <1>2
  <1> QED  BY <1>6, <1>7 DEF ToSet, taken

LEMMA DatabasesReleased ==
    ASSUME build \in Builds
    PROVE  /\ ReleaseDatabases \in Seq(Keys(build))
           /\ \A r \in ToSet(TakenOf("sqlDatabase")), read \in BOOLEAN :
                 PoolOf(r, read) \in ToSet(ReleaseDatabases)
  <1> DEFINE dbs == TakenOf("sqlDatabase")
             ss == [i \in DOMAIN dbs |-> <<PoolOf(dbs[i], FALSE), PoolOf(dbs[i], TRUE)>>]
  <1>1. dbs \in Seq(Resources(build))
    BY TakenOfIs
  <1>2. ReleaseDatabases = FlattenSeq(ss)
    BY DEF ReleaseDatabases
  <1> HIDE DEF dbs
  <1>3. Len(dbs) \in Nat /\ DOMAIN dbs = 1 .. Len(dbs)
        /\ \A i \in DOMAIN dbs : dbs[i] \in Resources(build)
    BY <1>1
  <1>4. \A r \in Resources(build), read \in BOOLEAN : PoolOf(r, read) \in Keys(build)
    BY DEF Keys
  <1> DEFINE K == Keys(build)
  <1>5. ASSUME NEW i \in 1 .. Len(dbs)
        PROVE  /\ ss[i] \in Seq(K)
               /\ PoolOf(dbs[i], FALSE) \in ToSet(ss[i]) /\ PoolOf(dbs[i], TRUE) \in ToSet(ss[i])
    <2>1. PoolOf(dbs[i], FALSE) \in K /\ PoolOf(dbs[i], TRUE) \in K
      BY <1>3, <1>4
    <2>2. ss[i] = <<PoolOf(dbs[i], FALSE), PoolOf(dbs[i], TRUE)>>
      BY <1>3
    <2> HIDE DEF K, ss
    <2>3. ASSUME NEW a \in K, NEW b \in K
          PROVE  <<a, b>> \in Seq(K) /\ a \in ToSet(<<a, b>>) /\ b \in ToSet(<<a, b>>)
      <3>1. DOMAIN <<a, b>> = 1 .. 2 /\ <<a, b>>[1] = a /\ <<a, b>>[2] = b
        OBVIOUS
      <3> QED  BY <3>1 DEF ToSet
    <2> QED  BY <2>1, <2>2, <2>3
  <1>6. ss \in Seq(Seq(K)) /\ DOMAIN ss = 1 .. Len(dbs)
    <2>1. ss = [i \in 1 .. Len(dbs) |-> ss[i]]
      BY <1>3
    <2> HIDE DEF ss, K
    <2>2. \A i \in 1 .. Len(dbs) : ss[i] \in Seq(K)
      BY <1>5
    <2> QED  BY <1>3, <2>1, <2>2
  <1> HIDE DEF ss, K
  <1>7. FlattenSeq(ss) \in Seq(K) /\ ToSet(FlattenSeq(ss)) = UNION {ToSet(ss[i]) : i \in DOMAIN ss}
    BY <1>6, FlattenIs
  <1>8. ASSUME NEW r \in ToSet(dbs), NEW read \in BOOLEAN
        PROVE  PoolOf(r, read) \in ToSet(FlattenSeq(ss))
    <2>1. PICK i \in 1 .. Len(dbs) : r = dbs[i]
      BY <1>3 DEF ToSet
    <2>2. PoolOf(r, read) \in ToSet(ss[i])
      BY <1>5, <2>1
    <2> QED  BY <1>6, <1>7, <2>1, <2>2
  <1> QED  BY <1>2, <1>7, <1>8 DEF K, dbs

LEMMA ReleaseIs ==
    ASSUME build \in Builds, HandlesLinked
    PROVE  Release \in Seq(Keys(build)) /\ Owned \subseteq ToSet(Release)
  <1> DEFINE K == Keys(build)
             linked == build.linked
             ss == [i \in DOMAIN linked |-> Holdings(linked[i])]
  <1>1. linked \in Seq({"aws", "local"})
    BY BuildsAssumption
  <1>2. Release = FlattenSeq(ss)
    BY DEF Release
  <1>3. /\ AwsHoldings \in Seq(K)
        /\ ToSet(AwsHoldings) = ToSet(ReleaseCaches) \cup ToSet(ReleaseDatabases)
    BY CachesReleased, DatabasesReleased, ToSetConcat DEF AwsHoldings
  <1>4. LocalHoldings \in Seq(K)
    <2>1. LocalConnection \in K
      BY DEF Keys
    <2> HIDE DEF K
    <2>2. <<LocalConnection>> \in Seq(K) /\ <<>> \in Seq(K)
      BY <2>1
    <2> QED  BY <2>2 DEF LocalHoldings
  <1> HIDE DEF K, linked
  <1>5. Len(linked) \in Nat /\ DOMAIN linked = 1 .. Len(linked)
    BY <1>1
  <1>6. \A i \in 1 .. Len(linked) : Holdings(linked[i]) \in Seq(K)
    BY <1>3, <1>4 DEF Holdings
  <1>7. ss \in Seq(Seq(K)) /\ DOMAIN ss = 1 .. Len(linked)
        /\ \A i \in DOMAIN ss : ss[i] = Holdings(linked[i])
    BY <1>5, <1>6
  <1> HIDE DEF ss
  <1>8. FlattenSeq(ss) \in Seq(K) /\ ToSet(FlattenSeq(ss)) = UNION {ToSet(ss[i]) : i \in DOMAIN ss}
    BY <1>7, FlattenIs
  <1>9. ASSUME NEW p \in ToSet(linked) PROVE ToSet(Holdings(p)) \subseteq ToSet(Release)
    <2>1. PICK i \in DOMAIN ss : p = linked[i] /\ ss[i] = Holdings(p)
      BY <1>5, <1>7, <1>9 DEF ToSet
    <2> QED  BY <1>2, <1>8, <2>1
  <1>10. ASSUME NEW r \in Resources(build), handles[r] = "aws", build.record[r].kind = "cache"
         PROVE  CacheOf(r) \in ToSet(Release)
    <2>1. CacheOf(r) \in ToSet(ReleaseCaches)
      BY <1>10, TakenOfIs, CachesReleased
    <2>2. "aws" \in ToSet(linked)
      BY <1>10 DEF HandlesLinked, linked
    <2> QED  BY <1>3, <1>9, <2>1, <2>2 DEF Holdings
  <1>11. ASSUME NEW r \in Resources(build), handles[r] = "aws", build.record[r].kind = "sqlDatabase",
                NEW read \in BOOLEAN
         PROVE  PoolOf(r, read) \in ToSet(Release)
    <2>1. PoolOf(r, read) \in ToSet(ReleaseDatabases)
      BY <1>11, TakenOfIs, DatabasesReleased
    <2>2. "aws" \in ToSet(linked)
      BY <1>11 DEF HandlesLinked, linked
    <2> QED  BY <1>3, <1>9, <2>1, <2>2 DEF Holdings
  <1>12. ASSUME NEW r \in Resources(build), handles[r] = "local"
         PROVE  LocalConnection \in ToSet(Release)
    <2>1. "local" \in ToSet(linked) /\ build.backends # {}
      BY <1>12 DEF HandlesLinked, linked
    <2>2. Holdings("local") = <<LocalConnection>>
      BY <2>1 DEF Holdings, LocalHoldings
    <2>3. LocalConnection \in ToSet(<<LocalConnection>>)
      BY DEF ToSet
    <2> QED  BY <1>9, <2>1, <2>2, <2>3
  <1>13. Owned \subseteq ToSet(Release)
    BY <1>10, <1>11, <1>12 DEF Owned
  <1> QED  BY <1>2, <1>8, <1>13 DEF K
-----------------------------------------------------------------------------
(* What is open is released, or was opened too late for it.                *)

LEMMA DetectedIsLinked ==
    ASSUME build \in Builds
    PROVE  /\ DetectedProvider # None => DetectedProvider \in ToSet(build.linked)
           /\ FallbackProvider("local") # None => FallbackProvider("local") \in ToSet(build.linked)
  <1> DEFINE linked == build.linked
  <1>1. linked \in Seq({"aws", "local"})
    BY BuildsAssumption
  <1>2. Len(linked) \in Nat /\ \A i \in 1 .. Len(linked) : linked[i] \in ToSet(linked)
    BY <1>1 DEF ToSet
  <1> DEFINE D == {i \in 1 .. Len(linked) : Detect(linked[i])}
             F == {i \in 1 .. Len(linked) : linked[i] # "local"}
  <1>3. /\ D # {} => Min(D) \in 1 .. Len(linked) /\ Min(D) # 0
        /\ F # {} => Min(F) \in 1 .. Len(linked) /\ Min(F) # 0
    <2>1. D \in SUBSET (1 .. Len(linked)) /\ F \in SUBSET (1 .. Len(linked))
      OBVIOUS
    <2> HIDE DEF D, F
    <2>2. /\ D # {} => Min(D) \in D
          /\ F # {} => Min(F) \in F
      BY <1>2, <2>1, LeastPosition
    <2>3. \A m \in 1 .. Len(linked) : m # 0
      BY <1>2
    <2> QED  BY <2>1, <2>2, <2>3
  <1>4. DetectedProvider =
          IF Len(linked) = 1 THEN linked[1]
          ELSE LET first == IF D # {} THEN Min(D) ELSE 0
               IN  IF first = 0 THEN None ELSE linked[first]
    BY Zenon DEF DetectedProvider, SelectInSeq
  <1>5. FallbackProvider("local") =
          LET first == IF F # {} THEN Min(F) ELSE 0
          IN  IF first = 0 THEN None ELSE linked[first]
    BY Zenon DEF FallbackProvider, SelectInSeq
  <1> HIDE DEF D, F, linked
  <1>6. DetectedProvider # None => DetectedProvider \in ToSet(linked)
    BY <1>2, <1>3, <1>4
  <1>7. FallbackProvider("local") # None => FallbackProvider("local") \in ToSet(linked)
    BY <1>2, <1>3, <1>5
  <1> QED  BY <1>6, <1>7 DEF linked

(* Whose handle the provider found answers with, it or the one it          *)
(* delegates to is linked.                                                 *)
LEMMA BuiltByLinked ==
    ASSUME build \in Builds, NEW kind, ProviderFor # None
    PROVE  LET by == BuiltBy(ProviderFor, kind) IN
           /\ by = "aws" => "aws" \in ToSet(build.linked)
           /\ by = "local" =>
                /\ "local" \in ToSet(build.linked)
                /\ kind \in LocalKinds \cap build.backends
  <1>1. ProviderFor \in {"fake", "aws", "local"}
    BY ProviderIsLinked
  <1>2. ProviderFor # "fake" => ProviderFor \in ToSet(build.linked)
    BY DetectedIsLinked DEF ProviderFor
  <1>3. CASE ProviderFor = "fake"
    BY <1>3 DEF BuiltBy
  <1>4. CASE ProviderFor = "aws"
    <2>1. BuiltBy(ProviderFor, kind) \in {"aws", None}
      BY <1>4 DEF BuiltBy
    <2> QED  BY <1>2, <1>4, <2>1 DEF None
  <1>5. CASE ProviderFor = "local"
    <2>1. BuiltBy(ProviderFor, kind) = LocalBuilds(kind)
      BY <1>5 DEF BuiltBy
    <2>2. CASE kind \in LocalKinds
      <3>1. LocalBuilds(kind) = IF kind \in build.backends THEN "local" ELSE None
        BY <2>2 DEF LocalBuilds, LocalBackend
      <3> QED  BY <1>2, <1>5, <2>1, <2>2, <3>1 DEF None
    <2>3. CASE kind \notin LocalKinds
      <3>1. LocalBuilds(kind) = Delegate(kind)
        BY <2>3 DEF LocalBuilds
      <3>2. Delegate(kind) = "aws" => FallbackProvider("local") = "aws"
        BY DEF Delegate, None
      <3>3. Delegate(kind) # "local"
        BY DEF Delegate, None
      <3>4. FallbackProvider("local") = "aws" => "aws" \in ToSet(build.linked)
        BY DetectedIsLinked DEF None
      <3> QED  BY <2>1, <3>1, <3>2, <3>3, <3>4
    <2> QED  BY <2>2, <2>3
  <1> QED  BY <1>1, <1>3, <1>4, <1>5

LEMMA TakeHandleLinked ==
    ASSUME Types, HandlesLinked, TakeHandle
    PROVE  HandlesLinked'
  <1>1. UNCHANGED build /\ DOMAIN handles = Resources(build) /\ build \in Builds
    BY DEF TakeHandle, Types
  <1>2. PICK i \in DOMAIN build.app : Resolve(build.app[i])
    BY Zenon DEF TakeHandle
  <1> DEFINE r == build.app[i]
             kind == build.record[r].kind
             got == IF ProviderFor = None THEN None ELSE BuiltBy(ProviderFor, kind)
             by == IF got = None THEN "nil" ELSE got
  <1>3. handles' = [handles EXCEPT ![r] = by]
    BY <1>2 DEF Resolve
  <1>4. /\ by = "aws" => "aws" \in ToSet(build.linked)
        /\ by = "local" => "local" \in ToSet(build.linked) /\ kind \in LocalKinds \cap build.backends
    <2>1. by \in {"aws", "local"} => ProviderFor # None /\ by = BuiltBy(ProviderFor, kind)
      BY DEF None
    <2> HIDE DEF by, kind
    <2> QED  BY <1>1, <2>1, BuiltByLinked
  <1> HIDE DEF by, got
  <1> SUFFICES ASSUME NEW q \in Resources(build)
               PROVE  /\ handles'[q] = "aws" => "aws" \in ToSet(build.linked)
                      /\ handles'[q] = "local" =>
                           /\ "local" \in ToSet(build.linked)
                           /\ build.record[q].kind \in LocalKinds \cap build.backends
    BY <1>1 DEF HandlesLinked, LocalKinds
  <1>5. CASE q = r
    BY <1>1, <1>3, <1>4, <1>5
  <1>6. CASE q # r
    <2>1. handles'[q] = handles[q]
      BY <1>1, <1>3, <1>6
    <2> QED  BY <2>1 DEF HandlesLinked
  <1> QED  BY <1>5, <1>6

(* What a caller builds is owned.                                          *)
LEMMA UseIsOwned ==
    ASSUME HandlesLinked, NEW u, u.r \in Resources(build), u.read \in BOOLEAN,
           handles[u.r] \in {"aws", "local"}, Holdable(KeyOf(u))
    PROVE  KeyOf(u) \in Owned
  <1> DEFINE rec == build.record[u.r]
  <1>0. ByKind(u)
    BY KeyAndBuild
  <1>1. handles[u.r] = "local" => rec.kind \notin {"sqlDatabase", "cache"}
    BY DEF HandlesLinked, LocalKinds
  <1>2. CASE rec.kind = "sqlDatabase"
    <2>1. KeyOf(u) = PoolOf(u.r, u.read) /\ handles[u.r] = "aws"
      BY <1>0, <1>1, <1>2 DEF ByKind
    <2> QED  BY <1>2, <2>1 DEF Owned
  <1>3. CASE rec.kind = "cache"
    <2>1. KeyOf(u) = CacheOf(u.r) /\ handles[u.r] = "aws"
      BY <1>0, <1>1, <1>3 DEF ByKind
    <2> QED  BY <1>3, <2>1 DEF Owned
  <1>4. CASE rec.kind \notin {"sqlDatabase", "cache"}
    <2>1. KeyOf(u) = IF handles[u.r] = "local" THEN LocalConnection ELSE KeyFor(rec)
      BY <1>0, <1>4 DEF ByKind
    <2>2. ~ Holdable(KeyFor(rec))
      BY DEF Holdable, IsPool, KeyFor
    <2>3. handles[u.r] = "local" /\ KeyOf(u) = LocalConnection
      BY <2>1, <2>2
    <2> QED  BY <2>3 DEF Owned
  <1> QED  BY <1>2, <1>3, <1>4

(* A step of a caller opens at most what the caller is building, and what  *)
(* is opened while the release runs is late.                               *)
LEMMA UseOpens ==
    ASSUME UsageInv, NEW h \in Callers, Use(h)
    PROVE  /\ Frame /\ late \subseteq late'
           /\ \A k \in Keys(build) : Holdable(k) /\ once'[k] = "ok" =>
                \/ once[k] = "ok"
                \/ /\ call[h].at # "idle" /\ k = KeyOf(call[h].use)
                   /\ phase = "releasing" => k \in late'
  <1>0. Types
    BY DEF UsageInv
  <1>1. ~ Holdable(Session) /\ \A r : ~ Holdable(SettingsOf(r))
    BY DEF Holdable, IsPool, Session, SettingsOf
  <1>2. CASE Begin(h)
    <2>1. Frame /\ once' = once
      BY <1>0, <1>2, BeginSteps DEF Stays
    <2>2. late' = late
      BY <1>2 DEF Begin
    <2> QED  BY <2>1, <2>2
  <1>3. CASE ConnectionSettings(h)
    <2>1. /\ Frame
          /\ \A k \in Keys(build) : k # Session /\ k # SettingsOf(call[h].use.r) => once'[k] = once[k]
      BY <1>0, <1>3, SettingsSteps
    <2>2. late' = late
      BY <1>3 DEF ConnectionSettings
    <2> QED  BY <1>1, <2>1, <2>2
  <1>4. CASE Enter(h)
    <2> DEFINE x == KeyOf(call[h].use)
    <2>1. Frame /\ call[h].at = "enter" /\ (once' = once \/ once' = [once EXCEPT ![x] = "building"])
      BY <1>4, EnterSteps
    <2>2. late' = late
      BY <1>4 DEF Enter
    <2> HIDE DEF x
    <2>3. \A k \in Keys(build) : once'[k] = "ok" => once[k] = "ok"
      BY <1>0, <2>1 DEF Types
    <2> QED  BY <2>1, <2>2, <2>3
  <1>5. CASE Build(h)
    <2> DEFINE x == KeyOf(call[h].use)
               what == What(call[h].use)
    <2>1. /\ Frame /\ call[h].at = "building"
          /\ \A k \in Keys(build) : k # Session /\ k # x => once'[k] = once[k]
          /\ once'[x] = "ok" => call'[h].at = "connect"
      <3>1. /\ Frame /\ call[h].at = "building"
            /\ \A k \in Keys(build) : k # Session /\ k # x => once'[k] = once[k]
            /\ (once'[x] = "ok" /\ MovesTo(h, "connect")) \/ once'[x] = "failed"
        BY <1>5, BuildSteps, Zenon
      <3>2. MovesTo(h, "connect") => call'[h].at = "connect"
        BY DEF MovesTo
      <3> HIDE DEF x
      <3> QED  BY <3>1, <3>2
    <2>2. \/ late' = IF phase = "releasing" THEN late \cup {x} ELSE late
          \/ late' = late /\ call' = Give(h)
      BY <1>5 DEF Build, Opens
    <2>3. late \subseteq late'
      BY <2>2
    <2>4. call' = Give(h) => call'[h].at = "idle"
      BY <1>0, CallGiven DEF Idle
    <2>5. once'[x] = "ok" /\ phase = "releasing" => x \in late'
      BY <2>1, <2>2, <2>4
    <2> HIDE DEF x
    <2> QED  BY <1>1, <2>1, <2>3, <2>5 DEF x
  <1>6. CASE Connect(h)
    <2>1. Frame /\ \A k \in Keys(build) : k # Session => once'[k] = once[k]
      BY <1>6, ConnectSteps
    <2>2. late' = late
      BY <1>6 DEF Connect
    <2> QED  BY <1>1, <2>1, <2>2
  <1>7. CASE Connected(h)
    <2>1. Frame /\ once' = once
      BY <1>0, <1>7, ConnectedSteps
    <2>2. late' = late
      BY <1>7 DEF Connected
    <2> QED  BY <2>1, <2>2
  <1>8. CASE GiveBack(h)
    <2>1. Frame /\ once' = once
      BY <1>0, <1>8, GiveBackSteps
    <2>2. late' = late
      BY <1>8 DEF GiveBack
    <2> QED  BY <2>1, <2>2
  <1> QED  BY <1>2, <1>3, <1>4, <1>5, <1>6, <1>7, <1>8 DEF Use

LEMMA HeadAndTail ==
    ASSUME NEW S, NEW s \in Seq(S), s # <<>>
    PROVE  /\ Tail(s) \in Seq(S)
           /\ ToSet(s) = {Head(s)} \cup ToSet(Tail(s))
  <1>1. Len(s) \in Nat /\ Len(s) # 0 /\ DOMAIN s = 1 .. Len(s) /\ Head(s) = s[1]
    OBVIOUS
  <1>2. /\ Tail(s) \in Seq(S) /\ Len(Tail(s)) = Len(s) - 1
        /\ \A i \in 1 .. (Len(s) - 1) : Tail(s)[i] = s[i + 1]
    BY <1>1
  <1>3. DOMAIN Tail(s) = 1 .. (Len(s) - 1)
    BY <1>2
  <1>4. ASSUME NEW x \in ToSet(s), x # Head(s) PROVE x \in ToSet(Tail(s))
    <2>1. PICK i \in 1 .. Len(s) : x = s[i]
      BY <1>1, <1>4 DEF ToSet
    <2>2. i # 1
      BY <1>1, <1>4, <2>1
    <2>3. i - 1 \in 1 .. (Len(s) - 1) /\ (i - 1) + 1 = i
      BY <1>1, <2>2
    <2>4. Tail(s)[i - 1] = x
      BY <1>2, <2>1, <2>3
    <2> QED  BY <1>3, <2>3, <2>4 DEF ToSet
  <1>5. ASSUME NEW x \in ToSet(Tail(s)) PROVE x \in ToSet(s)
    <2>1. PICK i \in 1 .. (Len(s) - 1) : x = Tail(s)[i]
      BY <1>3, <1>5 DEF ToSet
    <2>2. i + 1 \in 1 .. Len(s) /\ s[i + 1] = x
      BY <1>1, <1>2, <2>1
    <2> QED  BY <1>1, <2>2 DEF ToSet
  <1>6. Head(s) \in ToSet(s)
    BY <1>1 DEF ToSet
  <1> QED  BY <1>2, <1>4, <1>5, <1>6

(* A turn of the release gives one holder back or leaves everything open   *)
(* as it is, and it ends with none left.                                   *)
LEMMA ReleaseTurns ==
    ASSUME Types, ReleaseStep
    PROVE  /\ UNCHANGED late
           /\ \/ /\ release = <<>> /\ phase' = "ended" /\ once' = once
              \/ /\ release # <<>> /\ phase' = "releasing"
                 /\ once' = once /\ release' = release
              \/ /\ release # <<>> /\ phase' = "releasing"
                 /\ release' = Tail(release)
                 /\ (once[Head(release)] # "ok" /\ once' = once)
                      \/ once' = [once EXCEPT ![Head(release)] = "closed"]
  <1>1. UNCHANGED late /\ phase = "releasing"
    BY DEF ReleaseStep
  <1>2. CASE release = <<>>
    BY <1>1, <1>2, Zenon DEF ReleaseStep
  <1>3. CASE release # <<>>
    <2> DEFINE k == Head(release)
    <2>1. /\ phase' = phase
          /\ ReleaseSkips(k) \/ ReleaseClient(k) \/ PollPool(k) \/ ClosePool(k) \/ CutPool(k)
      BY <1>3, Zenon DEF ReleaseStep
    <2> HIDE DEF k
    <2>2. \/ once' = once /\ release' = release
          \/ /\ release' = Tail(release)
             /\ (once[k] # "ok" /\ once' = once) \/ once' = [once EXCEPT ![k] = "closed"]
      BY <2>1 DEF ReleaseSkips, ReleaseClient, PollPool, ClosePool, CutPool, Closes, Turn, AfterError
    <2> QED  BY <1>1, <1>3, <2>1, <2>2 DEF k
  <1> QED  BY <1>2, <1>3

(* The handles and the build fix what is owned and how the process runs.   *)
LEMMA FixedOwned ==
    ASSUME UNCHANGED <<build, handles>>
    PROVE  /\ HandlesLinked' <=> HandlesLinked
           /\ Owned' = Owned
           /\ DetectMode' = DetectMode
           /\ Release' = Release
  <1>1. HandlesLinked' <=> HandlesLinked
    BY DEF HandlesLinked, Resources
  <1>2. Owned' = Owned
    BY DEF Owned, Resources
  <1>3. DetectMode' = DetectMode
    BY DEF DetectMode
  <1>4. Release' = Release
    BY DEF Release, Holdings, AwsHoldings, LocalHoldings, ReleaseCaches, ReleaseDatabases, TakenOf
  <1> QED  BY <1>1, <1>2, <1>3, <1>4

LEMMA HeldInit == Init => HeldInv
  BY DEF Init, HeldInv, HandlesLinked, OpenIsOwned, OpenIsReleased

LEMMA HeldStep == UsageInv /\ HeldInv /\ [Next]_vars => HeldInv'
  <1> SUFFICES ASSUME UsageInv, HeldInv, [Next]_vars PROVE HeldInv'
    OBVIOUS
  <1>0. Types /\ build \in Builds /\ DOMAIN once = Keys(build)
        /\ HandlesLinked /\ OpenIsOwned /\ OpenIsReleased
    BY DEF UsageInv, Types, HeldInv
  <1>1. ASSUME UNCHANGED <<build, handles>>,
               \A k \in Keys(build) : Holdable(k) /\ once'[k] = "ok" => once[k] = "ok" \/ k \in Owned
        PROVE  HandlesLinked' /\ OpenIsOwned'
    <2>1. HandlesLinked' /\ Owned' = Owned /\ Keys(build)' = Keys(build)
      BY <1>0, <1>1, FixedOwned
    <2> QED  BY <1>0, <1>1, <2>1 DEF OpenIsOwned
  <1>2. ASSUME UNCHANGED <<build, handles, once, late>>
        PROVE  /\ HandlesLinked' /\ OpenIsOwned'
               /\ UNCHANGED <<phase, release>> => OpenIsReleased'
               /\ phase' \notin {"releasing", "ended"} => OpenIsReleased'
    <2>1. HandlesLinked' /\ OpenIsOwned'
      BY <1>1, <1>2
    <2>2. DetectMode' = DetectMode
      BY <1>2, FixedOwned
    <2>3. UNCHANGED <<phase, release>> => OpenIsReleased'
      BY <1>0, <1>2, <2>2 DEF OpenIsReleased
    <2>4. phase' \notin {"releasing", "ended"} => OpenIsReleased'
      BY DEF OpenIsReleased
    <2> QED  BY <2>1, <2>3, <2>4
  <1>3. CASE TakeHandle
    <2>1. UNCHANGED <<build, phase, once>> /\ phase = "registering"
      BY <1>0, <1>3, TakeHandleSteps
    <2>2. HandlesLinked'
      BY <1>0, <1>3, TakeHandleLinked
    <2>3. OpenIsOwned'
      BY <2>1 DEF OpenIsOwned, UsageInv, UsedLater
    <2>4. OpenIsReleased'
      BY <2>1 DEF OpenIsReleased
    <2> QED  BY <2>2, <2>3, <2>4 DEF HeldInv
  <1>4. CASE Signal \/ ReleaseExpires \/ Tick \/ UNCHANGED vars
    <2>1. UNCHANGED <<build, handles, once, late, phase, release>>
      BY <1>4 DEF Signal, ReleaseExpires, Tick, vars, registration, usage, releasing
    <2> QED  BY <1>2, <2>1 DEF HeldInv
  <1>5. CASE ServeEnds
    <2>1. UNCHANGED <<build, handles, once, late>>
          /\ phase' = IF DetectMode = "serverless" THEN "ended" ELSE "flushing"
      BY <1>5 DEF ServeEnds, usage
    <2>2. DetectMode' = DetectMode
      BY <2>1, FixedOwned
    <2>3. OpenIsReleased'
      BY <2>1, <2>2 DEF OpenIsReleased
    <2> QED  BY <1>2, <2>1, <2>3 DEF HeldInv
  <1>6. CASE RunContext
    <2>1. UNCHANGED <<build, handles, once, late>> /\ phase = "registering" /\ phase' # "releasing"
      BY <1>6 DEF RunContext, usage
    <2>2. \A k \in Keys(build) : once'[k] # "ok"
      BY <2>1 DEF UsageInv, UsedLater
    <2>3. OpenIsReleased'
      BY <2>1, <2>2 DEF OpenIsReleased
    <2> QED  BY <1>2, <2>1, <2>3 DEF HeldInv
  <1>7. CASE OpenStream
    <2>1. UNCHANGED <<build, handles, once, late>> /\ phase' \notin {"releasing", "ended"}
      BY <1>7 DEF OpenStream, usage
    <2> QED  BY <1>2, <2>1 DEF HeldInv
  <1>8. CASE FlushTelemetry
    <2>1. UNCHANGED <<build, handles, once, late>> /\ phase' = "releasing" /\ release' = Release
      BY <1>8 DEF FlushTelemetry, usage, Turn
    <2>2. Release \in Seq(Keys(build)) /\ Owned \subseteq ToSet(Release)
      BY <1>0, ReleaseIs
    <2>3. OpenIsReleased'
      BY <1>0, <2>1, <2>2 DEF OpenIsReleased, OpenIsOwned
    <2> QED  BY <1>2, <2>1, <2>3 DEF HeldInv
  <1>9. CASE ReleaseStep
    <2>1. /\ UNCHANGED <<build, handles, late>> /\ phase = "releasing"
          /\ \A k \in Keys(build) :
               once'[k] = once[k] \/ (once[k] = "ok" /\ once'[k] = "closed")
      BY <1>0, <1>9, ReleaseSteps, ReleaseTurns
    <2>2. HandlesLinked' /\ OpenIsOwned'
      BY <1>1, <2>1
    <2>3. /\ release \in Seq(Keys(build))
          /\ \A k \in Keys(build) : Holdable(k) /\ once[k] = "ok" => k \in ToSet(release) \cup late
      BY <1>0, <2>1 DEF OpenIsReleased
    <2>4. CASE release = <<>>
      <3>1. phase' = "ended" /\ once' = once
        BY <1>0, <1>9, <2>4, ReleaseTurns
      <3>2. ToSet(release) = {}
        BY <2>4 DEF ToSet
      <3>3. OpenIsReleased'
        BY <2>1, <2>3, <3>1, <3>2 DEF OpenIsReleased
      <3> QED  BY <2>2, <3>3 DEF HeldInv
    <2>5. CASE release # <<>> /\ once' = once /\ release' = release /\ phase' = "releasing"
      BY <2>1, <2>2, <2>3, <2>5 DEF OpenIsReleased, HeldInv
    <2>6. CASE /\ release # <<>> /\ phase' = "releasing" /\ release' = Tail(release)
               /\ (once[Head(release)] # "ok" /\ once' = once)
                    \/ once' = [once EXCEPT ![Head(release)] = "closed"]
      <3>1. Tail(release) \in Seq(Keys(build)) /\ ToSet(release) = {Head(release)} \cup ToSet(Tail(release))
        BY <2>3, <2>6, HeadAndTail
      <3>2. \A k \in Keys(build) : once'[k] = "ok" => once[k] = "ok" /\ k # Head(release)
        BY <1>0, <2>6
      <3>3. OpenIsReleased'
        BY <2>1, <2>3, <2>6, <3>1, <3>2 DEF OpenIsReleased
      <3> QED  BY <2>2, <3>3 DEF HeldInv
    <2> QED  BY <1>0, <1>9, <2>4, <2>5, <2>6, ReleaseTurns
  <1>10. CASE \E h \in Callers : Use(h)
    <2>1. PICK h \in Callers : Use(h)
      BY <1>10
    <2>2. /\ Frame /\ late \subseteq late'
          /\ \A k \in Keys(build) : Holdable(k) /\ once'[k] = "ok" =>
               \/ once[k] = "ok"
               \/ /\ call[h].at # "idle" /\ k = KeyOf(call[h].use)
                  /\ phase = "releasing" => k \in late'
      BY <2>1, UseOpens
    <2>3. call[h].at # "idle" /\ Holdable(KeyOf(call[h].use)) => KeyOf(call[h].use) \in Owned
      <3> SUFFICES ASSUME call[h].at # "idle", Holdable(KeyOf(call[h].use))
                   PROVE  KeyOf(call[h].use) \in Owned
        OBVIOUS
      <3> DEFINE u == call[h].use
      <3>1. u.r \in Resources(build) /\ u.read \in BOOLEAN /\ handles[u.r] \in {"aws", "local"}
        BY UseInBuild
      <3> HIDE DEF u
      <3>2. Holdable(KeyOf(u))
        BY DEF u
      <3>3. KeyOf(u) \in Owned
        BY <1>0, <3>1, <3>2, UseIsOwned
      <3> QED  BY <3>3 DEF u
    <2>4. UNCHANGED <<build, handles, phase, release>> /\ phase # "ended"
      BY <2>1, <2>2 DEF Frame, Use, Running
    <2>5. HandlesLinked' /\ OpenIsOwned'
      BY <1>1, <2>2, <2>3, <2>4
    <2>6. OpenIsReleased'
      BY <1>0, <2>2, <2>4 DEF OpenIsReleased
    <2> QED  BY <2>5, <2>6 DEF HeldInv
  <1> QED  BY <1>3, <1>4, <1>5, <1>6, <1>7, <1>8, <1>9, <1>10 DEF Next

(* When a process ends, every pool, cache client and session connection    *)
(* is closed, but for those opened once the release had begun              *)
(* (registry.go, Release).                                                 *)
THEOREM EndsWithEverythingClosed == Spec => []ReleasedIsClosed
  <1>1. UsageInv /\ HeldInv => ReleasedIsClosed
    BY DEF UsageInv, Types, HeldInv, OpenIsReleased, ReleasedIsClosed, Holdable
  <1> QED  BY <1>1, UsageAlways, HeldInit, HeldStep, PTL DEF Spec

=============================================================================
