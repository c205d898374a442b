----------------------------- MODULE TagRegistry ----------------------------
(***************************************************************************)
(* The handler registry of package celerity and its reconciliation with    *)
(* the blueprint.                                                          *)
(*                                                                         *)
(* Handlers are registered under the tag code can state (Registry.Add).    *)
(* When the runtime has sent what the blueprint declares, ReconcileTags    *)
(* walks the registrations and moves some of them to another tag, one      *)
(* Retag at a time: a handler that stated only its name takes the tag the  *)
(* blueprint gives that name, a WebSocket handler the tag of its route.    *)
(* What is then declared to the runtime is read back from the registry:    *)
(* the tags, and the caps some handlers put on their concurrency.          *)
(*                                                                         *)
(* A tag is a record of the parts around its separators, key::rest or      *)
(* key::rest::last.                                                        *)
(***************************************************************************)
EXTENDS Naturals, Sequences, FiniteSets

CONSTANTS
    Tags,        \* the tags code and blueprint may use
    Handlers,    \* the registrations code may make, built by the functions below
    CatchAll,    \* routes with a catch-all parameter: the blueprint's form -> the router's
    RouteKey,    \* App.options.webSocketRouteKey
    Blueprints,  \* what the runtime may declare: sequences of [name, published, tag]
    MaxHandlers  \* bound: handlers registered

HTTPMethods == {"GET", "POST"}
Upper(method) == CASE method = "get" -> "GET" [] method = "post" -> "POST" [] OTHER -> method

ASSUME TagsShape ==
    \A t \in Tags : DOMAIN t = {"key", "rest", "last"}
ASSUME HandlersShape ==
    \A h \in Handlers :
        /\ h = [tag |-> h.tag, name |-> h.name, kind |-> h.kind, route |-> h.route,
                routeKey |-> h.routeKey, fromBlueprint |-> h.fromBlueprint,
                maxConcurrent |-> h.maxConcurrent]
        /\ h.tag \in Tags
        /\ h.kind \in {"unknown", "http", "websocket", "consumer", "schedule", "custom"}
        /\ h.fromBlueprint \in BOOLEAN
        /\ h.maxConcurrent \in Nat
ASSUME BlueprintsShape ==
    \A b \in Blueprints : Len(b) \in Nat /\ \A i \in 1 .. Len(b) : b[i].tag \in Tags
ASSUME CatchAllSettled == \A r \in DOMAIN CatchAll : CatchAll[r] \notin DOMAIN CatchAll
ASSUME MaxHandlersNat == MaxHandlers \in Nat

VARIABLES
    regs,        \* the registrations, in the order they were made
    byTag,       \* Registry.byTag: an index of regs, or 0 for no entry
    order,       \* Registry.order
    errs,        \* whether a registration was refused (App.errs)
    phase,       \* "register", "reconcile", "declare", "declared", "failed" or "panicked"
    blueprint,   \* what the runtime declared
    walk,        \* the registrations All returned, still to be reconciled
    unresolved,  \* names the blueprint does not declare
    original,    \* history: the tag every registration was made under
    served,      \* the tags the handshake declares
    limits       \* the caps it declares: tag -> cap, 0 for none

registry == <<byTag, order>>
vars == <<regs, byTag, order, errs, phase, blueprint, walk, unresolved, original, served, limits>>

-----------------------------------------------------------------------------
(* The tags code can state.                                                *)

Tag(key, rest) == [key |-> key, rest |-> rest, last |-> ""]

HTTPTag(method, route)       == Tag(Upper(method), route)
WebSocketTag(routeKey, route) == Tag(routeKey, route)
SourceTag(sourceID, name)    == [key |-> "source", rest |-> sourceID, last |-> name]
CustomTag(name)              == Tag("custom", name)

(* A catch-all parameter is respelled; any other route stays as it is, and *)
(* so does one in the router's form already.                               *)
NormaliseRoute(route) == IF route \in DOMAIN CatchAll THEN CatchAll[route] ELSE route

-----------------------------------------------------------------------------
(* The registrations: what each function of the API hands to App.register. *)
(* o holds the options, with the name the function's own name gives where  *)
(* none is set.                                                            *)

Registration(tag, name, kind, o) ==
    [tag |-> tag, name |-> name, kind |-> kind, route |-> "", routeKey |-> "",
     fromBlueprint |-> FALSE, maxConcurrent |-> o.maxConcurrent]

registerHTTP(method, route, o) ==
    LET normalised == NormaliseRoute(route) IN
    [Registration(HTTPTag(method, normalised), o.name, "http", o) EXCEPT !.route = normalised]

registerWebSocket(route, o) ==
    [Registration(WebSocketTag(RouteKey, route), o.name, "websocket", o)
        EXCEPT !.route = route, !.routeKey = RouteKey]
OnMessage(route, o) == registerWebSocket(route, o)
OnConnect(o)        == registerWebSocket("$connect", o)

Consume(sourceID, o)  == Registration(SourceTag(sourceID, o.name), o.name, "consumer", o)
Schedule(sourceID, o) == Registration(SourceTag(sourceID, o.name), o.name, "schedule", o)
Invoke(name, o)       == Registration(CustomTag(name), name, "custom", o)

(* A handler that takes its wiring from the blueprint states its name, and *)
(* its kind is not known yet.                                              *)
Handler(name, o) ==
    [Registration(Tag("blueprint", name), name, "unknown", o) EXCEPT !.fromBlueprint = TRUE]

-----------------------------------------------------------------------------
(* The shape of a tag.                                                     *)

(* An HTTP tag is {METHOD}::{route} and its route starts with a slash; a   *)
(* source tag has two separators.                                          *)
kindOfTag(t) ==
    CASE t.key = "custom"      -> "custom"
      [] t.key = "source"      -> "consumer"
      [] t.key \in HTTPMethods -> "http"
      [] OTHER                 -> "websocket"

(* The tags webSocketTagsByRoute indexes: one separator, and not HTTP.     *)
IndexedByRoute(t) == t.key \notin HTTPMethods \cup {"source"}

(* Of two declarations for one key, the later one is in the map.           *)
LastOf(b, P(_)) ==
    LET found == {i \in 1 .. Len(b) : P(b[i])} IN
    IF found = {} THEN 0 ELSE CHOOSE i \in found : \A j \in found : j <= i

ByName(b, name)   == LET P(d) == name \in {d.name, d.published} IN LastOf(b, P)
ByRoute(b, route) == LET P(d) == IndexedByRoute(d.tag) /\ d.tag.rest = route IN LastOf(b, P)

(* The declaration a registration is bound to, or 0.                       *)
Declared(b, r) ==
    IF r.fromBlueprint THEN ByName(b, r.name)
    ELSE IF r.kind = "websocket" THEN ByRoute(b, r.route) ELSE 0

-----------------------------------------------------------------------------
Init ==
    /\ regs = <<>> /\ byTag = [t \in Tags |-> 0] /\ order = <<>>
    /\ errs = FALSE /\ phase = "register"
    /\ blueprint = <<>> /\ walk = <<>> /\ unresolved = {}
    /\ original = <<>> /\ served = {} /\ limits = [t \in Tags |-> 0]

(* App.register: a registration under a tag already taken is refused, and  *)
(* the error kept for Run to report.                                       *)
Add(h) ==
    /\ phase = "register" /\ Len(regs) < MaxHandlers
    /\ IF byTag[h.tag] # 0
       THEN errs' = TRUE /\ UNCHANGED <<regs, registry>>
       ELSE /\ regs' = Append(regs, h)
            /\ byTag' = [byTag EXCEPT ![h.tag] = Len(regs) + 1]
            /\ order' = Append(order, h.tag)
            /\ UNCHANGED errs
    /\ UNCHANGED <<phase, blueprint, walk, unresolved, original, served, limits>>

(* RunContext reports registration errors, and an empty registry, before   *)
(* anything is served.                                                     *)
Refuse ==
    /\ phase = "register"
    /\ errs \/ Len(regs) = 0
    /\ phase' = "failed"
    /\ UNCHANGED <<regs, registry, errs, blueprint, walk, unresolved, original, served, limits>>

(* ReconcileTags begins: All is read once, before anything moves.          *)
StartReconcile(b) ==
    /\ phase = "register" /\ ~errs /\ Len(regs) > 0
    /\ phase' = "reconcile"
    /\ blueprint' = b
    /\ walk' = [i \in 1 .. Len(order) |-> byTag[order[i]]]
    /\ original' = order
    /\ UNCHANGED <<regs, registry, errs, unresolved, served, limits>>

(* Mutant: order keeps the tag the registration had.                       *)
RetagForgetsOrder(from, to) ==
    /\ byTag' = [byTag EXCEPT ![from] = 0, ![to] = byTag[from]]
    /\ UNCHANGED order

(* Registry.Retag.  What the map held at the tag it moves to is replaced.  *)
Retag(from, to) ==
    IF byTag[from] = 0 \/ from = to
    THEN UNCHANGED registry
    ELSE LET at == {i \in 1 .. Len(order) : order[i] = from} IN
         /\ byTag' = [byTag EXCEPT ![from] = 0, ![to] = byTag[from]]
         /\ order' = [i \in 1 .. Len(order) |->
                        IF i \in at /\ \A j \in at : i <= j THEN to ELSE order[i]]

(* App.bind, and the route key a WebSocket handler takes from its tag.     *)
Bind(n, tag) ==
    LET r == regs[n] IN
    /\ regs' = [regs EXCEPT ![n].tag = tag,
                            ![n].kind = IF r.kind = "unknown" THEN kindOfTag(tag) ELSE r.kind,
                            ![n].routeKey = IF r.fromBlueprint THEN r.routeKey ELSE tag.key]
    /\ IF tag = r.tag THEN UNCHANGED registry ELSE Retag(r.tag, tag)

(* One registration of the walk.                                           *)
ReconcileNext ==
    /\ phase = "reconcile" /\ walk # <<>>
    /\ walk' = Tail(walk)
    /\ LET n == Head(walk)
           d == Declared(blueprint, regs[n]) IN
       IF d # 0
       THEN Bind(n, blueprint[d].tag) /\ UNCHANGED unresolved
       ELSE /\ unresolved' = IF regs[n].fromBlueprint
                             THEN unresolved \cup {regs[n].name} ELSE unresolved
            /\ UNCHANGED <<regs, registry>>
    /\ UNCHANGED <<errs, phase, blueprint, original, served, limits>>

FinishReconcile ==
    /\ phase = "reconcile" /\ walk = <<>>
    /\ IF unresolved # {}
       THEN phase' = "failed" /\ UNCHANGED served
       ELSE phase' = "declare" /\ served' = {t \in Tags : byTag[t] # 0}
    /\ UNCHANGED <<regs, registry, errs, blueprint, walk, unresolved, original, limits>>

(* HandlerLimits, asked for as the handshake is made.  All reads the map   *)
(* at every tag in order; a tag with no entry gives a nil registration,    *)
(* and the loop dereferences it.                                           *)
HandlerLimits ==
    /\ phase = "declare"
    /\ IF \E i \in 1 .. Len(order) : byTag[order[i]] = 0
       THEN phase' = "panicked" /\ UNCHANGED limits
       ELSE /\ phase' = "declared"
            /\ limits' = [t \in Tags |->
                 LET capped(n) == regs[n].tag = t /\ regs[n].maxConcurrent > 0
                     i == LastOf([j \in 1 .. Len(order) |-> byTag[order[j]]], capped) IN
                 IF i = 0 THEN 0 ELSE regs[byTag[order[i]]].maxConcurrent]
    /\ UNCHANGED <<regs, registry, errs, blueprint, walk, unresolved, original, served>>

Finished == phase \in {"declared", "failed", "panicked"} /\ UNCHANGED vars

Next ==
    \/ \E h \in Handlers : Add(h)
    \/ \E b \in Blueprints : StartReconcile(b)
    \/ Refuse \/ ReconcileNext \/ FinishReconcile \/ HandlerLimits \/ Finished

Spec == Init /\ [][Next]_vars

-----------------------------------------------------------------------------
(* Every variable has its type.                                            *)
TypeOK ==
    /\ \A n \in 1 .. Len(regs) : regs[n].tag \in Tags
    /\ byTag \in [Tags -> 0 .. Len(regs)]
    /\ order \in Seq(Tags)
    /\ errs \in BOOLEAN
    /\ phase \in {"register", "reconcile", "declare", "declared", "failed", "panicked"}
    /\ served \subseteq Tags
    /\ limits \in [Tags -> Nat]

(* The tag reconciliation will leave a registration at.                    *)
Target(n) ==
    LET d == Declared(blueprint, regs[n]) IN
    IF d = 0 THEN original[n] ELSE blueprint[d].tag

(* No two handlers want one tag, and none wants a tag another one was      *)
(* registered under.                                                       *)
Uncontested ==
    \A m, n \in 1 .. Len(original) :
        m # n => Target(m) # Target(n) /\ Target(m) # original[n]

(* What the dispatcher routes by, what the handshake declares and what the *)
(* manifest lists agree: every registration is found under its own tag,    *)
(* each tag is listed once, and in registration order (registry.go).       *)
Agree ==
    /\ Len(order) = Len(regs)
    /\ \A n \in 1 .. Len(regs) : order[n] = regs[n].tag /\ byTag[regs[n].tag] = n
    /\ \A t \in Tags : byTag[t] # 0 => regs[byTag[t]].tag = t

(* The runtime is told of exactly the handlers registered, and of each     *)
(* cap under the tag the handler has ended up at.                          *)
DeclaredAsRegistered ==
    /\ phase # "panicked"
    /\ phase = "declared" =>
         /\ served = {regs[n].tag : n \in 1 .. Len(regs)}
         /\ \A n \in 1 .. Len(regs) : limits[regs[n].tag] = regs[n].maxConcurrent

(* Registry and registrations agree throughout registration and at every   *)
(* step of a reconciliation whose tags are uncontested, although the       *)
(* registrations move one at a time, and the handshake declares what was   *)
(* registered (registry.go, Retag; reconcile.go, HandlerLimits).           *)
RegistryAgrees == Uncontested => Agree /\ DeclaredAsRegistered

=============================================================================
