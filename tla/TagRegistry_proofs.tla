------------------------- MODULE TagRegistry_proofs -------------------------
(***************************************************************************)
(* Proofs about the tag registry, for every set of tags, of handlers and   *)
(* of blueprints: its variables keep their types, and registry and         *)
(* registrations agree throughout.                                         *)
(*                                                                         *)
(* Registrations move one at a time and a moved handler's tag is a key of  *)
(* the map others are still found in.  The invariant therefore says how    *)
(* far the walk has come: the registrations behind it are at the tag the   *)
(* blueprint gives them, those ahead of it at the tag they were made       *)
(* under, and it visits each once, in registration order.                  *)
(***************************************************************************)
EXTENDS TagRegistry, TLAPS, WellFoundedInduction

Kinds == {"unknown", "http", "websocket", "consumer", "schedule", "custom"}

(* What the registry holds for a handler, before and after it is bound.    *)
Registrations ==
    [tag : Tags, name : {h.name : h \in Handlers}, kind : Kinds,
     route : {h.route : h \in Handlers},
     routeKey : {h.routeKey : h \in Handlers} \cup {t.key : t \in Tags},
     fromBlueprint : BOOLEAN, maxConcurrent : Nat]

LEMMA HandlersAreRegistrations == Handlers \subseteq Registrations
  <1>1. SUFFICES ASSUME NEW h \in Handlers PROVE h \in Registrations
    OBVIOUS
  <1>2. h = [tag |-> h.tag, name |-> h.name, kind |-> h.kind, route |-> h.route,
             routeKey |-> h.routeKey, fromBlueprint |-> h.fromBlueprint,
             maxConcurrent |-> h.maxConcurrent]
    BY HandlersShape
  <1>3. /\ h.tag \in Tags /\ h.kind \in Kinds /\ h.fromBlueprint \in BOOLEAN
        /\ h.maxConcurrent \in Nat
    BY HandlersShape DEF Kinds
  <1>4. [tag |-> h.tag, name |-> h.name, kind |-> h.kind, route |-> h.route,
         routeKey |-> h.routeKey, fromBlueprint |-> h.fromBlueprint,
         maxConcurrent |-> h.maxConcurrent] \in Registrations
    BY <1>3 DEF Registrations
  <1> QED  BY <1>2, <1>4

(* A non-empty set of positions has a greatest one.                        *)
LEMMA GreatestPosition ==
    ASSUME NEW n \in Nat, NEW S \in SUBSET (1 .. n), S # {}
    PROVE  \E i \in S : \A j \in S : j <= i
  <1> DEFINE D == {n - i : i \in S}
  <1>0. \A i \in S : i \in Nat /\ i <= n
    OBVIOUS
  <1>1. D # {} /\ D \subseteq Nat
    <2>1. \A i \in S : n - i \in Nat
      BY <1>0
    <2>2. D \subseteq Nat
      BY <2>1
    <2>3. PICK i \in S : TRUE
      OBVIOUS
    <2>4. n - i \in D
      BY <2>3
    <2> QED  BY <2>2, <2>4
  <1>2. PICK x \in D : \A y \in D : ~ (<<y, x>> \in OpToRel(<, Nat))
    BY <1>1, WFMin, NatLessThanWellFounded, Zenon
  <1>3. \A y \in D : ~ (y < x)
    BY <1>1, <1>2 DEF OpToRel
  <1>4. PICK i \in S : x = n - i
    OBVIOUS
  <1>5. ASSUME NEW j \in S PROVE j <= i
    <2>1. n - j \in D
      OBVIOUS
    <2> QED  BY <1>3, <1>4, <2>1
  <1> QED  BY <1>5

(* What a blueprint declares for a registration is one of its entries.     *)
LEMMA DeclaredIsEntry ==
    ASSUME NEW b \in Blueprints, NEW r
    PROVE  Declared(b, r) \in 0 .. Len(b)
  <1>1. Len(b) \in Nat
    BY BlueprintsShape
  <1> DEFINE S == {i \in 1 .. Len(b) : r.name \in {b[i].name, b[i].published}}
             R == {i \in 1 .. Len(b) : IndexedByRoute(b[i].tag) /\ b[i].tag.rest = r.route}
             s == CHOOSE i \in S : \A j \in S : j <= i
             t == CHOOSE i \in R : \A j \in R : j <= i
  <1>2. S # {} => s \in S
    <2> S \in SUBSET (1 .. Len(b))
      OBVIOUS
    <2> HIDE DEF S
    <2> QED  BY <1>1, GreatestPosition
  <1>3. R # {} => t \in R
    <2> R \in SUBSET (1 .. Len(b))
      OBVIOUS
    <2> HIDE DEF R
    <2> QED  BY <1>1, GreatestPosition
  <1>4. ByName(b, r.name) = IF S = {} THEN 0 ELSE s
    BY Zenon DEF ByName, LastOf
  <1>5. ByRoute(b, r.route) = IF R = {} THEN 0 ELSE t
    BY Zenon DEF ByRoute, LastOf
  <1>6. S \subseteq 1 .. Len(b) /\ R \subseteq 1 .. Len(b)
    OBVIOUS
  <1> HIDE DEF S, R, s, t
  <1>7. ByName(b, r.name) \in 0 .. Len(b) /\ ByRoute(b, r.route) \in 0 .. Len(b)
    <2>1. (S # {} => s \in 1 .. Len(b)) /\ (R # {} => t \in 1 .. Len(b))
      BY <1>2, <1>3, <1>6
    <2>2. \A i \in 1 .. Len(b) : i \in 0 .. Len(b)
      BY <1>1
    <2>3. 0 \in 0 .. Len(b)
      BY <1>1
    <2> QED  BY <1>4, <1>5, <2>1, <2>2, <2>3, Zenon
  <1> QED  BY <1>1, <1>7 DEF Declared
-----------------------------------------------------------------------------
(* The inductive invariant.                                                *)

Types ==
    /\ regs \in Seq(Registrations)
    /\ byTag \in [Tags -> 0 .. Len(regs)]
    /\ order \in Seq(Tags)
    /\ original \in Seq(Tags)
    /\ walk \in Seq(Nat)
    /\ errs \in BOOLEAN
    /\ phase \in {"register", "reconcile", "declare", "declared", "failed", "panicked"}
    /\ served \subseteq Tags
    /\ limits \in [Tags -> Nat]

(* Until reconciliation begins the registry and the registrations agree.   *)
BeforeReconcile ==
    original = <<>> => Agree /\ phase \in {"register", "failed"}

(* From then on the walk visits what is left of the registrations in their *)
(* order, and nothing is declared before it is done.                       *)
WalkInOrder ==
    original # <<>> =>
        /\ phase # "register"
        /\ blueprint \in Blueprints
        /\ Len(original) = Len(regs) /\ Len(order) = Len(regs) /\ Len(walk) <= Len(regs)
        /\ \A i \in 1 .. Len(walk) : walk[i] = Len(regs) - Len(walk) + i
        /\ phase \in {"declare", "declared", "panicked"} => walk = <<>>

(* The tag a registration has as the walk goes: behind the walk the one    *)
(* it is to end up at, ahead of it the one it was made under.              *)
TagAsWalked(n) == IF n <= Len(regs) - Len(walk) THEN Target(n) ELSE original[n]

MovedAsWalked ==
    original # <<>> /\ Uncontested =>
        Agree /\ \A n \in 1 .. Len(regs) : regs[n].tag = TagAsWalked(n)

DeclaredFromMap ==
    Uncontested =>
        /\ phase # "panicked"
        /\ phase \in {"declare", "declared"} => served = {t \in Tags : byTag[t] # 0}
        /\ phase = "declared" =>
             \A n \in 1 .. Len(regs) : limits[regs[n].tag] = regs[n].maxConcurrent

RegistryInv == Types /\ BeforeReconcile /\ WalkInOrder /\ MovedAsWalked /\ DeclaredFromMap

LEMMA RegistryInit == Init => RegistryInv
  <1> SUFFICES ASSUME Init PROVE RegistryInv
    OBVIOUS
  <1>1. Types
    <2>1. regs \in Seq(Registrations) /\ order \in Seq(Tags) /\ original \in Seq(Tags) /\ walk \in Seq(Nat)
      BY DEF Init
    <2>2. byTag \in [Tags -> 0 .. Len(regs)] /\ limits \in [Tags -> Nat]
      BY DEF Init
    <2> QED  BY <2>1, <2>2 DEF Init, Types
  <1>2. BeforeReconcile /\ WalkInOrder /\ MovedAsWalked
    BY DEF Init, BeforeReconcile, WalkInOrder, MovedAsWalked, Agree
  <1>3. DeclaredFromMap
    BY DEF Init, DeclaredFromMap
  <1> QED  BY <1>1, <1>2, <1>3 DEF RegistryInv

LEMMA AddKeeps ==
    ASSUME RegistryInv, NEW h \in Handlers, Add(h) PROVE RegistryInv'
  <1> USE DEF RegistryInv
  <1>1. h \in Registrations /\ h.tag \in Tags
    BY HandlersAreRegistrations DEF Registrations
  <1>2. original = <<>> /\ original' = <<>> /\ phase = "register" /\ phase' = "register"
    BY DEF Add, WalkInOrder
  <1>3. Agree
    BY <1>2 DEF BeforeReconcile
  <1>4. CASE byTag[h.tag] # 0
    <2>1. UNCHANGED <<regs, byTag, order, phase, blueprint, walk, original, served, limits>>
      BY <1>4 DEF Add, registry
    <2>2. Types'
      BY <1>4, <2>1 DEF Types, Add
    <2>3. Agree'
      BY <1>3, <2>1 DEF Agree
    <2> QED  BY <1>2, <2>2, <2>3 DEF BeforeReconcile, WalkInOrder, MovedAsWalked, DeclaredFromMap
  <1>5. CASE byTag[h.tag] = 0
    <2>1. /\ regs' = Append(regs, h)
          /\ byTag' = [byTag EXCEPT ![h.tag] = Len(regs) + 1]
          /\ order' = Append(order, h.tag)
          /\ UNCHANGED <<errs, phase, blueprint, walk, original, served, limits>>
      BY <1>5 DEF Add
    <2>2. Types'
      <3>1. regs' \in Seq(Registrations) /\ Len(regs') = Len(regs) + 1 /\ Len(regs) \in Nat
        BY <1>1, <2>1 DEF Types
      <3>2. byTag' \in [Tags -> 0 .. Len(regs')]
        BY <1>1, <2>1, <3>1 DEF Types
      <3> QED  BY <1>1, <2>1, <3>1, <3>2 DEF Types
    <2>3. Agree'
      <3>1. Len(regs) \in Nat /\ Len(regs') = Len(regs) + 1 /\ Len(order') = Len(regs')
        <4>1. regs \in Seq(Registrations) /\ order \in Seq(Tags) /\ Len(order) = Len(regs)
          BY <1>3 DEF Types, Agree
        <4>2. Len(regs') = Len(regs) + 1 /\ Len(order') = Len(order) + 1
          BY <1>1, <2>1, <4>1
        <4> QED  BY <4>1, <4>2
      <3>2. regs'[Len(regs')] = h /\ order'[Len(regs')] = h.tag /\ byTag'[h.tag] = Len(regs')
        <4>1. regs \in Seq(Registrations) /\ order \in Seq(Tags) /\ Len(order) = Len(regs)
          BY <1>3 DEF Types, Agree
        <4>2. regs'[Len(regs) + 1] = h /\ order'[Len(order) + 1] = h.tag
          BY <1>1, <2>1, <4>1
        <4>3. byTag'[h.tag] = Len(regs) + 1
          BY <1>1, <2>1 DEF Types
        <4> QED  BY <3>1, <4>1, <4>2, <4>3
      <3>3. \A n \in 1 .. Len(regs) : regs'[n] = regs[n] /\ order'[n] = order[n]
        BY <1>1, <1>3, <2>1, <3>1 DEF Types, Agree
      <3>4. ASSUME NEW n \in 1 .. Len(regs) PROVE regs[n].tag \in Tags /\ regs[n].tag # h.tag
        <4>1. regs[n] \in Registrations
          BY DEF Types
        <4>2. regs[n].tag \in Tags
          BY <4>1 DEF Registrations
        <4>3. byTag[regs[n].tag] = n /\ n # 0
          BY <1>3 DEF Agree
        <4> QED  BY <1>5, <4>2, <4>3
      <3>5. \A n \in 1 .. Len(regs) : byTag'[regs[n].tag] = n
        BY <1>1, <1>3, <2>1, <3>4 DEF Types, Agree
      <3>6. ASSUME NEW t \in Tags, byTag'[t] # 0 PROVE regs'[byTag'[t]].tag = t
        <4>1. CASE t = h.tag
          BY <4>1, <3>2
        <4>2. CASE t # h.tag
          <5>1. byTag'[t] = byTag[t] /\ byTag[t] \in 1 .. Len(regs)
            BY <1>1, <2>1, <3>1, <3>6, <4>2 DEF Types
          <5> QED  BY <1>3, <3>3, <3>6, <5>1 DEF Agree
        <4> QED  BY <4>1, <4>2
      <3>7. \A n \in 1 .. Len(regs') : n \in 1 .. Len(regs) \/ n = Len(regs')
        BY <3>1
      <3>8. \A n \in 1 .. Len(regs) : order[n] = regs[n].tag
        BY <1>3 DEF Agree
      <3>9. \A n \in 1 .. Len(regs') : order'[n] = regs'[n].tag /\ byTag'[regs'[n].tag] = n
        BY <3>2, <3>3, <3>5, <3>7, <3>8
      <3> QED  BY <3>1, <3>6, <3>9 DEF Agree
    <2> QED  BY <1>2, <2>2, <2>3 DEF BeforeReconcile, WalkInOrder, MovedAsWalked, DeclaredFromMap
  <1> QED  BY <1>4, <1>5

LEMMA RefuseKeeps ==
    ASSUME RegistryInv, Refuse PROVE RegistryInv'
  <1> USE DEF RegistryInv
  <1>1. UNCHANGED <<regs, byTag, order, blueprint, walk, original, served, limits, errs>>
    BY DEF Refuse, registry
  <1>2. original = <<>> /\ phase' = "failed"
    BY DEF Refuse, WalkInOrder
  <1>3. Agree'
    BY <1>1, <1>2 DEF BeforeReconcile, Agree
  <1>4. Types'
    BY <1>1, <1>2 DEF Types
  <1> QED  BY <1>1, <1>2, <1>3, <1>4
           DEF BeforeReconcile, WalkInOrder, MovedAsWalked, DeclaredFromMap

LEMMA StartReconcileKeeps ==
    ASSUME RegistryInv, NEW b \in Blueprints, StartReconcile(b) PROVE RegistryInv'
  <1> USE DEF RegistryInv
  <1>1. /\ original = <<>> /\ original' = order /\ blueprint' = b /\ phase' = "reconcile"
        /\ walk' = [i \in 1 .. Len(order) |-> byTag[order[i]]]
        /\ UNCHANGED <<regs, byTag, order, served, limits, errs>>
    BY DEF StartReconcile, registry, WalkInOrder
  <1>2. Agree /\ Agree'
    BY <1>1 DEF BeforeReconcile, Agree, StartReconcile, WalkInOrder
  <1>3. Len(order) = Len(regs) /\ Len(regs) \in Nat \ {0}
    BY <1>2 DEF Agree, Types, StartReconcile
  <1>4. \A i \in 1 .. Len(order) : byTag[order[i]] = i
    BY <1>2, <1>3 DEF Agree
  <1>5. walk' \in Seq(Nat) /\ Len(walk') = Len(regs) /\ \A i \in 1 .. Len(regs) : walk'[i] = i
    <2>1. walk' = [i \in 1 .. Len(regs) |-> i]
      BY <1>1, <1>3, <1>4
    <2> QED  BY <1>3, <2>1
  <1>6. Types'
    BY <1>1, <1>5 DEF Types
  <1>7. WalkInOrder'
    BY <1>1, <1>3, <1>5 DEF WalkInOrder
  <1>8. original' # <<>>
    BY <1>1, <1>3 DEF Types
  <1>9. \A n \in 1 .. Len(regs') : regs'[n].tag = TagAsWalked(n)'
    BY <1>1, <1>2, <1>3, <1>5 DEF TagAsWalked, Agree
  <1> QED  BY <1>1, <1>2, <1>6, <1>7, <1>8, <1>9
           DEF BeforeReconcile, MovedAsWalked, DeclaredFromMap

LEMMA FinishReconcileKeeps ==
    ASSUME RegistryInv, FinishReconcile PROVE RegistryInv'
  <1> USE DEF RegistryInv
  <1>1. /\ UNCHANGED <<regs, byTag, order, errs, blueprint, walk, original, limits>>
        /\ phase = "reconcile" /\ walk = <<>>
        /\ \/ phase' = "failed" /\ UNCHANGED served
           \/ phase' = "declare" /\ served' = {t \in Tags : byTag[t] # 0}
    BY DEF FinishReconcile, registry
  <1>2. original # <<>>
    BY <1>1 DEF BeforeReconcile
  <1>3. Types'
    BY <1>1 DEF Types
  <1>4. WalkInOrder'
    BY <1>1, <1>2 DEF WalkInOrder
  <1>5. MovedAsWalked'
    BY <1>1 DEF MovedAsWalked, TagAsWalked, Uncontested, Target, Agree
  <1>6. DeclaredFromMap'
    BY <1>1 DEF DeclaredFromMap
  <1> QED  BY <1>1, <1>2, <1>3, <1>4, <1>5, <1>6 DEF BeforeReconcile
-----------------------------------------------------------------------------
(* One registration of the walk.                                           *)

(* The registration the walk has come to.                                  *)
LEMMA WalkHead ==
    ASSUME RegistryInv, phase = "reconcile", walk # <<>>
    PROVE  /\ original # <<>> /\ Head(walk) \in 1 .. Len(regs)
           /\ Head(walk) = Len(regs) - Len(walk) + 1
           /\ Tail(walk) \in Seq(Nat) /\ Len(Tail(walk)) = Len(walk) - 1
           /\ \A i \in 1 .. Len(walk) - 1 : Tail(walk)[i] = Len(regs) - (Len(walk) - 1) + i
  <1>1. original # <<>>
    BY DEF RegistryInv, BeforeReconcile
  <1>2. walk \in Seq(Nat) /\ Len(walk) \in Nat \ {0} /\ Len(regs) \in Nat
    BY DEF RegistryInv, Types
  <1>3. Len(walk) <= Len(regs) /\ \A i \in 1 .. Len(walk) : walk[i] = Len(regs) - Len(walk) + i
    BY <1>1 DEF RegistryInv, WalkInOrder
  <1>4. Head(walk) = walk[1] /\ Tail(walk) \in Seq(Nat) /\ Len(Tail(walk)) = Len(walk) - 1
    BY <1>2
  <1>5. \A i \in 1 .. Len(walk) - 1 : Tail(walk)[i] = walk[i + 1]
    BY <1>2
  <1> QED  BY <1>1, <1>2, <1>3, <1>4, <1>5

(* Bind changes nothing of a registration that decides what the blueprint  *)
(* declares for it.                                                        *)
LEMMA BindKeepsDeclared ==
    ASSUME RegistryInv, NEW n \in 1 .. Len(regs), NEW tag \in Tags,
           regs[n].fromBlueprint \/ regs[n].kind = "websocket",
           Bind(n, tag)
    PROVE  /\ regs' \in Seq(Registrations) /\ Len(regs') = Len(regs)
           /\ \A m \in 1 .. Len(regs) : m # n => regs'[m] = regs[m]
           /\ regs'[n].tag = tag /\ regs'[n].maxConcurrent = regs[n].maxConcurrent
           /\ \A b : \A m \in 1 .. Len(regs) : Declared(b, regs'[m]) = Declared(b, regs[m])
  <1> DEFINE r == regs[n]
             k == IF r.kind = "unknown" THEN kindOfTag(tag) ELSE r.kind
             q == IF r.fromBlueprint THEN r.routeKey ELSE tag.key
             s == [[[r EXCEPT !.tag = tag] EXCEPT !.kind = k] EXCEPT !.routeKey = q]
  <1>1. r \in Registrations /\ regs \in Seq(Registrations) /\ Len(regs) \in Nat
    BY DEF RegistryInv, Types
  <1>2. k \in Kinds
    BY <1>1 DEF Registrations, Kinds, kindOfTag
  <1>3. q \in {h.routeKey : h \in Handlers} \cup {u.key : u \in Tags}
    BY <1>1 DEF Registrations
  <1>4. regs' = [regs EXCEPT ![n] = s]
    BY <1>1 DEF Bind
  <1>5. (r.fromBlueprint \/ r.kind = "websocket") /\ (r.kind = "websocket" => k = "websocket")
    OBVIOUS
  <1>6. /\ s \in Registrations /\ s.tag = tag /\ s.kind = k
        /\ s.name = r.name /\ s.route = r.route
        /\ s.fromBlueprint = r.fromBlueprint /\ s.maxConcurrent = r.maxConcurrent
    <2> HIDE DEF k, q, r
    <2> QED  BY <1>1, <1>2, <1>3 DEF Registrations
  <1>7. \A m \in 1 .. Len(regs) : regs'[m] = IF m = n THEN s ELSE regs[m]
    <2> HIDE DEF s
    <2> QED  BY <1>1, <1>4
  <1>8. regs' \in Seq(Registrations) /\ Len(regs') = Len(regs)
    <2> HIDE DEF s
    <2> QED  BY <1>1, <1>4, <1>6
  <1>9. \A b : Declared(b, s) = Declared(b, r)
    <2> HIDE DEF s, k
    <2> QED  BY <1>5, <1>6 DEF Declared
  <1> HIDE DEF s, k, q
  <1>10. \A m \in 1 .. Len(regs) : m # n => regs'[m] = regs[m]
    BY <1>7
  <1>11. regs'[n] = s
    BY <1>7
  <1>12. \A b : \A m \in 1 .. Len(regs) : Declared(b, regs'[m]) = Declared(b, regs[m])
    <2>1. SUFFICES ASSUME NEW b, NEW m \in 1 .. Len(regs)
                   PROVE  Declared(b, regs'[m]) = Declared(b, regs[m])
      OBVIOUS
    <2>2. CASE m = n
      <3>1. regs'[m] = s /\ regs[m] = r
        BY <2>2, <1>11
      <3> HIDE DEF r
      <3> QED  BY <3>1, <1>9
    <2>3. CASE m # n
      <3>1. regs'[m] = regs[m]
        BY <2>3, <1>10
      <3> QED  BY <3>1
    <2> QED  BY <2>2, <2>3
  <1> QED  BY <1>6, <1>8, <1>10, <1>11, <1>12

(* While no tag is contested, the tag a registration moves to is free.     *)
LEMMA TargetIsFree ==
    ASSUME RegistryInv, original # <<>>, Uncontested,
           NEW n \in 1 .. Len(regs), Target(n) \in Tags,
           Target(n) # regs[n].tag
    PROVE  byTag[Target(n)] = 0
  <1>1. SUFFICES ASSUME byTag[Target(n)] # 0 PROVE FALSE
    OBVIOUS
  <1> DEFINE m == byTag[Target(n)]
  <1>2. m \in 1 .. Len(regs)
    BY <1>1 DEF RegistryInv, Types
  <1>3. Agree /\ regs[m].tag = TagAsWalked(m) /\ Len(original) = Len(regs)
    BY <1>2 DEF RegistryInv, MovedAsWalked, WalkInOrder
  <1>4. regs[m].tag = Target(n)
    BY <1>1, <1>3 DEF Agree
  <1>5. m # n
    BY <1>4
  <1>6. Target(n) # Target(m) /\ Target(n) # original[m]
    BY <1>2, <1>3, <1>5 DEF Uncontested
  <1> HIDE DEF m
  <1> QED  BY <1>3, <1>4, <1>6 DEF TagAsWalked

(* What Retag makes of the registry, when the two agree.                   *)
LEMMA RetagMoves ==
    ASSUME RegistryInv, Agree, NEW n \in 1 .. Len(regs), NEW to \in Tags,
           regs[n].tag # to, byTag[to] = 0, Retag(regs[n].tag, to)
    PROVE  /\ byTag' = [byTag EXCEPT ![regs[n].tag] = 0, ![to] = n]
           /\ order' = [order EXCEPT ![n] = to]
  <1> DEFINE from == regs[n].tag
             at == {i \in 1 .. Len(order) : order[i] = from}
  <1>1. regs[n] \in Registrations
    BY DEF RegistryInv, Types
  <1>2. from \in Tags
    BY <1>1 DEF Registrations
  <1>3. byTag[from] = n /\ order[n] = from /\ Len(order) = Len(regs) /\ n \in Nat \ {0}
    BY DEF Agree
  <1>4. \A i \in 1 .. Len(order) : order[i] = from <=> i = n
    BY <1>3 DEF Agree
  <1>5. /\ byTag' = [byTag EXCEPT ![from] = 0, ![to] = byTag[from]]
        /\ order' = [i \in 1 .. Len(order) |->
                        IF i \in at /\ \A j \in at : i <= j THEN to ELSE order[i]]
    BY <1>3 DEF Retag
  <1>6. \A i \in 1 .. Len(order) : (i \in at /\ \A j \in at : i <= j) <=> i = n
    BY <1>3, <1>4
  <1> HIDE DEF at
  <1>7. order' = [i \in 1 .. Len(order) |-> IF i = n THEN to ELSE order[i]]
    BY <1>5, <1>6
  <1>8. order \in Seq(Tags)
    BY DEF RegistryInv, Types
  <1>9. order' = [order EXCEPT ![n] = to]
    BY <1>7, <1>8
  <1> QED  BY <1>3, <1>5, <1>9
(* A tag that moves keeps registry and registrations in agreement.         *)
LEMMA MoveKeepsAgree ==
    ASSUME RegistryInv, Agree, NEW n \in 1 .. Len(regs), NEW to \in Tags,
           regs[n].tag # to, byTag[to] = 0,
           byTag' = [byTag EXCEPT ![regs[n].tag] = 0, ![to] = n],
           order' = [order EXCEPT ![n] = to],
           regs' \in Seq(Registrations), Len(regs') = Len(regs), regs'[n].tag = to,
           \A m \in 1 .. Len(regs) : m # n => regs'[m] = regs[m]
    PROVE  Agree'
  <1>1. \A m \in 1 .. Len(regs) : regs[m].tag \in Tags
    <2>1. \A m \in 1 .. Len(regs) : regs[m] \in Registrations
      BY DEF RegistryInv, Types
    <2> QED  BY <2>1 DEF Registrations
  <1>2. /\ Len(order) = Len(regs)
        /\ \A m \in 1 .. Len(regs) : order[m] = regs[m].tag /\ byTag[regs[m].tag] = m
        /\ \A t \in Tags : byTag[t] # 0 => regs[byTag[t]].tag = t
    BY DEF Agree
  <1>3. /\ order \in Seq(Tags) /\ Len(regs) \in Nat
        /\ byTag \in [Tags -> 0 .. Len(regs)]
    BY DEF RegistryInv, Types
  <1>4. Len(order') = Len(regs')
    BY <1>2, <1>3
  <1>5. \A m \in 1 .. Len(regs) : order'[m] = IF m = n THEN to ELSE order[m]
    BY <1>2, <1>3
  <1>6. \A t \in Tags : byTag'[t] = IF t = to THEN n ELSE IF t = regs[n].tag THEN 0 ELSE byTag[t]
    BY <1>1, <1>3
  <1>7. ASSUME NEW m \in 1 .. Len(regs')
        PROVE  order'[m] = regs'[m].tag /\ byTag'[regs'[m].tag] = m
    <2>1. CASE m = n
      BY <2>1, <1>5, <1>6
    <2>2. CASE m # n
      <3>1. regs'[m] = regs[m] /\ order'[m] = order[m] /\ m # 0
        BY <2>2, <1>5
      <3>2. regs[m].tag # to /\ regs[m].tag # regs[n].tag
        BY <2>2, <3>1, <1>2
      <3>3. m \in 1 .. Len(regs) /\ regs[m].tag \in Tags
        BY <1>1
      <3>4. byTag'[regs[m].tag] = byTag[regs[m].tag]
        BY <1>6, <3>2, <3>3
      <3> QED  BY <1>2, <3>1, <3>3, <3>4
    <2> QED  BY <2>1, <2>2
  <1>8. ASSUME NEW t \in Tags, byTag'[t] # 0 PROVE regs'[byTag'[t]].tag = t
    <2>1. CASE t = to
      BY <2>1, <1>6
    <2>2. CASE t # to
      <3>1. t # regs[n].tag /\ byTag'[t] = byTag[t] /\ byTag[t] # 0
        BY <1>6, <1>8, <2>2
      <3>2. byTag[t] \in 1 .. Len(regs) /\ regs[byTag[t]].tag = t
        BY <1>2, <1>3, <3>1
      <3>3. byTag[t] # n
        BY <3>1, <3>2
      <3> QED  BY <3>1, <3>2, <3>3
    <2> QED  BY <2>1, <2>2
  <1> QED  BY <1>4, <1>7, <1>8 DEF Agree

LEMMA ReconcileNextKeeps ==
    ASSUME RegistryInv, ReconcileNext PROVE RegistryInv'
  <1> DEFINE n == Head(walk)
             d == Declared(blueprint, regs[n])
  <1>1. /\ phase = "reconcile" /\ walk # <<>> /\ walk' = Tail(walk)
        /\ UNCHANGED <<errs, phase, blueprint, original, served, limits>>
    BY DEF ReconcileNext
  <1>2. /\ original # <<>> /\ n \in 1 .. Len(regs) /\ n = Len(regs) - Len(walk) + 1
        /\ walk' \in Seq(Nat) /\ Len(walk') = Len(walk) - 1
        /\ \A i \in 1 .. Len(walk) - 1 : walk'[i] = Len(regs) - (Len(walk) - 1) + i
    BY <1>1, WalkHead
  <1>3. /\ blueprint \in Blueprints /\ Len(original) = Len(regs) /\ Len(order) = Len(regs)
        /\ Len(walk) \in Nat \ {0} /\ Len(walk) <= Len(regs) /\ Len(regs) \in Nat
    BY <1>1, <1>2 DEF RegistryInv, WalkInOrder, Types
  <1>4. d \in 0 .. Len(blueprint)
    BY <1>3, DeclaredIsEntry
  <1>5. d # 0 => /\ blueprint[d].tag \in Tags /\ Target(n) = blueprint[d].tag
                 /\ regs[n].fromBlueprint \/ regs[n].kind = "websocket"
                 /\ Bind(n, blueprint[d].tag)
    <2>1. d # 0 => blueprint[d].tag \in Tags
      BY <1>3, <1>4, BlueprintsShape
    <2>2. d # 0 => Target(n) = blueprint[d].tag
      BY DEF Target
    <2>3. d # 0 => regs[n].fromBlueprint \/ regs[n].kind = "websocket"
      BY DEF Declared
    <2>4. d # 0 => Bind(n, blueprint[d].tag)
      BY DEF ReconcileNext
    <2> QED  BY <2>1, <2>2, <2>3, <2>4
  <1>6. d = 0 => UNCHANGED <<regs, byTag, order>>
    BY DEF ReconcileNext, registry
  <1> HIDE DEF n, d
  <1>7. \A m \in 1 .. Len(regs) : regs[m].tag \in Tags
    <2>1. \A m \in 1 .. Len(regs) : regs[m] \in Registrations
      BY DEF RegistryInv, Types
    <2> QED  BY <2>1 DEF Registrations
  <1>8. /\ regs' \in Seq(Registrations) /\ Len(regs') = Len(regs)
        /\ \A m \in 1 .. Len(regs) : m # n => regs'[m] = regs[m]
        /\ regs'[n].maxConcurrent = regs[n].maxConcurrent
        /\ \A m \in 1 .. Len(regs) : Declared(blueprint, regs'[m]) = Declared(blueprint, regs[m])
    <2>1. CASE d = 0
      BY <2>1, <1>6 DEF RegistryInv, Types
    <2>2. CASE d # 0
      BY <2>2, <1>2, <1>5, BindKeepsDeclared
    <2> QED  BY <2>1, <2>2
  <1>9. d # 0 => regs'[n].tag = blueprint[d].tag
    BY <1>2, <1>5, BindKeepsDeclared
  <1>10. byTag' \in [Tags -> 0 .. Len(regs)] /\ order' \in Seq(Tags) /\ Len(order') = Len(order)
    <2>1. byTag \in [Tags -> 0 .. Len(regs)] /\ order \in Seq(Tags)
      BY DEF RegistryInv, Types
    <2>2. CASE UNCHANGED <<byTag, order>>
      BY <2>1, <2>2
    <2>3. CASE d # 0 /\ ~ UNCHANGED <<byTag, order>>
      <3> DEFINE from == regs[n].tag
                 to == blueprint[d].tag
                 at == {i \in 1 .. Len(order) : order[i] = from}
                 moved(i) == IF i \in at /\ \A j \in at : i <= j THEN to ELSE order[i]
      <3>0. from \in Tags /\ to \in Tags
        BY <2>3, <1>2, <1>5, <1>7
      <3>1. /\ byTag' = [byTag EXCEPT ![from] = 0, ![to] = byTag[from]]
            /\ order' = [i \in 1 .. Len(order) |-> moved(i)]
        BY <2>3, <1>5 DEF Bind, Retag, registry
      <3>2. \A i \in 1 .. Len(order) : moved(i) \in Tags
        BY <3>0, <2>1
      <3> HIDE DEF moved, from, to
      <3>3. byTag' \in [Tags -> 0 .. Len(regs)]
        BY <3>0, <3>1, <2>1, <1>3
      <3>4. order' \in Seq(Tags) /\ Len(order') = Len(order)
        BY <3>1, <3>2, <1>3
      <3> QED  BY <3>3, <3>4
    <2>4. d = 0 => UNCHANGED <<byTag, order>>
      BY <1>6
    <2> QED  BY <2>2, <2>3, <2>4
  <1>11. Types'
    BY <1>1, <1>2, <1>8, <1>10 DEF RegistryInv, Types
  <1>12. BeforeReconcile'
    BY <1>1, <1>2 DEF BeforeReconcile
  <1>13. WalkInOrder'
    <2>1. phase' # "register" /\ phase' \notin {"declare", "declared", "panicked"}
      BY <1>1
    <2>2. Len(walk') <= Len(regs')
      BY <1>2, <1>3, <1>8
    <2>3. \A i \in 1 .. Len(walk') : walk'[i] = Len(regs') - Len(walk') + i
      BY <1>2, <1>8
    <2> QED  BY <1>1, <1>3, <1>8, <1>10, <2>1, <2>2, <2>3 DEF WalkInOrder
  <1>14. \A m \in 1 .. Len(regs) : Target(m)' = Target(m)
    BY <1>1, <1>8 DEF Target
  <1>15. Uncontested' => Uncontested
    BY <1>1, <1>3, <1>14 DEF Uncontested
  <1>16. MovedAsWalked'
    <2>1. SUFFICES ASSUME Uncontested'
                   PROVE  Agree' /\ \A m \in 1 .. Len(regs') : regs'[m].tag = TagAsWalked(m)'
      BY DEF MovedAsWalked
    <2>2. Uncontested /\ Agree /\ \A m \in 1 .. Len(regs) : regs[m].tag = TagAsWalked(m)
      BY <1>2, <1>15, <2>1 DEF RegistryInv, MovedAsWalked
    <2>3. regs[n].tag = original[n]
      BY <1>2, <1>3, <2>2 DEF TagAsWalked
    <2>4. regs'[n].tag = Target(n)
      <3>1. CASE d = 0
        <4>1. Target(n) = original[n]
          BY <3>1 DEF Target, d
        <4> QED  BY <3>1, <4>1, <1>6, <2>3
      <3>2. CASE d # 0
        BY <3>2, <1>5, <1>9
      <3> QED  BY <3>1, <3>2
    <2>5. ASSUME NEW m \in 1 .. Len(regs') PROVE regs'[m].tag = TagAsWalked(m)'
      <3>1. TagAsWalked(m)' = IF m <= Len(regs) - (Len(walk) - 1) THEN Target(m) ELSE original[m]
        BY <1>1, <1>2, <1>8, <1>14 DEF TagAsWalked
      <3>2. CASE m = n
        <4>1. m <= Len(regs) - (Len(walk) - 1)
          BY <3>2, <1>2, <1>3
        <4> QED  BY <3>1, <3>2, <4>1, <2>4
      <3>3. CASE m # n
        <4>1. regs'[m] = regs[m] /\ regs[m].tag = TagAsWalked(m)
          BY <3>3, <1>8, <2>2
        <4>2. m <= Len(regs) - (Len(walk) - 1) <=> m <= Len(regs) - Len(walk)
          <5>1. /\ n = Len(regs) - Len(walk) + 1 /\ m # n
                /\ Len(walk) \in Nat /\ Len(regs) \in Nat /\ m \in Nat
            BY <3>3, <1>2, <1>3
          <5> QED  BY <5>1
        <4> QED  BY <3>1, <4>1, <4>2 DEF TagAsWalked
      <3> QED  BY <3>2, <3>3
    <2>6. Agree'
      <3>1. CASE d # 0 /\ blueprint[d].tag # regs[n].tag
        <4>1. byTag[Target(n)] = 0
          BY <3>1, <1>2, <1>5, <2>2, TargetIsFree
        <4>2. Retag(regs[n].tag, Target(n))
          BY <3>1, <1>5 DEF Bind
        <4>3. /\ byTag' = [byTag EXCEPT ![regs[n].tag] = 0, ![Target(n)] = n]
              /\ order' = [order EXCEPT ![n] = Target(n)]
          BY <3>1, <1>2, <1>5, <2>2, <4>1, <4>2, RetagMoves
        <4>4. Target(n) \in Tags /\ regs[n].tag # Target(n)
          BY <3>1, <1>5
        <4> QED  BY <1>2, <1>8, <2>2, <2>4, <4>1, <4>3, <4>4, MoveKeepsAgree
      <3>2. CASE ~ (d # 0 /\ blueprint[d].tag # regs[n].tag)
        <4>1. UNCHANGED <<byTag, order>>
          BY <3>2, <1>5, <1>6 DEF Bind, registry
        <4>2. regs'[n].tag = regs[n].tag
          BY <3>2, <1>6, <1>9
        <4>3. \A m \in 1 .. Len(regs) : regs'[m].tag = regs[m].tag
          BY <4>2, <1>8
        <4>4. \A t \in Tags : byTag[t] # 0 => byTag[t] \in 1 .. Len(regs)
          BY DEF RegistryInv, Types
        <4> QED  BY <4>1, <4>3, <4>4, <1>8, <2>2 DEF Agree
      <3> QED  BY <3>1, <3>2
    <2> QED  BY <2>5, <2>6
  <1>17. DeclaredFromMap'
    BY <1>1 DEF DeclaredFromMap
  <1> QED  BY <1>11, <1>12, <1>13, <1>16, <1>17 DEF RegistryInv
-----------------------------------------------------------------------------
(* The caps the handshake declares.                                        *)

(* What HandlerLimits declares for one tag.                                *)
LEMMA DeclaredCap ==
    ASSUME RegistryInv, HandlerLimits, phase' = "declared", NEW t \in Tags
    PROVE  LET found == {i \in 1 .. Len(order) : /\ regs[byTag[order[i]]].tag = t
                                                 /\ regs[byTag[order[i]]].maxConcurrent > 0}
               last == CHOOSE i \in found : \A j \in found : j <= i IN
           limits'[t] = IF found = {} THEN 0 ELSE regs[byTag[order[last]]].maxConcurrent
  <1> DEFINE f == [j \in 1 .. Len(order) |-> byTag[order[j]]]
             found == {i \in 1 .. Len(order) : /\ regs[byTag[order[i]]].tag = t
                                               /\ regs[byTag[order[i]]].maxConcurrent > 0}
             last == CHOOSE i \in found : \A j \in found : j <= i
             read == {i \in 1 .. Len(f) : regs[f[i]].tag = t /\ regs[f[i]].maxConcurrent > 0}
             top(S) == CHOOSE i \in S : \A j \in S : j <= i
             at == IF read = {} THEN 0 ELSE top(read)
  <1>1. limits'[t] = IF at = 0 THEN 0 ELSE regs[byTag[order[at]]].maxConcurrent
    BY Zenon DEF HandlerLimits, LastOf
  <1>2. Len(order) \in Nat
    BY DEF RegistryInv, Types
  <1>3. Len(f) = Len(order) /\ \A i \in 1 .. Len(order) : f[i] = byTag[order[i]]
    BY <1>2
  <1> HIDE DEF f
  <1>4. read = found
    BY <1>3
  <1>5. found \in SUBSET (1 .. Len(order))
    OBVIOUS
  <1> HIDE DEF found
  <1>6. found # {} => last \in found
    BY <1>2, <1>5, GreatestPosition
  <1>7. at = IF found = {} THEN 0 ELSE last
    <2> HIDE DEF read
    <2>1. at = IF found = {} THEN 0 ELSE top(found)
      BY <1>4
    <2> QED  BY <2>1
  <1> HIDE DEF last, at
  <1>8. last \in found => last # 0
    <2>1. \A i \in 1 .. Len(order) : i # 0
      BY <1>2
    <2> QED  BY <1>5, <2>1
  <1>9. limits'[t] = IF found = {} THEN 0 ELSE regs[byTag[order[last]]].maxConcurrent
    BY <1>1, <1>6, <1>7, <1>8
  <1> QED  BY <1>9 DEF found, last

LEMMA HandlerLimitsKeeps ==
    ASSUME RegistryInv, HandlerLimits PROVE RegistryInv'
  <1> USE DEF RegistryInv
  <1>1. /\ UNCHANGED <<regs, byTag, order, errs, blueprint, walk, original, served>>
        /\ phase = "declare"
        /\ \/ phase' = "panicked" /\ limits' = limits /\ \E i \in 1 .. Len(order) : byTag[order[i]] = 0
           \/ phase' = "declared" /\ \A i \in 1 .. Len(order) : byTag[order[i]] # 0
    BY DEF HandlerLimits, registry
  <1>2. original # <<>>
    BY <1>1 DEF BeforeReconcile
  <1>3. \A n \in 1 .. Len(regs) : regs[n].tag \in Tags /\ regs[n].maxConcurrent \in Nat
    <2>1. \A m \in 1 .. Len(regs) : regs[m] \in Registrations
      BY DEF RegistryInv, Types
    <2> QED  BY <2>1 DEF Registrations
  <1>4. limits' \in [Tags -> Nat]
    <2>1. CASE phase' = "panicked"
      BY <1>1, <2>1 DEF Types
    <2>2. CASE phase' = "declared"
      <3>1. ASSUME NEW t \in Tags PROVE limits'[t] \in Nat
        <4> DEFINE found == {i \in 1 .. Len(order) : /\ regs[byTag[order[i]]].tag = t
                                                     /\ regs[byTag[order[i]]].maxConcurrent > 0}
                   last == CHOOSE i \in found : \A j \in found : j <= i
        <4>1. limits'[t] = IF found = {} THEN 0 ELSE regs[byTag[order[last]]].maxConcurrent
          BY <2>2, DeclaredCap
        <4>2. found \in SUBSET (1 .. Len(order)) /\ Len(order) \in Nat
          BY DEF Types
        <4> HIDE DEF found
        <4>3. found # {} => last \in 1 .. Len(order)
          BY <4>2, GreatestPosition
        <4> HIDE DEF last
        <4>4. found # {} => byTag[order[last]] \in 1 .. Len(regs)
          BY <1>1, <2>2, <4>3 DEF Types
        <4> QED  BY <1>3, <4>1, <4>4
      <3>2. limits' = [t \in Tags |-> limits'[t]]
        BY <2>2 DEF HandlerLimits
      <3> QED  BY <3>1, <3>2
    <2> QED  BY <1>1, <2>1, <2>2
  <1>5. Types'
    BY <1>1, <1>4 DEF Types
  <1>6. WalkInOrder'
    BY <1>1, <1>2 DEF WalkInOrder
  <1>7. MovedAsWalked'
    <2>1. UNCHANGED <<Uncontested, Agree>>
      BY <1>1 DEF Uncontested, Target, Agree
    <2>2. \A n : TagAsWalked(n)' = TagAsWalked(n)
      BY <1>1 DEF TagAsWalked, Target
    <2> QED  BY <1>1, <2>1, <2>2 DEF MovedAsWalked
  <1>8. DeclaredFromMap'
    <2>1. SUFFICES ASSUME Uncontested' PROVE
              /\ phase' # "panicked"
              /\ served' = {t \in Tags : byTag'[t] # 0}
              /\ \A n \in 1 .. Len(regs') : limits'[regs'[n].tag] = regs'[n].maxConcurrent
      BY DEF DeclaredFromMap
    <2>2. Uncontested
      BY <1>1, <2>1 DEF Uncontested, Target
    <2>3. Agree
      BY <1>2, <2>2 DEF MovedAsWalked
    <2>4. \A i \in 1 .. Len(order) : byTag[order[i]] = i /\ order[i] = regs[i].tag
      BY <2>3 DEF Agree
    <2>5. \A i \in 1 .. Len(order) : byTag[order[i]] # 0
      BY <2>4
    <2>6. phase' = "declared"
      BY <1>1, <2>5
    <2>7. served' = {t \in Tags : byTag'[t] # 0}
      BY <1>1, <2>2 DEF DeclaredFromMap
    <2>8. ASSUME NEW n \in 1 .. Len(regs) PROVE limits'[regs[n].tag] = regs[n].maxConcurrent
      <3> DEFINE t == regs[n].tag
                 found == {i \in 1 .. Len(order) : /\ regs[byTag[order[i]]].tag = t
                                                   /\ regs[byTag[order[i]]].maxConcurrent > 0}
                 last == CHOOSE i \in found : \A j \in found : j <= i
      <3>1. t \in Tags /\ regs[n].maxConcurrent \in Nat
        BY <1>3
      <3>2. limits'[t] = IF found = {} THEN 0 ELSE regs[byTag[order[last]]].maxConcurrent
        BY <2>6, <3>1, DeclaredCap
      <3>3. Len(order) = Len(regs) /\ byTag[t] = n
        BY <2>3 DEF Agree
      <3>4. \A i \in 1 .. Len(order) : regs[i].tag = t <=> i = n
        BY <2>3, <3>3 DEF Agree
      <3>5. \A i \in found : i = n /\ regs[n].maxConcurrent > 0
        BY <2>4, <3>4
      <3>6. regs[n].maxConcurrent > 0 => n \in found
        BY <2>4, <3>3
      <3> HIDE DEF found, t
      <3>7. CASE found = {}
        BY <3>1, <3>2, <3>6, <3>7 DEF t
      <3>8. CASE found # {}
        <4>1. n \in found /\ \A i \in found : i = n
          BY <3>5, <3>8
        <4>2. \E i \in found : \A j \in found : j <= i
          BY <4>1
        <4>3. last \in found
          BY <4>2
        <4>4. last = n
          BY <4>1, <4>3
        <4>5. n \in 1 .. Len(order) /\ byTag[order[n]] = n
          BY <2>4, <3>3
        <4> HIDE DEF last
        <4> QED  BY <3>2, <3>8, <4>4, <4>5 DEF t
      <3> QED  BY <3>7, <3>8
    <2> QED  BY <1>1, <2>6, <2>7, <2>8
  <1> QED  BY <1>1, <1>2, <1>5, <1>6, <1>7, <1>8 DEF BeforeReconcile

-----------------------------------------------------------------------------
LEMMA RegistryStep == RegistryInv /\ [Next]_vars => RegistryInv'
  <1> SUFFICES ASSUME RegistryInv, [Next]_vars PROVE RegistryInv'
    OBVIOUS
  <1>1. ASSUME NEW h \in Handlers, Add(h) PROVE RegistryInv'
    BY <1>1, AddKeeps
  <1>2. ASSUME NEW b \in Blueprints, StartReconcile(b) PROVE RegistryInv'
    BY <1>2, StartReconcileKeeps
  <1>3. CASE Refuse
    BY <1>3, RefuseKeeps
  <1>4. CASE ReconcileNext
    BY <1>4, ReconcileNextKeeps
  <1>5. CASE FinishReconcile
    BY <1>5, FinishReconcileKeeps
  <1>6. CASE HandlerLimits
    BY <1>6, HandlerLimitsKeeps
  <1>7. CASE UNCHANGED vars
    <2>1. Types' /\ WalkInOrder'
      BY <1>7 DEF vars, RegistryInv, Types, WalkInOrder
    <2>2. UNCHANGED <<Uncontested, Agree>>
      BY <1>7 DEF vars, Uncontested, Target, Agree
    <2>3. \A n : TagAsWalked(n)' = TagAsWalked(n)
      BY <1>7 DEF vars, TagAsWalked, Target
    <2>4. BeforeReconcile' /\ MovedAsWalked' /\ DeclaredFromMap'
      BY <1>7, <2>2, <2>3 DEF vars, RegistryInv, BeforeReconcile, MovedAsWalked, DeclaredFromMap
    <2> QED  BY <2>1, <2>4 DEF RegistryInv
  <1> QED  BY <1>1, <1>2, <1>3, <1>4, <1>5, <1>6, <1>7 DEF Next, Finished

(* The walk visits every registration once and in order, and what each is  *)
(* found under follows from how far it has come.                           *)
LEMMA RegistryInvariant == Spec => []RegistryInv
  BY RegistryInit, RegistryStep, PTL DEF Spec

(* The registry's variables keep their types, whatever is registered and   *)
(* whatever the blueprint declares.                                        *)
THEOREM RegistryTypeCorrect == Spec => []TypeOK
  <1>1. RegistryInv => TypeOK
    <2>1. SUFFICES ASSUME RegistryInv PROVE TypeOK
      OBVIOUS
    <2>2. \A n \in 1 .. Len(regs) : regs[n] \in Registrations
      BY <2>1 DEF RegistryInv, Types
    <2>3. \A n \in 1 .. Len(regs) : regs[n].tag \in Tags
      BY <2>2 DEF Registrations
    <2> QED  BY <2>1, <2>3 DEF RegistryInv, Types, TypeOK
  <1> QED  BY <1>1, RegistryInvariant, PTL

(* Dispatcher, handshake and manifest agree with what was registered, for  *)
(* every blueprint under which no tag is contested.                        *)
THEOREM RegistryAlwaysAgrees == Spec => []RegistryAgrees
  <1>1. RegistryInv => RegistryAgrees
    <2>1. SUFFICES ASSUME RegistryInv, Uncontested PROVE Agree /\ DeclaredAsRegistered
      BY DEF RegistryAgrees
    <2>2. Agree
      BY <2>1 DEF RegistryInv, BeforeReconcile, MovedAsWalked
    <2>3. {t \in Tags : byTag[t] # 0} = {regs[n].tag : n \in 1 .. Len(regs)}
      <3>1. \A n \in 1 .. Len(regs) : regs[n] \in Registrations
        BY <2>1 DEF RegistryInv, Types
      <3>2. \A n \in 1 .. Len(regs) : regs[n].tag \in Tags /\ byTag[regs[n].tag] # 0
        BY <2>2, <3>1 DEF Agree, Registrations
      <3>3. ASSUME NEW t \in Tags, byTag[t] # 0
            PROVE  byTag[t] \in 1 .. Len(regs) /\ regs[byTag[t]].tag = t
        BY <2>1, <2>2, <3>3 DEF RegistryInv, Types, Agree
      <3> QED  BY <3>2, <3>3
    <2> QED  BY <2>1, <2>2, <2>3 DEF RegistryInv, DeclaredFromMap, DeclaredAsRegistered
  <1> QED  BY <1>1, RegistryInvariant, PTL

=============================================================================
