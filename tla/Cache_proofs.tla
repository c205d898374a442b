---------------------------- MODULE Cache_proofs ----------------------------
(***************************************************************************)
(* Proofs about the cache, for every set of applications, handlers, names, *)
(* shards and placements, and any number of writes and faults: a claim     *)
(* told is held and every handler that asks is told of it, no command      *)
(* spans two shards, a batch reported whole is whole, and a walk that      *)
(* ended missed nothing that was there all along.                          *)
(***************************************************************************)
EXTENDS Cache, FiniteSetTheorems, TLAPS, WellFoundedInduction

IsCall(c) ==
    c = [op |-> c.op, todo |-> c.todo, asked |-> c.asked, done |-> c.done, got |-> c.got,
         at |-> c.at, visits |-> c.visits, kind |-> c.kind, stable |-> c.stable, end |-> c.end]

(* The keys of a claim are keys, and what is under it is the text the      *)
(* claimant wrote and nothing else.                                        *)
Claimed(v, t) == v.kind = "string" /\ v.els = <<t>>
ClaimInv ==
    /\ \A p \in claims : p[1] \in Keys
    /\ \A p \in claims : Claimed(store[p[1]], p[2])

CallsInv == DOMAIN calls = Handlers /\ \A h \in Handlers : IsCall(calls[h])

(* A batch under way has groups to send, each of one shard; together with  *)
(* those it has sent they are the keys it was given.                       *)
BatchOpen(c) ==
    /\ c.todo \in Seq(Seq(Keys)) /\ c.todo # <<>>
    /\ \A g \in DOMAIN c.todo : SameSlot(c.todo[g])
    /\ {p[1] : p \in c.done} \cup UNION {ToSet(c.todo[g]) : g \in DOMAIN c.todo} = c.asked
Batched(c) ==
    /\ c.op \in BatchOps /\ c.end = "open" /\ c.op # "GetMany" => BatchOpen(c)
    /\ c.op = "GetMany" /\ c.end = "open" =>
         /\ c.todo \in Seq(Seq(Keys)) /\ c.todo # <<>>
         /\ \A g \in DOMAIN c.todo : SameSlot(c.todo[g])
    /\ c.op = "GetMany" /\ c.end \in {"open", "ok"} => c.got = c.done
BatchInv == (\A h \in Handlers : Batched(calls[h])) /\ BatchWhole /\ NoCrossShardCommand

(* A walk has yet to reach what it has not yielded of what it is to yield: *)
(* on a shard not walked, or further on in the one it is on.               *)
WalkOpen(h) ==
    LET c == calls[h]
    IN  /\ c.visits # {} /\ c.at \in Names
        /\ c.asked \subseteq KeysOf(AppOf[h])
        /\ \A k \in c.stable : Matching(c.kind, store[k])
        /\ \A k \in c.stable \cap c.asked : k \notin {p[1] : p \in c.got} =>
             /\ ShardOf(k) \in c.visits
             /\ ShardOf(k) = (CHOOSE s \in c.visits : TRUE) => k.name >= c.at
WalkInv ==
    /\ \A h \in Handlers : calls[h].op = "Scan" /\ calls[h].end = "open" => WalkOpen(h)
    /\ WalkComplete
-----------------------------------------------------------------------------
(* Positions in order, and the groups of a batch.                          *)

LEMMA Least ==
    ASSUME NEW S \in SUBSET Nat, S # {}
    PROVE  \E m \in S : \A x \in S : m <= x
  <1>1. PICK m \in S : \A x \in S : ~ (<<x, m>> \in OpToRel(<, Nat))
    BY WFMin, NatLessThanWellFounded, Zenon
  <1>2. \A x \in S : ~ (x < m)
    BY <1>1 DEF OpToRel
  <1> QED BY <1>2

(* That a set of positions can be put in order, by induction over its      *)
(* size: a set as small as can be that cannot would have a least element,  *)
(* and could be put in order once the rest of it was.                      *)
Orders(S) ==
    {s \in [1 .. Cardinality(S) -> S] : \A i, j \in DOMAIN s : i < j => s[i] < s[j]}

LEMMA OrderExists ==
    ASSUME NEW S \in SUBSET Nat, IsFiniteSet(S)
    PROVE  Orders(S) # {}
  <1> DEFINE Bad == {n \in Nat : \E T \in SUBSET Nat :
                                    IsFiniteSet(T) /\ Cardinality(T) = n /\ Orders(T) = {}}
  <1>1. ASSUME Bad # {} PROVE FALSE
    <2>1. PICK n \in Bad : \A x \in Bad : n <= x
      <3>1. Bad \in SUBSET Nat
        OBVIOUS
      <3> HIDE DEF Bad
      <3> QED BY <1>1, <3>1, Least
    <2>2. PICK T \in SUBSET Nat : IsFiniteSet(T) /\ Cardinality(T) = n /\ Orders(T) = {}
      BY <2>1
    <2>3. CASE T = {}
      <3>1. Cardinality(T) = 0 /\ 1 .. 0 = {}
        BY <2>3, FS_EmptySet
      <3>2. [x \in {} |-> x] \in [{} -> T]
        BY <2>3
      <3>3. [x \in {} |-> x] \in Orders(T)
        BY <3>1, <3>2 DEF Orders
      <3> QED BY <3>3, <2>2
    <2>4. CASE T # {}
      <3>1. PICK m \in T : \A x \in T : m <= x
        BY <2>4, Least
      <3> DEFINE U == T \ {m}
      <3>2. U \in SUBSET Nat /\ IsFiniteSet(U) /\ Cardinality(U) = n - 1
        BY <2>2, <3>1, FS_RemoveElement
      <3>3. n \in Nat /\ Cardinality(U) \in Nat
        BY <2>1, <3>2, FS_CardinalityType
      <3>4. n - 1 \notin Bad
        BY <2>1, <3>2, <3>3
      <3>5. Orders(U) # {}
        BY <3>2, <3>3, <3>4
      <3>6. PICK s \in [1 .. (n - 1) -> U] : \A i, j \in 1 .. (n - 1) : i < j => s[i] < s[j]
        BY <3>2, <3>5 DEF Orders
      <3> DEFINE t == [i \in 1 .. n |-> IF i = 1 THEN m ELSE s[i - 1]]
      <3>7. \A i \in 1 .. n : i # 1 => i - 1 \in 1 .. (n - 1) /\ s[i - 1] \in U
        BY <3>2, <3>3, <3>6
      <3>8. t \in [1 .. n -> T]
        BY <3>1, <3>7
      <3>9. ASSUME NEW i \in 1 .. n, NEW j \in 1 .. n, i < j PROVE t[i] < t[j]
        <4>1. j # 1 /\ j - 1 \in 1 .. (n - 1) /\ s[j - 1] \in U /\ t[j] = s[j - 1]
          BY <3>3, <3>7, <3>9
        <4>2. CASE i = 1
          <5>1. t[i] = m /\ m <= s[j - 1] /\ m # s[j - 1]
            BY <3>1, <4>1, <4>2
          <5>2. m \in Nat /\ s[j - 1] \in Nat
            BY <2>2, <3>1, <4>1
          <5> QED BY <4>1, <5>1, <5>2
        <4>3. CASE i # 1
          <5>1. i - 1 \in 1 .. (n - 1) /\ t[i] = s[i - 1] /\ i - 1 < j - 1
            BY <3>3, <3>7, <3>9, <4>3
          <5> QED BY <3>6, <4>1, <5>1
        <4> QED BY <4>2, <4>3
      <3>10. DOMAIN t = 1 .. n
        OBVIOUS
      <3> HIDE DEF t
      <3>11. t \in Orders(T)
        BY <2>2, <3>8, <3>9, <3>10 DEF Orders
      <3> QED BY <3>11, <2>2
    <2> QED BY <2>3, <2>4
  <1>2. Cardinality(S) \in Nat
    BY FS_CardinalityType
  <1> QED BY <1>1, <1>2

LEMMA InOrderIs ==
    ASSUME NEW S \in SUBSET Nat, IsFiniteSet(S)
    PROVE  /\ Cardinality(S) \in Nat
           /\ InOrder(S) \in [1 .. Cardinality(S) -> S]
           /\ {InOrder(S)[i] : i \in 1 .. Cardinality(S)} = S
  <1> DEFINE n == Cardinality(S)
             s == InOrder(S)
  <1>1. n \in Nat
    BY FS_CardinalityType
  <1> HIDE DEF n
  <1>2. s \in [1 .. n -> S] /\ \A i, j \in 1 .. n : i < j => s[i] < s[j]
    <2>1. \E x \in [1 .. n -> S] : \A i, j \in DOMAIN x : i < j => x[i] < x[j]
      BY OrderExists DEF Orders, n
    <2> QED BY <2>1 DEF InOrder, n
  <1> HIDE DEF s
  <1>3. s \in Injection(1 .. n, S)
    <2>1. ASSUME NEW i \in 1 .. n, NEW j \in 1 .. n, s[i] = s[j] PROVE i = j
      <3>1. s[i] \in S /\ s[i] \in Nat
        BY <1>2
      <3>2. ~ (s[i] < s[j]) /\ ~ (s[j] < s[i])
        BY <2>1, <3>1
      <3>3. ~ (i < j) /\ ~ (j < i)
        BY <1>2, <3>2
      <3>4. i \in Int /\ j \in Int
        BY <1>1
      <3> QED BY <3>3, <3>4
    <2> QED BY <1>2, <2>1 DEF Injection, IsInjective
  <1>4. IsFiniteSet(1 .. n) /\ Cardinality(1 .. n) = n
    BY <1>1, FS_Interval
  <1>5. s \in Surjection(1 .. n, S)
    BY <1>3, <1>4, FS_Injection DEF n
  <1>6. {s[i] : i \in 1 .. n} = S
    BY <1>2, <1>5 DEF Surjection
  <1> QED BY <1>1, <1>2, <1>6 DEF s, n

LEMMA AloneTogether ==
    ASSUME NEW keys \in Seq(Keys), keys # <<>>, ~Clustered \/ Len(keys) <= 1
    PROVE  /\ <<keys>> \in Seq(Seq(Keys)) /\ <<keys>> # <<>>
           /\ \A g \in DOMAIN <<keys>> : SameSlot(<<keys>>[g])
           /\ UNION {ToSet(<<keys>>[g]) : g \in DOMAIN <<keys>>} = ToSet(keys)
  <1>1. SameSlot(keys)
    <2>1. CASE ~Clustered
      BY <2>1 DEF SameSlot
    <2>2. CASE Len(keys) <= 1
      <3>1. \A i, j \in DOMAIN keys : i = j
        BY <2>2
      <3> QED BY <3>1 DEF SameSlot
    <2> QED BY <2>1, <2>2
  <1>2. DOMAIN <<keys>> = {1} /\ <<keys>>[1] = keys
    OBVIOUS
  <1>3. <<keys>> \in Seq(Seq(Keys)) /\ <<keys>> # <<>>
    OBVIOUS
  <1> QED BY <1>1, <1>2, <1>3

(* However many keys a batch has and wherever they are placed, each group  *)
(* is of one shard and the groups are the batch.                           *)
LEMMA Grouped ==
    ASSUME NEW keys \in Seq(Keys), keys # <<>>
    PROVE  /\ BySlot(keys) \in Seq(Seq(Keys)) /\ BySlot(keys) # <<>>
           /\ \A g \in DOMAIN BySlot(keys) : SameSlot(BySlot(keys)[g])
           /\ UNION {ToSet(BySlot(keys)[g]) : g \in DOMAIN BySlot(keys)} = ToSet(keys)
  <1>1. CASE ~Clustered \/ Len(keys) <= 1
    <2>1. BySlot(keys) = <<keys>>
      BY <1>1 DEF BySlot
    <2> QED BY <1>1, <2>1, AloneTogether
  <1>2. CASE Clustered /\ Len(keys) > 1
    <2> DEFINE L == Len(keys)
               on(i) == {j \in DOMAIN keys : SlotOf(keys[j]) = SlotOf(keys[i])}
               F == {i \in DOMAIN keys : \A j \in on(i) : i <= j}
               order == InOrder(F)
               group(i) == [p \in DOMAIN InOrder(on(i)) |-> keys[InOrder(on(i))[p]]]
               B == BySlot(keys)
    <2>1. B = [g \in DOMAIN order |-> group(order[g])]
      BY <1>2 DEF BySlot, AtPlaces
    <2>2. DOMAIN keys = 1 .. L /\ L \in Nat /\ \A i \in 1 .. L : keys[i] \in Keys
      OBVIOUS
    <2>3. IsFiniteSet(1 .. L)
      BY <2>2, FS_Interval
    <2>4. ASSUME NEW i
          PROVE  /\ on(i) \in SUBSET Nat /\ IsFiniteSet(on(i))
                 /\ on(i) \subseteq DOMAIN keys
                 /\ \A j \in on(i) : SlotOf(keys[j]) = SlotOf(keys[i])
      <3>1. on(i) \subseteq 1 .. L
        BY <2>2
      <3> QED BY <3>1, <2>2, <2>3, FS_Subset
    <2>5. F \in SUBSET Nat /\ IsFiniteSet(F) /\ F \subseteq DOMAIN keys
      <3>1. F \subseteq 1 .. L
        BY <2>2
      <3> QED BY <3>1, <2>2, <2>3, FS_Subset
    <2>6. \A i \in DOMAIN keys : i \in on(i)
      OBVIOUS
    <2>7. \A i, j \in DOMAIN keys : j \in on(i) => on(j) = on(i)
      OBVIOUS
    <2>8. \A i : i \in F <=> i \in DOMAIN keys /\ \A j \in on(i) : i <= j
      OBVIOUS
    <2> HIDE DEF on, F, B
    <2>9. /\ Cardinality(F) \in Nat /\ order \in [1 .. Cardinality(F) -> F]
          /\ {order[g] : g \in 1 .. Cardinality(F)} = F
      BY <2>5, InOrderIs
    <2>10. ASSUME NEW i
           PROVE  /\ group(i) \in Seq(Keys) /\ SameSlot(group(i))
                  /\ ToSet(group(i)) = {keys[j] : j \in on(i)}
      <3> DEFINE n == Cardinality(on(i))
                 q == InOrder(on(i))
      <3>1. n \in Nat /\ q \in [1 .. n -> on(i)] /\ {q[p] : p \in 1 .. n} = on(i)
        BY <2>4, InOrderIs
      <3> HIDE DEF n, q
      <3>2. group(i) = [p \in 1 .. n |-> keys[q[p]]]
        BY <3>1 DEF q
      <3>3. \A p \in 1 .. n : q[p] \in on(i) /\ keys[q[p]] \in Keys
        BY <2>2, <2>4, <3>1
      <3>4. group(i) \in Seq(Keys)
        BY <3>1, <3>2, <3>3
      <3>5. \A p \in 1 .. n : SlotOf(keys[q[p]]) = SlotOf(keys[i])
        BY <2>4, <3>3
      <3> HIDE DEF group
      <3>6. DOMAIN group(i) = 1 .. n /\ \A p \in 1 .. n : group(i)[p] = keys[q[p]]
        BY <3>2
      <3>7. SameSlot(group(i))
        BY <3>5, <3>6 DEF SameSlot
      <3>8. ToSet(group(i)) = {keys[j] : j \in on(i)}
        BY <3>1, <3>6 DEF ToSet
      <3> QED BY <3>4, <3>7, <3>8
    <2> HIDE DEF group, order
    <2>11. DOMAIN B = 1 .. Cardinality(F) /\ \A g \in DOMAIN B : B[g] = group(order[g])
      BY <2>1, <2>9
    <2>12. B \in Seq(Seq(Keys))
      BY <2>1, <2>9, <2>10
    <2>13. \A g \in DOMAIN B : SameSlot(B[g])
      BY <2>10, <2>11
    <2>14. B # <<>>
      <3>1. 1 \in F
        BY <1>2, <2>2, <2>4, <2>8
      <3>2. Cardinality(F) # 0
        BY <2>5, <3>1, FS_EmptySet
      <3>3. 1 \in DOMAIN B
        BY <2>9, <2>11, <3>2
      <3> QED BY <3>3
    <2>15. UNION {ToSet(B[g]) : g \in DOMAIN B} = ToSet(keys)
      <3>1. ASSUME NEW g \in DOMAIN B, NEW k \in ToSet(B[g]) PROVE k \in ToSet(keys)
        <4>1. k \in {keys[j] : j \in on(order[g])}
          BY <2>10, <2>11, <3>1
        <4> QED BY <4>1, <2>4 DEF ToSet
      <3>2. ASSUME NEW k \in ToSet(keys) PROVE \E g \in DOMAIN B : k \in ToSet(B[g])
        <4>1. PICK j \in DOMAIN keys : k = keys[j]
          BY <3>2 DEF ToSet
        <4>2. on(j) \in SUBSET Nat /\ on(j) # {}
          BY <2>4, <2>6, <4>1
        <4>3. PICK f \in on(j) : \A x \in on(j) : f <= x
          BY <4>2, Least
        <4>4. f \in DOMAIN keys /\ on(f) = on(j)
          BY <2>4, <2>7, <4>1, <4>3
        <4>5. f \in F
          BY <2>8, <4>3, <4>4
        <4>6. PICK g \in 1 .. Cardinality(F) : order[g] = f
          BY <2>9, <4>5
        <4>7. j \in on(f)
          BY <2>6, <4>1, <4>4
        <4> QED BY <2>10, <2>11, <4>1, <4>6, <4>7
      <3> QED BY <3>1, <3>2
    <2> QED BY <2>12, <2>13, <2>14, <2>15 DEF B
  <1> QED BY <1>1, <1>2

-----------------------------------------------------------------------------
(* A claim told is held.                                                   *)

LEMMA ClaimsKept ==
    ASSUME ClaimInv, claims' \subseteq {p \in claims : store'[p[1]] = store[p[1]]}
    PROVE  ClaimInv'
  BY DEF ClaimInv

LEMMA NothingHeld == None.els = <<>> /\ None.kind = "none" /\ ToSet(<<>>) = {}
  BY DEF None, ToSet

(* A write only if absent: what it answers and leaves.                     *)
LEMMA SetIfAbsent ==
    ASSUME NEW k \in Keys, NEW t, NEW o, o.OnlyIfAbsent, NEW s, NEW c, c = Set(k, t, o)
    PROVE  /\ c.verb = "set" /\ c.keys[1] = k /\ c.toks = <<t>> /\ c.toks[1] = t
           /\ c.ttl = o.Expires /\ (Holds(c, s) <=> s[k] = None)
           /\ s[k] # None => Reply(c, s).t = "nil"
           /\ s[k] = None => Reply(c, s).t = "value"
  <1>1. c = [verb |-> "set", kind |-> "any", keys |-> <<k>>, toks |-> <<t>>, mode |-> "NX",
             ttl |-> o.Expires]
    BY DEF Set, Cmd
  <1>2. /\ c.verb = "set" /\ c.kind = "any" /\ c.keys[1] = k /\ c.toks = <<t>> /\ c.toks[1] = t
        /\ c.mode = "NX" /\ c.ttl = o.Expires
    BY <1>1
  <1>3. ~WrongType(c, s) /\ (Holds(c, s) <=> s[k] = None)
    BY <1>2 DEF WrongType, Holds
  <1>4. Reply(c, s) = IF Holds(c, s) THEN Number(1) ELSE Answer("nil", 0, <<>>)
    BY <1>2, <1>3 DEF Reply
  <1>5. s[k] # None => Reply(c, s).t = "nil"
    BY <1>3, <1>4 DEF Answer
  <1>6. s[k] = None => Reply(c, s).t = "value"
    BY <1>3, <1>4 DEF Answer, Number
  <1> QED BY <1>2, <1>3, <1>5, <1>6

LEMMA SetIfTaken ==
    ASSUME NEW k \in Keys, NEW t, NEW o, o.OnlyIfAbsent, NEW s, NEW c, c = Set(k, t, o),
           s[k] # None
    PROVE  After(c, s) = s /\ Told(c, Reply(c, s)) = "empty"
  <1>1. c.verb = "set" /\ ~Holds(c, s) /\ Reply(c, s).t = "nil"
    BY SetIfAbsent
  <1> QED BY <1>1 DEF After, Told, Missing

LEMMA SetIfFree ==
    ASSUME NEW k \in Keys, NEW t, NEW o, o.OnlyIfAbsent, NEW s, NEW c, c = Set(k, t, o),
           s[k] = None
    PROVE  /\ After(c, s)[k] = Value("string", <<t>>, 0, o.Expires)
           /\ \A q \in Keys : q # k => After(c, s)[q] = s[q]
  <1>1. /\ c.verb = "set" /\ c.keys[1] = k /\ c.toks = <<t>> /\ c.ttl = o.Expires
        /\ Holds(c, s) /\ Reply(c, s).t = "value"
    BY SetIfAbsent
  <1>2. After(c, s) = Put(s, k, Left(c, s[k]))
    BY <1>1 DEF After
  <1>3. Left(c, s[k]) = Value("string", <<t>>, 0, o.Expires)
    BY <1>1 DEF Left
  <1> QED BY <1>2, <1>3 DEF Put

(* Sent once, sent twice or lost, it takes no key that is held, and only   *)
(* one that was answered is told that it has it.                           *)
LEMMA ClaimStep ==
    ASSUME ClaimInv, NEW k \in Keys, NEW t, NEW o, o.OnlyIfAbsent, NEW outcome \in Outcomes,
           Send(Set(k, t, o), outcome, FALSE, TRUE)
    PROVE  ClaimInv'
  <1> DEFINE c == Set(k, t, o)
             v == Value("string", <<t>>, 0, o.Expires)
  <1>1. v # None /\ Claimed(v, t)
    <2>1. v.kind = "string" /\ v.els = <<t>>
      BY DEF Value
    <2> HIDE DEF v
    <2> QED BY <2>1, NothingHeld DEF Claimed
  <1>2. /\ c.keys[1] = k /\ c.toks[1] = t
        /\ store[k] # None => After(c, store) = store /\ Told(c, Reply(c, store)) = "empty"
        /\ store[k] = None => /\ After(c, store)[k] = v
                              /\ \A q \in Keys : q # k => After(c, store)[q] = store[q]
    <2> HIDE DEF v
    <2> QED BY SetIfAbsent, SetIfTaken, SetIfFree DEF v
  <1>3. After(c, store)[k] # None
    BY <1>1, <1>2
  <1>4. After(c, After(c, store)) = After(c, store) /\ Told(c, Reply(c, After(c, store))) = "empty"
    <2>1. ASSUME NEW s, s[k] # None PROVE After(c, s) = s /\ Told(c, Reply(c, s)) = "empty"
      BY <2>1, SetIfTaken
    <2> HIDE DEF c
    <2> QED BY <1>3, <2>1
  <1>5. store' = Effect(c, outcome)
    BY DEF Send
  <1>6. claims' = claims \cup (IF IsHeard(outcome) /\ Told(c, Heard(c, outcome)) = "found"
                               THEN {<<k, t>>} ELSE {})
    BY <1>2 DEF Send
  <1> HIDE DEF c, v
  <1>7. store' = store \/ store' = After(c, store)
    BY <1>4, <1>5 DEF Effect, Outcomes
  <1>8. ASSUME NEW p \in claims PROVE p[1] \in Keys /\ store'[p[1]] = store[p[1]]
    <2>1. p[1] \in Keys /\ Claimed(store[p[1]], p[2])
      BY DEF ClaimInv
    <2>2. store[p[1]] # None
      BY <2>1, NothingHeld DEF Claimed
    <2> QED BY <1>2, <1>7, <2>1, <2>2
  <1>9. ASSUME IsHeard(outcome), Told(c, Heard(c, outcome)) = "found"
        PROVE  Claimed(store'[k], t)
    <2>1. outcome = "answered"
      BY <1>4, <1>9 DEF IsHeard, Heard
    <2>2. Told(c, Reply(c, store)) = "found" /\ store' = After(c, store)
      BY <1>5, <1>9, <2>1 DEF Heard, Effect
    <2>3. store[k] = None
      BY <1>2, <2>2
    <2> QED BY <1>1, <1>2, <2>2, <2>3
  <1>10. ASSUME NEW p \in claims' PROVE p[1] \in Keys /\ Claimed(store'[p[1]], p[2])
    <2>1. CASE p \in claims
      BY <1>8, <2>1 DEF ClaimInv
    <2>2. CASE p \notin claims
      <3>1. p = <<k, t>> /\ IsHeard(outcome) /\ Told(c, Heard(c, outcome)) = "found"
        BY <1>6, <1>10, <2>2
      <3> QED BY <1>9, <3>1
    <2> QED BY <2>1, <2>2
  <1> QED BY <1>10 DEF ClaimInv

LEMMA SingleStep ==
    ASSUME ClaimInv, NEW h, NEW c, NEW outcome, Single(h, c, outcome, FALSE)
    PROVE  ClaimInv'
  <1>1. CASE SameSlot(c.keys)
    <2>1. Send(c, outcome, TRUE, FALSE)
      BY <1>1 DEF Single
    <2>2. claims' = {p \in claims : ~(store'[p[1]] # store[p[1]])}
      BY <2>1 DEF Send
    <2> QED BY <2>2, ClaimsKept
  <1>2. CASE ~SameSlot(c.keys)
    BY <1>2, ClaimsKept DEF Single
  <1> QED BY <1>1, <1>2

LEMMA WriteSetStep ==
    ASSUME ClaimInv, NEW h, NEW k \in Keys, NEW o \in SetModes, NEW outcome \in Outcomes,
           WriteSet(h, k, o, outcome)
    PROVE  ClaimInv'
  <1> DEFINE c == Set(k, Fresh(AppOf[h]), o)
  <1>1. Single(h, c, outcome, o.OnlyIfAbsent)
    BY DEF WriteSet
  <1> HIDE DEF c
  <1>2. CASE o.OnlyIfAbsent
    <2>1. CASE SameSlot(c.keys)
      <3>1. Send(c, outcome, FALSE, TRUE)
        BY <1>1, <1>2, <2>1, SetModesAssumption DEF Single
      <3> QED BY <1>2, <3>1, ClaimStep DEF c
    <2>2. CASE ~SameSlot(c.keys)
      BY <1>1, <2>2, ClaimsKept DEF Single
    <2> QED BY <2>1, <2>2
  <1>3. CASE ~o.OnlyIfAbsent
    <2>1. Single(h, c, outcome, FALSE)
      BY <1>1, <1>3, SetModesAssumption
    <2> QED BY <2>1, SingleStep
  <1> QED BY <1>2, <1>3

LEMMA KeysOfAnApp == ASSUME NEW h \in Handlers PROVE KeysOf(AppOf[h]) \subseteq Keys
  BY CacheAssumption DEF KeysOf, Keys, Key

LEMMA ClaimInvStep == ASSUME ClaimInv, [Next]_vars PROVE ClaimInv'
  <1>1. CASE claims' = claims /\ store' = store
    BY <1>1, ClaimsKept
  <1>2. ASSUME NEW h \in Handlers, CallOnce(h, AppOf[h]) PROVE ClaimInv'
    <2>1. ASSUME NEW c, NEW outcome, WriteOne(h, c, outcome) \/ RemoveOne(h, c, outcome)
          PROVE  ClaimInv'
      BY <2>1, SingleStep DEF WriteOne, RemoveOne
    <2>2. ASSUME NEW k \in KeysOf(AppOf[h]), NEW o \in SetModes, NEW outcome \in Outcomes,
                 WriteSet(h, k, o, outcome)
          PROVE  ClaimInv'
      BY <2>2, WriteSetStep, KeysOfAnApp
    <2> QED BY <1>2, <2>1, <2>2 DEF CallOnce
  <1>3. ASSUME NEW h \in Handlers, CallMany(h, AppOf[h]) PROVE ClaimInv'
    <2>1. ASSUME NEW q, NEW outcome, Transaction(h, q, outcome) PROVE ClaimInv'
      <3>1. claims' \subseteq {p \in claims : store'[p[1]] = store[p[1]]}
        BY <2>1 DEF Transaction
      <3> QED BY <3>1, ClaimsKept
    <2>2. ASSUME NEW op, NEW names, BatchStart(h, op, names) PROVE ClaimInv'
      BY <1>1, <2>2 DEF BatchStart
    <2>3. ASSUME NEW kind, NEW shards, ScanStart(h, kind, shards) PROVE ClaimInv'
      BY <1>1, <2>3 DEF ScanStart
    <2> QED BY <1>3, <2>1, <2>2, <2>3 DEF CallMany
  <1>4. ASSUME NEW h \in Handlers, Proceed(h) PROVE ClaimInv'
    <2>1. ASSUME NEW op, NEW outcome, NEW new, Group(h, op, outcome, new) PROVE ClaimInv'
      <3>1. claims' = {p \in claims : store'[p[1]] = store[p[1]]}
        BY <2>1 DEF Group
      <3> QED BY <3>1, ClaimsKept
    <2>2. ASSUME NEW outcome, GetMany(h, outcome) PROVE ClaimInv'
      BY <1>1, <2>2 DEF GetMany
    <2>3. ASSUME NEW goes, NEW outcome, Walk(h, goes, outcome) PROVE ClaimInv'
      BY <1>1, <2>3 DEF Walk
    <2>4. CASE Return(h)
      BY <1>1, <2>4 DEF Return
    <2> QED BY <1>4, <2>1, <2>2, <2>3, <2>4 DEF Proceed, SetMany, DeleteMany
  <1>5. ASSUME NEW k \in Keys, Lapse(k) PROVE ClaimInv'
    <2>1. claims' = {p \in claims : p[1] # k} /\ store' = Put(store, k, None)
      BY <1>5 DEF Lapse
    <2>2. \A p \in claims : p[1] # k => store'[p[1]] = store[p[1]]
      BY <2>1 DEF Put, ClaimInv
    <2>3. claims' \subseteq {p \in claims : store'[p[1]] = store[p[1]]}
      BY <2>1, <2>2
    <2> QED BY <2>3, ClaimsKept
  <1>6. CASE UNCHANGED vars
    BY <1>1, <1>6 DEF vars
  <1> QED BY <1>2, <1>3, <1>4, <1>5, <1>6, CacheAssumption DEF Next

LEMMA ClaimsAlways == Spec => []ClaimInv
  <1>1. Init => ClaimInv
    BY DEF Init, ClaimInv
  <1>2. ClaimInv /\ [Next]_vars => ClaimInv'
    BY ClaimInvStep
  <1> QED BY <1>1, <1>2, PTL DEF Spec

(* A handler told that its write only if absent was made holds the key     *)
(* until its value is replaced, removed, moved or runs out, however many   *)
(* handlers race for it and whatever commands are lost or sent twice.      *)
THEOREM ClaimsAreHeld == Spec => []ClaimHeld
  <1>1. ASSUME ClaimInv, NEW p \in claims PROVE p[2] \in ToSet(store[p[1]].els)
    <2>1. store[p[1]].els = <<p[2]>>
      BY <1>1 DEF ClaimInv, Claimed
    <2>2. p[2] \in ToSet(<<p[2]>>)
      BY DEF ToSet
    <2> QED BY <2>1, <2>2
  <1>2. ClaimInv => ClaimHeld
    BY <1>1 DEF ClaimHeld
  <1> QED BY <1>2, ClaimsAlways, PTL

(* The reads that take any value, or a text, are these.                    *)
LEMMA ReadVerbs ==
    ASSUME NEW app, NEW c \in Reads(app)
    PROVE  /\ c.kind \in {"any", "string", "hash", "list", "set", "zset"}
           /\ c.kind \in {"any", "string"} => c.verb \in {"get", "exists", "ttl", "type", "none"}
           /\ c.verb \in {"get", "exists"} => c.kind \in {"any", "string"}
  <1> DEFINE G == /\ c.kind \in {"any", "string", "hash", "list", "set", "zset"}
                  /\ c.kind \in {"any", "string"} => c.verb \in {"get", "exists", "ttl", "type", "none"}
                  /\ c.verb \in {"get", "exists"} => c.kind \in {"any", "string"}
  <1>1. ASSUME NEW k, c \in ReadsOfKey(k) PROVE G
    BY <1>1 DEF ReadsOfKey, Get, HashGetAll, HashKeys, HashLen, ListRange, ListLen, ListIndex, SetMembers,
                SetLen, SortedSetRange, SortedSetLen, Exists, TTL, Type, One, Cmd
  <1>2. ASSUME NEW k, NEW t, c \in ReadsOfElement(k, t) PROVE G
    <2>1. c.kind \in {"hash", "set", "zset"} /\ c.verb \in {"elem", "has", "some"}
      BY <1>2 DEF ReadsOfElement, HashGet, HashExists, SetIsMember, SortedSetScore, SortedSetRank,
                  SortedSetRangeByScore, SortedSetCountByScore, With, Cmd
    <2> QED BY <2>1
  <1>3. ASSUME NEW keys, c = Combine(keys) PROVE G
    BY <1>3 DEF Combine, NoCmd, Cmd
  <1> HIDE DEF G
  <1>4. c \in KeyReads(app) => \E k : c \in ReadsOfKey(k)
    BY DEF KeyReads
  <1>5. c \in ElementReads(app) => \E p : c \in ReadsOfElement(p[1], p[2])
    BY DEF ElementReads
  <1>6. c \in Combinations(app) => \E keys : c = Combine(keys)
    BY DEF Combinations
  <1>7. G
    BY <1>1, <1>2, <1>3, <1>4, <1>5, <1>6, Zenon DEF Reads
  <1> QED BY <1>7 DEF G

LEMMA AnswerIs ==
    ASSUME NEW t, NEW n, NEW els
    PROVE  Answer(t, n, els).t = t /\ Answer(t, n, els).n = n /\ Answer(t, n, els).els = els
  BY DEF Answer

(* What a read tells of a key that holds a text and nothing else.          *)
LEMMA ReadOfClaim ==
    ASSUME NEW app, NEW c \in Reads(app), NEW k, NEW t, c.keys = <<k>>, Claimed(store[k], t)
    PROVE  LET r == Reply(c, store) IN
           /\ Told(c, r) = (IF c.kind \in {"any", "string"} THEN "found" ELSE "failed")
           /\ c.verb = "get" => r.els = <<t>>
           /\ c.verb = "exists" => r.n = 1
  <1> DEFINE r == Reply(c, store)
             v == store[k]
  <1>1. v # None /\ v.els = <<t>> /\ TypeOf(v) = "string"
    BY NothingHeld DEF Claimed, TypeOf
  <1>2. c.keys[1] = k /\ \A i \in DOMAIN c.keys : c.keys[i] = k
    OBVIOUS
  <1>3. 1 \in DOMAIN c.keys
    OBVIOUS
  <1> HIDE DEF v
  <1>4. CASE c.kind \notin {"any", "string"}
    <2>1. WrongType(c, store)
      BY <1>1, <1>2, <1>3, <1>4 DEF WrongType, v
    <2>2. r = Answer("error", 0, <<>>)
      BY <2>1 DEF Reply
    <2>3. r.t = "error" /\ r.n = 0
      BY <2>2 DEF Answer
    <2>4. c.verb \notin {"get", "exists"}
      BY <1>4, ReadVerbs
    <2> QED BY <1>4, <2>3, <2>4 DEF Told
  <1>5. CASE c.kind \in {"any", "string"}
    <2>1. c.verb \in {"get", "exists", "ttl", "type", "none"}
      BY <1>5, ReadVerbs
    <2>2. ~WrongType(c, store)
      BY <1>1, <1>2, <1>5 DEF WrongType, v
    <2>3. /\ c.verb = "get" => r = Answer("value", v.num, v.els)
          /\ c.verb = "ttl" => r = Number(IF v.ttl THEN 1 ELSE -1)
          /\ c.verb \in {"exists", "type"} => r = Number(1)
          /\ c.verb = "none" => r = Answer("value", Len(v.els), v.els)
      BY <1>1, <1>2, <2>2 DEF Reply, v
    <2> HIDE DEF r
    <2>4. /\ r.t = "value"
          /\ c.verb = "ttl" => r.n \in {1, -1}
          /\ c.verb \in {"exists", "type"} => r.n = 1
          /\ c.verb = "get" => r.els = v.els
      BY <2>1, <2>3, AnswerIs DEF Number
    <2>5. ~SaysGone(c, r)
      BY <2>1, <2>4 DEF SaysGone
    <2>6. Told(c, r) = "found"
      BY <2>4, <2>5 DEF Told
    <2> QED BY <1>1, <1>5, <2>4, <2>6 DEF r
  <1> QED BY <1>4, <1>5

(* While a claim stands every handler is told of it: a read finds the      *)
(* claimant's value, and another's write only if absent is told false and  *)
(* stores nothing, though its command be sent twice.                       *)
THEOREM ClaimsAreSeen == Spec => []ClaimSeen
  <1>1. ASSUME ClaimInv, NEW p \in claims, NEW c \in Reads(p[1].app), c.keys = <<p[1]>>
        PROVE  LET r == Reply(c, store) IN
               /\ Told(c, r) = (IF c.kind \in {"any", "string"} THEN "found" ELSE "failed")
               /\ c.verb = "get" => r.els = <<p[2]>>
               /\ c.verb = "exists" => r.n = 1
    <2>1. Claimed(store[p[1]], p[2])
      BY <1>1 DEF ClaimInv
    <2> QED BY <1>1, <2>1, ReadOfClaim
  <1>2. ASSUME ClaimInv, NEW p \in claims, NEW o \in SetModes, NEW outcome \in {"answered", "resent"},
               NEW t \in Toks, o.OnlyIfAbsent, NEW c, c = Set(p[1], t, o)
        PROVE  Told(c, Heard(c, outcome)) = "empty" /\ Effect(c, outcome) = store
    <2>1. p[1] \in Keys /\ store[p[1]] # None
      BY <1>2, NothingHeld DEF ClaimInv, Claimed
    <2>2. After(c, store) = store /\ Told(c, Reply(c, store)) = "empty"
      BY <1>2, <2>1, SetIfTaken
    <2> QED BY <2>2 DEF Heard, Effect
  <1>3. ClaimInv => ClaimSeen
    BY <1>1, <1>2 DEF ClaimSeen
  <1> QED BY <1>3, ClaimsAlways, PTL
-----------------------------------------------------------------------------
(* The calls under way, from one step to the next.                         *)

(* A call that a step leaves alone, but for the keys that are no longer    *)
(* what its walk asks for.                                                 *)
Aged(c, d) ==
    /\ d.op = c.op /\ d.todo = c.todo /\ d.asked = c.asked /\ d.done = c.done /\ d.got = c.got
    /\ d.at = c.at /\ d.visits = c.visits /\ d.kind = c.kind /\ d.end = c.end
    /\ \A k \in d.stable : k \in c.stable /\ (store'[k] = store[k] \/ Matching(c.kind, store'[k]))

(* What a step may do to the call of a handler.                            *)
Advanced(h) ==
    \/ Aged(calls[h], calls'[h])
    \/ calls'[h] = Idle
    \/ calls'[h].op = "Transaction"
    \/ \E op \in BatchOps, names \in BatchNames : BatchStart(h, op, names)
    \/ \E kind, shards : shards \in Visited /\ ScanStart(h, kind, shards)
    \/ \E outcome \in Outcomes : GetMany(h, outcome)
    \/ \E goes, outcome : Walk(h, goes, outcome)
    \/ \E outcome \in Outcomes : SetMany(h, outcome) \/ DeleteMany(h, outcome)

LEMMA SteadyIs ==
    ASSUME NEW new, \A h \in Handlers : IsCall(new[h]), calls' = Steady(new)
    PROVE  CallsInv' /\ \A h \in Handlers : Aged(new[h], calls'[h])
  <1>1. DOMAIN calls' = Handlers
    BY DEF Steady
  <1>2. ASSUME NEW h \in Handlers PROVE IsCall(calls'[h]) /\ Aged(new[h], calls'[h])
    <2> DEFINE c == new[h]
               S == {k \in c.stable : Matching(c.kind, store'[k])}
    <2>1. calls'[h] = [c EXCEPT !.stable = S]
      BY DEF Steady
    <2>2. c = [op |-> c.op, todo |-> c.todo, asked |-> c.asked, done |-> c.done, got |-> c.got,
               at |-> c.at, visits |-> c.visits, kind |-> c.kind, stable |-> c.stable, end |-> c.end]
      BY DEF IsCall
    <2>3. \A k \in S : k \in c.stable /\ Matching(c.kind, store'[k])
      OBVIOUS
    <2> HIDE DEF c, S
    <2>4. calls'[h] =
              [op |-> c.op, todo |-> c.todo, asked |-> c.asked, done |-> c.done, got |-> c.got,
               at |-> c.at, visits |-> c.visits, kind |-> c.kind, stable |-> S, end |-> c.end]
      BY <2>1, <2>2
    <2>5. IsCall(calls'[h])
      BY <2>4 DEF IsCall
    <2>6. Aged(c, calls'[h])
      BY <2>3, <2>4 DEF Aged
    <2> QED BY <2>5, <2>6 DEF c
  <1> QED BY <1>1, <1>2 DEF CallsInv

LEMMA IdleIsCall == IsCall(Idle)
  BY DEF IsCall, Idle

LEMMA IdleFields ==
    /\ Idle.op = "idle" /\ Idle.todo = <<>> /\ Idle.asked = {} /\ Idle.done = {} /\ Idle.got = {}
    /\ Idle.at = 0 /\ Idle.visits = {} /\ Idle.kind = "any" /\ Idle.stable = {} /\ Idle.end = "open"
  BY DEF Idle

LEMMA Unmoved == ASSUME NEW c PROVE store' = store => Aged(c, c)
  BY DEF Aged

(* The call of one handler replaced by another, nothing else in Redis.     *)
LEMMA ReplacedIs ==
    ASSUME CallsInv, NEW h \in Handlers, NEW c, IsCall(c), calls' = [calls EXCEPT ![h] = c],
           store' = store
    PROVE  /\ CallsInv' /\ calls'[h] = c
           /\ \A q \in Handlers : q # h => Aged(calls[q], calls'[q])
  <1>1. DOMAIN calls' = Handlers /\ calls'[h] = c
    BY DEF CallsInv
  <1>2. \A q \in Handlers : q # h => calls'[q] = calls[q]
    BY DEF CallsInv
  <1>3. \A q \in Handlers : IsCall(calls'[q])
    BY <1>1, <1>2 DEF CallsInv
  <1> QED BY <1>1, <1>2, <1>3, Unmoved DEF CallsInv

(* The same with what follows a command that changes the keyspace.         *)
LEMMA ReplacedSteady ==
    ASSUME CallsInv, NEW h \in Handlers, NEW c, IsCall(c),
           calls' = Steady([calls EXCEPT ![h] = c])
    PROVE  /\ CallsInv' /\ Aged(c, calls'[h])
           /\ \A q \in Handlers : q # h => Aged(calls[q], calls'[q])
  <1> DEFINE new == [calls EXCEPT ![h] = c]
  <1>1. new[h] = c /\ \A q \in Handlers : q # h => new[q] = calls[q]
    BY DEF CallsInv
  <1>2. \A q \in Handlers : IsCall(new[q])
    BY <1>1 DEF CallsInv
  <1> HIDE DEF new
  <1>3. calls' = Steady(new)
    BY DEF new
  <1> QED BY <1>1, <1>2, <1>3, SteadyIs

(* A batch, and the same once its first group was sent.                    *)
SentOne(c, d, outcome, done, got) ==
    /\ d.op = c.op /\ d.todo = Tail(c.todo) /\ d.asked = c.asked
    /\ d.done = c.done \cup done
    /\ d.got = IF IsHeard(outcome) THEN c.got \cup got ELSE c.got
    /\ d.end = IF ~IsHeard(outcome) THEN "error"
               ELSE IF Len(c.todo) = 1 THEN "ok" ELSE "open"

LEMMA GroupDoneIs ==
    ASSUME NEW c, IsCall(c), NEW outcome, NEW done, NEW got, NEW d,
           d = GroupDone(c, outcome, done, got)
    PROVE  IsCall(d) /\ SentOne(c, d, outcome, done, got)
  <1> DEFINE t == Tail(c.todo)
             D == c.done \cup done
             G == IF IsHeard(outcome) THEN c.got \cup got ELSE c.got
             e == IF ~IsHeard(outcome) THEN "error" ELSE IF Len(c.todo) = 1 THEN "ok" ELSE "open"
  <1>1. d = [c EXCEPT !.todo = t, !.done = D, !.got = G, !.end = e]
    BY DEF GroupDone
  <1>2. c = [op |-> c.op, todo |-> c.todo, asked |-> c.asked, done |-> c.done, got |-> c.got,
             at |-> c.at, visits |-> c.visits, kind |-> c.kind, stable |-> c.stable, end |-> c.end]
    BY DEF IsCall
  <1> HIDE DEF t, D, G, e
  <1>3. d = [op |-> c.op, todo |-> t, asked |-> c.asked, done |-> D, got |-> G,
             at |-> c.at, visits |-> c.visits, kind |-> c.kind, stable |-> c.stable, end |-> e]
    BY <1>1, <1>2
  <1>4. IsCall(d)
    BY <1>3 DEF IsCall
  <1>5. d.op = c.op /\ d.todo = t /\ d.asked = c.asked /\ d.done = D /\ d.got = G /\ d.end = e
    BY <1>3
  <1> QED BY <1>4, <1>5 DEF SentOne, t, D, G, e

(* The calls that begin with a step, field by field.                       *)
BatchCall(h, op, names) ==
    [op |-> op, todo |-> BySlot(KeyNames(AppOf[h], names)), asked |-> ToSet(KeyNames(AppOf[h], names)),
     done |-> {}, got |-> {}, at |-> used[AppOf[h]], visits |-> {}, kind |-> "any", stable |-> {},
     end |-> "open"]
ScanCall(h, kind, shards) ==
    [op |-> "Scan", todo |-> <<>>, asked |-> {k \in KeysOf(AppOf[h]) : ShardOf(k) \in shards},
     done |-> {}, got |-> {}, at |-> 1, visits |-> shards, kind |-> kind,
     stable |-> {k \in KeysOf(AppOf[h]) : Matching(kind, store[k])}, end |-> "open"]

LEMMA BatchCallIs ==
    ASSUME CallsInv, NEW h \in Handlers, NEW op, NEW names, BatchStart(h, op, names)
    PROVE  /\ CallsInv' /\ calls'[h] = BatchCall(h, op, names) /\ store' = store
           /\ \A q \in Handlers : q # h => Aged(calls[q], calls'[q])
  <1> DEFINE c == BatchCall(h, op, names)
  <1>1. IsCall(c)
    BY DEF BatchCall, IsCall
  <1>2. calls' = [calls EXCEPT ![h] = c] /\ store' = store
    <2> DEFINE todo == BySlot(KeyNames(AppOf[h], names))
               asked == ToSet(KeyNames(AppOf[h], names))
               d == [Idle EXCEPT !.op = op, !.todo = todo, !.asked = asked, !.at = used[AppOf[h]]]
    <2>1. calls' = [calls EXCEPT ![h] = d] /\ store' = store
      BY DEF BatchStart, Start
    <2> HIDE DEF todo, asked
    <2>2. d = [op |-> op, todo |-> todo, asked |-> asked, done |-> {}, got |-> {},
               at |-> used[AppOf[h]], visits |-> {}, kind |-> "any", stable |-> {}, end |-> "open"]
      <3>1. d = [op |-> op, todo |-> todo, asked |-> asked, done |-> Idle.done, got |-> Idle.got,
                 at |-> used[AppOf[h]], visits |-> Idle.visits, kind |-> Idle.kind,
                 stable |-> Idle.stable, end |-> Idle.end]
        <4>1. d = [Idle EXCEPT !.op = op, !.todo = todo, !.asked = asked, !.at = used[AppOf[h]]]
          OBVIOUS
        <4>2. Idle =
                [op |-> Idle.op, todo |-> Idle.todo, asked |-> Idle.asked, done |-> Idle.done,
                 got |-> Idle.got, at |-> Idle.at, visits |-> Idle.visits, kind |-> Idle.kind,
                 stable |-> Idle.stable, end |-> Idle.end]
          BY IdleIsCall DEF IsCall
        <4> HIDE DEF d
        <4> QED BY <4>1, <4>2
      <3> HIDE DEF d
      <3> QED BY <3>1, IdleFields
    <2> HIDE DEF d
    <2>3. d = c
      BY <2>2 DEF BatchCall, todo, asked
    <2> QED BY <2>1, <2>3
  <1> HIDE DEF c
  <1>3. CallsInv' /\ calls'[h] = c /\ \A q \in Handlers : q # h => Aged(calls[q], calls'[q])
    BY <1>1, <1>2, ReplacedIs
  <1> QED BY <1>2, <1>3 DEF c

LEMMA ScanCallIs ==
    ASSUME CallsInv, NEW h \in Handlers, NEW kind, NEW shards, ScanStart(h, kind, shards)
    PROVE  /\ CallsInv' /\ calls'[h] = ScanCall(h, kind, shards) /\ store' = store
           /\ \A q \in Handlers : q # h => Aged(calls[q], calls'[q])
  <1> DEFINE c == ScanCall(h, kind, shards)
  <1>1. IsCall(c)
    BY DEF ScanCall, IsCall
  <1>2. calls' = [calls EXCEPT ![h] = c] /\ store' = store
    <2> DEFINE asked == {k \in KeysOf(AppOf[h]) : ShardOf(k) \in shards}
               stable == {k \in KeysOf(AppOf[h]) : Matching(kind, store[k])}
               d == [Idle EXCEPT !.op = "Scan", !.at = 1, !.visits = shards, !.kind = kind,
                                 !.asked = asked, !.stable = stable]
    <2>1. calls' = [calls EXCEPT ![h] = d] /\ store' = store
      BY DEF ScanStart, Start
    <2> HIDE DEF asked, stable
    <2>2. d = [op |-> "Scan", todo |-> <<>>, asked |-> asked, done |-> {}, got |-> {},
               at |-> 1, visits |-> shards, kind |-> kind, stable |-> stable, end |-> "open"]
      <3>1. d = [op |-> "Scan", todo |-> Idle.todo, asked |-> asked, done |-> Idle.done,
                 got |-> Idle.got, at |-> 1, visits |-> shards, kind |-> kind, stable |-> stable,
                 end |-> Idle.end]
        <4>1. d = [Idle EXCEPT !.op = "Scan", !.at = 1, !.visits = shards, !.kind = kind,
                         !.asked = asked, !.stable = stable]
          OBVIOUS
        <4>2. Idle =
                [op |-> Idle.op, todo |-> Idle.todo, asked |-> Idle.asked, done |-> Idle.done,
                 got |-> Idle.got, at |-> Idle.at, visits |-> Idle.visits, kind |-> Idle.kind,
                 stable |-> Idle.stable, end |-> Idle.end]
          BY IdleIsCall DEF IsCall
        <4> HIDE DEF d
        <4> QED BY <4>1, <4>2
      <3> HIDE DEF d
      <3> QED BY <3>1, IdleFields
    <2> HIDE DEF d
    <2>3. d = c
      BY <2>2 DEF ScanCall, asked, stable
    <2> QED BY <2>1, <2>3
  <1> HIDE DEF c
  <1>3. CallsInv' /\ calls'[h] = c /\ \A q \in Handlers : q # h => Aged(calls[q], calls'[q])
    BY <1>1, <1>2, ReplacedIs
  <1> QED BY <1>2, <1>3 DEF c

(* A page of a walk, and what the call is after it.                        *)
ShardAt(c) == CHOOSE s \in c.visits : TRUE
Page(h) == {k \in KeysOf(AppOf[h]) : /\ k.name = calls[h].at /\ ShardOf(k) = ShardAt(calls[h])
                                     /\ Matching(calls[h].kind, store[k])}
LeftOf(c) == IF c.at = NNames THEN c.visits \ {ShardAt(c)} ELSE c.visits

LEMMA WalkIs ==
    ASSUME CallsInv, NEW h \in Handlers, NEW goes, NEW outcome, Walk(h, goes, outcome)
    PROVE  /\ CallsInv' /\ store' = store
           /\ \A q \in Handlers : q # h => Aged(calls[q], calls'[q])
           /\ calls[h].op = "Scan" /\ calls[h].end = "open" /\ calls'[h].op = "Scan"
           /\ outcome = "failed" => calls'[h].end = "error"
           /\ outcome # "failed" =>
                /\ calls'[h].asked = calls[h].asked /\ calls'[h].stable = calls[h].stable
                /\ calls'[h].kind = calls[h].kind
                /\ calls'[h].got = calls[h].got \cup {<<k, <<>>>> : k \in Page(h)}
                /\ calls'[h].visits = LeftOf(calls[h])
                /\ calls'[h].at = IF LeftOf(calls[h]) = calls[h].visits THEN calls[h].at + 1 ELSE 1
                /\ calls'[h].end \in {"stopped", "ok", "open"}
                /\ calls'[h].end = "ok" => LeftOf(calls[h]) = {}
                /\ calls'[h].end = "open" => LeftOf(calls[h]) # {}
  <1> DEFINE c == calls[h]
             G == c.got \cup {<<k, <<>>>> : k \in Page(h)}
             L == LeftOf(c)
             a == IF L = c.visits THEN c.at + 1 ELSE 1
             e == IF ~goes /\ Page(h) # {} THEN "stopped" ELSE IF L = {} THEN "ok" ELSE "open"
             d == IF outcome = "failed" THEN [c EXCEPT !.end = "error"]
                  ELSE [c EXCEPT !.got = G, !.visits = L, !.at = a, !.end = e]
  <1>1. calls' = [calls EXCEPT ![h] = d] /\ store' = store /\ c.op = "Scan" /\ c.end = "open"
    BY DEF Walk, WalkEnds, Page, LeftOf, ShardAt
  <1>2. c = [op |-> c.op, todo |-> c.todo, asked |-> c.asked, done |-> c.done, got |-> c.got,
             at |-> c.at, visits |-> c.visits, kind |-> c.kind, stable |-> c.stable, end |-> c.end]
    BY DEF CallsInv, IsCall
  <1>3. e \in {"stopped", "ok", "open"} /\ (e = "ok" => L = {}) /\ (e = "open" => L # {})
    OBVIOUS
  <1> HIDE DEF G, L, a, e
  <1>4. CASE outcome = "failed"
    <2>1. d = [op |-> c.op, todo |-> c.todo, asked |-> c.asked, done |-> c.done, got |-> c.got,
               at |-> c.at, visits |-> c.visits, kind |-> c.kind, stable |-> c.stable, end |-> "error"]
      BY <1>2, <1>4
    <2> HIDE DEF d
    <2>2. IsCall(d) /\ d.op = c.op /\ d.end = "error"
      BY <2>1 DEF IsCall
    <2>3. CallsInv' /\ calls'[h] = d /\ \A q \in Handlers : q # h => Aged(calls[q], calls'[q])
      BY <1>1, <2>2, ReplacedIs
    <2> QED BY <1>1, <1>4, <2>2, <2>3
  <1>5. CASE outcome # "failed"
    <2>1. d = [op |-> c.op, todo |-> c.todo, asked |-> c.asked, done |-> c.done, got |-> G,
               at |-> a, visits |-> L, kind |-> c.kind, stable |-> c.stable, end |-> e]
      BY <1>2, <1>5
    <2> HIDE DEF d
    <2>2. /\ IsCall(d) /\ d.op = c.op /\ d.asked = c.asked /\ d.stable = c.stable /\ d.kind = c.kind
          /\ d.got = G /\ d.visits = L /\ d.at = a /\ d.end = e
      BY <2>1 DEF IsCall
    <2>3. CallsInv' /\ calls'[h] = d /\ \A q \in Handlers : q # h => Aged(calls[q], calls'[q])
      BY <1>1, <2>2, ReplacedIs
    <2> QED BY <1>1, <1>3, <1>5, <2>2, <2>3 DEF G, L, a
  <1> QED BY <1>4, <1>5

(* The result of a group sent, and a transaction's.                        *)
LEMMA GroupIs ==
    ASSUME CallsInv, NEW h \in Handlers, NEW op, NEW outcome, NEW new, Group(h, op, outcome, new)
    PROVE  /\ CallsInv'
           /\ \A q \in Handlers : q # h => Aged(calls[q], calls'[q])
           /\ \E got : Aged(GroupDone(calls[h], outcome,
                              IF outcome = "failed" THEN {}
                              ELSE {<<k, <<>>>> : k \in ToSet(Head(calls[h].todo))}, got), calls'[h])
  <1> DEFINE done == IF outcome = "failed" THEN {}
                     ELSE {<<k, <<>>>> : k \in ToSet(Head(calls[h].todo))}
             got == IF outcome = "answered"
                    THEN {<<k, <<>>>> : k \in {k \in ToSet(Head(calls[h].todo)) : store[k] # None}}
                    ELSE {}
             d == GroupDone(calls[h], outcome, done, got)
  <1>1. calls' = Steady([calls EXCEPT ![h] = d])
    BY DEF Group
  <1>2. IsCall(calls[h])
    BY DEF CallsInv
  <1> HIDE DEF done, got
  <1>3. IsCall(d)
    BY <1>2, GroupDoneIs
  <1>4. CallsInv' /\ Aged(d, calls'[h]) /\ \A q \in Handlers : q # h => Aged(calls[q], calls'[q])
    <2> HIDE DEF d
    <2> QED BY <1>1, <1>3, ReplacedSteady
  <1> QED BY <1>4 DEF done

LEMMA TransactionIs ==
    ASSUME CallsInv, NEW h \in Handlers, NEW queue, NEW outcome, Transaction(h, queue, outcome)
    PROVE  CallsInv' /\ \A q \in Handlers : Aged(calls[q], calls'[q]) \/ calls'[q].op = "Transaction"
  <1>1. CASE ~SameSlot(RecordedKeys(queue))
    <2>1. calls' = calls /\ store' = store
      BY <1>1 DEF Transaction
    <2> QED BY <2>1, Unmoved DEF CallsInv
  <1>2. CASE SameSlot(RecordedKeys(queue))
    <2> DEFINE e == IF outcome = "answered" /\ FirstError(Replies(queue)) \in {"none", "nil"}
                    THEN "ok" ELSE IF outcome = "answered" THEN "refused" ELSE "error"
               d == [Idle EXCEPT !.op = "Transaction", !.end = e]
    <2>1. calls' = Steady([calls EXCEPT ![h] = d])
      BY <1>2 DEF Transaction
    <2> HIDE DEF e
    <2>2. IsCall(d) /\ d.op = "Transaction"
      <3>1. d = [Idle EXCEPT !.op = "Transaction", !.end = e]
        OBVIOUS
      <3>2. Idle =
              [op |-> Idle.op, todo |-> Idle.todo, asked |-> Idle.asked, done |-> Idle.done,
               got |-> Idle.got, at |-> Idle.at, visits |-> Idle.visits, kind |-> Idle.kind,
               stable |-> Idle.stable, end |-> Idle.end]
        BY IdleIsCall DEF IsCall
      <3> HIDE DEF d
      <3>3. d =
              [op |-> "Transaction", todo |-> Idle.todo, asked |-> Idle.asked, done |-> Idle.done,
               got |-> Idle.got, at |-> Idle.at, visits |-> Idle.visits, kind |-> Idle.kind,
               stable |-> Idle.stable, end |-> e]
        BY <3>1, <3>2
      <3> QED BY <3>3 DEF IsCall
    <2> HIDE DEF d
    <2>3. CallsInv' /\ Aged(d, calls'[h]) /\ \A q \in Handlers : q # h => Aged(calls[q], calls'[q])
      BY <2>1, <2>2, ReplacedSteady
    <2> QED BY <2>2, <2>3 DEF Aged
  <1> QED BY <1>1, <1>2

LEMMA GetManyIs ==
    ASSUME CallsInv, NEW h \in Handlers, NEW outcome, GetMany(h, outcome)
    PROVE  /\ CallsInv' /\ store' = store
           /\ \A q \in Handlers : q # h => Aged(calls[q], calls'[q])
           /\ \E s : calls'[h] = GroupDone(calls[h], outcome, s, s)
  <1> DEFINE group  == Head(calls[h].todo)
             values == [i \in DOMAIN group |-> TextOf(store[group[i]])]
             done == {<<k, TextOf(store[k])>> : k \in {k \in ToSet(group) : TextOf(store[k]) # <<>>}}
             got == Found(calls[h], group, values)
             d == GroupDone(calls[h], outcome, done, got)
  <1>1. calls' = [calls EXCEPT ![h] = d] /\ store' = store
    BY DEF GetMany
  <1>2. IsCall(calls[h])
    BY DEF CallsInv
  <1>3. got = done
    <2> HIDE DEF group
    <2>1. \A x : x \in got <=> \E i \in DOMAIN group : /\ TextOf(store[group[i]]) # <<>>
                                                       /\ x = <<group[i], TextOf(store[group[i]])>>
      BY DEF Found
    <2>2. \A x : x \in done <=> \E i \in DOMAIN group : /\ TextOf(store[group[i]]) # <<>>
                                                        /\ x = <<group[i], TextOf(store[group[i]])>>
      BY DEF ToSet
    <2> HIDE DEF got, done
    <2> QED BY <2>1, <2>2
  <1> HIDE DEF done, got, group, values
  <1>4. IsCall(d)
    BY <1>2, GroupDoneIs
  <1>5. d = GroupDone(calls[h], outcome, done, done)
    BY <1>3
  <1> HIDE DEF d
  <1>6. CallsInv' /\ calls'[h] = d /\ \A q \in Handlers : q # h => Aged(calls[q], calls'[q])
    BY <1>1, <1>4, ReplacedIs
  <1> QED BY <1>1, <1>5, <1>6

(* A step leaves a call alone, begins one, ends one, or is its next.       *)
LEMMA CallsStep ==
    ASSUME CallsInv, [Next]_vars
    PROVE  CallsInv' /\ deployed' = deployed /\ \A h \in Handlers : Advanced(h)
  <1> DEFINE P == CallsInv' /\ \A h \in Handlers : Advanced(h)
  <1> HIDE DEF P
  <1>1. ASSUME CallsInv', NEW h \in Handlers, \A q \in Handlers : q # h => Aged(calls[q], calls'[q]),
               Advanced(h)
        PROVE  P
    BY <1>1 DEF P, Advanced
  <1>2. ASSUME calls' = Steady(calls) PROVE P
    BY <1>2, SteadyIs DEF P, Advanced, CallsInv
  <1>3. ASSUME NEW h \in Handlers, CallOnce(h, AppOf[h]) PROVE P
    <2>1. ASSUME NEW c, NEW outcome, NEW claim, Single(h, c, outcome, claim) PROVE P
      BY <1>2, <2>1 DEF Single
    <2> QED BY <1>3, <2>1 DEF CallOnce, WriteOne, RemoveOne, WriteSet
  <1>4. ASSUME NEW h \in Handlers, CallMany(h, AppOf[h]) PROVE P
    <2>1. ASSUME NEW q, NEW outcome, Transaction(h, q, outcome) PROVE P
      BY <2>1, TransactionIs DEF P, Advanced
    <2>2. ASSUME NEW op \in BatchOps, NEW names \in BatchNames, BatchStart(h, op, names) PROVE P
      <3>1. Advanced(h)
        BY <2>2 DEF Advanced
      <3> QED BY <1>1, <2>2, <3>1, BatchCallIs
    <2>3. ASSUME NEW kind, NEW shards \in Visited, ScanStart(h, kind, shards) PROVE P
      <3>1. Advanced(h)
        BY <2>3 DEF Advanced
      <3> QED BY <1>1, <2>3, <3>1, ScanCallIs
    <2> QED BY <1>4, <2>1, <2>2, <2>3 DEF CallMany
  <1>5. ASSUME NEW h \in Handlers, Proceed(h) PROVE P
    <2>1. ASSUME NEW outcome \in Outcomes, SetMany(h, outcome) \/ DeleteMany(h, outcome) PROVE P
      <3>1. Advanced(h)
        BY <2>1 DEF Advanced
      <3>2. ASSUME NEW op, NEW new, Group(h, op, outcome, new) PROVE P
        BY <1>1, <3>1, <3>2, GroupIs
      <3> QED BY <2>1, <3>2 DEF SetMany, DeleteMany
    <2>2. ASSUME NEW outcome \in Outcomes, GetMany(h, outcome) PROVE P
      <3>1. Advanced(h)
        BY <2>2 DEF Advanced
      <3> QED BY <1>1, <2>2, <3>1, GetManyIs
    <2>3. ASSUME NEW goes, NEW outcome, Walk(h, goes, outcome) PROVE P
      <3>1. Advanced(h)
        BY <2>3 DEF Advanced
      <3> QED BY <1>1, <2>3, <3>1, WalkIs
    <2>4. CASE Return(h)
      <3>1. calls' = [calls EXCEPT ![h] = Idle] /\ store' = store
        BY <2>4 DEF Return
      <3>2. /\ CallsInv' /\ calls'[h] = Idle
            /\ \A q \in Handlers : q # h => Aged(calls[q], calls'[q])
        BY <3>1, IdleIsCall, ReplacedIs
      <3> QED BY <1>1, <3>2 DEF Advanced
    <2> QED BY <1>5, <2>1, <2>2, <2>3, <2>4 DEF Proceed
  <1>6. ASSUME NEW k, Lapse(k) PROVE P
    BY <1>2, <1>6 DEF Lapse
  <1>7. ASSUME UNCHANGED vars PROVE P
    <2>1. calls' = calls /\ store' = store
      BY <1>7 DEF vars
    <2>2. CallsInv'
      BY <2>1 DEF CallsInv, IsCall
    <2>3. \A h \in Handlers : Aged(calls[h], calls'[h])
      BY <2>1, Unmoved
    <2> QED BY <2>2, <2>3 DEF P, Advanced
  <1>8. P
    <2>1. CASE Next
      <3>1. CASE \E h \in Handlers \ Batchers : CallOnce(h, AppOf[h])
        BY <1>3, <3>1
      <3>2. CASE \E h \in Batchers : IF calls[h] = Idle THEN CallMany(h, AppOf[h]) ELSE Proceed(h)
        BY <1>4, <1>5, <3>2, CacheAssumption
      <3>3. CASE \E k \in Keys : Lapse(k)
        BY <1>6, <3>3
      <3> QED BY <2>1, <3>1, <3>2, <3>3 DEF Next
    <2> QED BY <1>7, <2>1
  <1>9. deployed' = deployed
    BY DEF Next, vars
  <1> QED BY <1>8, <1>9 DEF P

-----------------------------------------------------------------------------
(* A batch sends its keys shard by shard, and all of them.                 *)

LEMMA KeyNamesAre ==
    ASSUME NEW h \in Handlers, NEW names \in BatchNames, names # <<>>
    PROVE  KeyNames(AppOf[h], names) \in Seq(Keys) /\ KeyNames(AppOf[h], names) # <<>>
  <1>1. names \in Seq(Names) /\ AppOf[h] \in Apps
    BY CacheAssumption
  <1>2. DOMAIN names = 1 .. Len(names) /\ Len(names) \in Nat /\ Len(names) # 0
    BY <1>1
  <1>3. \A i \in 1 .. Len(names) : Key(AppOf[h], names[i]) \in Keys
    BY <1>1 DEF Key, Keys
  <1> DEFINE s == KeyNames(AppOf[h], names)
             n == Len(names)
  <1>4. s = [i \in 1 .. n |-> Key(AppOf[h], names[i])]
    BY <1>2 DEF KeyNames
  <1> HIDE DEF n
  <1>5. s \in Seq(Keys)
    BY <1>2, <1>3, <1>4 DEF n
  <1>6. 1 \in DOMAIN s
    BY <1>2, <1>4 DEF n
  <1> HIDE DEF s
  <1>7. s # <<>>
    BY <1>6
  <1> QED BY <1>5, <1>7 DEF s

(* A batch reported whole is.                                              *)
Whole(c) ==
    c.end = "ok" =>
        /\ c.op \in {"SetMany", "DeleteMany"} => {p[1] : p \in c.done} = c.asked
        /\ c.op = "GetMany" => c.got = c.done

LEMMA OpenBatch ==
    ASSUME NEW c, Batched(c), c.op \in BatchOps, c.end = "open"
    PROVE  /\ c.todo \in Seq(Seq(Keys)) /\ c.todo # <<>>
           /\ \A g \in DOMAIN c.todo : SameSlot(c.todo[g])
           /\ SameSlot(Head(c.todo))
  <1>1. /\ c.todo \in Seq(Seq(Keys)) /\ c.todo # <<>>
        /\ \A g \in DOMAIN c.todo : SameSlot(c.todo[g])
    BY DEF Batched, BatchOpen
  <1>2. 1 \in DOMAIN c.todo /\ Head(c.todo) = c.todo[1]
    BY <1>1
  <1> QED BY <1>1, <1>2

(* The groups after the first, and the keys of them.                       *)
LEMMA AfterTheFirst ==
    ASSUME NEW S, NEW s \in Seq(S), s # <<>>
    PROVE  /\ Tail(s) \in Seq(S) /\ Len(s) \in Nat \ {0}
           /\ \A g \in DOMAIN Tail(s) : g + 1 \in DOMAIN s /\ Tail(s)[g] = s[g + 1]
           /\ Tail(s) = <<>> <=> Len(s) = 1
           /\ UNION {ToSet(s[g]) : g \in DOMAIN s} =
                ToSet(Head(s)) \cup UNION {ToSet(Tail(s)[g]) : g \in DOMAIN Tail(s)}
  <1>1. /\ Tail(s) \in Seq(S) /\ Len(s) \in Nat \ {0} /\ Len(Tail(s)) = Len(s) - 1
        /\ DOMAIN Tail(s) = 1 .. (Len(s) - 1) /\ DOMAIN s = 1 .. Len(s) /\ Head(s) = s[1]
    OBVIOUS
  <1>2. \A g \in DOMAIN Tail(s) : g + 1 \in DOMAIN s /\ Tail(s)[g] = s[g + 1]
    OBVIOUS
  <1>3. Tail(s) = <<>> <=> Len(s) = 1
    <2>1. ASSUME NEW t \in Seq(S) PROVE t = <<>> <=> Len(t) = 0
      OBVIOUS
    <2>2. Tail(s) = <<>> <=> Len(Tail(s)) = 0
      BY <1>1, <2>1
    <2> QED BY <1>1, <2>2
  <1>4. \A g \in DOMAIN s : g = 1 \/ (g - 1 \in DOMAIN Tail(s) /\ s[g] = Tail(s)[g - 1])
    BY <1>1, <1>2
  <1>5. 1 \in DOMAIN s
    BY <1>1
  <1>6. UNION {ToSet(s[g]) : g \in DOMAIN s} =
          ToSet(Head(s)) \cup UNION {ToSet(Tail(s)[g]) : g \in DOMAIN Tail(s)}
    <2>1. ASSUME NEW g \in DOMAIN s, NEW k \in ToSet(s[g])
          PROVE  k \in ToSet(Head(s)) \/ \E f \in DOMAIN Tail(s) : k \in ToSet(Tail(s)[f])
      BY <1>1, <1>4, <2>1
    <2>2. ASSUME NEW k, k \in ToSet(Head(s)) \/ \E f \in DOMAIN Tail(s) : k \in ToSet(Tail(s)[f])
          PROVE  \E g \in DOMAIN s : k \in ToSet(s[g])
      BY <1>1, <1>2, <1>5, <2>2
    <2> QED BY <2>1, <2>2
  <1> QED BY <1>1, <1>2, <1>3, <1>6

LEMMA GroupSent ==
    ASSUME NEW c, IsCall(c), Batched(c), c.op \in BatchOps, c.end = "open",
           NEW outcome, NEW s, NEW got, NEW d, d = GroupDone(c, outcome, s, got),
           c.op = "GetMany" => got = s,
           c.op # "GetMany" /\ IsHeard(outcome) => {p[1] : p \in s} = ToSet(Head(c.todo))
    PROVE  Batched(d) /\ Whole(d)
  <1>1. /\ d.op = c.op /\ d.todo = Tail(c.todo) /\ d.asked = c.asked /\ d.done = c.done \cup s
        /\ d.got = IF IsHeard(outcome) THEN c.got \cup got ELSE c.got
        /\ d.end = IF ~IsHeard(outcome) THEN "error"
                   ELSE IF Len(c.todo) = 1 THEN "ok" ELSE "open"
    <2>1. SentOne(c, d, outcome, s, got)
      BY GroupDoneIs
    <2> QED BY <2>1 DEF SentOne
  <1>2. /\ c.todo \in Seq(Seq(Keys)) /\ c.todo # <<>>
        /\ \A g \in DOMAIN c.todo : SameSlot(c.todo[g])
    BY OpenBatch
  <1> DEFINE T == Tail(c.todo)
             rest == UNION {ToSet(T[g]) : g \in DOMAIN T}
  <1>3. /\ T \in Seq(Seq(Keys)) /\ Len(c.todo) \in Nat \ {0} /\ (T = <<>> <=> Len(c.todo) = 1)
        /\ \A g \in DOMAIN T : g + 1 \in DOMAIN c.todo /\ T[g] = c.todo[g + 1]
        /\ UNION {ToSet(c.todo[g]) : g \in DOMAIN c.todo} = ToSet(Head(c.todo)) \cup rest
    BY <1>2, AfterTheFirst, ZenonT(30)
  <1> HIDE DEF T
  <1>4. \A g \in DOMAIN T : SameSlot(T[g])
    BY <1>2, <1>3
  <1>5. T = <<>> => rest = {}
    OBVIOUS
  <1> HIDE DEF rest
  <1>6. CASE ~IsHeard(outcome)
    <2>1. d.end = "error"
      BY <1>1, <1>6
    <2> QED BY <2>1 DEF Batched, Whole
  <1>7. CASE IsHeard(outcome) /\ c.op = "GetMany"
    <2>1. d.got = d.done /\ d.op = "GetMany" /\ d.todo = T
      BY <1>1, <1>7 DEF Batched, T
    <2>2. d.end = "open" => T # <<>>
      BY <1>1, <1>3, <1>7
    <2> QED BY <1>3, <1>4, <2>1, <2>2 DEF Batched, Whole
  <1>8. CASE IsHeard(outcome) /\ c.op # "GetMany"
    <2>1. {p[1] : p \in c.done} \cup UNION {ToSet(c.todo[g]) : g \in DOMAIN c.todo} = c.asked
      BY <1>8 DEF Batched, BatchOpen
    <2>2. {p[1] : p \in d.done} = {p[1] : p \in c.done} \cup ToSet(Head(c.todo))
      <3>1. {p[1] : p \in d.done} = {p[1] : p \in c.done} \cup {p[1] : p \in s}
        BY <1>1
      <3> QED BY <1>8, <3>1
    <2>3. {p[1] : p \in d.done} \cup rest = d.asked
      BY <1>1, <1>3, <2>1, <2>2
    <2>4. CASE Len(c.todo) = 1
      <3>1. d.end = "ok" /\ {p[1] : p \in d.done} = d.asked
        BY <1>1, <1>3, <1>5, <1>8, <2>3, <2>4
      <3> QED BY <1>1, <1>8, <3>1 DEF Batched, Whole
    <2>5. CASE Len(c.todo) # 1
      <3>1. d.end = "open" /\ T # <<>> /\ d.todo = T /\ d.op # "GetMany"
        BY <1>1, <1>3, <1>8, <2>5 DEF T
      <3>2. BatchOpen(d)
        BY <1>3, <1>4, <2>3, <3>1 DEF BatchOpen, rest
      <3> QED BY <3>1, <3>2 DEF Batched, Whole
    <2> QED BY <2>4, <2>5
  <1> QED BY <1>6, <1>7, <1>8

LEMMA BatchBegins ==
    ASSUME CallsInv, NEW h \in Handlers, NEW op \in BatchOps, NEW names \in BatchNames,
           BatchStart(h, op, names)
    PROVE  Batched(calls'[h]) /\ Whole(calls'[h])
  <1> DEFINE keys == KeyNames(AppOf[h], names)
             B == BySlot(keys)
             c == calls'[h]
  <1>1. c = BatchCall(h, op, names) /\ names # <<>>
    BY BatchCallIs DEF BatchStart
  <1>2. /\ c.op = op /\ c.todo = B /\ c.asked = ToSet(keys) /\ c.done = {} /\ c.got = {}
        /\ c.end = "open"
    BY <1>1 DEF BatchCall
  <1>3. keys \in Seq(Keys) /\ keys # <<>>
    BY <1>1, KeyNamesAre
  <1>4. /\ B \in Seq(Seq(Keys)) /\ B # <<>> /\ \A g \in DOMAIN B : SameSlot(B[g])
        /\ UNION {ToSet(B[g]) : g \in DOMAIN B} = ToSet(keys)
    BY <1>3, Grouped
  <1>5. {p[1] : p \in c.done} = {}
    BY <1>2
  <1> HIDE DEF B, keys, c
  <1>6. BatchOpen(c)
    BY <1>2, <1>4, <1>5 DEF BatchOpen
  <1>7. Batched(c)
    BY <1>2, <1>4, <1>6 DEF Batched
  <1>8. Whole(c)
    BY <1>2 DEF Whole
  <1> QED BY <1>7, <1>8 DEF c

LEMMA AgedBatch ==
    ASSUME NEW c, NEW d, Aged(c, d), Batched(c), Whole(c)
    PROVE  Batched(d) /\ Whole(d)
  BY DEF Aged, Batched, BatchOpen, Whole

LEMMA NotABatch ==
    ASSUME NEW c, c.op \notin BatchOps
    PROVE  Batched(c) /\ Whole(c)
  BY DEF Batched, Whole, BatchOps

(* Whatever a step does to a call, its batch stays in order.               *)
LEMMA BatchStep ==
    ASSUME CallsInv, NEW h \in Handlers, Batched(calls[h]), Whole(calls[h]), Advanced(h)
    PROVE  Batched(calls'[h]) /\ Whole(calls'[h])
  <1>1. CASE Aged(calls[h], calls'[h])
    BY <1>1, AgedBatch
  <1>2. CASE calls'[h] = Idle \/ calls'[h].op = "Transaction"
    <2>1. calls'[h].op \notin BatchOps
      BY <1>2, IdleFields DEF BatchOps
    <2> QED BY <2>1, NotABatch
  <1>3. CASE \E op \in BatchOps, names \in BatchNames : BatchStart(h, op, names)
    BY <1>3, BatchBegins
  <1>4. ASSUME NEW kind, NEW shards, ScanStart(h, kind, shards)
        PROVE  Batched(calls'[h]) /\ Whole(calls'[h])
    <2>1. calls'[h] = ScanCall(h, kind, shards)
      BY <1>4, ScanCallIs
    <2>2. calls'[h].op \notin BatchOps
      BY <2>1 DEF ScanCall, BatchOps
    <2> QED BY <2>2, NotABatch
  <1>5. ASSUME NEW outcome, GetMany(h, outcome)
        PROVE  Batched(calls'[h]) /\ Whole(calls'[h])
    <2>1. PICK s : calls'[h] = GroupDone(calls[h], outcome, s, s)
      BY <1>5, GetManyIs
    <2>2. calls[h].op = "GetMany" /\ calls[h].op \in BatchOps /\ calls[h].end = "open"
      BY <1>5 DEF GetMany, IsBatch, BatchOps
    <2>3. IsCall(calls[h])
      BY DEF CallsInv
    <2> QED BY <2>1, <2>2, <2>3, GroupSent
  <1>6. ASSUME NEW goes, NEW outcome, Walk(h, goes, outcome)
        PROVE  Batched(calls'[h]) /\ Whole(calls'[h])
    <2>1. calls'[h].op = "Scan"
      BY <1>6, WalkIs
    <2>2. calls'[h].op \notin BatchOps
      BY <2>1 DEF BatchOps
    <2> QED BY <2>2, NotABatch
  <1>7. ASSUME NEW op \in {"SetMany", "DeleteMany"}, NEW outcome, NEW new, Group(h, op, outcome, new)
        PROVE  Batched(calls'[h]) /\ Whole(calls'[h])
    <2> DEFINE s == IF outcome = "failed" THEN {}
                    ELSE {<<k, <<>>>> : k \in ToSet(Head(calls[h].todo))}
    <2>1. PICK got : Aged(GroupDone(calls[h], outcome, s, got), calls'[h])
      BY <1>7, GroupIs
    <2>2. calls[h].op # "GetMany" /\ calls[h].op \in BatchOps /\ calls[h].end = "open"
      BY <1>7 DEF Group, IsBatch, BatchOps
    <2>3. IsCall(calls[h])
      BY DEF CallsInv
    <2>4. IsHeard(outcome) => {p[1] : p \in s} = ToSet(Head(calls[h].todo))
      <3>1. IsHeard(outcome) => s = {<<k, <<>>>> : k \in ToSet(Head(calls[h].todo))}
        BY DEF IsHeard
      <3>2. ASSUME NEW S PROVE {p[1] : p \in {<<k, <<>>>> : k \in S}} = S
        <4>1. \A k \in S : <<k, <<>>>> \in {<<x, <<>>>> : x \in S} /\ <<k, <<>>>>[1] = k
          OBVIOUS
        <4>2. \A p \in {<<x, <<>>>> : x \in S} : p[1] \in S
          OBVIOUS
        <4> QED BY <4>1, <4>2
      <3> QED BY <3>1, <3>2
    <2> HIDE DEF s
    <2> DEFINE d == GroupDone(calls[h], outcome, s, got)
    <2>5. Batched(d) /\ Whole(d)
      BY <2>2, <2>3, <2>4, GroupSent
    <2> HIDE DEF d
    <2>6. Aged(d, calls'[h])
      BY <2>1 DEF d
    <2> QED BY <2>5, <2>6, AgedBatch
  <1> QED BY <1>1, <1>2, <1>3, <1>4, <1>5, <1>6, <1>7 DEF Advanced, SetMany, DeleteMany

(* One command names keys of one shard.                                    *)
LEMMA CrossedStep ==
    ASSUME CallsInv, \A h \in Handlers : Batched(calls[h]), NoCrossShardCommand, [Next]_vars
    PROVE  NoCrossShardCommand'
  <1>1. deployed' = deployed
    BY DEF Next, vars
  <1>2. ASSUME crossed' = crossed PROVE NoCrossShardCommand'
    BY <1>1, <1>2 DEF NoCrossShardCommand, Clustered
  <1>3. ASSUME NEW keys, NEW x, SameSlot(keys), crossed' = (crossed \/ (x /\ ~SameSlot(keys)))
        PROVE  NoCrossShardCommand'
    BY <1>1, <1>3 DEF NoCrossShardCommand, Clustered
  <1>4. ASSUME NEW keys, SameSlot(keys), crossed' = (crossed \/ ~SameSlot(keys))
        PROVE  NoCrossShardCommand'
    BY <1>1, <1>4 DEF NoCrossShardCommand, Clustered
  <1>5. ASSUME NEW h, NEW c, NEW outcome, NEW claim, Single(h, c, outcome, claim)
        PROVE  NoCrossShardCommand'
    <2>1. CASE SameSlot(c.keys)
      BY <1>3, <1>5, <2>1 DEF Single, Send
    <2>2. CASE ~SameSlot(c.keys)
      BY <1>2, <1>5, <2>2 DEF Single
    <2> QED BY <2>1, <2>2
  <1>6. ASSUME NEW h, NEW queue, NEW outcome, Transaction(h, queue, outcome)
        PROVE  NoCrossShardCommand'
    <2>1. CASE ~SameSlot(RecordedKeys(queue))
      BY <1>2, <1>6, <2>1 DEF Transaction
    <2>2. CASE SameSlot(RecordedKeys(queue))
      <3>1. crossed' = (crossed \/ ~SameSlot(RecordedKeys(queue)))
        BY <1>6, <2>2 DEF Transaction, RecordedKeys
      <3> QED BY <1>4, <2>2, <3>1
    <2> QED BY <2>1, <2>2
  <1>7. ASSUME NEW h \in Handlers, NEW op \in BatchOps, NEW outcome, NEW new, Group(h, op, outcome, new)
        PROVE  NoCrossShardCommand'
    <2>1. calls[h].op \in BatchOps /\ calls[h].end = "open"
      BY <1>7 DEF Group, IsBatch
    <2>2. SameSlot(Head(calls[h].todo))
      BY <2>1, OpenBatch
    <2>3. crossed' = (crossed \/ (outcome # "failed" /\ ~SameSlot(Head(calls[h].todo))))
      BY <1>7 DEF Group
    <2> QED BY <1>3, <2>2, <2>3
  <1>8. ASSUME NEW h \in Handlers, NEW outcome, GetMany(h, outcome) PROVE NoCrossShardCommand'
    <2>1. calls[h].op \in BatchOps /\ calls[h].end = "open"
      BY <1>8 DEF GetMany, IsBatch, BatchOps
    <2>2. SameSlot(Head(calls[h].todo))
      BY <2>1, OpenBatch
    <2>3. crossed' = (crossed \/ ~SameSlot(Head(calls[h].todo)))
      BY <1>8 DEF GetMany
    <2> QED BY <1>4, <2>2, <2>3
  <1>9. ASSUME NEW h \in Handlers, CallOnce(h, AppOf[h]) PROVE NoCrossShardCommand'
    BY <1>5, <1>9 DEF CallOnce, WriteOne, RemoveOne, WriteSet
  <1>10. ASSUME NEW h \in Handlers, CallMany(h, AppOf[h]) PROVE NoCrossShardCommand'
    <2>1. ASSUME NEW op, NEW names, BatchStart(h, op, names) PROVE NoCrossShardCommand'
      BY <1>2, <2>1 DEF BatchStart
    <2>2. ASSUME NEW kind, NEW shards, ScanStart(h, kind, shards) PROVE NoCrossShardCommand'
      BY <1>2, <2>2 DEF ScanStart
    <2> QED BY <1>6, <1>10, <2>1, <2>2 DEF CallMany
  <1>11. ASSUME NEW h \in Handlers, Proceed(h) PROVE NoCrossShardCommand'
    <2>1. ASSUME NEW outcome, SetMany(h, outcome) \/ DeleteMany(h, outcome) PROVE NoCrossShardCommand'
      BY <1>7, <2>1 DEF SetMany, DeleteMany, BatchOps
    <2>2. ASSUME NEW goes, NEW outcome, Walk(h, goes, outcome) PROVE NoCrossShardCommand'
      BY <1>2, <2>2 DEF Walk
    <2>3. ASSUME Return(h) PROVE NoCrossShardCommand'
      BY <1>2, <2>3 DEF Return
    <2> QED BY <1>8, <1>11, <2>1, <2>2, <2>3 DEF Proceed
  <1>12. ASSUME NEW k, Lapse(k) PROVE NoCrossShardCommand'
    BY <1>2, <1>12 DEF Lapse
  <1>13. CASE UNCHANGED vars
    BY <1>2, <1>13 DEF vars
  <1>14. CASE Next
    <2>1. CASE \E h \in Handlers \ Batchers : CallOnce(h, AppOf[h])
      BY <1>9, <2>1
    <2>2. CASE \E h \in Batchers : IF calls[h] = Idle THEN CallMany(h, AppOf[h]) ELSE Proceed(h)
      BY <1>10, <1>11, <2>2, CacheAssumption
    <2>3. CASE \E k \in Keys : Lapse(k)
      BY <1>12, <2>3
    <2> QED BY <1>14, <2>1, <2>2, <2>3 DEF Next
  <1> QED BY <1>13, <1>14

LEMMA BatchInvStep ==
    ASSUME CallsInv, BatchInv, [Next]_vars
    PROVE  BatchInv'
  <1>1. deployed' = deployed /\ \A h \in Handlers : Advanced(h)
    BY CallsStep
  <1>2. \A h \in Handlers : Batched(calls[h]) /\ Whole(calls[h])
    BY DEF BatchInv, BatchWhole, Whole
  <1>3. \A h \in Handlers : Batched(calls'[h]) /\ Whole(calls'[h])
    BY <1>1, <1>2, BatchStep
  <1>4. ASSUME NEW h \in Handlers PROVE Batched(calls[h])'
    <2>1. Batched(calls'[h])
      BY <1>3
    <2>2. \A g : SameSlot(calls[h].todo[g])' <=> SameSlot(calls'[h].todo[g])
      BY <1>1 DEF SameSlot, Clustered, SlotOf, HashTag
    <2>3. BatchOpen(calls[h])' <=> BatchOpen(calls'[h])
      BY <2>2 DEF BatchOpen
    <2> QED BY <2>1, <2>2, <2>3 DEF Batched
  <1>5. BatchWhole'
    BY <1>3 DEF BatchWhole, Whole
  <1>6. NoCrossShardCommand'
    BY CrossedStep DEF BatchInv
  <1> QED BY <1>4, <1>5, <1>6 DEF BatchInv

LEMMA CallsInitially == Init => CallsInv /\ BatchInv
  <1> SUFFICES ASSUME Init PROVE CallsInv /\ BatchInv
    OBVIOUS
  <1>1. DOMAIN calls = Handlers /\ crossed = FALSE /\ \A h \in Handlers : calls[h] = Idle
    BY DEF Init
  <1>2. CallsInv
    BY <1>1, IdleIsCall DEF CallsInv
  <1>3. Batched(Idle) /\ Whole(Idle)
    BY IdleFields, NotABatch DEF BatchOps
  <1>4. \A h \in Handlers : Batched(calls[h]) /\ Whole(calls[h])
    BY <1>1, <1>3
  <1> QED BY <1>1, <1>2, <1>4 DEF BatchInv, BatchWhole, Whole, NoCrossShardCommand

LEMMA BatchAlways == Spec => [](CallsInv /\ BatchInv)
  <1>1. CallsInv /\ BatchInv /\ [Next]_vars => (CallsInv /\ BatchInv)'
    BY CallsStep, BatchInvStep
  <1> QED BY <1>1, CallsInitially, PTL DEF Spec

(* However the names are tagged and wherever their tags are placed, no     *)
(* command a cluster is sent names keys of two shards: a batch is cut by   *)
(* shard, and a rename, a combination or a transaction is refused first.   *)
THEOREM CommandsStayOnAShard == Spec => []NoCrossShardCommand
  <1>1. CallsInv /\ BatchInv => NoCrossShardCommand
    BY DEF BatchInv
  <1> QED BY <1>1, BatchAlways, PTL

(* A batch of any length over any number of shards that reports success    *)
(* covered every key it was given, and one that reads gave each key the    *)
(* value it held, whatever others did between its commands.                *)
THEOREM BatchesAreWhole == Spec => []BatchWhole
  <1>1. CallsInv /\ BatchInv => BatchWhole
    BY DEF BatchInv
  <1> QED BY <1>1, BatchAlways, PTL

-----------------------------------------------------------------------------
(* A walk passes over nothing that is there all along.                     *)

(* The walk of a call on the keyspace after the step.                      *)
Walking(h, c, s) ==
    /\ c.visits # {} /\ c.at \in Names
    /\ c.asked \subseteq KeysOf(AppOf[h])
    /\ \A k \in c.stable : Matching(c.kind, s[k])
    /\ \A k \in c.stable \cap c.asked : k \notin {p[1] : p \in c.got} =>
         /\ ShardOf(k) \in c.visits
         /\ ShardOf(k) = ShardAt(c) => k.name >= c.at
Walked(h, c, s) ==
    c.op = "Scan" =>
        /\ c.end = "open" => Walking(h, c, s)
        /\ c.end = "ok" => c.stable \cap c.asked \subseteq {p[1] : p \in c.got}

LEMMA WalkBegins ==
    ASSUME CallsInv, NEW h \in Handlers, NEW kind, NEW shards \in Visited, ScanStart(h, kind, shards)
    PROVE  Walked(h, calls'[h], store')
  <1> DEFINE c == calls'[h]
  <1>1. c = ScanCall(h, kind, shards) /\ store' = store
    BY ScanCallIs
  <1>2. /\ c.asked = {k \in KeysOf(AppOf[h]) : ShardOf(k) \in shards} /\ c.at = 1 /\ c.visits = shards
        /\ c.kind = kind /\ c.stable = {k \in KeysOf(AppOf[h]) : Matching(kind, store[k])}
        /\ c.end = "open"
    BY <1>1 DEF ScanCall
  <1> HIDE DEF c
  <1>3. shards # {}
    BY DEF Visited
  <1>4. c.at \in Names /\ \A k \in KeysOf(AppOf[h]) : k.name \in Nat /\ k.name >= 1
    BY <1>2, CacheAssumption DEF Names, KeysOf, Key
  <1>5. \A k \in c.stable : Matching(c.kind, store'[k])
    BY <1>1, <1>2
  <1>6. Walking(h, c, store')
    BY <1>2, <1>3, <1>4, <1>5 DEF Walking
  <1> QED BY <1>2, <1>6 DEF Walked, c

LEMMA AgedWalk ==
    ASSUME NEW h, NEW c, NEW d, Aged(c, d), Walked(h, c, store)
    PROVE  Walked(h, d, store')
  <1>1. CASE c.op # "Scan"
    BY <1>1 DEF Aged, Walked
  <1>2. CASE c.op = "Scan" /\ c.end = "open"
    <2>1. Walking(h, c, store)
      BY <1>2 DEF Walked
    <2>2. \A k \in d.stable : Matching(d.kind, store'[k])
      BY <2>1 DEF Aged, Walking
    <2>3. ShardAt(d) = ShardAt(c)
      BY DEF Aged, ShardAt
    <2>4. Walking(h, d, store')
      BY <2>1, <2>2, <2>3 DEF Aged, Walking
    <2> QED BY <1>2, <2>4 DEF Aged, Walked
  <1>3. CASE c.op = "Scan" /\ c.end # "open"
    BY <1>3 DEF Aged, Walked
  <1> QED BY <1>1, <1>2, <1>3

(* A page yields what is at the cursor; the cursor then passes it, or the  *)
(* shard is done with.                                                     *)
LEMMA WalkAdvances ==
    ASSUME CallsInv, NEW h \in Handlers, NEW goes, NEW outcome, Walk(h, goes, outcome),
           Walked(h, calls[h], store)
    PROVE  Walked(h, calls'[h], store')
  <1> DEFINE c == calls[h]
             d == calls'[h]
             yielded(x) == {p[1] : p \in x.got}
  <1>1. CASE outcome = "failed"
    <2>1. d.end = "error"
      BY <1>1, WalkIs
    <2> QED BY <2>1 DEF Walked
  <1>2. CASE outcome # "failed"
    <2>1. /\ store' = store /\ d.op = "Scan" /\ d.asked = c.asked /\ d.stable = c.stable
          /\ d.kind = c.kind /\ d.visits = LeftOf(c)
      BY <1>2, WalkIs
    <2>2. d.got = c.got \cup {<<k, <<>>>> : k \in Page(h)}
      BY <1>2, WalkIs
    <2>3. d.at = IF LeftOf(c) = c.visits THEN c.at + 1 ELSE 1
      BY <1>2, WalkIs
    <2>4. (d.end = "ok" => LeftOf(c) = {}) /\ (d.end = "open" => LeftOf(c) # {})
      BY <1>2, WalkIs
    <2>5. Walking(h, c, store)
      BY WalkIs DEF Walked
    <2>6. \A k : k \in yielded(d) <=> k \in yielded(c) \/ k \in Page(h)
      <3>1. \A k \in Page(h) : <<k, <<>>>> \in d.got /\ <<k, <<>>>>[1] = k
        BY <2>2
      <3>2. \A p \in d.got : p \in c.got \/ p[1] \in Page(h)
        BY <2>2
      <3>3. c.got \subseteq d.got
        BY <2>2
      <3> HIDE DEF c, d
      <3> QED BY <3>1, <3>2, <3>3
    <2> HIDE DEF c, d
    <2>7. ShardAt(c) \in c.visits
      BY <2>5 DEF Walking, ShardAt
    <2>8. NNames \in Nat \ {0} /\ c.at \in 1 .. NNames
      BY <2>5, CacheAssumption DEF Walking, Names
    <2>9. \A k \in c.asked : k \in KeysOf(AppOf[h]) /\ k.name \in 1 .. NNames
      BY <2>5 DEF Walking, KeysOf, Key, Names
    <2>10. ASSUME NEW k \in c.stable \cap c.asked, k \notin yielded(d)
           PROVE  /\ ShardOf(k) \in c.visits
                  /\ ShardOf(k) = ShardAt(c) => k.name > c.at
      <3>1. k \notin yielded(c) /\ k \notin Page(h)
        BY <2>6, <2>10
      <3>2. ShardOf(k) \in c.visits /\ (ShardOf(k) = ShardAt(c) => k.name >= c.at)
        BY <2>5, <3>1 DEF Walking
      <3>3. Matching(c.kind, store[k]) /\ k \in KeysOf(AppOf[h])
        BY <2>5, <2>9 DEF Walking
      <3>4. ~ (k.name = c.at /\ ShardOf(k) = ShardAt(c))
        BY <3>1, <3>3 DEF Page, c
      <3> QED BY <2>8, <2>9, <3>2, <3>4
    <2>11. ASSUME NEW k \in c.stable \cap c.asked, k \notin yielded(d)
           PROVE  /\ ShardOf(k) \in d.visits
                  /\ ShardOf(k) = ShardAt(d) => k.name >= d.at
      <3>1. /\ ShardOf(k) \in c.visits /\ (ShardOf(k) = ShardAt(c) => k.name > c.at)
            /\ k.name \in 1 .. NNames
        BY <2>9, <2>10, <2>11
      <3>2. CASE c.at = NNames
        <4>1. d.visits = c.visits \ {ShardAt(c)} /\ d.at = 1
          BY <2>1, <2>3, <2>7, <3>2 DEF LeftOf
        <4>2. ShardOf(k) # ShardAt(c)
          BY <2>8, <3>1, <3>2
        <4> QED BY <3>1, <4>1, <4>2
      <3>3. CASE c.at # NNames
        <4>1. d.visits = c.visits /\ d.at = c.at + 1
          BY <2>1, <2>3, <3>3 DEF LeftOf
        <4>2. ShardAt(d) = ShardAt(c)
          BY <4>1 DEF ShardAt
        <4> QED BY <2>8, <3>1, <4>1, <4>2
      <3> QED BY <3>2, <3>3
    <2>12. d.at \in Names
      <3>1. c.at = NNames \/ c.at + 1 \in 1 .. NNames
        BY <2>8
      <3>2. c.at = NNames => LeftOf(c) # c.visits
        BY <2>7 DEF LeftOf
      <3> QED BY <2>3, <2>8, <3>1, <3>2 DEF Names
    <2>13. d.end = "open" => Walking(h, d, store')
      BY <2>1, <2>4, <2>5, <2>11, <2>12 DEF Walking
    <2>14. d.end = "ok" => d.stable \cap d.asked \subseteq yielded(d)
      BY <2>1, <2>4, <2>11
    <2> QED BY <2>13, <2>14 DEF Walked, d
  <1> QED BY <1>1, <1>2

LEMMA WalkStep ==
    ASSUME CallsInv, NEW h \in Handlers, Walked(h, calls[h], store), Advanced(h)
    PROVE  Walked(h, calls'[h], store')
  <1>1. CASE Aged(calls[h], calls'[h])
    BY <1>1, AgedWalk
  <1>2. CASE calls'[h] = Idle \/ calls'[h].op = "Transaction"
    BY <1>2, IdleFields DEF Walked
  <1>3. ASSUME NEW op \in BatchOps, NEW names, BatchStart(h, op, names)
        PROVE  Walked(h, calls'[h], store')
    <2>1. calls'[h] = BatchCall(h, op, names)
      BY <1>3, BatchCallIs
    <2>2. calls'[h].op # "Scan"
      BY <2>1 DEF BatchCall, BatchOps
    <2> QED BY <2>2 DEF Walked
  <1>4. ASSUME NEW kind, NEW shards \in Visited, ScanStart(h, kind, shards)
        PROVE  Walked(h, calls'[h], store')
    BY <1>4, WalkBegins
  <1>5. ASSUME NEW outcome, GetMany(h, outcome)
        PROVE  Walked(h, calls'[h], store')
    <2>1. PICK s : calls'[h] = GroupDone(calls[h], outcome, s, s)
      BY <1>5, GetManyIs
    <2>2. IsCall(calls[h])
      BY DEF CallsInv
    <2>3. SentOne(calls[h], calls'[h], outcome, s, s)
      BY <2>1, <2>2, GroupDoneIs
    <2>4. calls'[h].op = "GetMany"
      BY <1>5, <2>3 DEF SentOne, GetMany, IsBatch
    <2> QED BY <2>4 DEF Walked
  <1>6. ASSUME NEW goes, NEW outcome, Walk(h, goes, outcome)
        PROVE  Walked(h, calls'[h], store')
    BY <1>6, WalkAdvances
  <1>7. ASSUME NEW op \in {"SetMany", "DeleteMany"}, NEW outcome, NEW new, Group(h, op, outcome, new)
        PROVE  Walked(h, calls'[h], store')
    <2> DEFINE s == IF outcome = "failed" THEN {}
                    ELSE {<<k, <<>>>> : k \in ToSet(Head(calls[h].todo))}
    <2>1. PICK got : Aged(GroupDone(calls[h], outcome, s, got), calls'[h])
      BY <1>7, GroupIs
    <2> HIDE DEF s
    <2> DEFINE d == GroupDone(calls[h], outcome, s, got)
    <2>2. IsCall(calls[h])
      BY DEF CallsInv
    <2>3. SentOne(calls[h], d, outcome, s, got)
      BY <2>2, GroupDoneIs
    <2> HIDE DEF d
    <2>4. Aged(d, calls'[h])
      BY <2>1 DEF d
    <2>5. calls'[h].op = op
      BY <1>7, <2>3, <2>4 DEF SentOne, Aged, Group, IsBatch
    <2>6. calls'[h].op # "Scan"
      BY <2>5
    <2> QED BY <2>6 DEF Walked
  <1> QED BY <1>1, <1>2, <1>3, <1>4, <1>5, <1>6, <1>7 DEF Advanced, SetMany, DeleteMany

LEMMA WalkInvStep ==
    ASSUME CallsInv, WalkInv, [Next]_vars
    PROVE  WalkInv'
  <1>1. deployed' = deployed /\ \A h \in Handlers : Advanced(h)
    BY CallsStep
  <1>2. ASSUME NEW h \in Handlers PROVE Walked(h, calls[h], store)
    BY DEF WalkInv, WalkOpen, WalkComplete, Walked, Walking, ShardAt
  <1>3. \A h \in Handlers : Walked(h, calls'[h], store')
    BY <1>1, <1>2, WalkStep
  <1>4. ASSUME NEW h \in Handlers, calls'[h].op = "Scan", calls'[h].end = "open" PROVE WalkOpen(h)'
    <2>1. Walking(h, calls'[h], store')
      BY <1>3, <1>4 DEF Walked
    <2>2. \A k : ShardOf(k)' = ShardOf(k)
      BY <1>1 DEF ShardOf, Clustered, SlotOf, HashTag
    <2> QED BY <2>1, <2>2 DEF WalkOpen, Walking, ShardAt
  <1>5. WalkComplete'
    BY <1>3 DEF WalkComplete, Walked
  <1> QED BY <1>4, <1>5 DEF WalkInv

(* A walk that ran to its end yielded every key, of the shards it visited, *)
(* that held what it asked for from its beginning, whatever came, went and *)
(* lapsed between its pages, and however many of them were empty.          *)
THEOREM WalksMissNothing == Spec => []WalkComplete
  <1>1. Init => CallsInv /\ WalkInv
    <2> SUFFICES ASSUME Init PROVE WalkInv
      BY CallsInitially
    <2>1. \A h \in Handlers : calls[h].op = "idle"
      BY IdleFields DEF Init
    <2> QED BY <2>1 DEF WalkInv, WalkComplete
  <1>2. CallsInv /\ WalkInv /\ [Next]_vars => (CallsInv /\ WalkInv)'
    BY CallsStep, WalkInvStep
  <1>3. CallsInv /\ WalkInv => WalkComplete
    BY DEF WalkInv
  <1> QED BY <1>1, <1>2, <1>3, PTL DEF Spec

=============================================================================
