--------------------------- MODULE Bucket_proofs ----------------------------
(***************************************************************************)
(* Proofs about object storage, for every number of keys, buckets,         *)
(* writers and walkers, every page and request size, on S3 and on the      *)
(* double: a DeleteMany accounts for each reference, a read tells what the *)
(* store holds, a page of versions is the beginning of the listing in      *)
(* order, and a walk yields what stayed listable once.                     *)
(***************************************************************************)
EXTENDS Bucket, FiniteSetTheorems, SequenceTheorems, TLAPS, WellFoundedInduction

Ref == [key : Keys, version : Nat]

-----------------------------------------------------------------------------
(* The inductive invariant.                                                *)

(* The versions of a key are in the order they were made in, by the time   *)
(* so many identifiers were handed out.                                    *)
MadeBy(id) == [id : 1 .. id, marker : BOOLEAN, length : Lengths \cup {0}, attrs : Carriable]
IsHeld(held, id) ==
    /\ held \in Seq(MadeBy(id))
    /\ \A i, j \in DOMAIN held : i < j => held[i].id < held[j].id
IsBucket(held, id) == DOMAIN held = Keys /\ \A k \in Keys : IsHeld(held[k], id)

StoreInv ==
    /\ build \in BuildType
    /\ written \in 0 .. MaxWrites /\ faults \in 0 .. MaxFaults
    /\ DOMAIN objects = Buckets /\ \A b \in Buckets : IsBucket(objects[b], written)

(* A batch under way has accounted for the references before its next      *)
(* request, and one that is over for all of them.                          *)
IsBatch(c) ==
    /\ c = [bucket |-> c.bucket, refs |-> c.refs, next |-> c.next, open |-> c.open,
            deleted |-> c.deleted, failed |-> c.failed, unsent |-> c.unsent, copy |-> c.copy]
    /\ c.bucket \in Buckets /\ c.next \in Nat \ {0} /\ c.open \in BOOLEAN
    /\ c.refs \in Seq(Ref) /\ c.deleted \in Seq(Ref) /\ c.failed \in Seq(Ref) /\ c.unsent \in Seq(Ref)
    /\ c.copy \in Seq([to : Keys, length : Lengths \cup {0}, attrs : Carriable])

Accounted(c) ==
    /\ c.open => /\ c.next <= Len(c.refs) /\ c.unsent = <<>>
                 /\ \A r : Times_Of(SubSeq(c.refs, 1, c.next - 1), r)
                             = Times_Of(c.deleted, r) + Times_Of(c.failed, r)
    /\ ~c.open /\ c.refs # <<>> =>
         \A r : Times_Of(c.refs, r) = Times_Of(c.deleted, r) + Times_Of(c.failed, r)
                                        + Times_Of(c.unsent, r)

BatchInv == DOMAIN batch = Writers /\ \A h \in Writers : IsBatch(batch[h]) /\ Accounted(batch[h])

(* A walk: what stayed listable is listable now, and what was yielded is   *)
(* what comes before the cursor, a key on S3 and an offset in the double.  *)
Cursors == {Start, Foreign, End} \cup {Cursor("key", k) : k \in Keys} \cup {Cursor("offset", n) : n \in Nat}
IsWalk(c) ==
    /\ c = [kind |-> c.kind, bucket |-> c.bucket, limit |-> c.limit, cursor |-> c.cursor,
            seen |-> c.seen, stable |-> c.stable, disturbed |-> c.disturbed, failed |-> c.failed]
    /\ c.kind \in {"idle", "objects", "versions"} /\ c.bucket \in Buckets /\ c.limit \in Nat
    /\ c.disturbed \in BOOLEAN /\ c.failed \in BOOLEAN
    /\ c.cursor \in Cursors
    /\ c.seen \in Seq(Keys \X Nat)
    /\ c.kind = "idle" => c.cursor = End /\ c.seen = <<>> /\ c.stable = {}

Distinct(s) == \A i, j \in DOMAIN s : s[i] = s[j] => i = j
Yielded(kind, list) == [i \in DOMAIN list |-> ItemOf(kind, list[i])]

(* The listing as Listable reads it, of what a bucket holds.               *)
KeyListing(k, held) ==
    [i \in DOMAIN held |-> [Entry(k, held[Len(held) + 1 - i]) EXCEPT !.latest = (i = 1)]]
VersionsIn(held) == FlattenSeq([k \in Keys |-> KeyListing(k, held[k])])
ListingOf(kind, held) ==
    LET all == VersionsIn(held)
    IN  IF kind = "objects" THEN AtPlaces(all, {i \in DOMAIN all : all[i].latest /\ ~all[i].marker})
        ELSE all

ByKey(c) ==
    /\ Distinct(c.seen)
    /\ c.cursor # End =>
         /\ \A i \in DOMAIN c.seen : c.seen[i][1] <= c.cursor.n
         /\ c.kind = "objects" => \A x \in c.stable : x[1] <= c.cursor.n => x \in ToSet(c.seen)
    /\ c.cursor = End /\ c.kind = "objects" /\ ~c.failed => c.stable \subseteq ToSet(c.seen)

Offset(cursor) == IF cursor.at = "offset" THEN cursor.n ELSE 0
ByOffset(c, all) ==
    IF c.cursor = End THEN c.kind # "idle" => c.seen = Yielded(c.kind, all)
    ELSE /\ Offset(c.cursor) <= Len(all)
         /\ c.seen = Yielded(c.kind, SubSeq(all, 1, Offset(c.cursor)))

Walked(c, impl, held) ==
    /\ c.stable \subseteq Items(c.kind, held)
    /\ impl = "s3" => ByKey(c)
    /\ impl = "double" /\ ~c.disturbed => ByOffset(c, ListingOf(c.kind, held))

WalkInv ==
    /\ DOMAIN walk = Walkers
    /\ \A w \in Walkers : IsWalk(walk[w]) /\ Walked(walk[w], build.impl, objects[walk[w].bucket])

-----------------------------------------------------------------------------
(* Lists: positions put in order, what stands at them, and how often       *)
(* something stands in a list.                                             *)

LEMMA Least ==
    ASSUME NEW S \in SUBSET Nat, S # {}
    PROVE  \E m \in S : \A x \in S : m <= x
  <1>1. PICK m \in S : \A x \in S : ~ (<<x, m>> \in OpToRel(<, Nat))
    BY WFMin, NatLessThanWellFounded, Zenon
  <1>2. \A x \in S : ~ (x < m)
    BY <1>1 DEF OpToRel
  <1> QED BY <1>2

(* That a set of positions can be put in order, by induction over its      *)
(* size: a set as small as can be that cannot would have a least element,  *)
(* and could be put in order once the rest of it was.                      *)
Orders(S) ==
    {s \in [1 .. Cardinality(S) -> S] : \A i, j \in DOMAIN s : i < j => s[i] < s[j]}

LEMMA OrderExists ==
    ASSUME NEW S \in SUBSET Nat, IsFiniteSet(S)
    PROVE  Orders(S) # {}
  <1> DEFINE Bad == {n \in Nat : \E T \in SUBSET Nat :
                                    IsFiniteSet(T) /\ Cardinality(T) = n /\ Orders(T) = {}}
  <1>1. ASSUME Bad # {} PROVE FALSE
    <2>1. PICK n \in Bad : \A x \in Bad : n <= x
      <3>1. Bad \in SUBSET Nat
        OBVIOUS
      <3> HIDE DEF Bad
      <3> QED BY <1>1, <3>1, Least
    <2>2. PICK T \in SUBSET Nat : IsFiniteSet(T) /\ Cardinality(T) = n /\ Orders(T) = {}
      BY <2>1
    <2>3. CASE T = {}
      <3>1. Cardinality(T) = 0 /\ 1 .. 0 = {}
        BY <2>3, FS_EmptySet
      <3>2. [x \in {} |-> x] \in [{} -> T]
        BY <2>3
      <3>3. [x \in {} |-> x] \in Orders(T)
        BY <3>1, <3>2 DEF Orders
      <3> QED BY <3>3, <2>2
    <2>4. CASE T # {}
      <3>1. PICK m \in T : \A x \in T : m <= x
        BY <2>4, Least
      <3> DEFINE U == T \ {m}
      <3>2. U \in SUBSET Nat /\ IsFiniteSet(U) /\ Cardinality(U) = n - 1
        BY <2>2, <3>1, FS_RemoveElement
      <3>3. n \in Nat /\ Cardinality(U) \in Nat
        BY <2>1, <3>2, FS_CardinalityType
      <3>4. n - 1 \notin Bad
        BY <2>1, <3>2, <3>3
      <3>5. Orders(U) # {}
        BY <3>2, <3>3, <3>4
      <3>6. PICK s \in [1 .. (n - 1) -> U] : \A i, j \in 1 .. (n - 1) : i < j => s[i] < s[j]
        BY <3>2, <3>5 DEF Orders
      <3> DEFINE t == [i \in 1 .. n |-> IF i = 1 THEN m ELSE s[i - 1]]
      <3>7. \A i \in 1 .. n : i # 1 => i - 1 \in 1 .. (n - 1) /\ s[i - 1] \in U
        BY <3>2, <3>3, <3>6
      <3>8. t \in [1 .. n -> T]
        BY <3>1, <3>7
      <3>9. ASSUME NEW i \in 1 .. n, NEW j \in 1 .. n, i < j PROVE t[i] < t[j]
        <4>1. j # 1 /\ j - 1 \in 1 .. (n - 1) /\ s[j - 1] \in U /\ t[j] = s[j - 1]
          BY <3>3, <3>7, <3>9
        <4>2. CASE i = 1
          <5>1. t[i] = m /\ m <= s[j - 1] /\ m # s[j - 1]
            BY <3>1, <4>1, <4>2
          <5>2. m \in Nat /\ s[j - 1] \in Nat
            BY <2>2, <3>1, <4>1
          <5> QED BY <4>1, <5>1, <5>2
        <4>3. CASE i # 1
          <5>1. i - 1 \in 1 .. (n - 1) /\ t[i] = s[i - 1] /\ i - 1 < j - 1
            BY <3>3, <3>7, <3>9, <4>3
          <5> QED BY <3>6, <4>1, <5>1
        <4> QED BY <4>2, <4>3
      <3>10. DOMAIN t = 1 .. n
        OBVIOUS
      <3> HIDE DEF t
      <3>11. t \in Orders(T)
        BY <2>2, <3>8, <3>9, <3>10 DEF Orders
      <3> QED BY <3>11, <2>2
    <2> QED BY <2>3, <2>4
  <1>2. Cardinality(S) \in Nat
    BY FS_CardinalityType
  <1> QED BY <1>1, <1>2

LEMMA InOrderIs ==
    ASSUME NEW S \in SUBSET Nat, IsFiniteSet(S)
    PROVE  /\ Cardinality(S) \in Nat
           /\ InOrder(S) \in [1 .. Cardinality(S) -> S]
           /\ {InOrder(S)[i] : i \in 1 .. Cardinality(S)} = S
           /\ \A i, j \in 1 .. Cardinality(S) : i < j => InOrder(S)[i] < InOrder(S)[j]
  <1> DEFINE n == Cardinality(S)
             s == InOrder(S)
  <1>1. n \in Nat
    BY FS_CardinalityType
  <1> HIDE DEF n
  <1>2. s \in [1 .. n -> S] /\ \A i, j \in 1 .. n : i < j => s[i] < s[j]
    <2>1. \E x \in [1 .. n -> S] : \A i, j \in DOMAIN x : i < j => x[i] < x[j]
      BY OrderExists DEF Orders, n
    <2> QED BY <2>1 DEF InOrder, n
  <1> HIDE DEF s
  <1>3. s \in Injection(1 .. n, S)
    <2>1. ASSUME NEW i \in 1 .. n, NEW j \in 1 .. n, s[i] = s[j] PROVE i = j
      <3>1. s[i] \in S /\ s[i] \in Nat
        BY <1>2
      <3>2. ~ (s[i] < s[j]) /\ ~ (s[j] < s[i])
        BY <2>1, <3>1
      <3>3. ~ (i < j) /\ ~ (j < i)
        BY <1>2, <3>2
      <3>4. i \in Int /\ j \in Int
        BY <1>1
      <3> QED BY <3>3, <3>4
    <2> QED BY <1>2, <2>1 DEF Injection, IsInjective
  <1>4. IsFiniteSet(1 .. n) /\ Cardinality(1 .. n) = n
    BY <1>1, FS_Interval
  <1>5. s \in Surjection(1 .. n, S)
    BY <1>3, <1>4, FS_Injection DEF n
  <1>6. {s[i] : i \in 1 .. n} = S
    BY <1>2, <1>5 DEF Surjection
  <1> QED BY <1>1, <1>2, <1>6 DEF s, n

(* What stands at some places of a list is one pass over it: the places    *)
(* taken in order, each once.                                              *)
Passes(list, places, part, q, n) ==
    /\ n = Cardinality(places) /\ n \in Nat
    /\ q \in [1 .. n -> places]
    /\ {q[p] : p \in 1 .. n} = places
    /\ \A i, j \in 1 .. n : i < j => q[i] < q[j]
    /\ part = [p \in 1 .. n |-> list[q[p]]]

LEMMA AtPlacesPasses ==
    ASSUME NEW S, NEW list \in Seq(S), NEW places \in SUBSET DOMAIN list
    PROVE  \E n, q : Passes(list, places, AtPlaces(list, places), q, n)
  <1> DEFINE n == Cardinality(places)
             q == InOrder(places)
             part == AtPlaces(list, places)
  <1>1. DOMAIN list = 1 .. Len(list) /\ Len(list) \in Nat
    OBVIOUS
  <1>2. places \in SUBSET Nat /\ IsFiniteSet(places)
    <2>1. IsFiniteSet(1 .. Len(list))
      BY <1>1, FS_Interval
    <2> QED  BY <1>1, <2>1, FS_Subset
  <1>3. /\ n \in Nat /\ q \in [1 .. n -> places] /\ {q[p] : p \in 1 .. n} = places
        /\ \A i, j \in 1 .. n : i < j => q[i] < q[j]
    BY <1>2, InOrderIs
  <1>4. part = [p \in DOMAIN q |-> list[q[p]]]
    BY DEF AtPlaces
  <1> HIDE DEF n, q, part
  <1>5. part = [p \in 1 .. n |-> list[q[p]]]
    BY <1>3, <1>4
  <1>6. Passes(list, places, part, q, n)
    BY <1>3, <1>5 DEF Passes, n
  <1> QED  BY <1>6 DEF part

LEMMA AtPlacesIs ==
    ASSUME NEW S, NEW list \in Seq(S), NEW places \in SUBSET DOMAIN list
    PROVE  /\ AtPlaces(list, places) \in Seq(S)
           /\ ToSet(AtPlaces(list, places)) = {list[i] : i \in places}
  <1>1. PICK n, q : Passes(list, places, AtPlaces(list, places), q, n)
    BY AtPlacesPasses
  <1> DEFINE part == AtPlaces(list, places)
  <1> HIDE DEF part
  <1>2. /\ n \in Nat /\ q \in [1 .. n -> places] /\ {q[p] : p \in 1 .. n} = places
        /\ part = [p \in 1 .. n |-> list[q[p]]]
    BY <1>1 DEF Passes, part
  <1>3. \A p \in 1 .. n : list[q[p]] \in S
    BY <1>2
  <1>4. part \in Seq(S)
    BY <1>2, <1>3
  <1>5. ToSet(part) = {list[i] : i \in places}
    BY <1>2 DEF ToSet
  <1> QED  BY <1>4, <1>5 DEF part

LEMMA SameSize ==
    ASSUME NEW S, NEW T, IsFiniteSet(S), NEW f \in [S -> T],
           \A x, y \in S : f[x] = f[y] => x = y,
           \A y \in T : \E x \in S : f[x] = y
    PROVE  IsFiniteSet(T) /\ Cardinality(T) = Cardinality(S)
  <1>1. f \in Bijection(S, T)
    BY DEF Bijection, Injection, Surjection, IsInjective
  <1>2. ExistsBijection(S, T)
    BY <1>1 DEF ExistsBijection
  <1> QED  BY <1>2, FS_Bijection

LEMMA TimesNat ==
    ASSUME NEW S, NEW s \in Seq(S), NEW r
    PROVE  /\ Times_Of(s, r) \in Nat
           /\ IsFiniteSet({i \in 1 .. Len(s) : s[i] = r})
           /\ Times_Of(s, r) = Cardinality({i \in 1 .. Len(s) : s[i] = r})
  <1>1. DOMAIN s = 1 .. Len(s) /\ Len(s) \in Nat
    OBVIOUS
  <1> DEFINE T == {i \in 1 .. Len(s) : s[i] = r}
  <1>2. Times_Of(s, r) = Cardinality(T)
    BY <1>1 DEF Times_Of
  <1>3. T \in SUBSET (1 .. Len(s))
    OBVIOUS
  <1> HIDE DEF T
  <1>4. IsFiniteSet(T)
    <2>1. IsFiniteSet(1 .. Len(s))
      BY <1>1, FS_Interval
    <2> QED  BY <1>3, <2>1, FS_Subset
  <1>5. Cardinality(T) \in Nat
    BY <1>4, FS_CardinalityType
  <1> QED  BY <1>2, <1>4, <1>5 DEF T

LEMMA TimesConcat ==
    ASSUME NEW S, NEW s \in Seq(S), NEW t \in Seq(S), NEW r
    PROVE  Times_Of(s \o t, r) = Times_Of(s, r) + Times_Of(t, r)
  <1> DEFINE m == Len(s)
             n == Len(t)
             st == s \o t
             A == {i \in 1 .. m : s[i] = r}
             B == {i \in 1 .. n : t[i] = r}
             C == {i \in (m + 1) .. (m + n) : t[i - m] = r}
             f == [i \in B |-> i + m]
  <1>1. /\ st \in Seq(S) /\ Len(st) = m + n /\ m \in Nat /\ n \in Nat
        /\ \A i \in 1 .. m : st[i] = s[i]
        /\ \A i \in (m + 1) .. (m + n) : st[i] = t[i - m]
    OBVIOUS
  <1>2. /\ Times_Of(s, r) = Cardinality(A) /\ IsFiniteSet(A)
        /\ Times_Of(t, r) = Cardinality(B) /\ IsFiniteSet(B)
        /\ Times_Of(st, r) = Cardinality({i \in 1 .. Len(st) : st[i] = r})
    BY <1>1, TimesNat
  <1> HIDE DEF m, n, st
  <1>3. IsFiniteSet(C) /\ Cardinality(C) = Cardinality(B)
    <2>1. \A i \in B : f[i] \in C
      BY <1>1
    <2>2. f \in [B -> C]
      <3>1. f = [i \in B |-> f[i]]
        OBVIOUS
      <3> HIDE DEF f
      <3> QED  BY <2>1, <3>1
    <2>3. \A x, y \in B : f[x] = f[y] => x = y
      BY <1>1
    <2>4. ASSUME NEW y \in C PROVE \E x \in B : f[x] = y
      <3>1. y - m \in B /\ f[y - m] = y
        BY <1>1
      <3> QED  BY <3>1
    <2> HIDE DEF B, C, f
    <2> QED  BY <1>2, <2>2, <2>3, <2>4, SameSize
  <1>4. {i \in 1 .. Len(st) : st[i] = r} = A \cup C
    <2>1. 1 .. Len(st) = (1 .. m) \cup ((m + 1) .. (m + n))
      BY <1>1
    <2> QED  BY <1>1, <2>1
  <1>5. A \cap C = {}
    BY <1>1
  <1>6. /\ Times_Of(st, r) = Cardinality(A \cup C)
        /\ Times_Of(s, r) = Cardinality(A) /\ Times_Of(t, r) = Cardinality(C)
        /\ IsFiniteSet(A) /\ IsFiniteSet(C)
    BY <1>2, <1>3, <1>4, Zenon
  <1> HIDE DEF A, B, C, f
  <1>7. Cardinality(A \cup C) = Cardinality(A) + Cardinality(C) - Cardinality({})
    BY <1>5, <1>6, FS_Union
  <1>8. Cardinality({}) = 0 /\ Cardinality(A) \in Nat /\ Cardinality(C) \in Nat
    BY <1>6, FS_EmptySet, FS_CardinalityType
  <1> QED  BY <1>6, <1>7, <1>8 DEF st

LEMMA TimesAtPlaces ==
    ASSUME NEW S, NEW list \in Seq(S), NEW places \in SUBSET DOMAIN list, NEW r
    PROVE  /\ IsFiniteSet({i \in places : list[i] = r})
           /\ Times_Of(AtPlaces(list, places), r) = Cardinality({i \in places : list[i] = r})
  <1>1. PICK n, q : Passes(list, places, AtPlaces(list, places), q, n)
    BY AtPlacesPasses
  <1> DEFINE part == AtPlaces(list, places)
             A == {p \in 1 .. n : part[p] = r}
             B == {i \in places : list[i] = r}
             f == [p \in A |-> q[p]]
  <1>2. part \in Seq(S)
    BY AtPlacesIs
  <1> HIDE DEF part
  <1>3. /\ n \in Nat /\ q \in [1 .. n -> places] /\ {q[p] : p \in 1 .. n} = places
        /\ \A i, j \in 1 .. n : i < j => q[i] < q[j]
        /\ part = [p \in 1 .. n |-> list[q[p]]]
    BY <1>1 DEF Passes, part
  <1>4. Len(part) = n
    BY <1>2, <1>3
  <1>5. IsFiniteSet(A) /\ Times_Of(part, r) = Cardinality(A)
    BY <1>2, <1>4, TimesNat
  <1>6. \A p \in A : f[p] \in B
    BY <1>3
  <1>7. f \in [A -> B]
    <2>1. f = [p \in A |-> f[p]]
      OBVIOUS
    <2> HIDE DEF f, A, B
    <2> QED  BY <1>6, <2>1
  <1>8. \A x, y \in A : f[x] = f[y] => x = y
    <2>1. places \in SUBSET Nat
      OBVIOUS
    <2> SUFFICES ASSUME NEW x \in A, NEW y \in A, q[x] = q[y] PROVE x = y
      OBVIOUS
    <2>2. x \in 1 .. n /\ y \in 1 .. n /\ q[x] \in Nat
      BY <1>3, <2>1
    <2>3. ~ (x < y) /\ ~ (y < x)
      BY <1>3, <2>2
    <2> QED  BY <1>3, <2>2, <2>3
  <1>9. ASSUME NEW y \in B PROVE \E x \in A : f[x] = y
    <2>1. PICK p \in 1 .. n : q[p] = y
      BY <1>3
    <2>2. p \in A /\ f[p] = y
      BY <1>3, <2>1
    <2> QED  BY <2>2
  <1> HIDE DEF A, B, f
  <1> QED  BY <1>5, <1>7, <1>8, <1>9, SameSize DEF B, part

(* What is taken and what is left of a list are the whole of it.           *)
LEMMA TimesSplit ==
    ASSUME NEW S, NEW list \in Seq(S), NEW places \in SUBSET DOMAIN list, NEW r
    PROVE  Times_Of(list, r) = Times_Of(AtPlaces(list, DOMAIN list \ places), r)
                                 + Times_Of(AtPlaces(list, places), r)
  <1> DEFINE rest == DOMAIN list \ places
             A == {i \in rest : list[i] = r}
             B == {i \in places : list[i] = r}
  <1>1. rest \in SUBSET DOMAIN list
    OBVIOUS
  <1>2. A \cap B = {} /\ A \cup B = {i \in DOMAIN list : list[i] = r}
    OBVIOUS
  <1> HIDE DEF rest
  <1>3. IsFiniteSet(A) /\ Times_Of(AtPlaces(list, rest), r) = Cardinality(A)
    BY <1>1, TimesAtPlaces
  <1>4. IsFiniteSet(B) /\ Times_Of(AtPlaces(list, places), r) = Cardinality(B)
    BY TimesAtPlaces
  <1> HIDE DEF A, B
  <1>5. Times_Of(list, r) = Cardinality(A \cup B)
    BY <1>2 DEF Times_Of
  <1>6. Cardinality(A \cup B) = Cardinality(A) + Cardinality(B) - Cardinality({})
    BY <1>2, <1>3, <1>4, FS_Union
  <1>7. Cardinality({}) = 0 /\ Cardinality(A) \in Nat /\ Cardinality(B) \in Nat
    BY <1>3, <1>4, FS_EmptySet, FS_CardinalityType
  <1> QED  BY <1>3, <1>4, <1>5, <1>6, <1>7 DEF rest

-----------------------------------------------------------------------------
(* The versions of a key, as requests change them.                         *)

LEMMA HeldFacts ==
    ASSUME NEW id \in Nat, NEW held, IsHeld(held, id)
    PROVE  /\ Len(held) \in Nat /\ DOMAIN held = 1 .. Len(held)
           /\ \A i \in 1 .. Len(held) :
                /\ held[i] \in MadeBy(id)
                /\ held[i].id \in 1 .. id /\ held[i].marker \in BOOLEAN
                /\ held[i].length \in Lengths \cup {0} /\ held[i].attrs \in Carriable
           /\ \A i, j \in 1 .. Len(held) : i < j => held[i].id < held[j].id
  <1>1. held \in Seq(MadeBy(id)) /\ \A i, j \in DOMAIN held : i < j => held[i].id < held[j].id
    BY DEF IsHeld
  <1>2. Len(held) \in Nat /\ DOMAIN held = 1 .. Len(held) /\ \A i \in 1 .. Len(held) : held[i] \in MadeBy(id)
    BY <1>1
  <1>3. \A x \in MadeBy(id) : /\ x.id \in 1 .. id /\ x.marker \in BOOLEAN
                              /\ x.length \in Lengths \cup {0} /\ x.attrs \in Carriable
    BY DEF MadeBy
  <1> QED  BY <1>1, <1>2, <1>3

(* From positions to a list of versions.                                   *)
LEMMA HeldFrom ==
    ASSUME NEW id \in Nat, NEW n \in Nat, NEW held, held = [i \in 1 .. n |-> held[i]],
           \A i \in 1 .. n : held[i] \in MadeBy(id),
           \A i, j \in 1 .. n : i < j => held[i].id < held[j].id
    PROVE  IsHeld(held, id)
  <1> DEFINE M == MadeBy(id)
  <1>1. \A i \in 1 .. n : held[i] \in M
    OBVIOUS
  <1> HIDE DEF M
  <1>2. held \in Seq(M) /\ DOMAIN held = 1 .. n
    BY <1>1
  <1> QED  BY <1>2 DEF IsHeld, M

LEMMA HeldGrows ==
    ASSUME NEW id \in Nat, NEW more \in Nat, id <= more, NEW held, IsHeld(held, id)
    PROVE  IsHeld(held, more)
  <1>1. \A x \in MadeBy(id) : x \in MadeBy(more)
    <2>1. 1 .. id \subseteq 1 .. more
      OBVIOUS
    <2> QED  BY <2>1 DEF MadeBy
  <1>2. /\ Len(held) \in Nat /\ DOMAIN held = 1 .. Len(held)
        /\ \A i \in 1 .. Len(held) : held[i] \in MadeBy(id)
        /\ \A i, j \in 1 .. Len(held) : i < j => held[i].id < held[j].id
    BY HeldFacts
  <1>3. held = [i \in 1 .. Len(held) |-> held[i]]
    BY <1>2 DEF IsHeld
  <1>4. \A i \in 1 .. Len(held) : held[i] \in MadeBy(more)
    BY <1>1, <1>2
  <1> QED  BY <1>2, <1>3, <1>4, HeldFrom

(* A version no identifier of which is the newest was there before.        *)
LEMMA HeldWithoutNew ==
    ASSUME NEW id \in Nat, NEW held, IsHeld(held, id + 1), ~ \E x \in ToSet(held) : x.id = id + 1
    PROVE  IsHeld(held, id)
  <1>1. /\ Len(held) \in Nat /\ DOMAIN held = 1 .. Len(held)
        /\ \A i \in 1 .. Len(held) : held[i] \in MadeBy(id + 1) /\ held[i].id \in 1 .. (id + 1)
        /\ \A i, j \in 1 .. Len(held) : i < j => held[i].id < held[j].id
    BY HeldFacts
  <1>2. \A i \in 1 .. Len(held) : held[i].id # id + 1
    BY <1>1 DEF ToSet
  <1>3. \A i \in 1 .. Len(held) : held[i].id \in 1 .. id
    BY <1>1, <1>2
  <1>4. \A x \in MadeBy(id + 1) : x.id \in 1 .. id => x \in MadeBy(id)
    BY DEF MadeBy
  <1>5. \A i \in 1 .. Len(held) : held[i] \in MadeBy(id)
    BY <1>1, <1>3, <1>4
  <1>6. held = [i \in 1 .. Len(held) |-> held[i]]
    BY <1>1 DEF IsHeld
  <1> QED  BY <1>1, <1>5, <1>6, HeldFrom

LEMMA HeldAppend ==
    ASSUME NEW id \in Nat, NEW held, IsHeld(held, id), NEW x \in MadeBy(id + 1), x.id = id + 1
    PROVE  IsHeld(Append(held, x), id + 1)
  <1> DEFINE n == Len(held)
             new == Append(held, x)
             M == MadeBy(id + 1)
  <1>1. IsHeld(held, id + 1)
    BY HeldGrows
  <1>2. held \in Seq(M) /\ x \in M
    BY <1>1 DEF IsHeld
  <1>3. /\ n \in Nat
        /\ \A i \in 1 .. n : held[i] \in M /\ held[i].id \in 1 .. id
        /\ \A i, j \in 1 .. n : i < j => held[i].id < held[j].id
    BY <1>1, <1>2, HeldFacts
  <1> HIDE DEF M
  <1>4. /\ new = [i \in 1 .. (n + 1) |-> new[i]]
        /\ \A i \in 1 .. n : new[i] = held[i]
        /\ new[n + 1] = x
    <2>1. new \in Seq(M) /\ Len(new) = n + 1
      BY <1>2
    <2>2. (\A i \in 1 .. n : new[i] = held[i]) /\ new[n + 1] = x
      BY <1>2
    <2> HIDE DEF new
    <2> QED  BY <2>1, <2>2
  <1> HIDE DEF n, new
  <1>5. 1 .. (n + 1) = (1 .. n) \cup {n + 1}
    BY <1>3
  <1>6. \A i \in 1 .. (n + 1) : new[i] \in M
    BY <1>2, <1>3, <1>4, <1>5
  <1>7. ASSUME NEW i \in 1 .. (n + 1), NEW j \in 1 .. (n + 1), i < j
        PROVE  new[i].id < new[j].id
    <2>1. i \in 1 .. n
      BY <1>3, <1>7
    <2>2. CASE j \in 1 .. n
      BY <1>3, <1>4, <1>7, <2>1, <2>2
    <2>3. CASE j = n + 1
      <3>1. new[j].id = id + 1 /\ new[i].id \in 1 .. id
        BY <1>3, <1>4, <2>1, <2>3
      <3> QED  BY <3>1
    <2> QED  BY <1>5, <2>2, <2>3
  <1>8. id + 1 \in Nat /\ n + 1 \in Nat
    BY <1>3
  <1> QED  BY <1>4, <1>6, <1>7, <1>8, HeldFrom DEF M, new

LEMMA HeldNone == ASSUME NEW id \in Nat PROVE IsHeld(<<>>, id)
  <1>1. Len(<<>>) = 0 /\ DOMAIN <<>> = {}
    OBVIOUS
  <1> DEFINE M == MadeBy(id)
  <1> HIDE DEF M
  <1>2. <<>> \in Seq(M)
    OBVIOUS
  <1> QED  BY <1>1, <1>2 DEF IsHeld, M

LEMMA HeldWithout ==
    ASSUME NEW id \in Nat, NEW held, IsHeld(held, id), NEW v
    PROVE  IsHeld(Without(held, v), id)
  <1> DEFINE M == MadeBy(id)
             places == {i \in DOMAIN held : held[i].id # v}
             part == AtPlaces(held, places)
  <1>1. /\ Len(held) \in Nat /\ DOMAIN held = 1 .. Len(held)
        /\ \A i \in 1 .. Len(held) : held[i] \in M
        /\ \A i, j \in 1 .. Len(held) : i < j => held[i].id < held[j].id
    BY HeldFacts
  <1>2. held \in Seq(M) /\ places \in SUBSET DOMAIN held /\ Without(held, v) = part
    BY DEF IsHeld, Without
  <1> HIDE DEF M, places
  <1>3. PICK n, q : Passes(held, places, AtPlaces(held, places), q, n)
    BY <1>2, AtPlacesPasses
  <1> HIDE DEF part
  <1>4. /\ n \in Nat /\ q \in [1 .. n -> places]
        /\ \A i, j \in 1 .. n : i < j => q[i] < q[j]
        /\ part = [p \in 1 .. n |-> held[q[p]]]
    BY <1>3 DEF Passes, part
  <1>5. \A p \in 1 .. n : q[p] \in 1 .. Len(held)
    BY <1>1, <1>2, <1>4
  <1>6. \A p \in 1 .. n : part[p] = held[q[p]] /\ part[p] \in M
    BY <1>1, <1>4, <1>5
  <1>7. \A i, j \in 1 .. n : i < j => part[i].id < part[j].id
    BY <1>1, <1>4, <1>5, <1>6
  <1>8. part = [p \in 1 .. n |-> part[p]]
    BY <1>4
  <1> QED  BY <1>2, <1>4, <1>6, <1>7, <1>8, HeldFrom DEF M

LEMMA VersionMade ==
    ASSUME NEW id \in Nat, NEW marker \in BOOLEAN, NEW length \in Lengths \cup {0},
           NEW attrs \in Carriable, NEW x,
           x = [id |-> id + 1, marker |-> marker, length |-> length, attrs |-> attrs]
    PROVE  x \in MadeBy(id + 1) /\ x.id = id + 1
  <1>1. id + 1 \in 1 .. (id + 1)
    OBVIOUS
  <1>2. x \in MadeBy(id + 1)
    BY <1>1, Zenon DEF MadeBy
  <1> QED  BY <1>2

LEMMA MarkerMade ==
    ASSUME NEW id \in Nat
    PROVE  Marker(id + 1) \in MadeBy(id + 1) /\ Marker(id + 1).id = id + 1
  <1>1. Bare \in Carriable /\ TRUE \in BOOLEAN /\ 0 \in Lengths \cup {0}
    BY DEF Carriable
  <1>2. Marker(id + 1) = [id |-> id + 1, marker |-> TRUE, length |-> 0, attrs |-> Bare]
    BY DEF Marker
  <1> QED  BY <1>1, <1>2, VersionMade

LEMMA HeldRemoved ==
    ASSUME NEW id \in Nat, NEW held, IsHeld(held, id), NEW v \in Nat, build \in BuildType
    PROVE  IsHeld(Removed(held, v, id + 1), id + 1)
  <1>1. IsHeld(held, id + 1) /\ IsHeld(Without(held, v), id + 1) /\ IsHeld(<<>>, id + 1)
    BY HeldGrows, HeldWithout, HeldNone
  <1>2. IsHeld(Append(held, Marker(id + 1)), id + 1)
    BY MarkerMade, HeldAppend
  <1>3. build.impl \in {"s3", "double"} /\ build.versioned \in BOOLEAN
    BY DEF BuildType
  <1>4. S3Removed(held, v, id + 1) \in {Without(held, v), Append(held, Marker(id + 1)), <<>>}
    BY <1>3 DEF S3Removed
  <1>5. DoubleRemoved(held, v, id + 1) \in {Without(held, v), Append(held, Marker(id + 1)), held}
    <2>1. CASE v # NoVersion
      BY <2>1 DEF DoubleRemoved
    <2>2. CASE v = NoVersion /\ (held = <<>> \/ Last(held).marker)
      BY <2>2 DEF DoubleRemoved
    <2>3. CASE v = NoVersion /\ held # <<>> /\ ~Last(held).marker
      BY <2>3 DEF DoubleRemoved
    <2> QED  BY <2>1, <2>2, <2>3
  <1> QED  BY <1>1, <1>2, <1>4, <1>5 DEF Removed

LEMMA HeldStored ==
    ASSUME NEW id \in Nat, NEW held, IsHeld(held, id), NEW x \in MadeBy(id + 1), x.id = id + 1
    PROVE  IsHeld(Stored(held, x), id + 1)
  <1>1. IsHeld(Append(held, x), id + 1)
    BY HeldAppend
  <1>2. IsHeld(<<x>>, id + 1)
    <2>1. IsHeld(Append(<<>>, x), id + 1)
      BY HeldNone, HeldAppend
    <2>2. Append(<<>>, x) = <<x>>
      OBVIOUS
    <2> QED  BY <2>1, <2>2
  <1> QED  BY <1>1, <1>2 DEF Stored

LEMMA BucketChanged ==
    ASSUME NEW id \in Nat, NEW more \in Nat, id <= more, NEW held, IsBucket(held, id),
           NEW k \in Keys, NEW new, IsHeld(new, more)
    PROVE  IsBucket([held EXCEPT ![k] = new], more)
  <1>1. \A q \in Keys : IsHeld(held[q], more)
    BY HeldGrows DEF IsBucket
  <1>2. DOMAIN held = Keys
    BY DEF IsBucket
  <1> DEFINE after == [held EXCEPT ![k] = new]
  <1>3. DOMAIN after = Keys /\ \A q \in Keys : after[q] = IF q = k THEN new ELSE held[q]
    BY <1>2
  <1> HIDE DEF after
  <1>4. \A q \in Keys : IsHeld(after[q], more)
    BY <1>1, <1>3
  <1> QED  BY <1>3, <1>4 DEF IsBucket, after

(* One reference of a request that is not refused, applied.                *)
RemovedOne(was, k, v) ==
    LET new == Removed(was.held[k], v, was.id + 1)
    IN  [held |-> [was.held EXCEPT ![k] = new],
         id |-> IF \E x \in ToSet(new) : x.id = was.id + 1 THEN was.id + 1 ELSE was.id]

Applies(held, refs, refused, n, f) ==
    f = [i \in 0 .. n |->
            IF i = 0 THEN [held |-> held, id |-> written]
            ELSE IF i \in refused THEN f[i - 1]
            ELSE RemovedOne(f[i - 1], refs[i].key, refs[i].version)]

LEMMA AppliesExists ==
    ASSUME NEW held, NEW refs, NEW refused, NEW n \in Nat
    PROVE  \E f : Applies(held, refs, refused, n, f)
  <1> DEFINE Bad == {k \in Nat : ~ \E f : Applies(held, refs, refused, k, f)}
             base == [held |-> held, id |-> written]
  <1> HIDE DEF base
  <1>1. ASSUME Bad # {} PROVE FALSE
    <2>1. PICK k \in Bad : \A x \in Bad : k <= x
      <3>1. Bad \in SUBSET Nat
        OBVIOUS
      <3> HIDE DEF Bad
      <3> QED  BY <1>1, <3>1, Least
    <2>2. k \in Nat
      BY <2>1
    <2>3. k # 0
      <3>1. 0 .. 0 = {0}
        OBVIOUS
      <3> DEFINE f == [i \in {0} |-> base]
      <3>2. f = [i \in {0} |->
                   IF i = 0 THEN base
                   ELSE IF i \in refused THEN f[i - 1]
                   ELSE RemovedOne(f[i - 1], refs[i].key, refs[i].version)]
        OBVIOUS
      <3> HIDE DEF f
      <3>3. Applies(held, refs, refused, 0, f)
        BY <3>1, <3>2 DEF Applies, base
      <3> QED  BY <2>1, <3>3
    <2>4. k - 1 \in Nat /\ k - 1 \notin Bad
      BY <2>1, <2>2, <2>3
    <2>5. PICK g : Applies(held, refs, refused, k - 1, g)
      BY <2>4
    <2> DEFINE Then(was, i) == IF i \in refused THEN was
                               ELSE RemovedOne(was, refs[i].key, refs[i].version)
               f == [i \in 0 .. k |-> IF i = k THEN Then(g[k - 1], k) ELSE g[i]]
    <2> HIDE DEF Then
    <2>6. \A i \in 0 .. (k - 1) : g[i] = IF i = 0 THEN base ELSE Then(g[i - 1], i)
      BY <2>5 DEF Applies, base, Then
    <2>7. \A i \in 0 .. k : f[i] = IF i = 0 THEN base ELSE Then(f[i - 1], i)
      <3> SUFFICES ASSUME NEW i \in 0 .. k PROVE f[i] = IF i = 0 THEN base ELSE Then(f[i - 1], i)
        OBVIOUS
      <3>1. CASE i = k
        <4>1. f[i] = Then(g[k - 1], k) /\ f[i - 1] = g[k - 1]
          BY <2>2, <2>3, <3>1
        <4> QED  BY <2>3, <3>1, <4>1
      <3>2. CASE i # k
        <4>1. i \in 0 .. (k - 1)
          BY <2>2, <3>2
        <4>2. f[i] = g[i] /\ (i # 0 => f[i - 1] = g[i - 1])
          BY <2>2, <4>1
        <4> QED  BY <2>6, <4>1, <4>2
      <3> QED  BY <3>1, <3>2
    <2>8. f = [i \in 0 .. k |-> IF i = 0 THEN base ELSE Then(f[i - 1], i)]
      <3>1. f = [i \in 0 .. k |-> f[i]]
        OBVIOUS
      <3> HIDE DEF f
      <3> QED  BY <2>7, <3>1
    <2> HIDE DEF f
    <2>9. Applies(held, refs, refused, k, f)
      BY <2>8 DEF Applies, base, Then
    <2> QED  BY <2>1, <2>9
  <1> QED  BY <1>1

LEMMA RemovedOneIs ==
    ASSUME build \in BuildType, NEW was, was.id \in Nat, IsBucket(was.held, was.id),
           NEW k \in Keys, NEW v \in Nat
    PROVE  LET then == RemovedOne(was, k, v) IN
           then.id \in {was.id, was.id + 1} /\ IsBucket(then.held, then.id)
  <1> DEFINE id == was.id
             new == Removed(was.held[k], v, id + 1)
             made == \E x \in ToSet(new) : x.id = id + 1
             then == RemovedOne(was, k, v)
  <1>1. IsHeld(new, id + 1)
    BY HeldRemoved DEF IsBucket
  <1>2. ~made => IsHeld(new, id)
    BY <1>1, HeldWithoutNew
  <1>3. then.held = [was.held EXCEPT ![k] = new] /\ then.id = IF made THEN id + 1 ELSE id
    BY DEF RemovedOne
  <1> HIDE DEF made, new, then
  <1>4. IsBucket(then.held, then.id)
    <2>1. CASE made
      <3>1. IsBucket([was.held EXCEPT ![k] = new], id + 1)
        BY <1>1, BucketChanged
      <3> QED  BY <1>3, <2>1, <3>1
    <2>2. CASE ~made
      <3>1. IsBucket([was.held EXCEPT ![k] = new], id)
        BY <1>2, <2>2, BucketChanged
      <3> QED  BY <1>3, <2>2, <3>1
    <2> QED  BY <2>1, <2>2
  <1> QED  BY <1>3, <1>4 DEF then

LEMMA AllRemovedIs ==
    ASSUME StoreInv, NEW b \in Buckets, NEW refs \in Seq(Ref), NEW refused, NEW after,
           after = AllRemoved(objects[b], refs, refused)
    PROVE  /\ after.id \in Nat /\ written <= after.id
           /\ IsBucket(after.held, after.id)
  <1> DEFINE n == Len(refs)
             g == CHOOSE f : Applies(objects[b], refs, refused, n, f)
  <1>0. written \in Nat /\ build \in BuildType /\ IsBucket(objects[b], written)
    BY DEF StoreInv
  <1>1. after = g[n]
    BY DEF AllRemoved, Applies, RemovedOne
  <1>2. n \in Nat /\ \A i \in 1 .. n : refs[i].key \in Keys /\ refs[i].version \in Nat
    <2>1. n \in Nat /\ \A i \in 1 .. n : refs[i] \in Ref
      OBVIOUS
    <2> QED  BY <2>1 DEF Ref
  <1>3. Applies(objects[b], refs, refused, n, g)
    <2>1. \E f : Applies(objects[b], refs, refused, n, f)
      BY <1>2, AppliesExists
    <2> QED  BY <2>1, Zenon
  <1> HIDE DEF g, n
  <1> DEFINE Good(i) == g[i].id \in Nat /\ written <= g[i].id /\ IsBucket(g[i].held, g[i].id)
             Bad == {i \in 0 .. n : ~ Good(i)}
  <1>4. ASSUME Bad # {} PROVE FALSE
    <2>1. PICK k \in Bad : \A x \in Bad : k <= x
      <3>1. Bad \in SUBSET Nat
        BY <1>2
      <3> HIDE DEF Bad
      <3> QED  BY <1>4, <3>1, Least
    <2>2. k \in 0 .. n /\ ~ Good(k)
      BY <2>1
    <2>3. CASE k = 0
      <3>1. g[0] = [held |-> objects[b], id |-> written]
        BY <1>2, <1>3 DEF Applies
      <3>2. Good(0)
        BY <1>0, <3>1
      <3> QED  BY <2>2, <2>3, <3>2
    <2>4. CASE k # 0
      <3>1. k - 1 \in 0 .. n /\ ~ (k <= k - 1) /\ k \in 1 .. n
        BY <1>2, <2>2, <2>4
      <3>2. k - 1 \notin Bad
        <4> HIDE DEF Bad
        <4> QED  BY <2>1, <3>1
      <3>3. Good(k - 1)
        BY <3>1, <3>2
      <3>4. g[k] = IF k \in refused THEN g[k - 1]
                   ELSE RemovedOne(g[k - 1], refs[k].key, refs[k].version)
        BY <1>3, <2>2, <2>4 DEF Applies
      <3>5. CASE k \in refused
        BY <2>2, <3>3, <3>4, <3>5
      <3>6. CASE k \notin refused
        <4> DEFINE then == RemovedOne(g[k - 1], refs[k].key, refs[k].version)
        <4>1. then.id \in {g[k - 1].id, g[k - 1].id + 1} /\ IsBucket(then.held, then.id)
          BY <1>0, <1>2, <3>1, <3>3, RemovedOneIs
        <4> HIDE DEF then
        <4>2. g[k] = then
          BY <3>4, <3>6 DEF then
        <4>3. g[k].id \in Nat /\ written <= g[k].id
          BY <1>0, <3>3, <4>1, <4>2
        <4> QED  BY <2>2, <4>1, <4>2, <4>3
      <3> QED  BY <3>5, <3>6
    <2> QED  BY <2>3, <2>4
  <1>5. n \in 0 .. n
    BY <1>2
  <1>6. Good(n)
    BY <1>4, <1>5
  <1> QED  BY <1>1, <1>6

-----------------------------------------------------------------------------
(* The requests of a batch.                                                *)

LEMMA SmallerOf ==
    ASSUME NEW a \in Int, NEW b \in Int
    PROVE  Min({a, b}) = IF a <= b THEN a ELSE b
  <1>1. a <= b \/ b <= a
    OBVIOUS
  <1> QED  BY <1>1 DEF Min

(* A request begins where the batch has got to, takes at least one         *)
(* reference and ends within the list.                                     *)
ChunkEnd(refs, next) ==
    LET last == next + (IF build.impl = "s3" THEN MaxDeletes ELSE Len(refs)) - 1
    IN  IF last <= Len(refs) THEN last ELSE Len(refs)

LEMMA ChunkIs ==
    ASSUME NEW refs \in Seq(Ref), NEW next \in Nat \ {0}
    PROVE  /\ Chunk(refs, next) = SubSeq(refs, next, ChunkEnd(refs, next))
           /\ Chunk(refs, next) \in Seq(Ref)
           /\ ChunkEnd(refs, next) \in Int /\ ChunkEnd(refs, next) <= Len(refs)
           /\ next <= Len(refs) => next <= ChunkEnd(refs, next)
  <1> DEFINE last == next + (IF build.impl = "s3" THEN MaxDeletes ELSE Len(refs)) - 1
  <1>1. Len(refs) \in Nat /\ MaxDeletes \in Nat \ {0} /\ last \in Int
    BY BucketAssumption
  <1>2. Min({last, Len(refs)}) = ChunkEnd(refs, next)
    BY <1>1, SmallerOf DEF ChunkEnd
  <1>3. ChunkEnd(refs, next) \in Int /\ ChunkEnd(refs, next) <= Len(refs)
        /\ (next <= Len(refs) => next <= ChunkEnd(refs, next))
    BY <1>1 DEF ChunkEnd
  <1>4. Chunk(refs, next) = SubSeq(refs, next, ChunkEnd(refs, next))
    BY <1>2 DEF Chunk
  <1> HIDE DEF last
  <1>5. SubSeq(refs, next, ChunkEnd(refs, next)) \in Seq(Ref)
    <2> DEFINE R == Ref
               e == ChunkEnd(refs, next)
    <2>1. refs \in Seq(R) /\ e \in Int /\ e <= Len(refs)
      BY <1>3
    <2> HIDE DEF R, e
    <2>2. \A i \in next .. e : refs[i] \in R
      BY <1>1, <2>1
    <2>3. SubSeq(refs, next, e) \in Seq(R)
      BY <1>1, <2>1, <2>2, SubSeqProperties
    <2> QED  BY <2>3 DEF R, e
  <1> QED  BY <1>3, <1>4, <1>5

-----------------------------------------------------------------------------
(* What a step does to the store.                                          *)

Stores == \E b \in Buckets, n \in Nat : \E new : Write(b, new, n) /\ IsBucket(new, written + n)
FaultKept == faults' \in 0 .. MaxFaults

LEMMA FaultKeeps == ASSUME StoreInv, NEW outcome, Fault(outcome) PROVE FaultKept
  BY BucketAssumption DEF StoreInv, Fault, FaultKept

LEMMA StoredUnderIs ==
    ASSUME StoreInv, NEW b \in Buckets, NEW k \in Keys, NEW length \in Lengths \cup {0},
           NEW attrs \in Carriable, NEW new, Write(b, new, 1),
           new = StoredUnder(b, k, NewVersion(length, attrs))
    PROVE  Stores
  <1> DEFINE x == NewVersion(length, attrs)
  <1>1. written \in Nat /\ IsBucket(objects[b], written) /\ IsHeld(objects[b][k], written)
    BY DEF StoreInv, IsBucket
  <1>2. x = [id |-> written + 1, marker |-> FALSE, length |-> length, attrs |-> attrs]
    BY DEF NewVersion
  <1> HIDE DEF x
  <1>3. x \in MadeBy(written + 1) /\ x.id = written + 1
    <2>1. written + 1 \in 1 .. (written + 1)
      BY <1>1
    <2>2. x \in MadeBy(written + 1)
      BY <1>2, <2>1, Zenon DEF MadeBy
    <2>3. x.id = written + 1
      BY <1>2, Zenon
    <2> QED  BY <2>2, <2>3
  <1>4. IsHeld(Stored(objects[b][k], x), written + 1)
    BY <1>1, <1>3, HeldStored
  <1>5. IsBucket([objects[b] EXCEPT ![k] = Stored(objects[b][k], x)], written + 1)
    BY <1>1, <1>4, BucketChanged
  <1>6. new = [objects[b] EXCEPT ![k] = Stored(objects[b][k], x)]
    BY DEF StoredUnder, x
  <1> QED  BY <1>5, <1>6 DEF Stores

LEMMA CurrentIs ==
    ASSUME StoreInv, NEW b \in Buckets, NEW k \in Keys
    PROVE  Current(b, k).length \in Lengths \cup {0} /\ Current(b, k).attrs \in Carriable
  <1> DEFINE held == objects[b][k]
  <1>1. written \in Nat /\ IsHeld(held, written)
    BY DEF StoreInv, IsBucket
  <1>2. Nothing.length \in Lengths \cup {0} /\ Nothing.attrs \in Carriable
    BY DEF Nothing, Carriable
  <1>3. CASE held = <<>>
    <2>1. Newest(b, k) = Nothing
      BY <1>3 DEF Newest
    <2> QED  BY <1>2, <2>1 DEF Current
  <1>4. CASE held # <<>>
    <2>1. Newest(b, k) = held[Len(held)]
      BY <1>4 DEF Newest, Last
    <2> HIDE DEF held
    <2>2. Len(held) \in 1 .. Len(held)
      BY <1>1, <1>4 DEF IsHeld
    <2>3. held[Len(held)].length \in Lengths \cup {0} /\ held[Len(held)].attrs \in Carriable
      BY <1>1, <2>2, HeldFacts
    <2> QED  BY <1>2, <2>1, <2>3 DEF Current
  <1> QED  BY <1>3, <1>4

LEMMA CarriedIs ==
    ASSUME NEW source, source.attrs \in Carriable, NEW attrs \in Attributes
    PROVE  Carried(source, attrs) \in Carriable /\ attrs \in Carriable
  BY DEF Carried, Carriable

LEMMA WritingEffect ==
    ASSUME StoreInv, BatchInv, NEW h \in Writers, Writing(h)
    PROVE  build' = build /\ FaultKept /\ (Stores \/ NoWrite)
  <1>1. PICK b \in Busy, outcome \in Outcomes :
          \/ \E k \in Keys :
               \/ \E length \in Lengths, attrs \in Attributes : Put(h, b, k, length, attrs, outcome)
               \/ \E v \in 0 .. written : Delete(h, b, k, v, outcome)
          \/ \E refs \in RefLists : DeleteMany(h, b, refs, outcome)
          \/ \E refused \in SUBSET (1 .. MaxDeletes) : DeleteChunk(h, outcome, refused)
    BY Zenon DEF Writing
  <1>2. b \in Buckets
    BY BucketAssumption
  <1>3. ASSUME NEW k \in Keys, NEW length \in Lengths, NEW attrs \in Attributes,
               Put(h, b, k, length, attrs, outcome)
        PROVE  build' = build /\ FaultKept /\ (Stores \/ NoWrite)
    <2>1. build' = build /\ FaultKept
      BY <1>3, FaultKeeps DEF Put
    <2>2. NoWrite \/ Write(b, StoredUnder(b, k, NewVersion(length, attrs)), 1)
      BY <1>3 DEF Put
    <2>3. attrs \in Carriable /\ length \in Lengths \cup {0}
      BY DEF Carriable
    <2> QED  BY <1>2, <2>1, <2>2, <2>3, StoredUnderIs
  <1>4. ASSUME NEW k \in Keys, NEW v \in 0 .. written, Delete(h, b, k, v, outcome)
        PROVE  build' = build /\ FaultKept /\ (Stores \/ NoWrite)
    <2>1. build' = build /\ FaultKept
      BY <1>4, FaultKeeps DEF Delete
    <2> DEFINE was == [held |-> objects[b], id |-> written]
               new == Removed(objects[b][k], v, written + 1)
               then == RemovedOne(was, k, v)
    <2>2. NoWrite \/ Write(b, [objects[b] EXCEPT ![k] = new], Uses(b, k, v))
      BY <1>4 DEF Delete
    <2>3. written \in Nat /\ build \in BuildType /\ IsBucket(objects[b], written) /\ v \in Nat
      BY <1>2 DEF StoreInv
    <2>4. was.id = written /\ was.held = objects[b]
      OBVIOUS
    <2> HIDE DEF was
    <2>5. then.id \in {written, written + 1} /\ IsBucket(then.held, then.id)
      BY <2>3, <2>4, RemovedOneIs
    <2>6. then.held = [objects[b] EXCEPT ![k] = new] /\ then.id = written + Uses(b, k, v)
          /\ Uses(b, k, v) \in Nat
      <3>1. then.held = [objects[b] EXCEPT ![k] = new]
        BY <2>4 DEF RemovedOne
      <3>2. then.id = IF \E x \in ToSet(new) : x.id = written + 1 THEN written + 1 ELSE written
        BY <2>4 DEF RemovedOne
      <3>3. Uses(b, k, v) = IF \E x \in ToSet(new) : x.id = written + 1 THEN 1 ELSE 0
        BY DEF Uses
      <3> HIDE DEF new, then
      <3> QED  BY <2>3, <3>1, <3>2, <3>3
    <2> HIDE DEF new, then
    <2>7. Write(b, [objects[b] EXCEPT ![k] = new], Uses(b, k, v)) => Stores
      BY <1>2, <2>5, <2>6 DEF Stores
    <2> QED  BY <2>1, <2>2, <2>7
  <1>5. ASSUME NEW refs \in RefLists, DeleteMany(h, b, refs, outcome)
        PROVE  build' = build /\ FaultKept /\ (Stores \/ NoWrite)
    BY <1>5, FaultKeeps DEF DeleteMany
  <1>6. ASSUME NEW refused \in SUBSET (1 .. MaxDeletes), DeleteChunk(h, outcome, refused)
        PROVE  build' = build /\ FaultKept /\ (Stores \/ NoWrite)
    <2> DEFINE here == batch[h]
               chunk == Chunk(here.refs, here.next)
               after == AllRemoved(objects[here.bucket], chunk, refused)
    <2>1. build' = build /\ FaultKept
      BY <1>6, FaultKeeps DEF DeleteChunk
    <2>2. NoWrite \/ Write(here.bucket, after.held, after.id - written)
      BY <1>6 DEF DeleteChunk
    <2>3. here.bucket \in Buckets /\ here.refs \in Seq(Ref) /\ here.next \in Nat \ {0}
      BY DEF BatchInv, IsBatch
    <2>4. chunk \in Seq(Ref)
      BY <2>3, ChunkIs
    <2> HIDE DEF chunk, after, here
    <2>5. after = AllRemoved(objects[here.bucket], chunk, refused)
      BY DEF after
    <2>6. after.id \in Nat /\ written <= after.id /\ IsBucket(after.held, after.id)
      BY <2>3, <2>4, <2>5, AllRemovedIs
    <2>7. written \in Nat
      BY DEF StoreInv
    <2>8. after.id - written \in Nat /\ written + (after.id - written) = after.id
      BY <2>6, <2>7
    <2>9. Write(here.bucket, after.held, after.id - written) => Stores
      BY <2>3, <2>6, <2>8 DEF Stores
    <2> QED  BY <2>1, <2>2, <2>9
  <1> QED  BY <1>1, <1>3, <1>4, <1>5, <1>6

LEMMA CopyingEffect ==
    ASSUME StoreInv, BatchInv, NEW h \in Writers, Copying(h)
    PROVE  build' = build /\ FaultKept /\ (Stores \/ NoWrite)
  <1>1. PICK b \in Buckets, dest \in Buckets, k \in Keys, to \in Keys, attrs \in Attributes :
          \/ \E outcome \in Outcomes : Copy(h, b, k, dest, to, attrs, outcome)
          \/ DoubleCopy(h, b, k, dest, to, attrs)
    BY Zenon DEF Copying
  <1>2. ASSUME NEW outcome \in Outcomes, Copy(h, b, k, dest, to, attrs, outcome)
        PROVE  build' = build /\ FaultKept /\ (Stores \/ NoWrite)
    <2> DEFINE source == Current(b, k)
    <2>1. build' = build /\ FaultKept
      BY <1>2, FaultKeeps DEF Copy
    <2>2. \/ NoWrite
          \/ Write(dest, StoredUnder(dest, to, NewVersion(source.length, Carried(source, attrs))), 1)
      BY <1>2 DEF Copy
    <2>3. source.length \in Lengths \cup {0} /\ Carried(source, attrs) \in Carriable
      BY CurrentIs, CarriedIs
    <2> HIDE DEF source
    <2> QED  BY <2>1, <2>2, <2>3, StoredUnderIs
  <1>3. ASSUME DoubleCopy(h, b, k, dest, to, attrs)
        PROVE  build' = build /\ FaultKept /\ (Stores \/ NoWrite)
    BY <1>3 DEF DoubleCopy, FaultKept, StoreInv
  <1> QED  BY <1>1, <1>2, <1>3

LEMMA CopyPutEffect ==
    ASSUME StoreInv, BatchInv, NEW h \in Writers, DoubleCopyPut(h)
    PROVE  build' = build /\ FaultKept /\ Stores
  <1> DEFINE copy == batch[h].copy[1]
             dest == batch[h].bucket
             C == [to : Keys, length : Lengths \cup {0}, attrs : Carriable]
  <1>1. /\ build' = build /\ faults' = faults
        /\ batch[h].copy # <<>>
        /\ Write(dest, StoredUnder(dest, copy.to, NewVersion(copy.length, copy.attrs)), 1)
    BY DEF DoubleCopyPut
  <1>2. dest \in Buckets /\ batch[h].copy \in Seq(C)
    BY DEF BatchInv, IsBatch
  <1>3. copy \in C
    <2> HIDE DEF C
    <2> QED  BY <1>1, <1>2
  <1>4. copy.to \in Keys /\ copy.length \in Lengths \cup {0} /\ copy.attrs \in Carriable
    BY <1>3
  <1> HIDE DEF copy, dest
  <1>5. Stores
    BY <1>1, <1>2, <1>4, StoredUnderIs
  <1> QED  BY <1>1, <1>5 DEF FaultKept, StoreInv

LEMMA UploadingEffect ==
    ASSUME StoreInv, Uploading
    PROVE  build' = build /\ FaultKept /\ Stores
  <1>1. PICK b \in Busy, k \in Keys, action \in {"read", "write"}, attrs \in Attributes,
             length \in Lengths : Upload(SignedURL(b, k, action, attrs[1]), length, attrs[1])
    BY Zenon DEF Uploading
  <1> DEFINE url == SignedURL(b, k, action, attrs[1])
  <1>2. url.bucket = b /\ url.key = k
    BY DEF SignedURL
  <1>3. b \in Buckets /\ <<attrs[1], "">> \in Carriable /\ length \in Lengths \cup {0}
    BY BucketAssumption DEF Carriable
  <1> HIDE DEF url
  <1>4. Upload(url, length, attrs[1])
    BY <1>1 DEF url
  <1>5. build' = build /\ faults' = faults
        /\ Write(b, StoredUnder(b, k, NewVersion(length, <<attrs[1], "">>)), 1)
    BY <1>2, <1>4 DEF Upload
  <1>6. Stores
    BY <1>3, <1>5, StoredUnderIs
  <1> QED  BY <1>5, <1>6 DEF FaultKept, StoreInv

LEMMA StoresKeeps ==
    ASSUME StoreInv, build' = build, FaultKept, Stores
    PROVE  StoreInv'
  <1>0. PICK b \in Buckets, n \in Nat : \E new : Write(b, new, n) /\ IsBucket(new, written + n)
    BY DEF Stores
  <1>1. PICK new : Write(b, new, n) /\ IsBucket(new, written + n)
    BY <1>0
  <1>2. written' = written + n /\ written + n <= MaxWrites /\ objects' = [objects EXCEPT ![b] = new]
    BY <1>1 DEF Write, Changed
  <1>3. /\ written \in Nat /\ MaxWrites \in Nat /\ DOMAIN objects = Buckets
        /\ \A q \in Buckets : IsBucket(objects[q], written)
    BY BucketAssumption DEF StoreInv
  <1>4. written' \in 0 .. MaxWrites /\ written \in Nat /\ written' \in Nat /\ written <= written'
    BY <1>2, <1>3
  <1>5. \A q \in Buckets : IsBucket(objects[q], written')
    BY <1>3, <1>4, HeldGrows DEF IsBucket
  <1>6. DOMAIN objects' = Buckets /\ \A q \in Buckets : objects'[q] = IF q = b THEN new ELSE objects[q]
    BY <1>2, <1>3
  <1>7. IsBucket(new, written')
    BY <1>1, <1>2
  <1>8. \A q \in Buckets : IsBucket(objects'[q], written')
    BY <1>5, <1>6, <1>7
  <1>9. \A q \in Buckets : IsBucket(objects[q], written)'
    BY <1>8 DEF IsBucket, IsHeld, MadeBy
  <1>10. build' \in BuildType
    BY DEF StoreInv
  <1> QED  BY <1>4, <1>6, <1>9, <1>10 DEF StoreInv, FaultKept

LEMMA NoWriteKeeps ==
    ASSUME StoreInv, build' = build, FaultKept, objects' = objects, written' = written
    PROVE  StoreInv'
  BY DEF StoreInv, FaultKept, IsBucket, IsHeld, MadeBy

LEMMA WalkingEffect ==
    ASSUME StoreInv, NEW w \in Walkers, Walking(w) \/ WalkReturn(w)
    PROVE  build' = build /\ objects' = objects /\ written' = written /\ batch' = batch /\ FaultKept
  <1>1. CASE WalkReturn(w)
    BY <1>1 DEF WalkReturn, FaultKept, StoreInv
  <1>2. ASSUME NEW kind, NEW b, NEW limit, NEW cursor, WalkStart(w, kind, b, limit, cursor)
        PROVE  build' = build /\ objects' = objects /\ written' = written /\ batch' = batch /\ FaultKept
    BY <1>2 DEF WalkStart, FaultKept, StoreInv
  <1>3. ASSUME NEW outcome, NEW n, NEW time, WalkPage(w, outcome, n, time)
        PROVE  build' = build /\ objects' = objects /\ written' = written /\ batch' = batch /\ FaultKept
    BY <1>3, FaultKeeps DEF WalkPage
  <1> QED  BY <1>1, <1>2, <1>3 DEF Walking

LEMMA StoreStep ==
    ASSUME StoreInv, BatchInv, [Next]_vars
    PROVE  StoreInv'
  <1>1. CASE UNCHANGED vars
    <2>1. FaultKept
      BY <1>1 DEF vars, FaultKept, StoreInv
    <2> QED  BY <1>1, <2>1, NoWriteKeeps DEF vars
  <1>2. CASE \E h \in Writers : Writing(h) \/ Copying(h) \/ DoubleCopyPut(h) \/ BatchReturn(h)
    <2>1. PICK h \in Writers : Writing(h) \/ Copying(h) \/ DoubleCopyPut(h) \/ BatchReturn(h)
      BY <1>2
    <2>2. build' = build /\ FaultKept /\ (Stores \/ NoWrite)
      <3>1. CASE BatchReturn(h)
        BY <3>1 DEF BatchReturn, FaultKept, StoreInv
      <3> QED  BY <2>1, <3>1, WritingEffect, CopyingEffect, CopyPutEffect
    <2> QED  BY <2>2, StoresKeeps, NoWriteKeeps DEF NoWrite
  <1>3. CASE \E w \in Walkers : Walking(w) \/ WalkReturn(w)
    BY <1>3, WalkingEffect, NoWriteKeeps
  <1>4. CASE Uploading
    BY <1>4, UploadingEffect, StoresKeeps
  <1> QED  BY <1>1, <1>2, <1>3, <1>4 DEF Next

-----------------------------------------------------------------------------
(* A DeleteMany accounts for what it was handed.                           *)

LEMMA RefListIs == ASSUME NEW refs \in RefLists PROVE refs \in Seq(Ref)
  BY BucketAssumption DEF Ref

LEMMA TimesNone == ASSUME NEW r PROVE Times_Of(<<>>, r) = 0
  <1>1. {i \in DOMAIN <<>> : <<>>[i] = r} = {}
    OBVIOUS
  <1> QED  BY <1>1, FS_EmptySet DEF Times_Of

LEMMA IdleBatch ==
    IsBatch(NoBatch) /\ Accounted(NoBatch)
  <1>1. <<>> \in Seq(Ref) /\ <<>> \in Seq([to : Keys, length : Lengths \cup {0}, attrs : Carriable])
    OBVIOUS
  <1>2. NoBatch = [bucket |-> Home, refs |-> <<>>, next |-> 1, open |-> FALSE, deleted |-> <<>>,
                   failed |-> <<>>, unsent |-> <<>>, copy |-> <<>>]
    BY DEF NoBatch
  <1>3. Home \in Buckets
    BY BucketAssumption
  <1>4. /\ NoBatch.bucket = Home /\ NoBatch.refs = <<>> /\ NoBatch.next = 1 /\ NoBatch.open = FALSE
        /\ NoBatch.deleted = <<>> /\ NoBatch.failed = <<>> /\ NoBatch.unsent = <<>>
        /\ NoBatch.copy = <<>>
    BY <1>2
  <1>5. IsBatch(NoBatch)
    BY <1>1, <1>2, <1>3, <1>4 DEF IsBatch
  <1> QED  BY <1>4, <1>5 DEF Accounted

LEMMA BatchFields ==
    ASSUME NEW bucket, NEW refs, NEW next, NEW open, NEW deleted, NEW failed, NEW unsent, NEW copy,
           NEW c, c = [bucket |-> bucket, refs |-> refs, next |-> next, open |-> open,
                       deleted |-> deleted, failed |-> failed, unsent |-> unsent, copy |-> copy]
    PROVE  /\ c.bucket = bucket /\ c.refs = refs /\ c.next = next /\ c.open = open
           /\ c.deleted = deleted /\ c.failed = failed /\ c.unsent = unsent /\ c.copy = copy
  OBVIOUS

(* A batch that begins has accounted for nothing, or for everything where  *)
(* it could not begin.                                                     *)
LEMMA BatchBegins ==
    ASSUME NEW b \in Buckets, NEW refs \in Seq(Ref), refs # <<>>, NEW open \in BOOLEAN, NEW c,
           NEW left, left = IF open THEN <<>> ELSE refs,
           c = [bucket |-> b, refs |-> refs, next |-> 1, open |-> open, deleted |-> <<>>,
                failed |-> <<>>, unsent |-> left, copy |-> <<>>]
    PROVE  IsBatch(c) /\ Accounted(c)
  <1>1. <<>> \in Seq(Ref) /\ left \in Seq(Ref)
        /\ <<>> \in Seq([to : Keys, length : Lengths \cup {0}, attrs : Carriable])
    OBVIOUS
  <1>3. /\ c.bucket = b /\ c.refs = refs /\ c.next = 1
        /\ c.deleted = <<>> /\ c.failed = <<>> /\ c.unsent = left /\ c.copy = <<>>
    BY BatchFields
  <1>10. c.open = open
    BY BatchFields
  <1>4. IsBatch(c)
    <2>1. 1 \in Nat \ {0}
      OBVIOUS
    <2> QED  BY <1>1, <1>3, <1>10, <2>1, Zenon DEF IsBatch
  <1>5. Len(refs) \in Nat /\ 1 <= Len(refs) /\ SubSeq(refs, 1, 1 - 1) = <<>>
    <2>1. 1 - 1 < 1
      OBVIOUS
    <2> QED  BY <2>1, SubSeqEmpty
  <1>6. \A r : Times_Of(<<>>, r) = 0 /\ Times_Of(refs, r) \in Nat
    BY TimesNone, TimesNat
  <1>7. ASSUME open PROVE Accounted(c)
    <2>1. c.unsent = <<>>
      BY <1>3, <1>7
    <2>2. ASSUME NEW r
          PROVE  Times_Of(SubSeq(c.refs, 1, c.next - 1), r)
                   = Times_Of(c.deleted, r) + Times_Of(c.failed, r)
      <3>1. SubSeq(c.refs, 1, c.next - 1) = <<>>
        BY <1>3, <1>5, Zenon
      <3>2. c.deleted = <<>> /\ c.failed = <<>>
        BY <1>3, Zenon
      <3>3. /\ Times_Of(SubSeq(c.refs, 1, c.next - 1), r) = 0
            /\ Times_Of(c.deleted, r) = 0 /\ Times_Of(c.failed, r) = 0
        BY <1>6, <3>1, <3>2, Zenon
      <3> QED  BY <3>3
    <2> QED  BY <1>3, <1>10, <1>5, <1>7, <2>1, <2>2 DEF Accounted
  <1>8. ASSUME ~open PROVE Accounted(c)
    <2>1. c.unsent = refs
      BY <1>3, <1>8
    <2>2. \A r : Times_Of(c.refs, r) = Times_Of(c.deleted, r) + Times_Of(c.failed, r)
                                         + Times_Of(c.unsent, r)
      BY <1>3, <1>6, <2>1
    <2> QED  BY <1>3, <1>10, <1>8, <2>2 DEF Accounted
  <1> QED  BY <1>4, <1>7, <1>8

(* What is taken from a list up to a place and what comes after it are the *)
(* whole of it.                                                            *)
LEMMA TimesUpTo ==
    ASSUME NEW S, NEW s \in Seq(S), NEW m \in Nat, NEW n \in Nat, m <= n, n <= Len(s), NEW r
    PROVE  /\ Times_Of(SubSeq(s, 1, n), r) = Times_Of(SubSeq(s, 1, m), r) + Times_Of(SubSeq(s, m + 1, n), r)
           /\ Times_Of(s, r) = Times_Of(SubSeq(s, 1, m), r) + Times_Of(SubSeq(s, m + 1, Len(s)), r)
  <1>1. SubSeq(s, 1, m) \in Seq(S) /\ SubSeq(s, m + 1, n) \in Seq(S) /\ SubSeq(s, m + 1, Len(s)) \in Seq(S)
    <2>1. \A i \in 1 .. Len(s) : s[i] \in S
      OBVIOUS
    <2>2. Len(s) \in Nat
      OBVIOUS
    <2>3. \A i \in 1 .. m : s[i] \in S
      BY <2>1, <2>2
    <2>4. \A i \in (m + 1) .. Len(s) : s[i] \in S
      BY <2>1, <2>2
    <2>5. \A i \in (m + 1) .. n : s[i] \in S
      BY <2>1, <2>2
    <2>6. m + 1 \in Nat /\ Len(s) \in Int /\ m + 1 \in Int
      BY <2>2
    <2> QED  BY <2>3, <2>4, <2>5, <2>6, SubSeqProperties
  <1>2. SubSeq(s, 1, m) \o SubSeq(s, m + 1, n) = SubSeq(s, 1, n)
    BY ConcatAdjacentSubSeq
  <1>3. SubSeq(s, 1, m) \o SubSeq(s, m + 1, Len(s)) = s
    <2>1. SubSeq(s, 1, m) \o SubSeq(s, m + 1, Len(s)) = SubSeq(s, 1, Len(s))
      <3>1. Len(s) \in Nat /\ 1 \in 1 .. (Len(s) + 1) /\ m \in (1 - 1) .. Len(s) /\ Len(s) \in m .. Len(s)
        OBVIOUS
      <3> QED  BY <3>1, ConcatAdjacentSubSeq
    <2>2. SubSeq(s, 1, Len(s)) = s
      BY SubSeqFull
    <2> QED  BY <2>1, <2>2
  <1>4. Times_Of(SubSeq(s, 1, m) \o SubSeq(s, m + 1, n), r)
          = Times_Of(SubSeq(s, 1, m), r) + Times_Of(SubSeq(s, m + 1, n), r)
    BY <1>1, TimesConcat
  <1>5. Times_Of(SubSeq(s, 1, m) \o SubSeq(s, m + 1, Len(s)), r)
          = Times_Of(SubSeq(s, 1, m), r) + Times_Of(SubSeq(s, m + 1, Len(s)), r)
    BY <1>1, TimesConcat
  <1> QED  BY <1>2, <1>3, <1>4, <1>5

(* A request answered for: the references it took are deleted or refused.  *)
LEMMA ChunkAnswered ==
    ASSUME NEW c, IsBatch(c), Accounted(c), c.open, NEW chunk, chunk = Chunk(c.refs, c.next),
           NEW refused \in SUBSET DOMAIN chunk, NEW more \in BOOLEAN, NEW del, NEW fail, NEW new,
           more <=> (c.next + Len(chunk) <= Len(c.refs)),
           del = c.deleted \o AtPlaces(chunk, DOMAIN chunk \ refused),
           fail = c.failed \o AtPlaces(chunk, refused),
           new = [bucket |-> c.bucket, refs |-> c.refs, next |-> c.next + Len(chunk), open |-> more,
                  deleted |-> del, failed |-> fail, unsent |-> c.unsent, copy |-> c.copy]
    PROVE  IsBatch(new) /\ Accounted(new)
  <1> DEFINE R == Ref
             next == c.next
             refs == c.refs
             e == ChunkEnd(refs, next)
             kept == AtPlaces(chunk, DOMAIN chunk \ refused)
             lost == AtPlaces(chunk, refused)
  <1>1. /\ c.bucket \in Buckets /\ next \in Nat \ {0} /\ c.open \in BOOLEAN
        /\ refs \in Seq(R) /\ c.deleted \in Seq(R) /\ c.failed \in Seq(R) /\ c.unsent \in Seq(R)
        /\ c.copy \in Seq([to : Keys, length : Lengths \cup {0}, attrs : Carriable])
        /\ c = [bucket |-> c.bucket, refs |-> c.refs, next |-> c.next, open |-> c.open,
                deleted |-> c.deleted, failed |-> c.failed, unsent |-> c.unsent, copy |-> c.copy]
    BY DEF IsBatch
  <1>2. /\ next <= Len(refs) /\ c.unsent = <<>>
        /\ \A r : Times_Of(SubSeq(refs, 1, next - 1), r) = Times_Of(c.deleted, r) + Times_Of(c.failed, r)
    BY DEF Accounted
  <1>3. chunk = SubSeq(refs, next, e) /\ chunk \in Seq(R) /\ e \in Int /\ e <= Len(refs) /\ next <= e
    BY <1>1, <1>2, ChunkIs
  <1> HIDE DEF R, e
  <1>4. kept \in Seq(R) /\ lost \in Seq(R)
    <2>1. DOMAIN chunk \ refused \in SUBSET DOMAIN chunk
      OBVIOUS
    <2> QED  BY <1>3, <2>1, AtPlacesIs
  <1>5. del \in Seq(R) /\ fail \in Seq(R)
    BY <1>1, <1>4
  <1>6. Len(chunk) = e - next + 1 /\ next + Len(chunk) = e + 1 /\ e \in Nat /\ Len(refs) \in Nat
    <2>1. Len(refs) \in Nat /\ next \in Nat
      BY <1>1
    <2>2. \A i \in next .. e : refs[i] \in R
      BY <1>1, <1>3, <2>1
    <2>3. Len(chunk) = IF next <= e THEN e - next + 1 ELSE 0
      BY <1>3, <2>1, <2>2, SubSeqProperties
    <2> QED  BY <1>3, <2>1, <2>3
  <1>7. ASSUME NEW r
        PROVE  Times_Of(SubSeq(refs, 1, e), r) = Times_Of(del, r) + Times_Of(fail, r)
    <2>1. Times_Of(del, r) = Times_Of(c.deleted, r) + Times_Of(kept, r)
      BY <1>1, <1>4, TimesConcat
    <2>2. Times_Of(fail, r) = Times_Of(c.failed, r) + Times_Of(lost, r)
      BY <1>1, <1>4, TimesConcat
    <2>3. Times_Of(chunk, r) = Times_Of(kept, r) + Times_Of(lost, r)
      BY <1>3, TimesSplit
    <2>4. Times_Of(SubSeq(refs, 1, e), r)
            = Times_Of(SubSeq(refs, 1, next - 1), r) + Times_Of(SubSeq(refs, next - 1 + 1, e), r)
      <3>1. next - 1 \in Nat /\ next - 1 <= e
        BY <1>1, <1>3
      <3> HIDE DEF next, refs
      <3> QED  BY <1>1, <1>3, <1>6, <3>1, TimesUpTo, SMTT(30)
    <2>5. SubSeq(refs, next - 1 + 1, e) = chunk
      <3>1. next - 1 + 1 = next
        BY <1>1
      <3> QED  BY <1>3, <3>1
    <2>6. /\ Times_Of(c.deleted, r) \in Nat /\ Times_Of(kept, r) \in Nat
          /\ Times_Of(c.failed, r) \in Nat /\ Times_Of(lost, r) \in Nat
      BY <1>1, <1>4, TimesNat
    <2>7. Times_Of(SubSeq(refs, 1, next - 1), r) = Times_Of(c.deleted, r) + Times_Of(c.failed, r)
      BY <1>2
    <2> HIDE DEF kept, lost, refs, next
    <2>8. Times_Of(SubSeq(refs, 1, e), r)
            = Times_Of(c.deleted, r) + Times_Of(c.failed, r) + (Times_Of(kept, r) + Times_Of(lost, r))
      BY <2>3, <2>4, <2>5, <2>7, Zenon
    <2> QED  BY <2>1, <2>2, <2>6, <2>8
  <1>9. more \in BOOLEAN /\ (more <=> e + 1 <= Len(refs))
    BY <1>6
  <1>10. /\ new.bucket = c.bucket /\ new.refs = refs /\ new.next = e + 1
         /\ new.deleted = del /\ new.failed = fail /\ new.unsent = <<>> /\ new.copy = c.copy
    <2>1. /\ new.bucket = c.bucket /\ new.refs = c.refs /\ new.next = c.next + Len(chunk)
          /\ new.deleted = del /\ new.failed = fail /\ new.unsent = c.unsent /\ new.copy = c.copy
      BY BatchFields
    <2> QED  BY <1>2, <1>6, <2>1
  <1>11. new.open = more
    BY BatchFields
  <1>12. IsBatch(new)
    <2>1. e + 1 \in Nat \ {0} /\ <<>> \in Seq(R)
      BY <1>6
    <2>2. new = [bucket |-> new.bucket, refs |-> new.refs, next |-> new.next, open |-> new.open,
                 deleted |-> new.deleted, failed |-> new.failed, unsent |-> new.unsent, copy |-> new.copy]
      <3>1. new = [bucket |-> c.bucket, refs |-> c.refs, next |-> c.next + Len(chunk), open |-> more,
                   deleted |-> del, failed |-> fail, unsent |-> c.unsent, copy |-> c.copy]
        OBVIOUS
      <3> QED  BY <3>1, BatchFields
    <2> QED  BY <1>1, <1>5, <1>9, <1>10, <1>11, <2>1, <2>2, Zenon DEF IsBatch, R
  <1>13. ASSUME more PROVE Accounted(new)
    <2>1. new.next - 1 = e /\ new.next <= Len(new.refs)
      BY <1>6, <1>9, <1>10, <1>13
    <2>2. \A r : Times_Of(SubSeq(new.refs, 1, new.next - 1), r)
                   = Times_Of(new.deleted, r) + Times_Of(new.failed, r)
      BY <1>7, <1>10, <2>1, ZenonT(30)
    <2> QED  BY <1>10, <1>11, <1>13, <2>1, <2>2 DEF Accounted
  <1>14. ASSUME ~more PROVE Accounted(new)
    <2>1. e = Len(refs)
      BY <1>3, <1>6, <1>9, <1>14
    <2>2. SubSeq(refs, 1, e) = refs
      BY <1>1, <2>1, SubSeqFull
    <2>3. ASSUME NEW r
          PROVE  Times_Of(new.refs, r) = Times_Of(new.deleted, r) + Times_Of(new.failed, r)
                                           + Times_Of(new.unsent, r)
      <3>1. Times_Of(<<>>, r) = 0 /\ Times_Of(del, r) \in Nat /\ Times_Of(fail, r) \in Nat
        BY <1>5, TimesNone, TimesNat
      <3>2. Times_Of(refs, r) = Times_Of(del, r) + Times_Of(fail, r)
        BY <1>7, <2>2
      <3>3. new.refs = refs /\ new.deleted = del /\ new.failed = fail /\ new.unsent = <<>>
        BY <1>10, Zenon
      <3>4. /\ Times_Of(new.refs, r) = Times_Of(del, r) + Times_Of(fail, r)
            /\ Times_Of(new.deleted, r) = Times_Of(del, r) /\ Times_Of(new.failed, r) = Times_Of(fail, r)
            /\ Times_Of(new.unsent, r) = 0
        BY <3>1, <3>2, <3>3, Zenon
      <3> QED  BY <3>1, <3>4
    <2> QED  BY <1>11, <1>14, <2>3 DEF Accounted
  <1> QED  BY <1>12, <1>13, <1>14

(* A request that is not: everything from it on is unsent.                 *)
LEMMA ChunkUnanswered ==
    ASSUME NEW c, IsBatch(c), Accounted(c), c.open, NEW open, NEW left, NEW new,
           left = UnsentRefs(c.refs, c.next), open = FALSE,
           new = [bucket |-> c.bucket, refs |-> c.refs, next |-> c.next, open |-> open,
                  deleted |-> c.deleted, failed |-> c.failed, unsent |-> left, copy |-> c.copy]
    PROVE  IsBatch(new) /\ Accounted(new)
  <1> DEFINE R == Ref
             next == c.next
             refs == c.refs
  <1>0. left = SubSeq(refs, next, Len(refs))
    BY DEF UnsentRefs
  <1>1. /\ c.bucket \in Buckets /\ next \in Nat \ {0} /\ c.open \in BOOLEAN
        /\ refs \in Seq(R) /\ c.deleted \in Seq(R) /\ c.failed \in Seq(R) /\ c.unsent \in Seq(R)
        /\ c.copy \in Seq([to : Keys, length : Lengths \cup {0}, attrs : Carriable])
        /\ c = [bucket |-> c.bucket, refs |-> c.refs, next |-> c.next, open |-> c.open,
                deleted |-> c.deleted, failed |-> c.failed, unsent |-> c.unsent, copy |-> c.copy]
    BY DEF IsBatch
  <1>2. /\ next <= Len(refs) /\ c.unsent = <<>>
        /\ \A r : Times_Of(SubSeq(refs, 1, next - 1), r) = Times_Of(c.deleted, r) + Times_Of(c.failed, r)
    BY DEF Accounted
  <1> HIDE DEF R
  <1>3. left \in Seq(R)
    <2>1. Len(refs) \in Nat /\ \A i \in next .. Len(refs) : refs[i] \in R
      BY <1>1
    <2> QED  BY <1>0, <1>1, <2>1, SubSeqProperties
  <1>5. ASSUME NEW r
        PROVE  Times_Of(refs, r) = Times_Of(c.deleted, r) + Times_Of(c.failed, r) + Times_Of(left, r)
    <2>1. Times_Of(refs, r) = Times_Of(SubSeq(refs, 1, next - 1), r)
                                + Times_Of(SubSeq(refs, next - 1 + 1, Len(refs)), r)
      <3>1. next - 1 \in Nat /\ next - 1 <= Len(refs) /\ Len(refs) \in Nat /\ Len(refs) <= Len(refs)
        BY <1>1, <1>2
      <3> HIDE DEF next, refs
      <3> QED  BY <1>1, <3>1, TimesUpTo, ZenonT(30)
    <2>2. next - 1 + 1 = next
      BY <1>1
    <2>3. /\ Times_Of(c.deleted, r) \in Nat /\ Times_Of(c.failed, r) \in Nat /\ Times_Of(left, r) \in Nat
      BY <1>1, <1>3, TimesNat
    <2> QED  BY <1>0, <1>2, <2>1, <2>2, <2>3
  <1>6. /\ new.bucket = c.bucket /\ new.refs = refs /\ new.next = next
        /\ new.deleted = c.deleted /\ new.failed = c.failed /\ new.unsent = left /\ new.copy = c.copy
    BY BatchFields
  <1>7. new.open = FALSE
    BY BatchFields
  <1>8. IsBatch(new)
    <2>1. new = [bucket |-> new.bucket, refs |-> new.refs, next |-> new.next, open |-> new.open,
                 deleted |-> new.deleted, failed |-> new.failed, unsent |-> new.unsent, copy |-> new.copy]
      <3>1. new = [bucket |-> c.bucket, refs |-> c.refs, next |-> c.next, open |-> open,
                   deleted |-> c.deleted, failed |-> c.failed, unsent |-> left, copy |-> c.copy]
        OBVIOUS
      <3> QED  BY <3>1, BatchFields
    <2>2. FALSE \in BOOLEAN
      OBVIOUS
    <2> QED  BY <1>1, <1>3, <1>6, <1>7, <2>1, <2>2, Zenon DEF IsBatch, R
  <1>9. \A r : Times_Of(new.refs, r) = Times_Of(new.deleted, r) + Times_Of(new.failed, r)
                                         + Times_Of(new.unsent, r)
    BY <1>5, <1>6
  <1> QED  BY <1>7, <1>8, <1>9 DEF Accounted

LEMMA Batches ==
    ASSUME BatchInv, NEW h \in Writers, NEW new, IsBatch(new), Accounted(new),
           batch' = [batch EXCEPT ![h] = new]
    PROVE  BatchInv'
  <1>1. DOMAIN batch = Writers /\ \A g \in Writers : IsBatch(batch[g]) /\ Accounted(batch[g])
    BY DEF BatchInv
  <1>2. DOMAIN batch' = Writers /\ \A g \in Writers : batch'[g] = IF g = h THEN new ELSE batch[g]
    BY <1>1
  <1>3. \A g \in Writers : IsBatch(batch'[g]) /\ Accounted(batch'[g])
    BY <1>1, <1>2
  <1> QED  BY <1>2, <1>3 DEF BatchInv, IsBatch, Accounted

LEMMA SameBatches == ASSUME BatchInv, batch' = batch PROVE BatchInv'
  BY DEF BatchInv, IsBatch, Accounted

LEMMA BatchEta ==
    ASSUME NEW c, IsBatch(c)
    PROVE  c = [bucket |-> c.bucket, refs |-> c.refs, next |-> c.next, open |-> c.open,
                deleted |-> c.deleted, failed |-> c.failed, unsent |-> c.unsent, copy |-> c.copy]
  BY Zenon DEF IsBatch

(* The fields of a batch that a step changes.                              *)
LEMMA ChangedAnswered ==
    ASSUME NEW c, NEW next, NEW open, NEW deleted, NEW failed,
           c = [bucket |-> c.bucket, refs |-> c.refs, next |-> c.next, open |-> c.open,
                deleted |-> c.deleted, failed |-> c.failed, unsent |-> c.unsent, copy |-> c.copy],
           NEW new, new = [c EXCEPT !.next = next, !.open = open, !.deleted = deleted, !.failed = failed]
    PROVE  new = [bucket |-> c.bucket, refs |-> c.refs, next |-> next, open |-> open,
                  deleted |-> deleted, failed |-> failed, unsent |-> c.unsent, copy |-> c.copy]
  OBVIOUS

LEMMA ChangedUnanswered ==
    ASSUME NEW c, NEW open, NEW unsent,
           c = [bucket |-> c.bucket, refs |-> c.refs, next |-> c.next, open |-> c.open,
                deleted |-> c.deleted, failed |-> c.failed, unsent |-> c.unsent, copy |-> c.copy],
           NEW new, new = [c EXCEPT !.open = open, !.unsent = unsent]
    PROVE  new = [bucket |-> c.bucket, refs |-> c.refs, next |-> c.next, open |-> open,
                deleted |-> c.deleted, failed |-> c.failed, unsent |-> unsent, copy |-> c.copy]
  OBVIOUS

LEMMA ChangedBegins ==
    ASSUME NEW b, NEW refs, NEW open, NEW unsent,
           NEW new, new = [NoBatch EXCEPT !.bucket = b, !.refs = refs, !.open = open, !.unsent = unsent]
    PROVE  new = [bucket |-> b, refs |-> refs, next |-> 1, open |-> open, deleted |-> <<>>,
                failed |-> <<>>, unsent |-> unsent, copy |-> <<>>]
  BY DEF NoBatch

LEMMA ChangedCopies ==
    ASSUME NEW c, NEW b, NEW copy, c = NoBatch,
           NEW new, new = [c EXCEPT !.bucket = b, !.copy = copy]
    PROVE  new = [bucket |-> b, refs |-> <<>>, next |-> 1, open |-> FALSE, deleted |-> <<>>,
                failed |-> <<>>, unsent |-> <<>>, copy |-> copy]
  BY DEF NoBatch

LEMMA DeleteManyKeeps ==
    ASSUME BatchInv, NEW h \in Writers, NEW b \in Busy, NEW refs \in RefLists, NEW outcome \in Outcomes,
           DeleteMany(h, b, refs, outcome)
    PROVE  BatchInv'
  <1> DEFINE open == (outcome = "answered")
             left == IF outcome = "failed" THEN refs ELSE <<>>
             new == [NoBatch EXCEPT !.bucket = b, !.refs = refs, !.open = open, !.unsent = left]
  <1>1. refs # <<>> /\ outcome \in {"answered", "failed"} /\ batch' = [batch EXCEPT ![h] = new]
    BY DEF DeleteMany
  <1>2. b \in Buckets /\ refs \in Seq(Ref) /\ open \in BOOLEAN /\ left = IF open THEN <<>> ELSE refs
    BY <1>1, RefListIs, BucketAssumption
  <1> HIDE DEF open, left
  <1>5. new = [NoBatch EXCEPT !.bucket = b, !.refs = refs, !.open = open, !.unsent = left]
    OBVIOUS
  <1> HIDE DEF new
  <1>3. new = [bucket |-> b, refs |-> refs, next |-> 1, open |-> open, deleted |-> <<>>,
               failed |-> <<>>, unsent |-> left, copy |-> <<>>]
    BY <1>5, ChangedBegins, Zenon
  <1>4. IsBatch(new) /\ Accounted(new)
    BY <1>1, <1>2, <1>3, BatchBegins
  <1> QED  BY <1>1, <1>4, Batches

LEMMA DeleteChunkKeeps ==
    ASSUME BatchInv, NEW h \in Writers, NEW outcome, NEW refused, DeleteChunk(h, outcome, refused)
    PROVE  BatchInv'
  <1> DEFINE here == batch[h]
             chunk == Chunk(here.refs, here.next)
             sent == outcome # "failed" /\ Reaches(here.bucket)
             more == here.next + Len(chunk) <= Len(here.refs)
             del == here.deleted \o AtPlaces(chunk, DOMAIN chunk \ refused)
             fail == here.failed \o AtPlaces(chunk, refused)
             left == UnsentRefs(here.refs, here.next)
             done == [here EXCEPT !.next = here.next + Len(chunk), !.open = more,
                                  !.deleted = del, !.failed  = fail]
             over == [here EXCEPT !.open = FALSE, !.unsent = left]
  <1>1. /\ here.open /\ refused \in SUBSET DOMAIN chunk
        /\ batch' = [batch EXCEPT ![h] = IF sent /\ outcome = "answered" THEN done ELSE over]
    BY DEF DeleteChunk
  <1>2. /\ IsBatch(here) /\ Accounted(here)
        /\ here = [bucket |-> here.bucket, refs |-> here.refs, next |-> here.next, open |-> here.open,
                   deleted |-> here.deleted, failed |-> here.failed, unsent |-> here.unsent,
                   copy |-> here.copy]
    BY BatchEta DEF BatchInv
  <1>3. IsBatch(done) /\ Accounted(done)
    <2>1. more \in BOOLEAN /\ (more <=> here.next + Len(chunk) <= Len(here.refs))
      OBVIOUS
    <2> HIDE DEF more
    <2>2. /\ chunk = Chunk(here.refs, here.next)
          /\ del = here.deleted \o AtPlaces(chunk, DOMAIN chunk \ refused)
          /\ fail = here.failed \o AtPlaces(chunk, refused)
      OBVIOUS
    <2> HIDE DEF del, fail, chunk
    <2>4. done = [here EXCEPT !.next = here.next + Len(chunk), !.open = more,
                              !.deleted = del, !.failed = fail]
      OBVIOUS
    <2> HIDE DEF done, here
    <2>3. done = [bucket |-> here.bucket, refs |-> here.refs, next |-> here.next + Len(chunk),
                  open |-> more, deleted |-> del, failed |-> fail, unsent |-> here.unsent,
                  copy |-> here.copy]
      BY <1>2, <2>4, ChangedAnswered, Zenon
    <2> QED  BY <1>1, <1>2, <2>1, <2>2, <2>3, ChunkAnswered
  <1>4. IsBatch(over) /\ Accounted(over)
    <2>1. left = UnsentRefs(here.refs, here.next)
      OBVIOUS
    <2> HIDE DEF left
    <2>4. PICK open : open = FALSE
      OBVIOUS
    <2>5. over = [here EXCEPT !.open = open, !.unsent = left]
      BY <2>4
    <2> HIDE DEF over, here
    <2>2. over = [bucket |-> here.bucket, refs |-> here.refs, next |-> here.next,
                  open |-> open, deleted |-> here.deleted, failed |-> here.failed,
                  unsent |-> left, copy |-> here.copy]
      BY <1>2, <2>5, ChangedUnanswered, Zenon
    <2> QED  BY <1>1, <1>2, <2>1, <2>2, <2>4, ChunkUnanswered
  <1> HIDE DEF done, over
  <1> QED  BY <1>1, <1>3, <1>4, Batches

LEMMA DoubleCopyKeeps ==
    ASSUME StoreInv, BatchInv, NEW h \in Writers, NEW b \in Buckets, NEW dest \in Buckets,
           NEW k \in Keys, NEW to \in Keys, NEW attrs \in Attributes,
           DoubleCopy(h, b, k, dest, to, attrs)
    PROVE  BatchInv'
  <1> DEFINE source == Current(b, k)
             one == [to |-> to, length |-> source.length, attrs |-> Carried(source, attrs)]
             C == [to : Keys, length : Lengths \cup {0}, attrs : Carriable]
             here == batch[h]
             new == [here EXCEPT !.bucket = dest, !.copy = <<one>>]
  <1>1. DOMAIN batch = Writers /\ here = NoBatch
    BY DEF DoubleCopy, Ready, BatchInv
  <1>2. one \in C
    BY CurrentIs, CarriedIs
  <1>3. batch' = [batch EXCEPT ![h].bucket = dest, ![h].copy = <<one>>]
    BY DEF DoubleCopy
  <1> HIDE DEF one, C
  <1>4. <<one>> \in Seq(C) /\ <<>> \in Seq(Ref) /\ 1 \in Nat \ {0} /\ FALSE \in BOOLEAN
    BY <1>2
  <1>6. batch' = [batch EXCEPT ![h] = new]
    BY <1>1, <1>3
  <1>10. new = [here EXCEPT !.bucket = dest, !.copy = <<one>>]
    OBVIOUS
  <1> HIDE DEF new, here
  <1>5. new = [bucket |-> dest, refs |-> <<>>, next |-> 1, open |-> FALSE, deleted |-> <<>>,
               failed |-> <<>>, unsent |-> <<>>, copy |-> <<one>>]
    <2> DEFINE ones == <<one>>
    <2>1. here = NoBatch /\ new = [here EXCEPT !.bucket = dest, !.copy = ones]
      BY <1>1, <1>10
    <2> HIDE DEF ones
    <2>2. new = [bucket |-> dest, refs |-> <<>>, next |-> 1, open |-> FALSE, deleted |-> <<>>,
                 failed |-> <<>>, unsent |-> <<>>, copy |-> ones]
      BY <2>1, ChangedCopies
    <2> QED  BY <2>2 DEF ones
  <1>7. /\ new.bucket = dest /\ new.refs = <<>> /\ new.next = 1 /\ new.open = FALSE /\ new.deleted = <<>>
        /\ new.failed = <<>> /\ new.unsent = <<>> /\ new.copy = <<one>>
    BY <1>5
  <1>8. IsBatch(new)
    BY <1>4, <1>5, <1>7 DEF IsBatch, C
  <1>9. Accounted(new)
    BY <1>7 DEF Accounted
  <1> QED  BY <1>6, <1>8, <1>9, Batches

LEMMA BatchStep ==
    ASSUME StoreInv, BatchInv, [Next]_vars
    PROVE  BatchInv'
  <1>1. CASE UNCHANGED vars
    BY <1>1, SameBatches DEF vars
  <1>2. ASSUME NEW h \in Writers, Writing(h) PROVE BatchInv'
    <2>1. PICK b \in Busy, outcome \in Outcomes :
            \/ \E k \in Keys :
                 \/ \E length \in Lengths, attrs \in Attributes : Put(h, b, k, length, attrs, outcome)
                 \/ \E v \in 0 .. written : Delete(h, b, k, v, outcome)
            \/ \E refs \in RefLists : DeleteMany(h, b, refs, outcome)
            \/ \E refused \in SUBSET (1 .. MaxDeletes) : DeleteChunk(h, outcome, refused)
      BY <1>2, Zenon DEF Writing
    <2>2. ASSUME NEW k, NEW length, NEW attrs, Put(h, b, k, length, attrs, outcome) PROVE BatchInv'
      BY <2>2, SameBatches DEF Put
    <2>3. ASSUME NEW k, NEW v, Delete(h, b, k, v, outcome) PROVE BatchInv'
      BY <2>3, SameBatches DEF Delete
    <2> QED  BY <2>1, <2>2, <2>3, DeleteManyKeeps, DeleteChunkKeeps
  <1>3. ASSUME NEW h \in Writers, Copying(h) PROVE BatchInv'
    <2>1. PICK b \in Buckets, dest \in Buckets, k \in Keys, to \in Keys, attrs \in Attributes :
            \/ \E outcome \in Outcomes : Copy(h, b, k, dest, to, attrs, outcome)
            \/ DoubleCopy(h, b, k, dest, to, attrs)
      BY <1>3, Zenon DEF Copying
    <2>2. ASSUME NEW outcome, Copy(h, b, k, dest, to, attrs, outcome) PROVE BatchInv'
      BY <2>2, SameBatches DEF Copy
    <2> QED  BY <2>1, <2>2, DoubleCopyKeeps
  <1>4. ASSUME NEW h \in Writers, DoubleCopyPut(h) \/ BatchReturn(h) PROVE BatchInv'
    <2>1. batch' = [batch EXCEPT ![h] = NoBatch]
      BY <1>4 DEF DoubleCopyPut, BatchReturn
    <2> QED  BY <2>1, IdleBatch, Batches
  <1>5. ASSUME NEW w \in Walkers, Walking(w) \/ WalkReturn(w) PROVE BatchInv'
    BY <1>5, WalkingEffect, SameBatches
  <1>6. ASSUME Uploading PROVE BatchInv'
    <2>1. PICK b, k, action, attrs, length : Upload(SignedURL(b, k, action, attrs[1]), length, attrs[1])
      BY <1>6 DEF Uploading
    <2>2. batch' = batch
      BY <2>1 DEF Upload
    <2> QED  BY <2>2, SameBatches
  <1> QED  BY <1>1, <1>2, <1>3, <1>4, <1>5, <1>6 DEF Next

LEMMA StoreInit == Init => StoreInv /\ BatchInv
  <1> SUFFICES ASSUME Init PROVE StoreInv /\ BatchInv
    OBVIOUS
  <1>1. \A b \in Buckets : objects[b] = [k \in Keys |-> <<>>]
    BY DEF Init
  <1>2. DOMAIN objects = Buckets /\ written = 0 /\ faults = 0 /\ build \in BuildType
    BY BucketAssumption DEF Init
  <1>3. \A b \in Buckets : IsBucket(objects[b], written)
    BY <1>1, <1>2, HeldNone DEF IsBucket
  <1>4. 0 \in 0 .. MaxWrites /\ 0 \in 0 .. MaxFaults
    BY BucketAssumption
  <1>5. DOMAIN batch = Writers /\ \A h \in Writers : batch[h] = NoBatch
    BY DEF Init
  <1> QED  BY <1>2, <1>3, <1>4, <1>5, IdleBatch DEF StoreInv, BatchInv

(* The store and the batches are what they should be after every step.     *)
THEOREM StoreHolds == Spec => [](StoreInv /\ BatchInv)
  <1>1. StoreInv /\ BatchInv /\ [Next]_vars => (StoreInv /\ BatchInv)'
    BY StoreStep, BatchStep
  <1> QED  BY <1>1, StoreInit, PTL DEF Spec

(* A DeleteMany that returned has every reference it was handed, as often  *)
(* as it was handed it, in exactly one of the lists of deleted, refused    *)
(* and unsent ones, whichever of its requests failed (DeleteMany).         *)
THEOREM ReferencesAreAccounted == Spec => []RefsAccounted
  <1>1. StoreInv /\ BatchInv => RefsAccounted
    BY DEF BatchInv, Accounted, RefsAccounted
  <1> QED  BY <1>1, StoreHolds, PTL

-----------------------------------------------------------------------------
(* What a read is told.                                                    *)

LEMMA FoundIs ==
    ASSUME StoreInv, NEW b \in Buckets, NEW k \in Keys, NEW v \in Nat, NEW held, held = Find(b, k, v)
    PROVE  held.marker \in BOOLEAN /\ held.length \in Nat
  <1> DEFINE all == objects[b][k]
             named == {i \in DOMAIN all : all[i].id = v}
  <1>1. written \in Nat /\ IsHeld(all, written)
    BY DEF StoreInv, IsBucket
  <1>2. /\ Len(all) \in Nat /\ DOMAIN all = 1 .. Len(all)
        /\ \A i \in 1 .. Len(all) : all[i].marker \in BOOLEAN /\ all[i].length \in Lengths \cup {0}
    BY <1>1, HeldFacts
  <1>3. Nothing.marker = TRUE /\ Nothing.length = 0
    BY Zenon DEF Nothing
  <1>4. Nothing.marker \in BOOLEAN /\ Nothing.length \in Nat
    <2>1. 0 \in Nat /\ TRUE \in BOOLEAN
      OBVIOUS
    <2> QED  BY <1>3, <2>1, Zenon
  <1>5. \A i \in 1 .. Len(all) : all[i].marker \in BOOLEAN /\ all[i].length \in Nat
    <2>1. Lengths \cup {0} \subseteq Nat
      BY BucketAssumption
    <2> QED  BY <1>2, <2>1, Zenon
  <1>6. CASE v = NoVersion
    <2>1. CASE all = <<>>
      <3>1. held = Nothing
        BY <1>6, <2>1 DEF Find, Newest
      <3> QED  BY <1>4, <3>1
    <2>2. CASE all # <<>>
      <3>1. held = all[Len(all)]
        BY <1>6, <2>2 DEF Find, Newest, Last
      <3>2. Len(all) \in 1 .. Len(all)
        BY <1>1, <2>2 DEF IsHeld
      <3> QED  BY <1>5, <3>1, <3>2
    <2> QED  BY <2>1, <2>2
  <1>7. CASE v # NoVersion
    <2>1. held = IF named = {} THEN Nothing ELSE all[Min(named)]
      BY <1>7 DEF Find
    <2>2. CASE named = {}
      BY <1>4, <2>1, <2>2
    <2>3. CASE named # {}
      <3>1. named \in SUBSET Nat /\ named \subseteq 1 .. Len(all)
        BY <1>2
      <3> HIDE DEF named
      <3>2. \E m \in named : \A x \in named : m <= x
        BY <2>3, <3>1, Least
      <3>3. Min(named) \in named
        BY <3>2 DEF Min
      <3> QED  BY <1>5, <2>1, <2>3, <3>1, <3>3
    <2> QED  BY <2>2, <2>3
  <1> QED  BY <1>6, <1>7

LEMMA RecordedIsReached ==
    ASSUME NEW b \in Buckets, build.recorded PROVE Reaches(b)
  <1>1. RegionOf[b] # NoRegion /\ RegionOf[Home] = OwnRegion
    BY BucketAssumption
  <1>2. ClientRegion(b) = RegionOf[b]
    BY <1>1 DEF ClientRegion, RecordedRegion
  <1> QED  BY <1>2 DEF Reaches

(* An absence is told as one, whether the key, the version or an object    *)
(* under a marker is missing.                                              *)
LEMMA AbsenceTold ==
    ASSUME NEW b, NEW k, NEW v, NEW header, NEW head \in BOOLEAN, ClientRegion(b) = RegionOf[b],
           NEW held, held = Find(b, k, v), held.marker
    PROVE  WrapRead(ReadCode(b, k, v, header, head)) = "not_found"
  <1> DEFINE code == ReadCode(b, k, v, header, head)
  <1>1. CASE held = Nothing \/ (held.marker /\ v = NoVersion)
    <2>1. code = IF head THEN "NotFound" ELSE IF v = NoVersion THEN "NoSuchKey" ELSE "NoSuchVersion"
      BY <1>1 DEF ReadCode
    <2> HIDE DEF code
    <2>2. /\ WrapRead("NotFound") = "not_found" /\ WrapRead("NoSuchKey") = "not_found"
          /\ WrapRead("NoSuchVersion") = "not_found"
      BY DEF WrapRead, Wrap, AbsentCodes, Misrouted
    <2> QED  BY <2>1, <2>2 DEF code
  <1>2. CASE held # Nothing /\ v # NoVersion
    <2>1. code = "MethodNotAllowed"
      BY <1>2 DEF ReadCode
    <2> QED  BY <2>1 DEF WrapRead
  <1> QED  BY <1>1, <1>2

LEMMA PresenceTold ==
    ASSUME NEW b, NEW k, NEW v, NEW header, NEW head, ClientRegion(b) = RegionOf[b],
           NEW held, held = Find(b, k, v), ~held.marker
    PROVE  WrapRead(ReadCode(b, k, v, header, head))
             = IF header # NoHeader /\ header[1] >= held.length THEN "failed" ELSE "ok"
  <1> DEFINE code == ReadCode(b, k, v, header, head)
  <1>1. held # Nothing
    BY DEF Nothing
  <1>2. code = IF header # NoHeader /\ header[1] >= held.length THEN "InvalidRange" ELSE "OK"
    BY <1>1 DEF ReadCode
  <1> HIDE DEF code
  <1>3. WrapRead("InvalidRange") = "failed" /\ WrapRead("OK") = "ok"
    BY DEF WrapRead, Wrap, AbsentCodes, Misrouted
  <1> QED  BY <1>2, <1>3 DEF code

(* The bytes served for the header of a range, and the ones the double     *)
(* cuts, are those the contract counts.                                    *)
LEMMA HeaderIs ==
    ASSUME NEW r \in Ranges
    PROVE  /\ r.start \in Nat /\ r.span \in Int
           /\ Whole(r) => RangeHeader(r) = NoHeader
           /\ ~Whole(r) => /\ RangeHeader(r) # NoHeader
                           /\ RangeHeader(r)[1] = r.start
                           /\ RangeHeader(r)[2] = IF r.span <= 0 THEN -1 ELSE r.start + r.span - 1
  <1>1. r.start \in Nat /\ r.span \in Int
    BY BucketAssumption DEF Ranges
  <1>2. Whole(r) => RangeHeader(r) = NoHeader
    BY DEF RangeHeader
  <1>3. ASSUME ~Whole(r)
        PROVE  /\ RangeHeader(r) # NoHeader /\ RangeHeader(r)[1] = r.start
               /\ RangeHeader(r)[2] = IF r.span <= 0 THEN -1 ELSE r.start + r.span - 1
    <2>1. \A x, y : <<x, y>> # <<>> /\ <<x, y>>[1] = x /\ <<x, y>>[2] = y
      OBVIOUS
    <2>2. CASE r.span <= 0
      <3>1. RangeHeader(r) = <<r.start, -1>>
        BY <1>3, <2>2 DEF RangeHeader, ToTheEnd
      <3> QED  BY <2>1, <2>2, <3>1 DEF NoHeader
    <2>3. CASE ~ (r.span <= 0)
      <3>1. RangeHeader(r) = <<r.start, r.start + r.span - 1>>
        BY <1>3, <2>3 DEF RangeHeader
      <3> QED  BY <2>1, <2>3, <3>1 DEF NoHeader
    <2> QED  BY <2>2, <2>3
  <1> QED  BY <1>1, <1>2, <1>3

LEMMA ServedIsAsked ==
    ASSUME NEW length \in Nat, NEW r \in Ranges
    PROVE  Served(length, RangeHeader(r)) = Asked(length, r)
  <1> DEFINE header == RangeHeader(r)
  <1>1. r.start \in Nat /\ r.span \in Int
    BY HeaderIs
  <1>2. CASE Whole(r)
    <2>1. header = NoHeader /\ r.start = 0 /\ r.span = 0
      BY <1>2, HeaderIs DEF Whole
    <2>2. Served(length, header) = 0 .. (length - 1)
      BY <2>1 DEF Served
    <2>3. Asked(length, r) = 0 .. (length - 1)
      BY <2>1 DEF Asked
    <2> QED  BY <2>2, <2>3
  <1>3. CASE ~Whole(r)
    <2>1. header # NoHeader /\ header[1] = r.start
          /\ header[2] = IF r.span <= 0 THEN -1 ELSE r.start + r.span - 1
      BY <1>3, HeaderIs
    <2> HIDE DEF header
    <2>2. CASE r.span <= 0
      <3>1. header[2] = ToTheEnd
        BY <2>1, <2>2 DEF ToTheEnd
      <3>2. Served(length, header) = r.start .. (length - 1)
        BY <2>1, <3>1 DEF Served
      <3>3. Asked(length, r) = r.start .. (length - 1)
        BY <1>1, <2>2 DEF Asked
      <3> QED  BY <3>2, <3>3 DEF header
    <2>3. CASE ~ (r.span <= 0)
      <3> DEFINE last == r.start + r.span - 1
      <3>1. header[2] = last /\ last # ToTheEnd /\ last \in Int
        BY <1>1, <2>1, <2>3 DEF ToTheEnd
      <3>2. Served(length, header) = r.start .. Min({last, length - 1})
        BY <2>1, <3>1 DEF Served
      <3>3. Min({last, length - 1}) = IF last <= length - 1 THEN last ELSE length - 1
        BY <3>1, SmallerOf
      <3>4. Asked(length, r) = r.start .. (IF last <= length - 1 THEN last ELSE length - 1)
        BY <1>1, <2>3 DEF Asked
      <3> QED  BY <3>2, <3>3, <3>4 DEF header
    <2> QED  BY <2>2, <2>3
  <1> QED  BY <1>2, <1>3

LEMMA CutIsAsked ==
    ASSUME NEW length \in Nat, NEW r \in Ranges
    PROVE  ApplyRange(length, r) = Asked(length, r)
  <1>1. r.start \in Nat /\ r.span \in Int
    BY HeaderIs
  <1>2. CASE Whole(r)
    <2>1. ApplyRange(length, r) = 0 .. (length - 1) /\ r.start = 0 /\ r.span = 0
      BY <1>2 DEF ApplyRange, Whole
    <2>2. Asked(length, r) = 0 .. (length - 1)
      BY <2>1 DEF Asked
    <2> QED  BY <2>1, <2>2
  <1>3. CASE ~Whole(r)
    <2> DEFINE start == Min({r.start, length})
               end == IF r.span > 0 THEN Min({start + r.span, length}) ELSE length
    <2>1. ApplyRange(length, r) = start .. (end - 1)
      BY <1>3 DEF ApplyRange
    <2>2. start = IF r.start <= length THEN r.start ELSE length
      BY <1>1, SmallerOf
    <2>3. start \in Nat
      BY <1>1, <2>2
    <2>4. Min({start + r.span, length}) = IF start + r.span <= length THEN start + r.span ELSE length
      <3> HIDE DEF start
      <3> QED  BY <1>1, <2>3, SmallerOf
    <2> HIDE DEF start
    <2>5. end = IF r.span > 0 THEN IF start + r.span <= length THEN start + r.span ELSE length ELSE length
      BY <2>4
    <2> HIDE DEF end
    <2>6. end \in Int
      BY <1>1, <2>3, <2>5
    <2>7. start .. (end - 1) = Asked(length, r)
      <3>1. ASSUME NEW i \in start .. (end - 1) PROVE i \in Asked(length, r)
        BY <1>1, <2>2, <2>3, <2>5, <2>6 DEF Asked
      <3>2. ASSUME NEW i \in Asked(length, r) PROVE i \in start .. (end - 1)
        BY <1>1, <2>2, <2>3, <2>5, <2>6 DEF Asked
      <3> QED  BY <3>1, <3>2
    <2> QED  BY <2>1, <2>7
  <1> QED  BY <1>2, <1>3

LEMMA WholeSize == ASSUME NEW length \in Nat PROVE Cardinality(0 .. (length - 1)) = length
  <1>1. CASE length = 0
    <2>1. 0 .. (length - 1) = {}
      BY <1>1
    <2> QED  BY <1>1, <2>1, FS_EmptySet
  <1>2. CASE length # 0
    <2>1. length - 1 \in Int /\ 0 <= length - 1
      BY <1>2
    <2>2. Cardinality(0 .. (length - 1)) = length - 1 - 0 + 1
      BY <2>1, FS_Interval
    <2> QED  BY <2>2
  <1> QED  BY <1>1, <1>2

LEMMA InfoIs ==
    ASSUME StoreInv, NEW b \in Buckets, NEW k \in Keys, NEW v \in Nat, Reaches(b),
           NEW held, held = Find(b, k, v)
    PROVE  /\ Info(b, k, v).told = IF held.marker THEN "not_found" ELSE "ok"
           /\ Exists(b, k, v) = IF held.marker THEN "no" ELSE "yes"
  <1>1. build.impl \in {"s3", "double"}
    BY DEF StoreInv, BuildType
  <1>2. held.marker \in BOOLEAN
    BY FoundIs
  <1>3. CASE build.impl = "double"
    <2>1. CASE held.marker
      BY <1>3, <2>1 DEF Info, Exists, DoubleInfo, DoubleExists, NoAnswer
    <2>2. CASE ~held.marker
      BY <1>3, <2>2 DEF Info, Exists, DoubleInfo, DoubleExists
    <2> QED  BY <2>1, <2>2
  <1>4. CASE build.impl = "s3"
    <2> DEFINE told == WrapRead(ReadCode(b, k, v, NoHeader, TRUE))
    <2>1. ClientRegion(b) = RegionOf[b] /\ TRUE \in BOOLEAN
      BY <1>4 DEF Reaches
    <2>2. told = IF held.marker THEN "not_found" ELSE "ok"
      <3>1. CASE held.marker
        BY <2>1, <3>1, AbsenceTold
      <3>2. CASE ~held.marker
        BY <2>1, <3>2, PresenceTold
      <3> QED  BY <3>1, <3>2
    <2>3. S3Info(b, k, v).told = told
      <3>1. CASE told = "ok"
        <4>1. S3Info(b, k, v) = [told |-> told, id |-> held.id, part |-> {}, attrs |-> held.attrs,
                                 size |-> held.length]
          BY <3>1 DEF S3Info
        <4> HIDE DEF told
        <4> QED  BY <4>1
      <3>2. CASE told # "ok"
        <4>1. S3Info(b, k, v) = NoAnswer(told)
          BY <3>2 DEF S3Info
        <4> HIDE DEF told
        <4> QED  BY <4>1 DEF NoAnswer
      <3> QED  BY <3>1, <3>2
    <2> HIDE DEF told
    <2>4. Info(b, k, v).told = told /\ Exists(b, k, v) = S3Exists(b, k, v)
      BY <1>4, <2>3 DEF Info, Exists
    <2>5. S3Exists(b, k, v) = CASE told = "ok" -> "yes" [] told = "not_found" -> "no" [] OTHER -> told
      BY <2>3 DEF S3Exists
    <2>6. CASE held.marker
      <3>1. told = "not_found"
        BY <2>2, <2>6
      <3>2. S3Exists(b, k, v) = "no"
        BY <2>5, <3>1
      <3> QED  BY <2>4, <2>6, <3>1, <3>2
    <2>7. CASE ~held.marker
      <3>1. told = "ok"
        BY <2>2, <2>7
      <3>2. S3Exists(b, k, v) = "yes"
        BY <2>5, <3>1
      <3> QED  BY <2>4, <2>7, <3>1, <3>2
    <2> QED  BY <1>2, <2>6, <2>7
  <1> QED  BY <1>1, <1>3, <1>4

LEMMA GetIs ==
    ASSUME StoreInv, NEW b \in Buckets, NEW k \in Keys, NEW v \in Nat, Reaches(b),
           NEW held, held = Find(b, k, v), NEW r \in Ranges, NEW got, got = Get(b, k, v, r)
    PROVE  /\ got.told = IF held.marker THEN "not_found"
                         ELSE IF build.impl = "s3" /\ BeyondEnd(held.length, r) THEN "failed" ELSE "ok"
           /\ got.told = "ok" =>
                got.id = held.id /\ got.size = held.length /\ got.part = Asked(held.length, r)
  <1>1. build.impl \in {"s3", "double"}
    BY DEF StoreInv, BuildType
  <1>2. held.marker \in BOOLEAN /\ held.length \in Nat
    BY FoundIs
  <1>3. CASE build.impl = "double"
    <2>1. CASE held.marker
      <3>1. got = NoAnswer("not_found")
        BY <1>3, <2>1 DEF Get, DoubleGet
      <3>2. got.told = "not_found"
        BY <3>1 DEF NoAnswer
      <3> QED  BY <2>1, <3>2
    <2>2. CASE ~held.marker
      <3> DEFINE part == ApplyRange(held.length, r)
      <3>1. got = [told |-> "ok", id |-> held.id, part |-> part, attrs |-> held.attrs,
                   size |-> held.length]
        BY <1>3, <2>2 DEF Get, DoubleGet
      <3>2. part = Asked(held.length, r)
        BY <1>2, CutIsAsked
      <3> HIDE DEF part
      <3>3. got.told = "ok" /\ got.id = held.id /\ got.size = held.length /\ got.part = part
        BY <3>1
      <3> QED  BY <1>3, <2>2, <3>2, <3>3
    <2> QED  BY <1>2, <2>1, <2>2
  <1>4. CASE build.impl = "s3"
    <2> DEFINE header == RangeHeader(r)
               told == WrapRead(ReadCode(b, k, v, header, FALSE))
               part == Served(held.length, header)
               size == ObjectSize(held.length, part, header)
    <2>1. ClientRegion(b) = RegionOf[b] /\ FALSE \in BOOLEAN
      BY <1>4 DEF Reaches
    <2>2. got = IF told # "ok" THEN NoAnswer(told)
                ELSE [told |-> told, id |-> held.id, part |-> part, attrs |-> held.attrs, size |-> size]
      BY <1>4 DEF Get, S3Get
    <2>3. part = Asked(held.length, r)
      BY <1>2, ServedIsAsked
    <2>4. size = held.length
      <3>1. CASE Whole(r)
        <4>1. header = NoHeader
          BY <3>1, HeaderIs
        <4>2. part = 0 .. (held.length - 1)
          BY <4>1 DEF Served
        <4>3. size = Cardinality(part)
          BY <4>1 DEF ObjectSize
        <4> QED  BY <1>2, <4>2, <4>3, WholeSize
      <3>2. CASE ~Whole(r)
        <4>1. header # NoHeader
          BY <3>2, HeaderIs
        <4> HIDE DEF header, part
        <4> QED  BY <4>1 DEF ObjectSize
      <3> QED  BY <3>1, <3>2
    <2>5. CASE held.marker
      <3>1. told = "not_found"
        BY <2>1, <2>5, AbsenceTold
      <3> HIDE DEF told
      <3>2. got = NoAnswer("not_found")
        BY <2>2, <3>1
      <3>3. got.told = "not_found"
        BY <3>2 DEF NoAnswer
      <3> QED  BY <2>5, <3>3
    <2>6. CASE ~held.marker
      <3>1. told = IF header # NoHeader /\ header[1] >= held.length THEN "failed" ELSE "ok"
        BY <2>1, <2>6, PresenceTold
      <3>2. CASE header # NoHeader /\ header[1] >= held.length
        <4>1. told = "failed"
          BY <3>1, <3>2
        <4>2. got.told = "failed"
          <5> HIDE DEF told
          <5>1. got = NoAnswer("failed")
            BY <2>2, <4>1
          <5> QED  BY <5>1 DEF NoAnswer
        <4>3. header[1] = r.start /\ r.start \in Nat
          BY <3>2, HeaderIs
        <4>4. ~Whole(r)
          BY <3>2, HeaderIs
        <4>5. BeyondEnd(held.length, r)
          <5> HIDE DEF header
          <5> QED  BY <3>2, <4>3, <4>4 DEF BeyondEnd
        <4> QED  BY <1>4, <2>6, <4>2, <4>5
      <3>3. CASE ~(header # NoHeader /\ header[1] >= held.length)
        <4>1. told = "ok"
          BY <3>1, <3>3
        <4>4. ~BeyondEnd(held.length, r)
          <5>1. CASE Whole(r)
            BY <5>1 DEF BeyondEnd
          <5>2. CASE ~Whole(r)
            <6>1. header # NoHeader /\ header[1] = r.start
              BY <5>2, HeaderIs
            <6> HIDE DEF header
            <6> QED  BY <3>3, <6>1 DEF BeyondEnd
          <5> QED  BY <5>1, <5>2
        <4> HIDE DEF told, part, size, header
        <4>2. got = [told |-> "ok", id |-> held.id, part |-> part, attrs |-> held.attrs, size |-> size]
          BY <2>2, <4>1
        <4>3. got.told = "ok" /\ got.id = held.id /\ got.size = size /\ got.part = part
          BY <4>2
        <4> QED  BY <2>3, <2>4, <2>6, <4>3, <4>4
      <3> QED  BY <3>2, <3>3
    <2> QED  BY <1>2, <2>5, <2>6
  <1> QED  BY <1>1, <1>3, <1>4

(* Whatever read is made of whatever version, it is answered as absent     *)
(* exactly when there is no object, and otherwise with that version, the   *)
(* whole size and the bytes asked for, for every content length and range  *)
(* but one that begins at or beyond the end, which fails on S3 and is an   *)
(* empty success on the double; and a bucket whose region the deployment   *)
(* recorded is reached (Get, Info, Exists, rangeHeader, objectSize,        *)
(* wrapRead, resolve).                                                     *)
THEOREM EveryReadTellsTruth == Spec => []ReadsTellTruth
  <1>1. ASSUME StoreInv PROVE ReadsTellTruth
    <2> SUFFICES ASSUME NEW b \in Buckets, NEW k \in Keys, NEW v \in 0 .. written
                 PROVE  /\ build.recorded => Reaches(b)
                        /\ Reaches(b) =>
                             LET held == Find(b, k, v)
                             IN  /\ Exists(b, k, v) = IF held.marker THEN "no" ELSE "yes"
                                 /\ Info(b, k, v).told = IF held.marker THEN "not_found" ELSE "ok"
                                 /\ \A r \in Ranges : LET got == Get(b, k, v, r) IN
                                      /\ got.told = IF held.marker THEN "not_found"
                                                    ELSE IF build.impl = "s3" /\ BeyondEnd(held.length, r)
                                                    THEN "failed" ELSE "ok"
                                      /\ got.told = "ok" =>
                                           /\ got.id = held.id /\ got.size = held.length
                                           /\ got.part = Asked(held.length, r)
      BY Zenon DEF ReadsTellTruth
    <2>1. v \in Nat
      BY <1>1 DEF StoreInv
    <2>2. build.recorded => Reaches(b)
      BY RecordedIsReached
    <2>3. ASSUME Reaches(b)
          PROVE  /\ Exists(b, k, v) = IF Find(b, k, v).marker THEN "no" ELSE "yes"
                 /\ Info(b, k, v).told = IF Find(b, k, v).marker THEN "not_found" ELSE "ok"
      BY <1>1, <2>1, <2>3, InfoIs
    <2>4. ASSUME Reaches(b), NEW r \in Ranges
          PROVE  /\ Get(b, k, v, r).told = IF Find(b, k, v).marker THEN "not_found"
                      ELSE IF build.impl = "s3" /\ BeyondEnd(Find(b, k, v).length, r) THEN "failed" ELSE "ok"
                 /\ Get(b, k, v, r).told = "ok" =>
                      /\ Get(b, k, v, r).id = Find(b, k, v).id
                      /\ Get(b, k, v, r).size = Find(b, k, v).length
                      /\ Get(b, k, v, r).part = Asked(Find(b, k, v).length, r)
      BY <1>1, <2>1, <2>4, GetIs
    <2> QED  BY <2>2, <2>3, <2>4, Zenon
  <1> QED  BY <1>1, StoreHolds, PTL

-----------------------------------------------------------------------------
(* The listing of a bucket: the keys in order, and the versions of a key   *)
(* newest first.                                                           *)

Entries(id) == [key : Keys, id : 1 .. id, marker : BOOLEAN, latest : BOOLEAN]
Earlier(kind, x, y) == x.key < y.key \/ (kind # "objects" /\ x.key = y.key /\ x.id > y.id)
Ordered(kind, s) == \A i, j \in DOMAIN s : i < j => Earlier(kind, s[i], s[j])

LEMMA ListableIs == ASSUME NEW kind, NEW b PROVE Listable(kind, b) = ListingOf(kind, objects[b])
  BY DEF Listable, Objects, Versions, ListingOf, VersionsIn, KeyListing

LEMMA EntryIs ==
    ASSUME NEW k, NEW x, NEW latest, NEW e, e = [Entry(k, x) EXCEPT !.latest = latest]
    PROVE  e = [key |-> k, id |-> x.id, marker |-> x.marker, latest |-> latest]
  BY DEF Entry

LEMMA EntryFields ==
    ASSUME NEW key, NEW id, NEW marker, NEW latest, NEW e,
           e = [key |-> key, id |-> id, marker |-> marker, latest |-> latest]
    PROVE  e.key = key /\ e.id = id /\ e.marker = marker /\ e.latest = latest
  OBVIOUS

(* One key's entries: its last version first, and the only one that is     *)
(* marked the latest.                                                      *)
LEMMA KeyListingIs ==
    ASSUME NEW id \in Nat, NEW k \in Keys, NEW held, IsHeld(held, id), NEW s, s = KeyListing(k, held)
    PROVE  /\ s \in Seq(Entries(id)) /\ Ordered("versions", s)
           /\ Len(held) \in Nat /\ DOMAIN s = 1 .. Len(held)
           /\ \A i \in 1 .. Len(held) :
                /\ s[i].key = k /\ s[i].id = held[Len(held) + 1 - i].id
                /\ s[i].marker = held[Len(held) + 1 - i].marker
                /\ s[i].latest = (i = 1)
  <1> DEFINE n == Len(held)
             E == Entries(id)
  <1>1. /\ n \in Nat /\ DOMAIN held = 1 .. n
        /\ \A i \in 1 .. n : held[i].id \in 1 .. id /\ held[i].marker \in BOOLEAN
        /\ \A i, j \in 1 .. n : i < j => held[i].id < held[j].id
    BY HeldFacts
  <1> HIDE DEF n
  <1>2. s = [i \in 1 .. n |-> [Entry(k, held[n + 1 - i]) EXCEPT !.latest = (i = 1)]]
    BY <1>1 DEF KeyListing, n
  <1>3. ASSUME NEW i \in 1 .. n
        PROVE  /\ n + 1 - i \in 1 .. n
               /\ s[i].key = k /\ s[i].id = held[n + 1 - i].id
               /\ s[i].marker = held[n + 1 - i].marker /\ s[i].latest = (i = 1)
               /\ s[i] \in E
    <2> DEFINE x == held[n + 1 - i]
               first == (i = 1)
               e == s[i]
    <2>1. n + 1 - i \in 1 .. n
      BY <1>1
    <2>2. x.id \in 1 .. id /\ x.marker \in BOOLEAN
      BY <1>1, <2>1
    <2>3. first \in BOOLEAN
      OBVIOUS
    <2>4. e = [Entry(k, x) EXCEPT !.latest = first]
      BY <1>2
    <2> HIDE DEF x, first, e
    <2>5. e = [key |-> k, id |-> x.id, marker |-> x.marker, latest |-> first]
      BY <2>4, EntryIs, Zenon
    <2>6. e.key = k /\ e.id = x.id /\ e.marker = x.marker /\ e.latest = first
      BY <2>5, EntryFields, Zenon
    <2>7. e \in E
      BY <2>2, <2>3, <2>5, Zenon DEF Entries
    <2> QED  BY <2>1, <2>6, <2>7, Zenon DEF x, first, e
  <1> HIDE DEF E
  <1>4. s \in Seq(E) /\ DOMAIN s = 1 .. n
    <2>1. s = [i \in 1 .. n |-> s[i]]
      BY <1>2
    <2> QED  BY <1>1, <1>3, <2>1
  <1>5. Ordered("versions", s)
    <2> SUFFICES ASSUME NEW i \in 1 .. n, NEW j \in 1 .. n, i < j PROVE Earlier("versions", s[i], s[j])
      BY <1>4 DEF Ordered
    <2>1. n + 1 - j \in 1 .. n /\ n + 1 - i \in 1 .. n /\ n + 1 - j < n + 1 - i
      BY <1>1
    <2>2. held[n + 1 - j].id < held[n + 1 - i].id /\ held[n + 1 - j].id \in Int /\ held[n + 1 - i].id \in Int
      BY <1>1, <2>1
    <2>3. s[i].key = k /\ s[j].key = k /\ s[i].id = held[n + 1 - i].id /\ s[j].id = held[n + 1 - j].id
      BY <1>3
    <2>4. s[i].id > s[j].id /\ s[i].key = s[j].key
      BY <2>2, <2>3
    <2> QED  BY <2>4 DEF Earlier
  <1> QED  BY <1>1, <1>3, <1>4, <1>5 DEF n, E

(* Lists put one after another stay in order where every entry of one goes *)
(* before every entry of the next.                                         *)
LEMMA OrderedConcat ==
    ASSUME NEW S, NEW s \in Seq(S), NEW t \in Seq(S), NEW kind, Ordered(kind, s), Ordered(kind, t),
           \A x \in ToSet(s), y \in ToSet(t) : Earlier(kind, x, y)
    PROVE  Ordered(kind, s \o t)
  <1> DEFINE m == Len(s)
             n == Len(t)
             st == s \o t
  <1>1. /\ m \in Nat /\ n \in Nat /\ DOMAIN s = 1 .. m /\ DOMAIN t = 1 .. n /\ DOMAIN st = 1 .. (m + n)
        /\ \A i \in 1 .. (m + n) : st[i] = IF i <= m THEN s[i] ELSE t[i - m]
    OBVIOUS
  <1> HIDE DEF st, m, n
  <1> SUFFICES ASSUME NEW i \in 1 .. (m + n), NEW j \in 1 .. (m + n), i < j PROVE Earlier(kind, st[i], st[j])
    BY <1>1 DEF Ordered, st
  <1>2. CASE j <= m
    <2>1. i \in DOMAIN s /\ j \in DOMAIN s /\ st[i] = s[i] /\ st[j] = s[j]
      BY <1>1, <1>2
    <2> QED  BY <2>1 DEF Ordered
  <1>3. CASE i <= m /\ ~ (j <= m)
    <2>1. i \in DOMAIN s /\ j - m \in DOMAIN t /\ st[i] = s[i] /\ st[j] = t[j - m]
      BY <1>1, <1>3
    <2>2. s[i] \in ToSet(s) /\ t[j - m] \in ToSet(t)
      BY <2>1 DEF ToSet
    <2> QED  BY <2>1, <2>2
  <1>4. CASE ~ (i <= m) /\ ~ (j <= m)
    <2>1. i - m \in DOMAIN t /\ j - m \in DOMAIN t /\ st[i] = t[i - m] /\ st[j] = t[j - m] /\ i - m < j - m
      BY <1>1, <1>4
    <2> QED  BY <2>1 DEF Ordered
  <1>5. j <= m \/ (i <= m /\ ~ (j <= m)) \/ (~ (i <= m) /\ ~ (j <= m))
    BY <1>1
  <1> QED  BY <1>2, <1>3, <1>4, <1>5

LEMMA ToSetConcat ==
    ASSUME NEW S, NEW s \in Seq(S), NEW t \in Seq(S)
    PROVE  s \o t \in Seq(S) /\ ToSet(s \o t) = ToSet(s) \cup ToSet(t)
  <1>1. /\ s \o t \in Seq(S) /\ Len(s \o t) = Len(s) + Len(t)
        /\ \A i \in 1 .. Len(s) + Len(t) :
              (s \o t)[i] = IF i <= Len(s) THEN s[i] ELSE t[i - Len(s)]
    OBVIOUS
  <1>2. Len(s) \in Nat /\ Len(t) \in Nat /\ DOMAIN s = 1 .. Len(s) /\ DOMAIN t = 1 .. Len(t)
        /\ DOMAIN (s \o t) = 1 .. Len(s) + Len(t)
    BY <1>1
  <1>3. ASSUME NEW x \in ToSet(s) PROVE x \in ToSet(s \o t)
    <2>1. PICK i \in DOMAIN s : s[i] = x
      BY <1>3 DEF ToSet
    <2>2. i \in 1 .. Len(s) + Len(t) /\ (s \o t)[i] = x
      BY <1>1, <1>2, <2>1
    <2> QED  BY <1>2, <2>2 DEF ToSet
  <1>4. ASSUME NEW x \in ToSet(t) PROVE x \in ToSet(s \o t)
    <2>1. PICK i \in DOMAIN t : t[i] = x
      BY <1>4 DEF ToSet
    <2>2. Len(s) + i \in 1 .. Len(s) + Len(t) /\ (s \o t)[Len(s) + i] = x
      BY <1>1, <1>2, <2>1
    <2> QED  BY <1>2, <2>2 DEF ToSet
  <1>5. ASSUME NEW x \in ToSet(s \o t) PROVE x \in ToSet(s) \cup ToSet(t)
    <2>1. PICK i \in 1 .. Len(s) + Len(t) : (s \o t)[i] = x
      BY <1>2, <1>5 DEF ToSet
    <2>2. CASE i <= Len(s)
      BY <1>1, <1>2, <2>1, <2>2 DEF ToSet
    <2>3. CASE ~(i <= Len(s))
      <3>1. i - Len(s) \in DOMAIN t /\ t[i - Len(s)] = x
        BY <1>1, <1>2, <2>1, <2>3
      <3> QED  BY <3>1 DEF ToSet
    <2> QED  BY <2>2, <2>3
  <1> QED  BY <1>1, <1>3, <1>4, <1>5

(* Flattening is a recursive function over the places of the list: that    *)
(* there is one, and what it holds, go by induction over the places.       *)
Flattens(ss, n, f) == f = [i \in 1 .. n |-> IF i = 1 THEN ss[i] ELSE f[i - 1] \o ss[i]]

LEMMA FlattensExists ==
    ASSUME NEW ss, NEW n \in Nat
    PROVE  \E f : Flattens(ss, n, f)
  <1> DEFINE Bad == {k \in Nat : ~ \E f : Flattens(ss, k, f)}
  <1>1. ASSUME Bad # {} PROVE FALSE
    <2>1. PICK k \in Bad : \A x \in Bad : k <= x
      <3>1. Bad \in SUBSET Nat
        OBVIOUS
      <3> HIDE DEF Bad
      <3> QED  BY <1>1, <3>1, Least
    <2>2. k \in Nat
      BY <2>1
    <2>3. k # 0
      <3>1. Flattens(ss, 0, [i \in {} |-> i])
        <4>1. 1 .. 0 = {}
          OBVIOUS
        <4> QED  BY <4>1 DEF Flattens
      <3> QED  BY <2>1, <3>1
    <2>4. k - 1 \in Nat /\ k - 1 \notin Bad
      BY <2>1, <2>2, <2>3
    <2>5. PICK g : Flattens(ss, k - 1, g)
      BY <2>4
    <2> DEFINE f == [i \in 1 .. k |-> IF i = 1 THEN ss[i]
                                      ELSE IF i = k THEN g[k - 1] \o ss[i] ELSE g[i]]
    <2>6. \A i \in 1 .. (k - 1) : f[i] = g[i]
      <3>1. \A i \in 1 .. (k - 1) : g[i] = IF i = 1 THEN ss[i] ELSE g[i - 1] \o ss[i]
        BY <2>5 DEF Flattens
      <3> QED  BY <2>2, <3>1
    <2>7. \A i \in 1 .. k : f[i] = IF i = 1 THEN ss[i] ELSE f[i - 1] \o ss[i]
      <3> SUFFICES ASSUME NEW i \in 1 .. k, i # 1 PROVE f[i] = f[i - 1] \o ss[i]
        OBVIOUS
      <3>1. i - 1 \in 1 .. (k - 1)
        BY <2>2
      <3>2. CASE i = k
        <4>1. f[i] = g[k - 1] \o ss[i] /\ f[i - 1] = g[i - 1]
          BY <2>6, <3>1, <3>2
        <4> QED  BY <3>2, <4>1
      <3>3. CASE i # k
        <4>1. i \in 1 .. (k - 1)
          BY <2>2, <3>3
        <4>2. g[i] = g[i - 1] \o ss[i]
          BY <2>5, <4>1 DEF Flattens
        <4> QED  BY <2>6, <3>1, <4>1, <4>2
      <3> QED  BY <3>2, <3>3
    <2>8. f = [i \in 1 .. k |-> IF i = 1 THEN ss[i] ELSE f[i - 1] \o ss[i]]
      <3>1. f = [i \in 1 .. k |-> f[i]]
        OBVIOUS
      <3> HIDE DEF f
      <3> QED  BY <2>7, <3>1
    <2> HIDE DEF f
    <2>9. Flattens(ss, k, f)
      BY <2>8 DEF Flattens
    <2> QED  BY <2>1, <2>9
  <1> QED  BY <1>1

(* The lists of the keys one after another, in the order of the keys.      *)
LEMMA FlattenOrdered ==
    ASSUME NEW S, NEW ss \in Seq(Seq(S)), \A x \in S : x.key \in Int,
           \A i \in DOMAIN ss : Ordered("versions", ss[i]) /\ \A x \in ToSet(ss[i]) : x.key = i
    PROVE  /\ FlattenSeq(ss) \in Seq(S) /\ Ordered("versions", FlattenSeq(ss))
           /\ ToSet(FlattenSeq(ss)) = UNION {ToSet(ss[i]) : i \in DOMAIN ss}
  <1> DEFINE n == Len(ss)
  <1>1. n \in Nat /\ DOMAIN ss = 1 .. n /\ \A i \in 1 .. n : ss[i] \in Seq(S)
    OBVIOUS
  <1>2. CASE n = 0
    <2>1. FlattenSeq(ss) = ss /\ ss = <<>> /\ DOMAIN ss = {}
      BY <1>2 DEF FlattenSeq
    <2>2. ToSet(<<>>) = {} /\ <<>> \in Seq(S)
      BY DEF ToSet
    <2>3. Ordered("versions", ss)
      BY <2>1 DEF Ordered
    <2> QED  BY <2>1, <2>2, <2>3
  <1>3. CASE n # 0
    <2> DEFINE g == CHOOSE f : Flattens(ss, n, f)
    <2>1. FlattenSeq(ss) = g[n]
      BY <1>3 DEF FlattenSeq, Flattens
    <2>2. Flattens(ss, n, g)
      <3>1. \E f : Flattens(ss, n, f)
        BY <1>1, FlattensExists
      <3> QED  BY <3>1, Zenon
    <2> HIDE DEF g, n
    <2>3. \A i \in 1 .. n : g[i] = IF i = 1 THEN ss[i] ELSE g[i - 1] \o ss[i]
      BY <2>2 DEF Flattens
    <2> DEFINE Good(i) == /\ g[i] \in Seq(S) /\ Ordered("versions", g[i])
                          /\ ToSet(g[i]) = UNION {ToSet(ss[j]) : j \in 1 .. i}
               Bad == {i \in 1 .. n : ~ Good(i)}
    <2>4. ASSUME Bad # {} PROVE FALSE
      <3>1. PICK k \in Bad : \A x \in Bad : k <= x
        <4>1. Bad \in SUBSET Nat
          BY <1>1
        <4> HIDE DEF Bad
        <4> QED  BY <2>4, <4>1, Least
      <3>2. k \in 1 .. n /\ ~ Good(k)
        BY <3>1
      <3>3. CASE k = 1
        <4>1. g[1] = ss[1] /\ g[1] \in Seq(S)
          BY <1>1, <2>3, <3>2, <3>3
        <4>2. {ToSet(ss[j]) : j \in 1 .. 1} = {ToSet(ss[1])}
          OBVIOUS
        <4>3. Ordered("versions", g[1])
          BY <1>1, <3>2, <3>3, <4>1
        <4> QED  BY <3>2, <3>3, <4>1, <4>2, <4>3
      <3>4. CASE k # 1
        <4>0. k \in Nat /\ n \in Nat /\ k - 1 \in 1 .. n /\ ~ (k <= k - 1)
          BY <1>1, <3>2, <3>4
        <4>1. k - 1 \in 1 .. n /\ k - 1 \notin Bad
          <5> HIDE DEF Bad
          <5> QED  BY <3>1, <4>0
        <4>2. Good(k - 1)
          BY <4>1
        <4>3. g[k] = g[k - 1] \o ss[k] /\ ss[k] \in Seq(S) /\ g[k - 1] \in Seq(S)
          BY <1>1, <2>3, <3>2, <3>4, <4>2
        <4>4. g[k] \in Seq(S) /\ ToSet(g[k]) = ToSet(g[k - 1]) \cup ToSet(ss[k])
          <5>1. g[k - 1] \o ss[k] \in Seq(S)
            BY <4>3
          <5> QED  BY <4>3, <5>1, ToSetConcat
        <4>5. 1 .. k = (1 .. (k - 1)) \cup {k}
          BY <1>1, <3>2, <3>4
        <4>6. UNION {ToSet(ss[j]) : j \in 1 .. k}
                = (UNION {ToSet(ss[j]) : j \in 1 .. (k - 1)}) \cup ToSet(ss[k])
          BY <4>5
        <4>7. ASSUME NEW x \in ToSet(g[k - 1]), NEW y \in ToSet(ss[k]) PROVE Earlier("versions", x, y)
          <5>1. PICK j \in 1 .. (k - 1) : x \in ToSet(ss[j])
            BY <4>2, <4>7
          <5>2. j \in 1 .. n /\ j < k
            BY <1>1, <3>2, <5>1
          <5>3. x.key = j /\ y.key = k
            BY <1>1, <3>2, <4>7, <5>1, <5>2
          <5> QED  BY <5>2, <5>3 DEF Earlier
        <4>8. Ordered("versions", ss[k]) /\ Ordered("versions", g[k - 1])
          BY <1>1, <3>2, <4>2
        <4>9. Ordered("versions", g[k])
          BY <4>3, <4>7, <4>8, OrderedConcat
        <4> QED  BY <3>2, <4>2, <4>4, <4>6, <4>9
      <3> QED  BY <3>3, <3>4
    <2>5. n \in 1 .. n
      BY <1>1, <1>3 DEF n
    <2>6. Good(n)
      BY <2>4, <2>5
    <2> QED  BY <1>1, <2>1, <2>6 DEF n
  <1> QED  BY <1>2, <1>3

(* An entry of the listing is one version of one key.                      *)
IsEntry(x, k, held, i) ==
    /\ x.key = k /\ x.id = held[i].id /\ x.marker = held[i].marker /\ x.latest = (i = Len(held))

LEMMA VersionsInIs ==
    ASSUME NEW id \in Nat, NEW held, IsBucket(held, id)
    PROVE  /\ VersionsIn(held) \in Seq(Entries(id)) /\ Ordered("versions", VersionsIn(held))
           /\ \A x \in ToSet(VersionsIn(held)) :
                \E k \in Keys : \E i \in 1 .. Len(held[k]) : IsEntry(x, k, held[k], i)
           /\ \A k \in Keys : \A i \in 1 .. Len(held[k]) :
                \E x \in ToSet(VersionsIn(held)) : IsEntry(x, k, held[k], i)
  <1> DEFINE E == Entries(id)
             ss == [k \in Keys |-> KeyListing(k, held[k])]
             all == VersionsIn(held)
  <1>1. all = FlattenSeq(ss)
    BY DEF VersionsIn
  <1>2. Keys = 1 .. NKeys /\ NKeys \in Nat /\ DOMAIN ss = Keys
    BY BucketAssumption DEF Keys
  <1>3. ASSUME NEW k \in Keys
        PROVE  /\ ss[k] \in Seq(E) /\ Ordered("versions", ss[k])
               /\ Len(held[k]) \in Nat /\ DOMAIN ss[k] = 1 .. Len(held[k])
               /\ \A i \in 1 .. Len(held[k]) :
                    /\ ss[k][i].key = k /\ ss[k][i].id = held[k][Len(held[k]) + 1 - i].id
                    /\ ss[k][i].marker = held[k][Len(held[k]) + 1 - i].marker
                    /\ ss[k][i].latest = (i = 1)
    <2>1. ss[k] = KeyListing(k, held[k]) /\ IsHeld(held[k], id)
      BY DEF IsBucket
    <2> DEFINE h == held[k]
               s == ss[k]
    <2>2. s = KeyListing(k, h) /\ IsHeld(h, id)
      BY <2>1
    <2> HIDE DEF ss, E, h, s
    <2>3. /\ s \in Seq(Entries(id)) /\ Ordered("versions", s) /\ Len(h) \in Nat /\ DOMAIN s = 1 .. Len(h)
          /\ \A i \in 1 .. Len(h) :
               /\ s[i].key = k /\ s[i].id = h[Len(h) + 1 - i].id
               /\ s[i].marker = h[Len(h) + 1 - i].marker
               /\ s[i].latest = (i = 1)
      BY <2>2, KeyListingIs
    <2> QED  BY <2>3, Zenon DEF E, h, s
  <1>4. \A x \in E : x.key \in Int
    BY <1>2 DEF Entries
  <1> HIDE DEF E, all
  <1>5. ss \in Seq(Seq(E))
    <2>1. ss = [k \in 1 .. NKeys |-> ss[k]]
      BY <1>2
    <2> HIDE DEF ss
    <2> QED  BY <1>2, <1>3, <2>1
  <1> HIDE DEF ss
  <1>6. \A k \in Keys : Ordered("versions", ss[k]) /\ \A x \in ToSet(ss[k]) : x.key = k
    <2> SUFFICES ASSUME NEW k \in Keys PROVE Ordered("versions", ss[k]) /\ \A x \in ToSet(ss[k]) : x.key = k
      OBVIOUS
    <2> QED  BY <1>3 DEF ToSet
  <1>7. all \in Seq(E) /\ Ordered("versions", all) /\ ToSet(all) = UNION {ToSet(ss[k]) : k \in Keys}
    BY <1>1, <1>2, <1>4, <1>5, <1>6, FlattenOrdered
  <1>8. ASSUME NEW x \in ToSet(all)
        PROVE  \E k \in Keys : \E i \in 1 .. Len(held[k]) : IsEntry(x, k, held[k], i)
    <2>1. PICK k \in Keys : x \in ToSet(ss[k])
      BY <1>7, <1>8
    <2> DEFINE n == Len(held[k])
    <2>2. PICK i \in 1 .. n : x = ss[k][i]
      BY <1>3, <2>1 DEF ToSet
    <2>3. n \in Nat /\ n + 1 - i \in 1 .. n /\ (i = 1 <=> n + 1 - i = n)
      BY <1>3, <2>2
    <2>4. /\ x.key = k /\ x.id = held[k][n + 1 - i].id /\ x.marker = held[k][n + 1 - i].marker
          /\ x.latest = (i = 1)
      <3>1. /\ ss[k][i].key = k /\ ss[k][i].id = held[k][n + 1 - i].id
            /\ ss[k][i].marker = held[k][n + 1 - i].marker /\ ss[k][i].latest = (i = 1)
        BY <1>3
      <3> HIDE DEF n
      <3> QED  BY <2>2, <3>1, Zenon
    <2>5. x.latest = (n + 1 - i = n)
      BY <2>3, <2>4, Zenon
    <2>6. IsEntry(x, k, held[k], n + 1 - i)
      BY <2>4, <2>5, Zenon DEF IsEntry
    <2> QED  BY <2>3, <2>6
  <1>9. ASSUME NEW k \in Keys, NEW i \in 1 .. Len(held[k])
        PROVE  \E x \in ToSet(all) : IsEntry(x, k, held[k], i)
    <2> DEFINE n == Len(held[k])
               j == n + 1 - i
               x == ss[k][j]
    <2>1. n \in Nat /\ j \in 1 .. n /\ n + 1 - j = i /\ (j = 1 <=> i = n)
      BY <1>3, <1>9
    <2>2. x \in ToSet(ss[k])
      BY <1>3, <2>1 DEF ToSet
    <2>3. x \in ToSet(all)
      BY <1>7, <2>2
    <2>4. x.key = k /\ x.id = held[k][n + 1 - j].id /\ x.marker = held[k][n + 1 - j].marker
          /\ x.latest = (j = 1)
      <3> HIDE DEF j
      <3> QED  BY <1>3, <2>1, ZenonT(30)
    <2> HIDE DEF x, j
    <2>5. x.latest = (i = n) /\ x.id = held[k][i].id /\ x.marker = held[k][i].marker
      BY <2>1, <2>4, Zenon
    <2>6. IsEntry(x, k, held[k], i)
      BY <2>4, <2>5, Zenon DEF IsEntry
    <2> QED  BY <2>3, <2>6
  <1> QED  BY <1>7, <1>8, <1>9 DEF E, all

LEMMA OrderedAtPlaces ==
    ASSUME NEW S, NEW list \in Seq(S), NEW kind, Ordered(kind, list), NEW places \in SUBSET DOMAIN list
    PROVE  Ordered(kind, AtPlaces(list, places))
  <1>1. PICK n, q : Passes(list, places, AtPlaces(list, places), q, n)
    BY AtPlacesPasses
  <1> DEFINE part == AtPlaces(list, places)
  <1> HIDE DEF part
  <1>2. /\ n \in Nat /\ q \in [1 .. n -> places]
        /\ \A i, j \in 1 .. n : i < j => q[i] < q[j]
        /\ part = [p \in 1 .. n |-> list[q[p]]]
    BY <1>1 DEF Passes, part
  <1>3. ASSUME NEW i \in 1 .. n, NEW j \in 1 .. n, i < j PROVE Earlier(kind, part[i], part[j])
    <2>1. q[i] \in DOMAIN list /\ q[j] \in DOMAIN list /\ q[i] < q[j]
      BY <1>2, <1>3
    <2>2. part[i] = list[q[i]] /\ part[j] = list[q[j]]
      BY <1>2
    <2> QED  BY <2>1, <2>2 DEF Ordered
  <1>4. DOMAIN part = 1 .. n
    BY <1>2
  <1> QED  BY <1>3, <1>4 DEF Ordered, part

LEMMA ListingIs ==
    ASSUME NEW id \in Nat, NEW held, IsBucket(held, id), NEW kind, NEW list, list = ListingOf(kind, held)
    PROVE  /\ list \in Seq(Entries(id)) /\ Ordered(kind, list)
           /\ {ItemOf(kind, x) : x \in ToSet(list)} = Items(kind, held)
  <1> DEFINE E == Entries(id)
             all == VersionsIn(held)
             places == {i \in DOMAIN all : all[i].latest /\ ~all[i].marker}
  <1>1. /\ all \in Seq(E) /\ Ordered("versions", all)
        /\ \A x \in ToSet(all) : \E k \in Keys : \E i \in 1 .. Len(held[k]) : IsEntry(x, k, held[k], i)
        /\ \A k \in Keys : \A i \in 1 .. Len(held[k]) : \E x \in ToSet(all) : IsEntry(x, k, held[k], i)
    BY VersionsInIs
  <1>2. list = IF kind = "objects" THEN AtPlaces(all, places) ELSE all
    BY DEF ListingOf
  <1>3. ASSUME NEW k \in Keys
        PROVE  Len(held[k]) \in Nat /\ DOMAIN held[k] = 1 .. Len(held[k])
               /\ (held[k] # <<>> <=> Len(held[k]) # 0)
               /\ \A i \in 1 .. Len(held[k]) : held[k][i].id \in 1 .. id /\ held[k][i].marker \in BOOLEAN
    <2>1. IsHeld(held[k], id)
      BY DEF IsBucket
    <2>2. held[k] \in Seq(MadeBy(id))
      BY <2>1 DEF IsHeld
    <2>3. held[k] # <<>> <=> Len(held[k]) # 0
      <3> DEFINE M == MadeBy(id)
      <3> HIDE DEF M
      <3>1. held[k] \in Seq(M)
        BY <2>2 DEF M
      <3> QED  BY <3>1
    <2> QED  BY <2>1, <2>3, HeldFacts
  <1> HIDE DEF E, all
  <1>4. CASE kind = "objects"
    <2>1. list = AtPlaces(all, places) /\ places \in SUBSET DOMAIN all
      BY <1>2, <1>4
    <2>2. list \in Seq(E) /\ ToSet(list) = {all[i] : i \in places} /\ Ordered("versions", list)
      BY <1>1, <2>1, AtPlacesIs, OrderedAtPlaces
    <2>3. \A x \in ToSet(list) : x \in ToSet(all) /\ x.latest /\ ~x.marker
      BY <2>2 DEF ToSet
    <2>4. \A x \in ToSet(all) : x.latest /\ ~x.marker => x \in ToSet(list)
      BY <2>2 DEF ToSet
    <2> HIDE DEF places
    <2>5. ASSUME NEW x \in ToSet(list)
          PROVE  /\ x.key \in Keys /\ held[x.key] # <<>> /\ ~Last(held[x.key]).marker
                 /\ x.id = held[x.key][Len(held[x.key])].id /\ x.id \in Int
      <3>1. x \in ToSet(all) /\ x.latest /\ ~x.marker
        BY <2>3, <2>5
      <3>2. PICK k \in Keys : \E i \in 1 .. Len(held[k]) : IsEntry(x, k, held[k], i)
        BY <1>1, <3>1
      <3>3. PICK i \in 1 .. Len(held[k]) : IsEntry(x, k, held[k], i)
        BY <3>2
      <3>4. x.key = k /\ x.id = held[k][i].id /\ x.marker = held[k][i].marker /\ i = Len(held[k])
        BY <3>1, <3>3, Zenon DEF IsEntry
      <3>5. ~held[k][Len(held[k])].marker
        BY <3>1, <3>4, Zenon
      <3>6. held[k] # <<>> /\ held[k][i].id \in 1 .. id
        BY <1>3, <3>3
      <3>7. x.id \in Int
        BY <3>4, <3>6
      <3> QED  BY <3>4, <3>5, <3>6, <3>7 DEF Last
    <2>6. Ordered("objects", list)
      <3>1. ASSUME NEW i \in DOMAIN list, NEW j \in DOMAIN list, i < j
            PROVE  Earlier("objects", list[i], list[j])
        <4>1. list[i] \in ToSet(list) /\ list[j] \in ToSet(list)
          BY DEF ToSet
        <4>2. Earlier("versions", list[i], list[j])
          BY <2>2, <3>1 DEF Ordered
        <4>3. list[i].key # list[j].key
          <5>1. ASSUME list[i].key = list[j].key PROVE FALSE
            <6>1. list[i].id = list[j].id /\ list[i].id \in Int
              BY <2>5, <4>1, <5>1
            <6>2. list[i].id > list[j].id
              <7>1. list[i].key \in Int
                BY <2>5, <4>1 DEF Keys
              <7> QED  BY <4>2, <5>1, <7>1 DEF Earlier
            <6> QED  BY <6>1, <6>2
          <5> QED  BY <5>1
        <4> QED  BY <4>2, <4>3 DEF Earlier
      <3> QED  BY <3>1 DEF Ordered
    <2>7. ASSUME NEW k \in Keys, held[k] # <<>>, ~Last(held[k]).marker
          PROVE  \E x \in ToSet(list) : x.key = k
      <3> DEFINE n == Len(held[k])
      <3>1. n \in 1 .. n
        BY <1>3, <2>7
      <3>2. PICK x \in ToSet(all) : IsEntry(x, k, held[k], n)
        BY <1>1, <3>1
      <3>3. x.key = k /\ x.marker = held[k][n].marker /\ x.latest = (n = n)
        BY <3>2, Zenon DEF IsEntry
      <3>4. ~held[k][n].marker
        BY <2>7 DEF Last
      <3>5. x.latest /\ ~x.marker
        BY <3>3, <3>4, Zenon
      <3> QED  BY <2>4, <3>3, <3>5
    <2>8. Items(kind, held) = {<<k, 0>> : k \in {q \in Keys : held[q] # <<>> /\ ~Last(held[q]).marker}}
      BY <1>4 DEF Items
    <2>9. \A x : ItemOf(kind, x) = <<x.key, 0>>
      BY <1>4 DEF ItemOf
    <2>10. {<<x.key, 0>> : x \in ToSet(list)} = {<<k, 0>> : k \in {q \in Keys : held[q] # <<>> /\ ~Last(held[q]).marker}}
      BY <2>5, <2>7
    <2>11. {ItemOf(kind, x) : x \in ToSet(list)} = {<<x.key, 0>> : x \in ToSet(list)}
      BY <2>9
    <2> QED  BY <1>4, <2>2, <2>6, <2>8, <2>10, <2>11 DEF E
  <1>5. CASE kind # "objects"
    <2>1. list = all
      BY <1>2, <1>5
    <2>2. Ordered(kind, list)
      BY <1>1, <1>5, <2>1 DEF Ordered, Earlier
    <2>3. \A x : ItemOf(kind, x) = <<x.key, x.id>>
      BY <1>5 DEF ItemOf
    <2>4. Items(kind, held) = UNION {{<<k, y.id>> : y \in ToSet(held[k])} : k \in Keys}
      BY <1>5 DEF Items
    <2>5. ASSUME NEW x \in ToSet(all) PROVE \E k \in Keys : \E y \in ToSet(held[k]) : x.key = k /\ x.id = y.id
      <3>1. PICK k \in Keys : \E i \in 1 .. Len(held[k]) : IsEntry(x, k, held[k], i)
        BY <1>1, <2>5
      <3>2. PICK i \in 1 .. Len(held[k]) : IsEntry(x, k, held[k], i)
        BY <3>1
      <3>3. held[k][i] \in ToSet(held[k])
        BY <1>3, <3>2 DEF ToSet
      <3> QED  BY <3>2, <3>3 DEF IsEntry
    <2>6. ASSUME NEW k \in Keys, NEW y \in ToSet(held[k]) PROVE \E x \in ToSet(all) : x.key = k /\ x.id = y.id
      <3>1. PICK i \in 1 .. Len(held[k]) : y = held[k][i]
        BY <1>3, <2>6 DEF ToSet
      <3>2. PICK x \in ToSet(all) : IsEntry(x, k, held[k], i)
        BY <1>1, <3>1
      <3> QED  BY <3>1, <3>2 DEF IsEntry
    <2>7. {<<x.key, x.id>> : x \in ToSet(all)} = UNION {{<<k, y.id>> : y \in ToSet(held[k])} : k \in Keys}
      <3>1. ASSUME NEW z \in {<<x.key, x.id>> : x \in ToSet(all)}
            PROVE  z \in UNION {{<<k, y.id>> : y \in ToSet(held[k])} : k \in Keys}
        BY <2>5, <3>1
      <3>2. ASSUME NEW z \in UNION {{<<k, y.id>> : y \in ToSet(held[k])} : k \in Keys}
            PROVE  z \in {<<x.key, x.id>> : x \in ToSet(all)}
        BY <2>6, <3>2
      <3> QED  BY <3>1, <3>2
    <2>8. {ItemOf(kind, x) : x \in ToSet(list)} = {<<x.key, x.id>> : x \in ToSet(all)}
      BY <2>1, <2>3
    <2> QED  BY <1>1, <2>1, <2>2, <2>4, <2>7, <2>8 DEF E
  <1> QED  BY <1>4, <1>5

-----------------------------------------------------------------------------
(* The versions and the markers of an answer, merged in one pass.          *)

Newer(time, x, y) == ListedBefore(x, y, time)
InTime(time, s) == \A i, j \in DOMAIN s : i < j => Newer(time, s[i], s[j])
Listed(S, time) == \A x \in S : /\ x.key \in Int /\ time[x.id] \in Int
                                /\ x.id \in Int /\ x.marker \in BOOLEAN
(* The one list has versions only, the other markers only.                 *)
Apart(vs, ms) == (\A i \in DOMAIN vs : ~vs[i].marker) /\ (\A j \in DOMAIN ms : ms[j].marker)

MergeStep(vs, ms, time, f, i, j) ==
    IF i > Len(vs) THEN SubSeq(ms, j, Len(ms))
    ELSE IF j > Len(ms) THEN SubSeq(vs, i, Len(vs))
    ELSE IF TakeVersionNext(vs[i], ms[j], time)
         THEN <<vs[i]>> \o f[<<i + 1, j>>]
         ELSE <<ms[j]>> \o f[<<i, j + 1>>]

Merges(vs, ms, time, f) ==
    f = [p \in (1 .. (Len(vs) + 1)) \X (1 .. (Len(ms) + 1)) |-> MergeStep(vs, ms, time, f, p[1], p[2])]

(* The merge is a recursive function over two places: that there is one    *)
(* goes by induction over what is left of the two lists.                   *)
MergesUpTo(vs, ms, time, f, left) ==
    \A i \in 1 .. (Len(vs) + 1), j \in 1 .. (Len(ms) + 1) :
        (Len(vs) + 1 - i) + (Len(ms) + 1 - j) <= left =>
            f[<<i, j>>] = MergeStep(vs, ms, time, f, i, j)

LEMMA SameMergeStep ==
    ASSUME NEW vs, NEW ms, NEW time, NEW f, NEW g, NEW i \in Nat, NEW j \in Nat,
           Len(vs) \in Nat, Len(ms) \in Nat,
           i <= Len(vs) /\ j <= Len(ms) =>
               f[<<i + 1, j>>] = g[<<i + 1, j>>] /\ f[<<i, j + 1>>] = g[<<i, j + 1>>]
    PROVE  MergeStep(vs, ms, time, f, i, j) = MergeStep(vs, ms, time, g, i, j)
  <1>1. CASE i <= Len(vs) /\ j <= Len(ms)
    BY <1>1, Zenon DEF MergeStep
  <1>2. CASE i > Len(vs)
    BY <1>2 DEF MergeStep
  <1>3. CASE i <= Len(vs) /\ j > Len(ms)
    BY <1>3 DEF MergeStep
  <1> QED  BY <1>1, <1>2, <1>3

LEMMA MergesExists ==
    ASSUME NEW S, NEW vs \in Seq(S), NEW ms \in Seq(S), NEW time
    PROVE  \E f : Merges(vs, ms, time, f)
  <1> DEFINE m == Len(vs)
             n == Len(ms)
             D == (1 .. (m + 1)) \X (1 .. (n + 1))
             Bad == {left \in Nat : ~ \E f : MergesUpTo(vs, ms, time, f, left)}
             Left(i, j) == (m + 1 - i) + (n + 1 - j)
  <1>1. m \in Nat /\ n \in Nat
    OBVIOUS
  <1>2. ASSUME Bad # {} PROVE FALSE
    <2>1. PICK k \in Bad : \A x \in Bad : k <= x
      <3>1. Bad \in SUBSET Nat
        OBVIOUS
      <3> HIDE DEF Bad
      <3> QED  BY <1>2, <3>1, Least
    <2>2. k \in Nat
      BY <2>1
    <2>3. k # 0
      <3> DEFINE f == [p \in D |-> SubSeq(ms, p[2], n)]
      <3>1. ASSUME NEW i \in 1 .. (m + 1), NEW j \in 1 .. (n + 1), Left(i, j) <= 0
            PROVE  f[<<i, j>>] = MergeStep(vs, ms, time, f, i, j)
        <4>1. i > m
          BY <1>1, <3>1
        <4>2. f[<<i, j>>] = SubSeq(ms, j, n)
          OBVIOUS
        <4>3. ~ (i <= m)
          BY <1>1, <4>1
        <4> HIDE DEF f
        <4>4. MergeStep(vs, ms, time, f, i, j) = SubSeq(ms, j, n)
          BY <4>1, <4>3, Zenon DEF MergeStep
        <4> QED  BY <4>2, <4>4
      <3> HIDE DEF f
      <3>2. MergesUpTo(vs, ms, time, f, 0)
        BY <3>1 DEF MergesUpTo
      <3> QED  BY <2>1, <3>2
    <2>4. k - 1 \in Nat /\ k - 1 \notin Bad
      BY <2>1, <2>2, <2>3
    <2>5. PICK g : MergesUpTo(vs, ms, time, g, k - 1)
      BY <2>4
    <2> DEFINE f == [p \in D |-> IF Left(p[1], p[2]) <= k - 1 THEN g[p]
                                 ELSE MergeStep(vs, ms, time, g, p[1], p[2])]
    <2>6. ASSUME NEW i \in 1 .. (m + 1), NEW j \in 1 .. (n + 1)
          PROVE  f[<<i, j>>] = IF Left(i, j) <= k - 1 THEN g[<<i, j>>]
                               ELSE MergeStep(vs, ms, time, g, i, j)
      OBVIOUS
    <2>7. ASSUME NEW i \in 1 .. (m + 1), NEW j \in 1 .. (n + 1), Left(i, j) <= k - 1
          PROVE  g[<<i, j>>] = MergeStep(vs, ms, time, g, i, j)
      BY <2>5, <2>7 DEF MergesUpTo
    <2> HIDE DEF f, Bad
    <2>8. ASSUME NEW i \in 1 .. (m + 1), NEW j \in 1 .. (n + 1), Left(i, j) <= k
          PROVE  f[<<i, j>>] = MergeStep(vs, ms, time, f, i, j)
      <3>1. f[<<i, j>>] = MergeStep(vs, ms, time, g, i, j)
        BY <2>6, <2>7
      <3>2. ASSUME i <= m, j <= n
            PROVE  f[<<i + 1, j>>] = g[<<i + 1, j>>] /\ f[<<i, j + 1>>] = g[<<i, j + 1>>]
        <4>1. i + 1 \in 1 .. (m + 1) /\ j + 1 \in 1 .. (n + 1)
              /\ Left(i + 1, j) <= k - 1 /\ Left(i, j + 1) <= k - 1
          BY <1>1, <2>2, <2>8, <3>2
        <4> HIDE DEF Left
        <4> QED  BY <2>6, <4>1
      <3>3. MergeStep(vs, ms, time, f, i, j) = MergeStep(vs, ms, time, g, i, j)
        BY <1>1, <3>2, SameMergeStep
      <3> QED  BY <3>1, <3>3
    <2>9. MergesUpTo(vs, ms, time, f, k)
      BY <2>8 DEF MergesUpTo
    <2> QED  BY <2>1, <2>9 DEF Bad
  <1>3. m + n \in Nat /\ m + n \notin Bad
    <2> HIDE DEF Bad
    <2>1. Bad = {}
      BY <1>2
    <2> QED  BY <1>1, <2>1
  <1>4. PICK g : MergesUpTo(vs, ms, time, g, m + n)
    BY <1>3
  <1> DEFINE f == [p \in D |-> g[p]]
  <1>5. ASSUME NEW i \in 1 .. (m + 1), NEW j \in 1 .. (n + 1)
        PROVE  f[<<i, j>>] = g[<<i, j>>] /\ g[<<i, j>>] = MergeStep(vs, ms, time, g, i, j)
    <2>1. f[<<i, j>>] = g[<<i, j>>]
      OBVIOUS
    <2>2. Left(i, j) <= m + n
      BY <1>1
    <2>3. g[<<i, j>>] = MergeStep(vs, ms, time, g, i, j)
      BY <1>4, <2>2 DEF MergesUpTo
    <2> QED  BY <2>1, <2>3
  <1>6. DOMAIN f = D /\ f = [p \in D |-> f[p]]
    OBVIOUS
  <1> HIDE DEF f, Bad
  <1>7. ASSUME NEW i \in 1 .. (m + 1), NEW j \in 1 .. (n + 1)
        PROVE  f[<<i, j>>] = MergeStep(vs, ms, time, f, i, j)
    <2>1. ASSUME i <= m, j <= n
          PROVE  f[<<i + 1, j>>] = g[<<i + 1, j>>] /\ f[<<i, j + 1>>] = g[<<i, j + 1>>]
      <3>1. i + 1 \in 1 .. (m + 1) /\ j + 1 \in 1 .. (n + 1)
        BY <1>1, <2>1
      <3> QED  BY <1>5, <3>1
    <2>2. MergeStep(vs, ms, time, f, i, j) = MergeStep(vs, ms, time, g, i, j)
      BY <1>1, <2>1, SameMergeStep
    <2> QED  BY <1>5, <2>2
  <1>8. ASSUME NEW p \in D PROVE f[p] = MergeStep(vs, ms, time, f, p[1], p[2])
    <2>1. p[1] \in 1 .. (m + 1) /\ p[2] \in 1 .. (n + 1) /\ p = <<p[1], p[2]>>
      <3> DEFINE A == 1 .. (m + 1)
                 B == 1 .. (n + 1)
      <3>1. p \in A \X B
        OBVIOUS
      <3> HIDE DEF A, B
      <3>2. p[1] \in A /\ p[2] \in B /\ p = <<p[1], p[2]>>
        BY <3>1
      <3> QED  BY <3>2 DEF A, B
    <2> QED  BY <1>7, <2>1
  <1>9. f = [p \in D |-> MergeStep(vs, ms, time, f, p[1], p[2])]
    BY <1>6, <1>8
  <1>10. Merges(vs, ms, time, f)
    BY <1>9 DEF Merges
  <1> QED  BY <1>10

LEMMA NewerTransitive ==
    ASSUME NEW time, NEW x, NEW y, NEW z, x.key \in Int, y.key \in Int, z.key \in Int,
           time[x.id] \in Int, time[y.id] \in Int, time[z.id] \in Int,
           x.id \in Int, y.id \in Int, z.id \in Int,
           x.marker \in BOOLEAN, y.marker \in BOOLEAN, z.marker \in BOOLEAN,
           Newer(time, x, y), Newer(time, y, z)
    PROVE  Newer(time, x, z)
  <1>1. x.key <= y.key /\ y.key <= z.key
    BY DEF Newer, ListedBefore
  <1>2. CASE x.key < y.key \/ y.key < z.key
    <2>1. x.key < z.key
      BY <1>1, <1>2
    <2> QED  BY <2>1 DEF Newer, ListedBefore
  <1>3. CASE x.key = y.key /\ y.key = z.key
    <2>1. time[x.id] >= time[y.id] /\ time[y.id] >= time[z.id]
      BY <1>3 DEF Newer, ListedBefore
    <2>2. CASE time[x.id] > time[y.id] \/ time[y.id] > time[z.id]
      <3>1. time[x.id] > time[z.id]
        BY <2>1, <2>2
      <3> QED  BY <1>3, <3>1 DEF Newer, ListedBefore
    <2>3. CASE time[x.id] = time[y.id] /\ time[y.id] = time[z.id]
      <3>1. /\ (x.marker /\ ~y.marker) \/ (x.marker = y.marker /\ x.id > y.id)
            /\ (y.marker /\ ~z.marker) \/ (y.marker = z.marker /\ y.id > z.id)
        BY <1>3, <2>3 DEF Newer, ListedBefore
      <3>2. (x.marker /\ ~z.marker) \/ (x.marker = z.marker /\ x.id > z.id)
        BY <3>1
      <3> QED  BY <1>3, <2>3, <3>2 DEF Newer, ListedBefore
    <2> QED  BY <2>1, <2>2, <2>3
  <1> QED  BY <1>1, <1>2, <1>3

(* What is left of a list from a place on.                                 *)
LEMMA LeftOver ==
    ASSUME NEW S, NEW s \in Seq(S), NEW time, InTime(time, s), Distinct(s),
           NEW i \in 1 .. (Len(s) + 1), NEW t, t = SubSeq(s, i, Len(s))
    PROVE  /\ t \in Seq(S) /\ InTime(time, t) /\ Distinct(t)
           /\ ToSet(t) = {s[a] : a \in i .. Len(s)}
  <1> DEFINE n == Len(s)
  <1>1. n \in Nat /\ DOMAIN s = 1 .. n /\ \A a \in 1 .. n : s[a] \in S
    OBVIOUS
  <1> HIDE DEF n
  <1>2. \A a \in i .. n : s[a] \in S
    BY <1>1 DEF n
  <1>3. t \in Seq(S) /\ Len(t) = (IF i <= n THEN n - i + 1 ELSE 0) /\ \A a \in 1 .. n - i + 1 : t[a] = s[i + a - 1]
    <2>1. i \in Int /\ n \in Int
      BY <1>1 DEF n
    <2> QED  BY <1>2, <2>1, SubSeqProperties DEF n
  <1>4. i \in Nat /\ 1 <= i /\ i <= n + 1
    BY <1>1 DEF n
  <1>5. Len(t) = n - i + 1 /\ DOMAIN t = 1 .. (n - i + 1)
    BY <1>1, <1>3, <1>4
  <1>6. \A a \in 1 .. (n - i + 1) : i + a - 1 \in 1 .. n /\ i + a - 1 \in i .. n /\ t[a] = s[i + a - 1]
    BY <1>1, <1>3, <1>4
  <1>7. InTime(time, t)
    <2>1. ASSUME NEW a \in 1 .. (n - i + 1), NEW c \in 1 .. (n - i + 1), a < c PROVE Newer(time, t[a], t[c])
      <3>1. i + a - 1 < i + c - 1
        BY <1>1, <1>4, <2>1
      <3> QED  BY <1>1, <1>6, <3>1 DEF InTime
    <2> QED  BY <1>5, <2>1 DEF InTime
  <1>8. Distinct(t)
    <2>1. ASSUME NEW a \in 1 .. (n - i + 1), NEW c \in 1 .. (n - i + 1), t[a] = t[c] PROVE a = c
      <3>1. i + a - 1 = i + c - 1
        BY <1>1, <1>6, <2>1 DEF Distinct
      <3> QED  BY <1>1, <1>4, <3>1
    <2> QED  BY <1>5, <2>1 DEF Distinct
  <1>9. ToSet(t) = {s[a] : a \in i .. n}
    <2>1. ASSUME NEW a \in i .. n PROVE a - i + 1 \in 1 .. (n - i + 1) /\ t[a - i + 1] = s[a]
      <3>1. a - i + 1 \in 1 .. (n - i + 1) /\ i + (a - i + 1) - 1 = a
        BY <1>1, <1>4
      <3> QED  BY <1>6, <3>1
    <2>2. ToSet(t) = {t[a] : a \in 1 .. (n - i + 1)}
      BY <1>5 DEF ToSet
    <2>3. ASSUME NEW x \in {t[a] : a \in 1 .. (n - i + 1)} PROVE x \in {s[a] : a \in i .. n}
      <3>1. PICK a \in 1 .. (n - i + 1) : x = t[a]
        BY <2>3
      <3>2. i + a - 1 \in i .. n /\ t[a] = s[i + a - 1]
        BY <1>6
      <3> QED  BY <3>1, <3>2
    <2>4. ASSUME NEW x \in {s[a] : a \in i .. n} PROVE x \in {t[a] : a \in 1 .. (n - i + 1)}
      <3>1. PICK a \in i .. n : x = s[a]
        BY <2>4
      <3> QED  BY <2>1, <3>1
    <2> QED  BY <2>2, <2>3, <2>4
  <1> QED  BY <1>3, <1>7, <1>8, <1>9 DEF n

LEMMA PutFirst ==
    ASSUME NEW S, NEW x \in S, NEW t \in Seq(S), NEW time, InTime(time, t), Distinct(t),
           \A y \in ToSet(t) : Newer(time, x, y) /\ x # y
    PROVE  /\ <<x>> \o t \in Seq(S) /\ InTime(time, <<x>> \o t) /\ Distinct(<<x>> \o t)
           /\ ToSet(<<x>> \o t) = {x} \cup ToSet(t)
  <1> DEFINE n == Len(t)
             s == <<x>> \o t
  <1>1. n \in Nat /\ DOMAIN t = 1 .. n /\ \A a \in 1 .. n : t[a] \in ToSet(t)
    BY DEF ToSet
  <1>2. s \in Seq(S) /\ DOMAIN s = 1 .. (n + 1) /\ s[1] = x /\ \A a \in 2 .. (n + 1) : s[a] = t[a - 1]
    OBVIOUS
  <1>3. <<x>> \in Seq(S) /\ ToSet(<<x>>) = {x}
    <2>1. DOMAIN <<x>> = {1} /\ <<x>>[1] = x
      OBVIOUS
    <2>2. ToSet(<<x>>) = {<<x>>[a] : a \in {1}}
      BY <2>1 DEF ToSet
    <2> QED  BY <2>1, <2>2
  <1>4. ToSet(s) = {x} \cup ToSet(t)
    <2> DEFINE one == <<x>>
    <2>1. one \in Seq(S) /\ ToSet(one) = {x} /\ s = one \o t
      BY <1>3
    <2> HIDE DEF one, s
    <2>2. ToSet(one \o t) = ToSet(one) \cup ToSet(t)
      BY <2>1, ToSetConcat
    <2> QED  BY <2>1, <2>2
  <1> HIDE DEF n, s
  <1>5. \A a \in 1 .. (n + 1) : a = 1 \/ (a \in 2 .. (n + 1) /\ a - 1 \in 1 .. n)
    BY <1>1
  <1>6. InTime(time, s)
    <2>1. ASSUME NEW a \in 1 .. (n + 1), NEW c \in 1 .. (n + 1), a < c PROVE Newer(time, s[a], s[c])
      <3>1. c \in 2 .. (n + 1) /\ c - 1 \in 1 .. n /\ s[c] = t[c - 1]
        BY <1>1, <1>2, <2>1
      <3>2. CASE a = 1
        BY <1>1, <1>2, <3>1, <3>2
      <3>3. CASE a \in 2 .. (n + 1) /\ a - 1 \in 1 .. n
        <4>1. s[a] = t[a - 1] /\ a - 1 < c - 1
          BY <1>1, <1>2, <2>1, <3>3
        <4> QED  BY <1>1, <3>1, <3>3, <4>1 DEF InTime
      <3> QED  BY <1>5, <3>2, <3>3
    <2> QED  BY <1>2, <2>1 DEF InTime
  <1>7. Distinct(s)
    <2>1. ASSUME NEW a \in 1 .. (n + 1), NEW c \in 1 .. (n + 1), a < c PROVE s[a] # s[c]
      <3>1. c \in 2 .. (n + 1) /\ c - 1 \in 1 .. n /\ s[c] = t[c - 1]
        BY <1>1, <1>2, <2>1
      <3>2. CASE a = 1
        BY <1>1, <1>2, <3>1, <3>2
      <3>3. CASE a \in 2 .. (n + 1) /\ a - 1 \in 1 .. n
        <4>1. s[a] = t[a - 1] /\ a - 1 # c - 1
          BY <1>1, <1>2, <2>1, <3>3
        <4> QED  BY <1>1, <3>1, <3>3, <4>1 DEF Distinct
      <3> QED  BY <1>5, <3>2, <3>3
    <2>2. ASSUME NEW a \in 1 .. (n + 1), NEW c \in 1 .. (n + 1), s[a] = s[c] PROVE a = c
      <3>1. ~ (a < c) /\ ~ (c < a)
        BY <2>1, <2>2
      <3> QED  BY <1>1, <3>1
    <2> QED  BY <1>2, <2>2 DEF Distinct
  <1> QED  BY <1>2, <1>4, <1>6, <1>7 DEF s

(* What the merge makes of two lists in order, that share nothing.         *)
LEMMA MergedIs ==
    ASSUME NEW S, NEW vs \in Seq(S), NEW ms \in Seq(S), NEW time,
           Listed(S, time), Apart(vs, ms),
           InTime(time, vs), InTime(time, ms), Distinct(vs), Distinct(ms),
           \A i \in DOMAIN vs, j \in DOMAIN ms : vs[i] # ms[j],
           NEW f, Merges(vs, ms, time, f)
    PROVE  /\ f[<<1, 1>>] \in Seq(S) /\ InTime(time, f[<<1, 1>>]) /\ Distinct(f[<<1, 1>>])
           /\ ToSet(f[<<1, 1>>]) = ToSet(vs) \cup ToSet(ms)
  <1> DEFINE m == Len(vs)
             n == Len(ms)
             V(i) == {vs[a] : a \in i .. m}
             M(j) == {ms[a] : a \in j .. n}
             Left(i, j) == (m + 1 - i) + (n + 1 - j)
             Good(i, j) == /\ f[<<i, j>>] \in Seq(S) /\ InTime(time, f[<<i, j>>]) /\ Distinct(f[<<i, j>>])
                           /\ ToSet(f[<<i, j>>]) = V(i) \cup M(j)
             Bad == {left \in Nat : \E i \in 1 .. (m + 1), j \in 1 .. (n + 1) : Left(i, j) = left /\ ~ Good(i, j)}
  <1>1. /\ m \in Nat /\ n \in Nat /\ DOMAIN vs = 1 .. m /\ DOMAIN ms = 1 .. n
        /\ (\A i \in 1 .. m : vs[i] \in S) /\ (\A j \in 1 .. n : ms[j] \in S)
    OBVIOUS
  <1>2. ASSUME NEW i \in 1 .. (m + 1), NEW j \in 1 .. (n + 1)
        PROVE  f[<<i, j>>] = MergeStep(vs, ms, time, f, i, j)
    <2> DEFINE D == (1 .. (m + 1)) \X (1 .. (n + 1))
               p == <<i, j>>
    <2>1. p \in D /\ p[1] = i /\ p[2] = j
      OBVIOUS
    <2>2. f = [q \in D |-> MergeStep(vs, ms, time, f, q[1], q[2])]
      BY DEF Merges
    <2> HIDE DEF D, p
    <2>3. f[p] = MergeStep(vs, ms, time, f, p[1], p[2])
      BY <2>1, <2>2
    <2> QED  BY <2>1, <2>3 DEF p
  <1>3. ASSUME Bad # {} PROVE FALSE
    <2>1. PICK k \in Bad : \A x \in Bad : k <= x
      <3>1. Bad \in SUBSET Nat
        OBVIOUS
      <3> HIDE DEF Bad
      <3> QED  BY <1>3, <3>1, Least
    <2>2. PICK i \in 1 .. (m + 1), j \in 1 .. (n + 1) : Left(i, j) = k /\ ~ Good(i, j)
      BY <2>1
    <2>3. ASSUME NEW a \in 1 .. (m + 1), NEW c \in 1 .. (n + 1), Left(a, c) < k PROVE Good(a, c)
      <3>1. Left(a, c) \in Nat /\ ~ (k <= Left(a, c))
        <4>1. k \in Nat
          BY <2>1
        <4>2. Left(a, c) \in Nat
          BY <1>1
        <4> HIDE DEF Left, Bad
        <4> QED  BY <2>3, <4>1, <4>2
      <3>2. Left(a, c) \notin Bad
        <4> HIDE DEF Bad, Left
        <4> QED  BY <2>1, <3>1
      <3> QED  BY <3>1, <3>2
    <2>4. f[<<i, j>>] = MergeStep(vs, ms, time, f, i, j)
      BY <1>2
    <2> HIDE DEF Bad
    <2>5. CASE i > m
      <3>1. f[<<i, j>>] = SubSeq(ms, j, n)
        BY <1>1, <2>4, <2>5 DEF MergeStep
      <3>2. /\ f[<<i, j>>] \in Seq(S) /\ InTime(time, f[<<i, j>>]) /\ Distinct(f[<<i, j>>])
            /\ ToSet(f[<<i, j>>]) = M(j)
        BY <3>1, LeftOver
      <3>3. V(i) = {}
        BY <1>1, <2>5
      <3> QED  BY <2>2, <3>2, <3>3
    <2>6. CASE i <= m /\ j > n
      <3>1. f[<<i, j>>] = SubSeq(vs, i, m)
        <4>1. ~ (i > m) /\ ~ (j <= n)
          BY <1>1, <2>6
        <4> QED  BY <2>4, <2>6, <4>1 DEF MergeStep
      <3>2. /\ f[<<i, j>>] \in Seq(S) /\ InTime(time, f[<<i, j>>]) /\ Distinct(f[<<i, j>>])
            /\ ToSet(f[<<i, j>>]) = V(i)
        BY <3>1, LeftOver, ZenonT(30)
      <3>3. M(j) = {}
        BY <1>1, <2>6
      <3> QED  BY <2>2, <3>2, <3>3
    <2>7. CASE i <= m /\ j <= n
      <3>1. /\ i \in 1 .. m /\ j \in 1 .. n /\ i + 1 \in 1 .. (m + 1) /\ j + 1 \in 1 .. (n + 1)
            /\ Left(i + 1, j) < k /\ Left(i, j + 1) < k
        BY <1>1, <2>2, <2>7
      <3>2. Good(i + 1, j) /\ Good(i, j + 1)
        BY <2>3, <3>1
      <3> DEFINE v == vs[i]
                 w == ms[j]
      <3>3. /\ v \in S /\ w \in S /\ v.key \in Int /\ w.key \in Int /\ time[v.id] \in Int /\ time[w.id] \in Int
            /\ v.id \in Int /\ w.id \in Int /\ v.marker \in BOOLEAN /\ w.marker \in BOOLEAN
        BY <1>1, <3>1 DEF Listed
      <3>10. ~v.marker /\ w.marker
        BY <1>1, <3>1 DEF Apart
      <3>4. V(i) = {v} \cup V(i + 1) /\ M(j) = {w} \cup M(j + 1)
        <4>1. i .. m = {i} \cup ((i + 1) .. m) /\ j .. n = {j} \cup ((j + 1) .. n)
          BY <1>1, <3>1
        <4> QED  BY <4>1
      <3>5. \A y \in V(i + 1) : Newer(time, v, y) /\ v # y /\ y \in S
        <4> SUFFICES ASSUME NEW a \in (i + 1) .. m PROVE Newer(time, v, vs[a]) /\ v # vs[a] /\ vs[a] \in S
          OBVIOUS
        <4>1. a \in 1 .. m /\ i < a
          BY <1>1, <3>1
        <4>2. Newer(time, v, vs[a])
          BY <1>1, <3>1, <4>1 DEF InTime
        <4>3. v # vs[a]
          <5>1. i # a
            BY <3>1, <4>1
          <5> QED  BY <1>1, <3>1, <4>1, <5>1 DEF Distinct
        <4> QED  BY <1>1, <4>1, <4>2, <4>3
      <3>6. \A y \in M(j + 1) : Newer(time, w, y) /\ w # y /\ y \in S
        <4> SUFFICES ASSUME NEW a \in (j + 1) .. n PROVE Newer(time, w, ms[a]) /\ w # ms[a] /\ ms[a] \in S
          OBVIOUS
        <4>1. a \in 1 .. n /\ j < a
          BY <1>1, <3>1
        <4>2. Newer(time, w, ms[a])
          BY <1>1, <3>1, <4>1 DEF InTime
        <4>3. w # ms[a]
          <5>1. j # a
            BY <3>1, <4>1
          <5> QED  BY <1>1, <3>1, <4>1, <5>1 DEF Distinct
        <4> QED  BY <1>1, <4>1, <4>2, <4>3
      <3>7. (\A y \in M(j) : v # y) /\ (\A y \in V(i) : w # y)
        <4>1. \A a \in j .. n : a \in 1 .. n
          BY <1>1, <3>1
        <4>2. \A a \in i .. m : a \in 1 .. m
          BY <1>1, <3>1
        <4> QED  BY <1>1, <3>1, <4>1, <4>2
      <3>8. CASE TakeVersionNext(v, w, time)
        <4>1. f[<<i, j>>] = <<v>> \o f[<<i + 1, j>>]
          BY <1>1, <2>4, <2>7, <3>8 DEF MergeStep
        <4>2. Newer(time, v, w)
          <5> HIDE DEF v, w
          <5> QED  BY <3>3, <3>8 DEF TakeVersionNext, Newer, ListedBefore
        <4>3. \A y \in M(j) : Newer(time, v, y)
          <5> SUFFICES ASSUME NEW y \in M(j), y # w PROVE Newer(time, v, y)
            BY <4>2
          <5>1. y \in M(j + 1)
            BY <3>4
          <5> HIDE DEF M, V, v, w
          <5>2. /\ Newer(time, w, y) /\ y.key \in Int /\ time[y.id] \in Int
                /\ y.id \in Int /\ y.marker \in BOOLEAN
            BY <3>6, <5>1 DEF Listed
          <5> QED  BY <3>3, <4>2, <5>2, NewerTransitive
        <4> HIDE DEF M, V, v, w
        <4>4. \A y \in ToSet(f[<<i + 1, j>>]) : Newer(time, v, y) /\ v # y
          BY <3>2, <3>5, <3>7, <4>3
        <4>5. Good(i, j)
          <5> DEFINE t == f[<<i + 1, j>>]
          <5>1. t \in Seq(S) /\ InTime(time, t) /\ Distinct(t) /\ ToSet(t) = V(i + 1) \cup M(j)
            BY <3>2
          <5>2. \A y \in ToSet(t) : Newer(time, v, y) /\ v # y
            BY <4>4
          <5> HIDE DEF t
          <5>3. /\ <<v>> \o t \in Seq(S) /\ InTime(time, <<v>> \o t) /\ Distinct(<<v>> \o t)
                /\ ToSet(<<v>> \o t) = {v} \cup ToSet(t)
            <6>1. v \in S
              BY <3>3
            <6> QED  BY <5>1, <5>2, <6>1, PutFirst, ZenonT(60)
          <5>4. f[<<i, j>>] = <<v>> \o t
            BY <4>1 DEF t
          <5>5. {v} \cup ToSet(t) = V(i) \cup M(j)
            BY <3>4, <5>1
          <5> QED  BY <5>3, <5>4, <5>5
        <4> QED  BY <2>2, <4>5
      <3>9. CASE ~TakeVersionNext(v, w, time)
        <4>1. f[<<i, j>>] = <<w>> \o f[<<i, j + 1>>]
          BY <1>1, <2>4, <2>7, <3>9 DEF MergeStep
        <4>2. Newer(time, w, v)
          <5> HIDE DEF v, w
          <5>1. w.key <= v.key
            BY <3>3, <3>9 DEF TakeVersionNext
          <5>2. w.key = v.key => time[w.id] >= time[v.id]
            BY <3>3, <3>9 DEF TakeVersionNext
          <5>3. \/ w.key < v.key
                \/ w.key = v.key /\ time[w.id] > time[v.id]
                \/ w.key = v.key /\ time[w.id] = time[v.id]
            BY <3>3, <5>1, <5>2
          <5> QED  BY <3>10, <5>3, Zenon DEF Newer, ListedBefore
        <4>3. \A y \in V(i) : Newer(time, w, y)
          <5> SUFFICES ASSUME NEW y \in V(i), y # v PROVE Newer(time, w, y)
            BY <4>2
          <5>1. y \in V(i + 1)
            BY <3>4
          <5> HIDE DEF M, V, v, w
          <5>2. /\ Newer(time, v, y) /\ y.key \in Int /\ time[y.id] \in Int
                /\ y.id \in Int /\ y.marker \in BOOLEAN
            BY <3>5, <5>1 DEF Listed
          <5> QED  BY <3>3, <4>2, <5>2, NewerTransitive
        <4> HIDE DEF M, V, v, w
        <4>4. \A y \in ToSet(f[<<i, j + 1>>]) : Newer(time, w, y) /\ w # y
          BY <3>2, <3>6, <3>7, <4>3
        <4>5. Good(i, j)
          <5> DEFINE t == f[<<i, j + 1>>]
          <5>1. t \in Seq(S) /\ InTime(time, t) /\ Distinct(t) /\ ToSet(t) = V(i) \cup M(j + 1)
            BY <3>2
          <5>2. \A y \in ToSet(t) : Newer(time, w, y) /\ w # y
            BY <4>4
          <5> HIDE DEF t
          <5>3. /\ <<w>> \o t \in Seq(S) /\ InTime(time, <<w>> \o t) /\ Distinct(<<w>> \o t)
                /\ ToSet(<<w>> \o t) = {w} \cup ToSet(t)
            <6>1. w \in S
              BY <3>3
            <6> QED  BY <5>1, <5>2, <6>1, PutFirst, ZenonT(60)
          <5>4. f[<<i, j>>] = <<w>> \o t
            BY <4>1 DEF t
          <5>5. {w} \cup ToSet(t) = V(i) \cup M(j)
            BY <3>4, <5>1
          <5> QED  BY <5>3, <5>4, <5>5
        <4> QED  BY <2>2, <4>5
      <3> QED  BY <3>8, <3>9
    <2> QED  BY <1>1, <2>5, <2>6, <2>7
  <1>4. 1 \in 1 .. (m + 1) /\ 1 \in 1 .. (n + 1) /\ Left(1, 1) \in Nat
    BY <1>1
  <1>5. Good(1, 1)
    BY <1>3, <1>4
  <1>6. V(1) = ToSet(vs) /\ M(1) = ToSet(ms)
    BY <1>1 DEF ToSet
  <1> QED  BY <1>5, <1>6

LEMMA OrderedIsDistinct ==
    ASSUME NEW S, NEW s \in Seq(S), NEW kind, Ordered(kind, s), \A x \in S : x.key \in Int /\ x.id \in Int
    PROVE  /\ Distinct(s)
           /\ \A x, y \in ToSet(s) : ItemOf(kind, x) = ItemOf(kind, y) => x = y
           /\ Distinct(Yielded(kind, s))
  <1>1. Len(s) \in Nat /\ DOMAIN s = 1 .. Len(s) /\ \A i \in 1 .. Len(s) : s[i] \in S
    OBVIOUS
  <1>2. ASSUME NEW i \in 1 .. Len(s), NEW j \in 1 .. Len(s), i < j PROVE ItemOf(kind, s[i]) # ItemOf(kind, s[j])
    <2>1. Earlier(kind, s[i], s[j]) /\ s[i].key \in Int /\ s[j].key \in Int /\ s[i].id \in Int /\ s[j].id \in Int
      BY <1>1, <1>2 DEF Ordered
    <2>2. s[i].key # s[j].key \/ (kind # "objects" /\ s[i].id # s[j].id)
      BY <2>1 DEF Earlier
    <2>3. \A a, b, c, d : <<a, b>> = <<c, d>> => a = c /\ b = d
      OBVIOUS
    <2> QED  BY <2>2, <2>3, Zenon DEF ItemOf
  <1>3. ASSUME NEW i \in 1 .. Len(s), NEW j \in 1 .. Len(s), ItemOf(kind, s[i]) = ItemOf(kind, s[j]) PROVE i = j
    <2>1. ~ (i < j) /\ ~ (j < i)
      BY <1>2, <1>3
    <2> QED  BY <1>1, <2>1
  <1>4. Distinct(s)
    BY <1>1, <1>3 DEF Distinct
  <1>5. \A x, y \in ToSet(s) : ItemOf(kind, x) = ItemOf(kind, y) => x = y
    BY <1>1, <1>3 DEF ToSet
  <1>6. Distinct(Yielded(kind, s))
    BY <1>1, <1>3 DEF Distinct, Yielded
  <1> QED  BY <1>4, <1>5, <1>6

LEMMA EntryTypes ==
    ASSUME NEW id \in Nat
    PROVE  \A x \in Entries(id) : x.key \in Keys /\ x.key \in Int /\ x.key >= 1 /\ x.id \in 1 .. id
                                  /\ x.id \in Nat /\ x.marker \in BOOLEAN
  <1>1. Keys = 1 .. NKeys /\ NKeys \in Nat
    BY BucketAssumption DEF Keys
  <1>2. \A x \in Entries(id) : x.key \in Keys /\ x.id \in 1 .. id /\ x.marker \in BOOLEAN
    BY DEF Entries
  <1> QED  BY <1>1, <1>2

(* Versions alone, or markers alone, in order by the identifiers are in    *)
(* order by the times.                                                     *)
LEMMA OrderedIsInTime ==
    ASSUME NEW id \in Nat, id <= MaxWrites, NEW s \in Seq(Entries(id)), Ordered("versions", s), NEW time \in Clocks,
           \A i, j \in DOMAIN s : s[i].marker = s[j].marker
    PROVE  InTime(time, s)
  <1>1. time \in [1 .. MaxWrites -> 0 .. 1] /\ \A i, j \in 1 .. MaxWrites : i < j => time[i] <= time[j]
    BY DEF Clocks
  <1>2. MaxWrites \in Nat
    BY BucketAssumption
  <1> DEFINE E == Entries(id)
  <1>3. \A x \in E : x.key \in Int /\ x.id \in 1 .. id
    BY EntryTypes
  <1> HIDE DEF E
  <1>4. ASSUME NEW i \in DOMAIN s, NEW j \in DOMAIN s, i < j PROVE Newer(time, s[i], s[j])
    <2>1. Earlier("versions", s[i], s[j])
      BY <1>4 DEF Ordered
    <2>2. s[i] \in E /\ s[j] \in E
      BY DEF E
    <2>3. s[i].id \in 1 .. MaxWrites /\ s[j].id \in 1 .. MaxWrites /\ s[i].key \in Int /\ s[j].key \in Int
      BY <1>2, <1>3, <2>2
    <2>4. time[s[i].id] \in Int /\ time[s[j].id] \in Int
      BY <1>1, <2>3
    <2>5. CASE s[i].key < s[j].key
      BY <2>5 DEF Newer, ListedBefore
    <2>6. CASE s[i].key = s[j].key /\ s[i].id > s[j].id
      <3>1. time[s[j].id] <= time[s[i].id]
        BY <1>1, <2>3, <2>6
      <3>2. s[i].marker = s[j].marker
        OBVIOUS
      <3> QED  BY <2>3, <2>4, <2>6, <3>1, <3>2 DEF Newer, ListedBefore
    <2> QED  BY <2>1, <2>5, <2>6 DEF Earlier
  <1> QED  BY <1>4 DEF InTime

(* The merge of an answer's two lists has all of the answer, each once.    *)
LEMMA VersionsOfIs ==
    ASSUME NEW id \in Nat, id <= MaxWrites, NEW answer \in Seq(Entries(id)), Ordered("versions", answer),
           NEW time \in Clocks, NEW found, found = VersionsOf(answer, time)
    PROVE  /\ found \in Seq(Entries(id)) /\ InTime(time, found) /\ Distinct(found)
           /\ ToSet(found) = ToSet(answer)
  <1> DEFINE E == Entries(id)
             A == {i \in DOMAIN answer : ~answer[i].marker}
             B == {i \in DOMAIN answer : answer[i].marker}
             vs == AtPlaces(answer, A)
             ms == AtPlaces(answer, B)
             f == CHOOSE g : Merges(vs, ms, time, g)
  <1>1. /\ A \in SUBSET DOMAIN answer /\ B \in SUBSET DOMAIN answer
        /\ \A i \in A : ~answer[i].marker
        /\ \A i \in B : answer[i].marker
        /\ \A i \in DOMAIN answer : i \in A \/ i \in B
    OBVIOUS
  <1>2. found = f[<<1, 1>>]
    BY DEF VersionsOf, Merges, MergeStep
  <1>3. \A x \in E : x.key \in Int /\ x.id \in Int /\ x.id \in 1 .. id /\ x.marker \in BOOLEAN
    BY EntryTypes
  <1> HIDE DEF E, A, B
  <1>4. answer \in Seq(E)
    BY DEF E
  <1>5. /\ vs \in Seq(E) /\ ToSet(vs) = {answer[i] : i \in A} /\ Ordered("versions", vs)
        /\ ms \in Seq(E) /\ ToSet(ms) = {answer[i] : i \in B} /\ Ordered("versions", ms)
    BY <1>1, <1>4, AtPlacesIs, OrderedAtPlaces
  <1> HIDE DEF vs, ms
  <1>6. Merges(vs, ms, time, f)
    <2>1. \E g : Merges(vs, ms, time, g)
      BY <1>5, MergesExists
    <2> QED  BY <2>1, Zenon
  <1> HIDE DEF f
  <1>13. Apart(vs, ms)
    <2>1. (\A i \in DOMAIN vs : vs[i] \in ToSet(vs)) /\ (\A j \in DOMAIN ms : ms[j] \in ToSet(ms))
      BY DEF ToSet
    <2> QED  BY <1>1, <1>5, <2>1 DEF Apart
  <1>7. InTime(time, vs) /\ InTime(time, ms)
    <2>1. /\ \A i \in DOMAIN vs : vs[i].marker \in BOOLEAN
          /\ \A j \in DOMAIN ms : ms[j].marker \in BOOLEAN
      BY <1>3, <1>5
    <2>2. /\ \A i, j \in DOMAIN vs : vs[i].marker = vs[j].marker
          /\ \A i, j \in DOMAIN ms : ms[i].marker = ms[j].marker
      BY <1>13, <2>1 DEF Apart
    <2> QED  BY <1>5, <2>2, OrderedIsInTime DEF E
  <1>8. Distinct(vs) /\ Distinct(ms)
    BY <1>3, <1>5, OrderedIsDistinct
  <1>9. ASSUME NEW i \in DOMAIN vs, NEW j \in DOMAIN ms PROVE vs[i] # ms[j]
    <2>1. vs[i] \in ToSet(vs) /\ ms[j] \in ToSet(ms)
      BY DEF ToSet
    <2>2. ~vs[i].marker /\ ms[j].marker
      BY <1>1, <1>5, <2>1
    <2> QED  BY <2>2
  <1>10. Listed(E, time)
    <2>1. time \in [1 .. MaxWrites -> 0 .. 1] /\ MaxWrites \in Nat
      BY BucketAssumption DEF Clocks
    <2> QED  BY <1>3, <2>1 DEF Listed
  <1>11. /\ f[<<1, 1>>] \in Seq(E) /\ InTime(time, f[<<1, 1>>]) /\ Distinct(f[<<1, 1>>])
         /\ ToSet(f[<<1, 1>>]) = ToSet(vs) \cup ToSet(ms)
    <2>1. \A i \in DOMAIN vs, j \in DOMAIN ms : vs[i] # ms[j]
      BY <1>9
    <2>2. vs \in Seq(E) /\ ms \in Seq(E)
      BY <1>5
    <2> QED  BY <1>6, <1>7, <1>8, <1>10, <1>13, <2>1, <2>2, MergedIs, SMTT(30)
  <1>12. ToSet(vs) \cup ToSet(ms) = ToSet(answer)
    <2>1. ToSet(answer) = {answer[i] : i \in DOMAIN answer}
      BY DEF ToSet
    <2>2. DOMAIN answer = A \cup B
      BY <1>1
    <2> QED  BY <1>5, <2>1, <2>2
  <1> QED  BY <1>2, <1>11, <1>12 DEF E

-----------------------------------------------------------------------------
(* One page of a listing.                                                  *)

LEMMA SmallestOf ==
    ASSUME NEW a \in Nat, NEW b \in Nat, NEW c \in Nat, NEW m, m = Min({a, b, c})
    PROVE  m \in Nat /\ m \in {a, b, c} /\ m <= a /\ m <= b /\ m <= c
  <1> DEFINE S == {a, b, c}
  <1>1. S \in SUBSET Nat /\ S # {}
    OBVIOUS
  <1>2. \E x \in S : \A y \in S : x <= y
    BY <1>1, Least
  <1>3. m = CHOOSE x \in S : \A y \in S : x <= y
    BY DEF Min
  <1>4. m \in S /\ \A y \in S : m <= y
    <2> HIDE DEF S
    <2> QED  BY <1>2, <1>3
  <1> QED  BY <1>1, <1>4

LEMMA BeginningIs ==
    ASSUME NEW S, NEW s \in Seq(S), NEW kind, Ordered(kind, s), NEW count \in 0 .. Len(s),
           NEW t, t = SubSeq(s, 1, count)
    PROVE  /\ t \in Seq(S) /\ Len(t) = count /\ DOMAIN t = 1 .. count /\ Ordered(kind, t)
           /\ \A i \in 1 .. count : i \in DOMAIN s /\ t[i] = s[i]
  <1>1. Len(s) \in Nat /\ DOMAIN s = 1 .. Len(s) /\ \A i \in 1 .. Len(s) : s[i] \in S
    OBVIOUS
  <1>2. count \in Nat /\ count \in Int /\ count <= Len(s) /\ \A i \in 1 .. count : i \in 1 .. Len(s) /\ s[i] \in S
    BY <1>1
  <1>3. t \in Seq(S) /\ Len(t) = (IF 1 <= count THEN count - 1 + 1 ELSE 0) /\ \A i \in 1 .. count - 1 + 1 : t[i] = s[1 + i - 1]
    BY <1>2, SubSeqProperties
  <1>4. Len(t) = count /\ DOMAIN t = 1 .. count
    BY <1>2, <1>3
  <1>5. \A i \in 1 .. count : t[i] = s[i]
    BY <1>2, <1>3
  <1>6. Ordered(kind, t)
    <2> SUFFICES ASSUME NEW i \in 1 .. count, NEW j \in 1 .. count, i < j PROVE Earlier(kind, t[i], t[j])
      BY <1>4 DEF Ordered
    <2>1. i \in DOMAIN s /\ j \in DOMAIN s /\ t[i] = s[i] /\ t[j] = s[j]
      BY <1>1, <1>2, <1>5
    <2> QED  BY <2>1 DEF Ordered
  <1> QED  BY <1>1, <1>2, <1>3, <1>4, <1>5, <1>6

(* What a listing has after a key.                                         *)
LEMMA RestIs ==
    ASSUME NEW id \in Nat, NEW kind, NEW all \in Seq(Entries(id)), Ordered(kind, all), NEW from,
           NEW places \in SUBSET DOMAIN all, \A i \in DOMAIN all : i \in places <=> all[i].key > from,
           NEW rest, rest = AtPlaces(all, places)
    PROVE  /\ rest \in Seq(Entries(id)) /\ Ordered(kind, rest)
           /\ \A x : x \in ToSet(rest) <=> (x \in ToSet(all) /\ x.key > from)
  <1> DEFINE E == Entries(id)
  <1>1. all \in Seq(E)
    OBVIOUS
  <1> HIDE DEF E
  <1>2. AtPlaces(all, places) \in Seq(E) /\ ToSet(AtPlaces(all, places)) = {all[i] : i \in places}
    BY <1>1, AtPlacesIs
  <1>3. Ordered(kind, AtPlaces(all, places))
    BY <1>1, OrderedAtPlaces
  <1>4. ASSUME NEW x PROVE x \in {all[i] : i \in places} <=> (x \in ToSet(all) /\ x.key > from)
    BY DEF ToSet
  <1> QED  BY <1>2, <1>3, <1>4 DEF E

(* In the order of the keys: the last entry of a page has the largest.     *)
KeysInOrder(s) == \A i, j \in DOMAIN s : i < j => s[i].key <= s[j].key

LEMMA LastKey ==
    ASSUME NEW S, NEW s \in Seq(S), \A x \in S : x.key \in Int, KeysInOrder(s), s # <<>>
    PROVE  Last(s) \in ToSet(s) /\ \A x \in ToSet(s) : x.key <= Last(s).key
  <1>1. Len(s) \in Nat /\ Len(s) \in 1 .. Len(s) /\ DOMAIN s = 1 .. Len(s) /\ \A i \in 1 .. Len(s) : s[i] \in S
    OBVIOUS
  <1>2. Last(s) = s[Len(s)]
    BY DEF Last
  <1>3. ASSUME NEW i \in 1 .. Len(s) PROVE s[i].key <= s[Len(s)].key
    <2>1. CASE i = Len(s)
      <3>1. s[Len(s)].key \in Int
        BY <1>1, Zenon
      <3>2. s[Len(s)].key <= s[Len(s)].key
        BY <3>1
      <3> QED  BY <2>1, <3>2, Zenon
    <2>2. CASE i < Len(s)
      <3>1. i \in DOMAIN s /\ Len(s) \in DOMAIN s
        BY <1>1, Zenon
      <3> QED  BY <2>2, <3>1, Zenon DEF KeysInOrder
    <2>3. i = Len(s) \/ i < Len(s)
      <3>1. Len(s) \in Nat /\ i \in 1 .. Len(s)
        BY <1>1, Zenon
      <3> DEFINE l == Len(s)
      <3> HIDE DEF l
      <3> QED  BY <3>1 DEF l
    <2> QED  BY <2>1, <2>2, <2>3
  <1> QED  BY <1>1, <1>2, <1>3 DEF ToSet

LEMMA YieldedSet ==
    ASSUME NEW kind, NEW list
    PROVE  ToSet(Yielded(kind, list)) = {ItemOf(kind, x) : x \in ToSet(list)}
  BY DEF ToSet, Yielded

(* A page of what comes after a key: its entries once each, up to the key  *)
(* the next one resumes after, and of the objects every one up to there.   *)
PageFrom(kind, held, from, page) ==
    /\ Distinct(Yielded(kind, page.found))
    /\ \A x \in ToSet(page.found) : x.key > from
    /\ page.cursor = End /\ kind = "objects" =>
         \A y \in Items(kind, held) : y[1] > from => y \in ToSet(Yielded(kind, page.found))
    /\ page.cursor # End =>
         \E m \in Keys :
           /\ page.cursor = Cursor("key", m) /\ from < m
           /\ \A x \in ToSet(page.found) : x.key <= m
           /\ kind = "objects" =>
                \A y \in Items(kind, held) : y[1] > from /\ y[1] <= m => y \in ToSet(Yielded(kind, page.found))

LEMMA PageLimitIs == ASSUME NEW limit \in Nat PROVE PageLimit(limit) \in Nat /\ PageLimit(limit) >= 1
  <1>1. MaxKeysPerPage \in Nat /\ MaxKeysPerPage >= 1
    BY BucketAssumption
  <1>2. Min({limit, MaxKeysPerPage}) = IF limit <= MaxKeysPerPage THEN limit ELSE MaxKeysPerPage
    BY <1>1, SmallerOf
  <1> QED  BY <1>1, <1>2 DEF PageLimit

(* How much of what is left one page takes: all of it where that is none.  *)
LEMMA CountIs ==
    ASSUME NEW n \in Nat, n >= 1, NEW p \in Nat, p >= 1, NEW left \in Nat, NEW count, count = Min({n, p, left})
    PROVE  count \in 0 .. left /\ count <= n /\ (count = 0 => left = 0)
  <1>1. count \in Nat /\ count \in {n, p, left} /\ count <= n /\ count <= p /\ count <= left
    BY SmallestOf
  <1>2. \A m : m \in Nat /\ m \in {n, p, left} /\ m <= left => m \in 0 .. left /\ (m = 0 => left = 0)
    OBVIOUS
  <1> QED  BY <1>1, <1>2, Zenon

LEMMA S3PageIs ==
    ASSUME StoreInv, NEW kind \in {"objects", "versions"}, NEW b \in Buckets, NEW cursor, cursor.n \in Nat,
           NEW limit \in Nat, NEW n \in 1 .. MaxKeysPerPage, NEW time \in Clocks,
           NEW page, page = S3Page(kind, b, cursor, limit, n, time)
    PROVE  PageFrom(kind, objects[b], cursor.n, page) /\ page.found \in Seq(Entries(written))
  <1> DEFINE E == Entries(written)
             from == cursor.n
             all == Listable(kind, b)
             rest == AtPlaces(all, {i \in DOMAIN all : all[i].key > from})
             count == Min({n, PageLimit(limit), Len(rest)})
             slice == SubSeq(rest, 1, count)
             found == IF kind = "objects" THEN slice ELSE VersionsOf(slice, time)
             ends == PageEnds(count < Len(rest), found, limit)
  <1>1. page = IF ends THEN [found |-> found, cursor |-> End] ELSE [found |-> found, cursor |-> ResumeAfter(found)]
    BY DEF S3Page
  <1>2. ends <=> ~ (count < Len(rest)) \/ found = <<>>
    BY DEF PageEnds
  <1>3. n \in Nat /\ n >= 1 /\ written \in Nat /\ written <= MaxWrites
    BY BucketAssumption DEF StoreInv
  <1> HIDE DEF E
  <1>19. /\ all \in Seq(E) /\ Ordered(kind, all)
         /\ {ItemOf(kind, x) : x \in ToSet(all)} = Items(kind, objects[b])
    <2>1. IsBucket(objects[b], written) /\ all = ListingOf(kind, objects[b])
      BY ListableIs DEF StoreInv
    <2> HIDE DEF all
    <2> QED  BY <1>3, <2>1, ListingIs DEF E
  <1>20. rest \in Seq(E) /\ Ordered(kind, rest) /\ (\A x : x \in ToSet(rest) <=> (x \in ToSet(all) /\ x.key > from))
    <2> DEFINE places == {i \in DOMAIN all : all[i].key > from}
    <2>1. /\ rest = AtPlaces(all, places) /\ places \in SUBSET DOMAIN all
          /\ \A i \in DOMAIN all : i \in places <=> all[i].key > from
      OBVIOUS
    <2>2. all \in Seq(Entries(written)) /\ Ordered(kind, all) /\ written \in Nat
      BY <1>3, <1>19 DEF E
    <2> HIDE DEF all, rest, from, places
    <2>3. rest \in Seq(Entries(written)) /\ Ordered(kind, rest) /\ \A x : x \in ToSet(rest) <=> (x \in ToSet(all) /\ x.key > from)
      BY <2>1, <2>2, RestIs, ZenonT(30)
    <2> QED  BY <2>3 DEF E
  <1>21. count \in 0 .. Len(rest) /\ (count = 0 => Len(rest) = 0) /\ count <= n
    <2>1. PageLimit(limit) \in Nat /\ PageLimit(limit) >= 1
      BY PageLimitIs
    <2> HIDE DEF rest
    <2>2. Len(rest) \in Nat /\ count = Min({n, PageLimit(limit), Len(rest)})
      BY <1>20
    <2> HIDE DEF count
    <2> QED  BY <1>3, <2>1, <2>2, CountIs
  <1>22. /\ slice \in Seq(E) /\ Len(slice) = count /\ DOMAIN slice = 1 .. count /\ Ordered(kind, slice)
         /\ \A i \in 1 .. count : i \in DOMAIN rest /\ slice[i] = rest[i]
    <2> HIDE DEF rest, count
    <2>1. slice = SubSeq(rest, 1, count)
      OBVIOUS
    <2> HIDE DEF slice
    <2>2. rest \in Seq(E) /\ Ordered(kind, rest) /\ count \in 0 .. Len(rest)
      BY <1>20, <1>21
    <2>3. SubSeq(rest, 1, count) \in Seq(E)
      BY <2>2, BeginningIs
    <2>4. Len(SubSeq(rest, 1, count)) = count /\ DOMAIN SubSeq(rest, 1, count) = 1 .. count
      BY <2>2, BeginningIs
    <2>5. Ordered(kind, SubSeq(rest, 1, count))
      BY <2>2, BeginningIs
    <2>6. \A i \in 1 .. count : i \in DOMAIN rest /\ SubSeq(rest, 1, count)[i] = rest[i]
      BY <2>2, BeginningIs
    <2> QED  BY <2>1, <2>3, <2>4, <2>5, <2>6, Zenon
  <1>4. /\ all \in Seq(E) /\ rest \in Seq(E) /\ slice \in Seq(E)
        /\ {ItemOf(kind, x) : x \in ToSet(all)} = Items(kind, objects[b])
        /\ (\A x : x \in ToSet(rest) <=> (x \in ToSet(all) /\ x.key > from))
        /\ Ordered(kind, all) /\ Ordered(kind, rest) /\ Ordered(kind, slice)
        /\ count \in 0 .. Len(rest) /\ (count = 0 => Len(rest) = 0) /\ count <= n
        /\ DOMAIN slice = 1 .. count /\ Len(slice) = count
        /\ \A i \in 1 .. count : i \in DOMAIN rest /\ slice[i] = rest[i]
    <2> HIDE DEF all, rest, count, slice, from
    <2> QED  BY <1>19, <1>20, <1>21, <1>22
  <1>5. /\ page.found = found
        /\ ends => page.cursor = End
        /\ ~ends => page.cursor = Cursor("key", Last(found).key)
    <2> HIDE DEF found, ends
    <2> QED  BY <1>1 DEF ResumeAfter
  <1> HIDE DEF all, rest, count, slice, E, ends
  <1>6. \A x \in E : x.key \in Int /\ x.id \in Int /\ x.key \in Keys
    BY <1>3, EntryTypes DEF E
  <1>7. /\ found \in Seq(E) /\ Distinct(found) /\ KeysInOrder(found) /\ ToSet(found) = ToSet(slice)
    <2>1. CASE kind = "objects"
      <3>1. found = slice
        BY <2>1
      <3>2. Distinct(slice)
        BY <1>4, <1>6, OrderedIsDistinct
      <3>3. KeysInOrder(slice)
        <4> SUFFICES ASSUME NEW i \in DOMAIN slice, NEW j \in DOMAIN slice, i < j PROVE slice[i].key <= slice[j].key
          BY DEF KeysInOrder
        <4>1. slice[i] \in E /\ slice[j] \in E /\ Earlier(kind, slice[i], slice[j])
          BY <1>4 DEF Ordered
        <4> QED  BY <1>6, <4>1 DEF Earlier
      <3> QED  BY <1>4, <3>1, <3>2, <3>3
    <2>2. CASE kind = "versions"
      <3>1. found = VersionsOf(slice, time)
        BY <2>2
      <3>2. slice \in Seq(Entries(written)) /\ Ordered("versions", slice)
        BY <1>4, <2>2 DEF E
      <3> HIDE DEF found
      <3>3. found \in Seq(Entries(written)) /\ InTime(time, found) /\ Distinct(found) /\ ToSet(found) = ToSet(slice)
        BY <1>3, <3>1, <3>2, VersionsOfIs
      <3>4. KeysInOrder(found)
        <4> SUFFICES ASSUME NEW i \in DOMAIN found, NEW j \in DOMAIN found, i < j PROVE found[i].key <= found[j].key
          BY DEF KeysInOrder
        <4>1. found \in Seq(E)
          BY <3>3 DEF E
        <4>2. found[i] \in E /\ found[j] \in E /\ Newer(time, found[i], found[j])
          BY <3>3, <4>1 DEF InTime
        <4> QED  BY <1>6, <4>2 DEF Newer, ListedBefore
      <3> QED  BY <3>3, <3>4 DEF E
    <2> QED  BY <2>1, <2>2
  <1>8. kind = "objects" => found = slice
    OBVIOUS
  <1> HIDE DEF found
  <1>9. Distinct(Yielded(kind, found))
    <2>1. \A x, y \in ToSet(slice) : ItemOf(kind, x) = ItemOf(kind, y) => x = y
      BY <1>4, <1>6, OrderedIsDistinct
    <2>2. \A i \in DOMAIN found : found[i] \in ToSet(slice)
      BY <1>7 DEF ToSet
    <2> QED  BY <1>7, <2>1, <2>2 DEF Distinct, Yielded
  <1>10. ToSet(slice) \subseteq ToSet(rest)
    BY <1>4 DEF ToSet
  <1>11. \A x \in ToSet(found) : x.key > from
    BY <1>4, <1>7, <1>10
  <1>12. ToSet(Yielded(kind, found)) = {ItemOf(kind, x) : x \in ToSet(found)}
    BY YieldedSet
  <1>13. ASSUME kind = "objects", NEW y \in Items(kind, objects[b]), y[1] > from
         PROVE  \E j \in DOMAIN rest : y = ItemOf(kind, rest[j]) /\ y[1] = rest[j].key
    <2>1. PICK x \in ToSet(all) : y = ItemOf(kind, x)
      BY <1>4
    <2>2. y[1] = x.key
      BY <2>1 DEF ItemOf
    <2>3. x \in ToSet(rest)
      BY <1>4, <1>13, <2>2
    <2>4. PICK j \in DOMAIN rest : rest[j] = x
      BY <2>3 DEF ToSet
    <2> QED  BY <2>1, <2>2, <2>4
  <1>14. ASSUME kind = "objects", NEW j \in DOMAIN rest, j <= count
         PROVE  ItemOf(kind, rest[j]) \in ToSet(Yielded(kind, found))
    <2>1. Len(rest) \in Nat /\ DOMAIN rest = 1 .. Len(rest)
      BY <1>4
    <2>2. j \in 1 .. count /\ j \in DOMAIN slice /\ slice[j] = rest[j]
      BY <1>4, <1>14, <2>1
    <2>3. rest[j] \in ToSet(found)
      BY <1>7, <2>2 DEF ToSet
    <2> QED  BY <1>12, <2>3
  <1>15. ASSUME ends, kind = "objects", NEW y \in Items(kind, objects[b]), y[1] > from
         PROVE  y \in ToSet(Yielded(kind, found))
    <2>1. count = Len(rest)
      <3>1. CASE found = <<>>
        <4>1. slice = <<>> /\ Len(slice) = 0
          BY <1>8, <1>15, <3>1
        <4> QED  BY <1>4, <4>1
      <3>2. CASE ~ (count < Len(rest))
        BY <1>4, <3>2
      <3> QED  BY <1>2, <1>15, <3>1, <3>2
    <2>2. PICK j \in DOMAIN rest : y = ItemOf(kind, rest[j])
      BY <1>13, <1>15
    <2>3. j <= count
      BY <1>4, <2>1
    <2> QED  BY <1>14, <1>15, <2>2, <2>3
  <1>16. ASSUME ~ends
         PROVE  \E m \in Keys :
           /\ Cursor("key", Last(found).key) = Cursor("key", m) /\ from < m
           /\ \A x \in ToSet(found) : x.key <= m
           /\ kind = "objects" =>
                \A y \in Items(kind, objects[b]) : y[1] > from /\ y[1] <= m => y \in ToSet(Yielded(kind, found))
    <2> DEFINE m == Last(found).key
    <2>1. found # <<>> /\ count < Len(rest)
      BY <1>2, <1>16
    <2>2. Last(found) \in ToSet(found) /\ \A x \in ToSet(found) : x.key <= m
      BY <1>6, <1>7, <2>1, LastKey
    <2>3. m \in Keys /\ from < m
      <3>1. Last(found) \in E
        BY <1>7, <2>2 DEF ToSet
      <3>2. m > from /\ m \in Int
        BY <1>6, <1>11, <2>2, <3>1
      <3> QED  BY <1>6, <3>1, <3>2
    <2>4. ASSUME kind = "objects", NEW y \in Items(kind, objects[b]), y[1] > from, y[1] <= m
          PROVE  y \in ToSet(Yielded(kind, found))
      <3>1. PICK j \in DOMAIN rest : y = ItemOf(kind, rest[j]) /\ y[1] = rest[j].key
        BY <1>13, <2>4
      <3>2. found = slice /\ slice # <<>>
        BY <1>8, <2>1, <2>4
      <3>3. count >= 1 /\ count \in Nat /\ count \in DOMAIN rest /\ m = rest[count].key
        <4>1. count \in 1 .. count
          BY <1>4, <3>2
        <4> QED  BY <1>4, <3>2, <4>1 DEF Last
      <3>4. ASSUME ~ (j <= count) PROVE FALSE
        <4>1. count < j
          BY <1>4, <3>3, <3>4
        <4>2. Earlier(kind, rest[count], rest[j])
          BY <1>4, <3>3, <4>1 DEF Ordered
        <4>3. rest[count].key < rest[j].key
          BY <2>4, <4>2 DEF Earlier
        <4>4. rest[count] \in E /\ rest[j] \in E
          BY <1>4, <3>3
        <4> QED  BY <1>6, <2>4, <3>1, <3>3, <4>3, <4>4
      <3> QED  BY <1>14, <2>4, <3>1, <3>4
    <2> QED  BY <2>2, <2>3, <2>4
  <1>17. End # Cursor("key", Last(found).key)
    BY DEF End, Cursor
  <1>18. PageFrom(kind, objects[b], from, page)
    <2>1. CASE ends
      BY <1>5, <1>9, <1>11, <1>15, <2>1 DEF PageFrom
    <2>2. CASE ~ends
      <3>1. page.cursor # End /\ page.cursor = Cursor("key", Last(found).key)
        BY <1>5, <1>17, <2>2
      <3> QED  BY <1>5, <1>9, <1>11, <1>16, <2>2, <3>1 DEF PageFrom
    <2> QED  BY <2>1, <2>2
  <1> QED  BY <1>5, <1>7, <1>18 DEF E

-----------------------------------------------------------------------------
(* A walk, from one page to the next.                                      *)

LEMMA WalkFields ==
    ASSUME NEW kind, NEW bucket, NEW limit, NEW cursor, NEW seen, NEW stable, NEW disturbed, NEW failed,
           NEW c, c = [kind |-> kind, bucket |-> bucket, limit |-> limit, cursor |-> cursor,
                       seen |-> seen, stable |-> stable, disturbed |-> disturbed, failed |-> failed]
    PROVE  /\ c.kind = kind /\ c.bucket = bucket /\ c.limit = limit /\ c.cursor = cursor
           /\ c.seen = seen /\ c.stable = stable /\ c.disturbed = disturbed /\ c.failed = failed
  OBVIOUS

LEMMA WalkEta ==
    ASSUME NEW c, IsWalk(c)
    PROVE  c = [kind |-> c.kind, bucket |-> c.bucket, limit |-> c.limit, cursor |-> c.cursor,
                seen |-> c.seen, stable |-> c.stable, disturbed |-> c.disturbed, failed |-> c.failed]
  BY Zenon DEF IsWalk

(* The fields of a walk that a step changes.                               *)
LEMMA WalkMoves ==
    ASSUME NEW c, NEW cursor, NEW seen,
           c = [kind |-> c.kind, bucket |-> c.bucket, limit |-> c.limit, cursor |-> c.cursor,
                seen |-> c.seen, stable |-> c.stable, disturbed |-> c.disturbed, failed |-> c.failed],
           NEW new, new = [c EXCEPT !.cursor = cursor, !.seen = seen]
    PROVE  new = [kind |-> c.kind, bucket |-> c.bucket, limit |-> c.limit, cursor |-> cursor,
                  seen |-> seen, stable |-> c.stable, disturbed |-> c.disturbed, failed |-> c.failed]
  OBVIOUS

LEMMA WalkFails ==
    ASSUME NEW c, NEW cursor,
           c = [kind |-> c.kind, bucket |-> c.bucket, limit |-> c.limit, cursor |-> c.cursor,
                seen |-> c.seen, stable |-> c.stable, disturbed |-> c.disturbed, failed |-> c.failed],
           NEW new, new = [c EXCEPT !.cursor = cursor, !.failed = TRUE]
    PROVE  new = [kind |-> c.kind, bucket |-> c.bucket, limit |-> c.limit, cursor |-> cursor,
                  seen |-> c.seen, stable |-> c.stable, disturbed |-> c.disturbed, failed |-> TRUE]
  OBVIOUS

LEMMA WalkDisturbed ==
    ASSUME NEW c, NEW stable,
           c = [kind |-> c.kind, bucket |-> c.bucket, limit |-> c.limit, cursor |-> c.cursor,
                seen |-> c.seen, stable |-> c.stable, disturbed |-> c.disturbed, failed |-> c.failed],
           NEW new, new = [c EXCEPT !.disturbed = TRUE, !.stable = stable]
    PROVE  new = [kind |-> c.kind, bucket |-> c.bucket, limit |-> c.limit, cursor |-> c.cursor,
                  seen |-> c.seen, stable |-> stable, disturbed |-> TRUE, failed |-> c.failed]
  OBVIOUS

LEMMA DistinctConcat ==
    ASSUME NEW S, NEW s \in Seq(S), NEW t \in Seq(S), Distinct(s), Distinct(t),
           \A x \in ToSet(s), y \in ToSet(t) : x # y
    PROVE  Distinct(s \o t)
  <1> DEFINE m == Len(s)
             n == Len(t)
             st == s \o t
  <1>1. /\ m \in Nat /\ n \in Nat /\ DOMAIN s = 1 .. m /\ DOMAIN t = 1 .. n /\ DOMAIN st = 1 .. (m + n)
        /\ \A i \in 1 .. (m + n) : st[i] = IF i <= m THEN s[i] ELSE t[i - m]
    OBVIOUS
  <1> HIDE DEF st, m, n
  <1>2. ASSUME NEW i \in 1 .. (m + n), NEW j \in 1 .. (m + n), i < j PROVE st[i] # st[j]
    <2>1. CASE j <= m
      <3>1. i \in DOMAIN s /\ j \in DOMAIN s /\ st[i] = s[i] /\ st[j] = s[j] /\ i # j
        BY <1>1, <1>2, <2>1
      <3> QED  BY <3>1 DEF Distinct
    <2>2. CASE i <= m /\ ~ (j <= m)
      <3>1. i \in DOMAIN s /\ j - m \in DOMAIN t /\ st[i] = s[i] /\ st[j] = t[j - m]
        BY <1>1, <2>2
      <3>2. s[i] \in ToSet(s) /\ t[j - m] \in ToSet(t)
        BY <3>1 DEF ToSet
      <3> QED  BY <3>1, <3>2
    <2>3. CASE ~ (i <= m)
      <3>1. i - m \in DOMAIN t /\ j - m \in DOMAIN t /\ st[i] = t[i - m] /\ st[j] = t[j - m] /\ i - m # j - m
        BY <1>1, <1>2, <2>3
      <3> QED  BY <3>1 DEF Distinct
    <2> QED  BY <2>1, <2>2, <2>3
  <1>3. ASSUME NEW i \in 1 .. (m + n), NEW j \in 1 .. (m + n), st[i] = st[j] PROVE i = j
    <2>1. ~ (i < j) /\ ~ (j < i)
      BY <1>2, <1>3
    <2> QED  BY <1>1, <2>1
  <1> QED  BY <1>1, <1>3 DEF Distinct, st

(* What a list of entries yields is a list of items, whose keys are theirs. *)
LEMMA YieldedIs ==
    ASSUME NEW id \in Nat, NEW kind, NEW list \in Seq(Entries(id))
    PROVE  /\ Yielded(kind, list) \in Seq(Keys \X Nat) /\ DOMAIN Yielded(kind, list) = DOMAIN list
           /\ \A y \in ToSet(Yielded(kind, list)) : \E x \in ToSet(list) : y[1] = x.key
  <1> DEFINE E == Entries(id)
             out == Yielded(kind, list)
  <1>1. \A x \in E : x.key \in Keys /\ x.id \in Nat
    BY EntryTypes
  <1> HIDE DEF E
  <1>2. list \in Seq(E)
    BY DEF E
  <1>3. Len(list) \in Nat /\ DOMAIN list = 1 .. Len(list) /\ \A i \in 1 .. Len(list) : list[i] \in E
    BY <1>2
  <1>4. \A x \in E : ItemOf(kind, x) \in Keys \X Nat /\ ItemOf(kind, x)[1] = x.key
    BY <1>1 DEF ItemOf
  <1>5. out = [i \in 1 .. Len(list) |-> ItemOf(kind, list[i])]
    BY <1>3 DEF Yielded
  <1>6. out \in Seq(Keys \X Nat)
    <2> DEFINE S == Keys \X Nat
    <2>1. \A i \in 1 .. Len(list) : ItemOf(kind, list[i]) \in S
      BY <1>3, <1>4
    <2> HIDE DEF S
    <2>2. out \in Seq(S)
      BY <1>3, <1>5, <2>1
    <2> QED  BY <2>2 DEF S
  <1>7. ASSUME NEW y \in ToSet(out) PROVE \E x \in ToSet(list) : y[1] = x.key
    <2>1. PICK i \in 1 .. Len(list) : y = ItemOf(kind, list[i])
      BY <1>5, <1>7 DEF ToSet
    <2>2. list[i] \in ToSet(list) /\ y[1] = list[i].key
      BY <1>3, <1>4, <2>1 DEF ToSet
    <2> QED  BY <2>2
  <1> QED  BY <1>3, <1>5, <1>6, <1>7

LEMMA YieldedConcat ==
    ASSUME NEW S, NEW kind, NEW s \in Seq(S), NEW t \in Seq(S)
    PROVE  Yielded(kind, s \o t) = Yielded(kind, s) \o Yielded(kind, t)
  <1> DEFINE m == Len(s)
             n == Len(t)
             st == s \o t
             ys == Yielded(kind, s)
             yt == Yielded(kind, t)
  <1>1. /\ m \in Nat /\ n \in Nat /\ DOMAIN s = 1 .. m /\ DOMAIN t = 1 .. n /\ DOMAIN st = 1 .. (m + n)
        /\ \A i \in 1 .. (m + n) : st[i] = IF i <= m THEN s[i] ELSE t[i - m]
    OBVIOUS
  <1> HIDE DEF st, m, n
  <1>2. ys = [i \in 1 .. m |-> ItemOf(kind, s[i])] /\ yt = [i \in 1 .. n |-> ItemOf(kind, t[i])]
    BY <1>1 DEF Yielded
  <1> DEFINE Yields == {ItemOf(kind, s[i]) : i \in 1 .. m} \cup {ItemOf(kind, t[i]) : i \in 1 .. n}
  <1>3. ys \in Seq(Yields) /\ yt \in Seq(Yields) /\ Len(ys) = m /\ Len(yt) = n
    <2>1. (\A i \in 1 .. m : ItemOf(kind, s[i]) \in Yields) /\ (\A i \in 1 .. n : ItemOf(kind, t[i]) \in Yields)
      OBVIOUS
    <2> HIDE DEF Yields
    <2> QED  BY <1>1, <1>2, <2>1
  <1> HIDE DEF ys, yt, Yields
  <1>4. /\ DOMAIN (ys \o yt) = 1 .. (m + n)
        /\ \A i \in 1 .. (m + n) : (ys \o yt)[i] = IF i <= m THEN ys[i] ELSE yt[i - m]
    <2>1. /\ ys \o yt \in Seq(Yields) /\ Len(ys \o yt) = Len(ys) + Len(yt)
          /\ \A i \in 1 .. Len(ys) + Len(yt) : (ys \o yt)[i] = IF i <= Len(ys) THEN ys[i] ELSE yt[i - Len(ys)]
      BY <1>3, ConcatProperties
    <2>2. DOMAIN (ys \o yt) = 1 .. Len(ys \o yt)
      BY <2>1
    <2> QED  BY <1>3, <2>1, <2>2
  <1>5. Yielded(kind, st) = [i \in 1 .. (m + n) |-> ItemOf(kind, st[i])]
    BY <1>1 DEF Yielded
  <1>6. ASSUME NEW i \in 1 .. (m + n) PROVE (ys \o yt)[i] = ItemOf(kind, st[i])
    <2>1. CASE i <= m
      <3>1. i \in 1 .. m
        BY <1>1, <2>1
      <3> QED  BY <1>1, <1>2, <1>4, <2>1, <3>1
    <2>2. CASE ~ (i <= m)
      <3>1. i - m \in 1 .. n
        BY <1>1, <2>2
      <3> QED  BY <1>1, <1>2, <1>4, <2>2, <3>1
    <2> QED  BY <2>1, <2>2
  <1>7. ys \o yt \in Seq(Yields)
    BY <1>3
  <1>8. ys \o yt = [i \in 1 .. (m + n) |-> (ys \o yt)[i]]
    <2>1. \A u \in Seq(Yields) : u = [i \in DOMAIN u |-> u[i]]
      OBVIOUS
    <2> QED  BY <1>4, <1>7, <2>1, Zenon
  <1>9. Yielded(kind, st) = ys \o yt
    BY <1>5, <1>6, <1>8
  <1> QED  BY <1>9 DEF st, ys, yt

LEMMA IdleWalk ==
    ASSUME NEW impl, NEW held
    PROVE  IsWalk(NoWalk) /\ Walked(NoWalk, impl, held)
  <1>1. NoWalk = [kind |-> "idle", bucket |-> Home, limit |-> 0, cursor |-> End, seen |-> <<>>,
                  stable |-> {}, disturbed |-> FALSE, failed |-> FALSE]
    BY DEF NoWalk
  <1>2. /\ NoWalk.kind = "idle" /\ NoWalk.bucket = Home /\ NoWalk.limit = 0 /\ NoWalk.cursor = End
        /\ NoWalk.seen = <<>> /\ NoWalk.stable = {} /\ NoWalk.disturbed = FALSE /\ NoWalk.failed = FALSE
    BY <1>1
  <1>3. Home \in Buckets /\ 0 \in Nat /\ End \in Cursors /\ <<>> \in Seq(Keys \X Nat)
    BY BucketAssumption DEF Cursors
  <1>4. IsWalk(NoWalk)
    BY <1>1, <1>2, <1>3 DEF IsWalk
  <1>5. ByKey(NoWalk)
    BY <1>2 DEF ByKey, Distinct
  <1>6. ByOffset(NoWalk, ListingOf(NoWalk.kind, held))
    BY <1>2 DEF ByOffset
  <1> QED  BY <1>2, <1>4, <1>5, <1>6 DEF Walked

LEMMA ItemKeys ==
    ASSUME NEW kind, NEW held, NEW x \in Items(kind, held)
    PROVE  x[1] \in Keys /\ x[1] \in Int /\ x[1] >= 1
  <1>1. Keys = 1 .. NKeys /\ NKeys \in Nat
    BY BucketAssumption DEF Keys
  <1>2. x[1] \in Keys
    BY DEF Items
  <1> QED  BY <1>1, <1>2

LEMMA CursorIs ==
    /\ Start \in Cursors /\ Foreign \in Cursors /\ End \in Cursors
    /\ Start.n = 0 /\ Foreign.n = 0 /\ Start # End /\ Foreign # End
    /\ Offset(Start) = 0 /\ Offset(Foreign) = 0
    /\ \A k \in Keys : Cursor("key", k) \in Cursors /\ Cursor("key", k).n = k /\ Cursor("key", k) # End
    /\ \A n \in Nat : Cursor("offset", n) \in Cursors /\ Offset(Cursor("offset", n)) = n
                      /\ Cursor("offset", n) # End
    /\ \A cursor \in Cursors : cursor.n \in Nat /\ Offset(cursor) \in Nat
  <1>1. Start \in Cursors /\ Foreign \in Cursors /\ End \in Cursors
    BY DEF Cursors
  <1>2. Start.n = 0 /\ Foreign.n = 0 /\ End.n = 0 /\ Start # End /\ Foreign # End
    BY DEF Start, Foreign, End, Cursor
  <1>3. Offset(Start) = 0 /\ Offset(Foreign) = 0 /\ Offset(End) = 0
    BY DEF Start, Foreign, End, Cursor, Offset
  <1>4. \A k \in Keys : Cursor("key", k).n = k /\ Cursor("key", k) # End /\ Offset(Cursor("key", k)) = 0
    BY DEF Cursor, End, Offset
  <1>5. \A n \in Nat : Cursor("offset", n).n = n /\ Cursor("offset", n) # End /\ Offset(Cursor("offset", n)) = n
    BY DEF Cursor, End, Offset
  <1>6. (\A k \in Keys : Cursor("key", k) \in Cursors) /\ (\A n \in Nat : Cursor("offset", n) \in Cursors)
    BY DEF Cursors
  <1>7. Keys \subseteq Nat
    BY BucketAssumption DEF Keys
  <1>8. ASSUME NEW cursor \in Cursors PROVE cursor.n \in Nat /\ Offset(cursor) \in Nat
    <2>1. CASE cursor \in {Start, Foreign, End}
      BY <1>2, <1>3, <2>1
    <2>2. CASE \E k \in Keys : cursor = Cursor("key", k)
      BY <1>4, <1>7, <2>2
    <2>3. CASE \E n \in Nat : cursor = Cursor("offset", n)
      BY <1>5, <2>3
    <2> QED  BY <2>1, <2>2, <2>3 DEF Cursors
  <1> QED  BY <1>1, <1>2, <1>3, <1>4, <1>5, <1>6, <1>8

(* A walk that begins has yielded nothing, before the first key.           *)
LEMMA BegunWalk ==
    ASSUME NEW impl, NEW id \in Nat, NEW held, IsBucket(held, id),
           NEW kind \in {"objects", "versions"}, NEW b \in Buckets, NEW limit \in Nat,
           NEW cursor \in {Start, Foreign}, NEW stable, stable = Items(kind, held),
           NEW new, new = [kind |-> kind, bucket |-> b, limit |-> limit, cursor |-> cursor,
                           seen |-> <<>>, stable |-> stable, disturbed |-> FALSE, failed |-> FALSE]
    PROVE  IsWalk(new) /\ Walked(new, impl, held)
  <1> DEFINE all == ListingOf(kind, held)
  <1>1. /\ new.kind = kind /\ new.bucket = b /\ new.limit = limit /\ new.cursor = cursor
        /\ new.seen = <<>> /\ new.stable = stable /\ new.disturbed = FALSE /\ new.failed = FALSE
    BY WalkFields
  <1>2. cursor \in Cursors /\ cursor # End /\ cursor.n = 0 /\ Offset(cursor) = 0
    BY CursorIs
  <1>3. IsWalk(new)
    <2>1. <<>> \in Seq(Keys \X Nat) /\ kind # "idle"
      OBVIOUS
    <2> QED  BY <1>1, <1>2, <2>1, Zenon DEF IsWalk
  <1>4. ByKey(new)
    <2>1. DOMAIN new.seen = {} /\ new.cursor # End /\ new.cursor.n = 0 /\ new.stable = Items(kind, held)
      BY <1>1, <1>2
    <2>2. \A x \in Items(kind, held) : ~ (x[1] <= 0)
      BY ItemKeys
    <2> QED  BY <2>1, <2>2 DEF ByKey, Distinct
  <1>5. ByOffset(new, all)
    <2> DEFINE E == Entries(id)
    <2>1. all \in Seq(E)
      BY ListingIs
    <2> HIDE DEF all, E
    <2>2. Len(all) \in Nat /\ SubSeq(all, 1, 0) = <<>>
      BY <2>1, SubSeqEmpty
    <2>3. Yielded(kind, <<>>) = <<>>
      BY DEF Yielded
    <2>4. Offset(new.cursor) = 0 /\ new.cursor # End /\ new.kind = kind /\ new.seen = <<>>
      BY <1>1, <1>2
    <2>5. 0 <= Len(all)
      BY <2>2
    <2>6. Offset(new.cursor) <= Len(all)
      BY <2>4, <2>5, Zenon
    <2>7. new.seen = Yielded(new.kind, SubSeq(all, 1, Offset(new.cursor)))
      BY <2>2, <2>3, <2>4, Zenon
    <2> QED  BY <2>4, <2>6, <2>7, Zenon DEF ByOffset
  <1> QED  BY <1>1, <1>3, <1>4, <1>5 DEF Walked

(* A walk that failed keeps what it yielded, and promises no more.         *)
LEMMA FailedWalk ==
    ASSUME NEW c, IsWalk(c), NEW held, Walked(c, "s3", held), c.cursor # End,
           NEW new, new = [kind |-> c.kind, bucket |-> c.bucket, limit |-> c.limit, cursor |-> End,
                           seen |-> c.seen, stable |-> c.stable, disturbed |-> c.disturbed, failed |-> TRUE]
    PROVE  IsWalk(new) /\ Walked(new, "s3", held)
  <1>1. /\ new.kind = c.kind /\ new.bucket = c.bucket /\ new.limit = c.limit /\ new.cursor = End
        /\ new.seen = c.seen /\ new.stable = c.stable
    BY WalkFields
  <1>2. new.disturbed = c.disturbed /\ new.failed = TRUE
    BY WalkFields
  <1>3. /\ c.kind \in {"idle", "objects", "versions"} /\ c.bucket \in Buckets /\ c.limit \in Nat
        /\ c.disturbed \in BOOLEAN /\ c.seen \in Seq(Keys \X Nat) /\ c.kind # "idle"
    BY DEF IsWalk
  <1>4. TRUE \in BOOLEAN /\ End \in Cursors
    BY CursorIs
  <1>5. IsWalk(new)
    BY <1>1, <1>2, <1>3, <1>4, Zenon DEF IsWalk
  <1>6. ByKey(c) /\ c.stable \subseteq Items(c.kind, held)
    BY DEF Walked
  <1>7. ByKey(new)
    BY <1>1, <1>2, <1>6, Zenon DEF ByKey
  <1> QED  BY <1>1, <1>5, <1>6, <1>7 DEF Walked

(* What a page leaves of the walk's type.                                  *)
LEMMA PagedIsWalk ==
    ASSUME NEW c, IsWalk(c), c.cursor # End, NEW cursor \in Cursors, NEW seen \in Seq(Keys \X Nat),
           NEW new, new = [kind |-> c.kind, bucket |-> c.bucket, limit |-> c.limit, cursor |-> cursor,
                           seen |-> seen, stable |-> c.stable, disturbed |-> c.disturbed, failed |-> c.failed]
    PROVE  IsWalk(new)
  <1>1. /\ new.kind = c.kind /\ new.bucket = c.bucket /\ new.limit = c.limit /\ new.cursor = cursor
        /\ new.seen = seen /\ new.stable = c.stable
    BY WalkFields
  <1>2. new.disturbed = c.disturbed /\ new.failed = c.failed
    BY WalkFields
  <1>3. /\ c.kind \in {"idle", "objects", "versions"} /\ c.bucket \in Buckets /\ c.limit \in Nat
        /\ c.disturbed \in BOOLEAN /\ c.failed \in BOOLEAN /\ c.kind # "idle"
    BY DEF IsWalk
  <1> QED  BY <1>1, <1>2, <1>3, Zenon DEF IsWalk

(* A page of S3's: what it yields comes after what was yielded, and before *)
(* what the next one will.                                                 *)
LEMMA PagedByKey ==
    ASSUME NEW c, IsWalk(c), NEW held, Walked(c, "s3", held), c.cursor # End,
           NEW id \in Nat, NEW page, PageFrom(c.kind, held, c.cursor.n, page), page.found \in Seq(Entries(id)),
           NEW seen, seen = c.seen \o Yielded(c.kind, page.found),
           NEW new, new = [kind |-> c.kind, bucket |-> c.bucket, limit |-> c.limit, cursor |-> page.cursor,
                           seen |-> seen, stable |-> c.stable, disturbed |-> c.disturbed, failed |-> c.failed]
    PROVE  IsWalk(new) /\ Walked(new, "s3", held)
  <1> DEFINE from == c.cursor.n
             found == page.found
             out == Yielded(c.kind, found)
             I == Keys \X Nat
  <1>1. /\ ByKey(c) /\ c.stable \subseteq Items(c.kind, held)
        /\ c.cursor \in Cursors /\ c.seen \in Seq(I)
    BY DEF Walked, IsWalk
  <1>2. from \in Nat
    BY <1>1, CursorIs
  <1>3. /\ Distinct(out)
        /\ \A x \in ToSet(found) : x.key > from
        /\ page.cursor = End /\ c.kind = "objects" => \A y \in Items(c.kind, held) : y[1] > from => y \in ToSet(out)
        /\ page.cursor # End =>
             \E m \in Keys :
               /\ page.cursor = Cursor("key", m) /\ from < m
               /\ \A x \in ToSet(found) : x.key <= m
               /\ c.kind = "objects" =>
                    \A y \in Items(c.kind, held) : y[1] > from /\ y[1] <= m => y \in ToSet(out)
    BY DEF PageFrom
  <1>4. /\ Distinct(c.seen) /\ (\A i \in DOMAIN c.seen : c.seen[i][1] <= from)
        /\ c.kind = "objects" => \A x \in c.stable : x[1] <= from => x \in ToSet(c.seen)
    BY <1>1 DEF ByKey
  <1>5. out \in Seq(I) /\ \A y \in ToSet(out) : \E x \in ToSet(found) : y[1] = x.key
    BY YieldedIs
  <1>6. \A x \in I : x[1] \in Int
    BY BucketAssumption DEF Keys
  <1>7. page.cursor \in Cursors
    BY <1>3, CursorIs
  <1> HIDE DEF from, found, out, I
  <1>8. seen \in Seq(I) /\ ToSet(seen) = ToSet(c.seen) \cup ToSet(out)
    <2>1. seen = c.seen \o out
      BY DEF out, found
    <2>2. c.seen \o out \in Seq(I)
      BY <1>1, <1>5, ConcatProperties
    <2>3. ToSet(c.seen \o out) = ToSet(c.seen) \cup ToSet(out)
      BY <1>1, <1>5, ToSetConcat
    <2> QED  BY <2>1, <2>2, <2>3
  <1>9. \A x \in ToSet(c.seen) : x[1] <= from /\ x[1] \in Int
    BY <1>1, <1>4, <1>6 DEF ToSet
  <1>10. \A y \in ToSet(out) : y[1] > from /\ y[1] \in Int
    <2>1. \A y \in ToSet(out) : y \in I
      BY <1>5 DEF ToSet
    <2> QED  BY <1>3, <1>5, <1>6, <2>1
  <1>11. Distinct(seen)
    <2>1. \A x \in ToSet(c.seen), y \in ToSet(out) : x # y
      BY <1>2, <1>9, <1>10
    <2>2. Distinct(c.seen \o out)
      BY <1>1, <1>3, <1>4, <1>5, <2>1, DistinctConcat
    <2> QED  BY <2>2 DEF out, found
  <1>12. IsWalk(new)
    BY <1>7, <1>8, PagedIsWalk DEF I
  <1>13. /\ new.kind = c.kind /\ new.cursor = page.cursor /\ new.seen = seen /\ new.stable = c.stable
    BY WalkFields
  <1>14. ASSUME page.cursor # End
         PROVE  /\ \A i \in DOMAIN seen : seen[i][1] <= page.cursor.n
                /\ c.kind = "objects" => \A x \in c.stable : x[1] <= page.cursor.n => x \in ToSet(seen)
    <2>1. PICK m \in Keys :
               /\ page.cursor = Cursor("key", m) /\ from < m
               /\ \A x \in ToSet(found) : x.key <= m
               /\ c.kind = "objects" =>
                    \A y \in Items(c.kind, held) : y[1] > from /\ y[1] <= m => y \in ToSet(out)
      BY <1>3, <1>14
    <2>2. page.cursor.n = m /\ m \in Int
      <3>1. m \in Int
        BY BucketAssumption DEF Keys
      <3> QED  BY <2>1, <3>1, CursorIs
    <2>3. \A x \in ToSet(seen) : x[1] <= m
      <3>1. \A x \in ToSet(c.seen) : x[1] <= m
        BY <1>2, <1>9, <2>1, <2>2
      <3>2. \A y \in ToSet(out) : y[1] <= m
        BY <1>5, <2>1
      <3> QED  BY <1>8, <3>1, <3>2
    <2>4. \A i \in DOMAIN seen : seen[i][1] <= m
      BY <2>3 DEF ToSet
    <2>5. ASSUME c.kind = "objects", NEW x \in c.stable, x[1] <= m PROVE x \in ToSet(seen)
      <3>1. x \in Items(c.kind, held) /\ x[1] \in Int
        BY <1>1, ItemKeys
      <3>2. CASE x[1] <= from
        BY <1>4, <1>8, <2>5, <3>2
      <3>3. CASE x[1] > from
        BY <1>8, <2>1, <2>5, <3>1, <3>3
      <3> QED  BY <1>2, <3>1, <3>2, <3>3
    <2> QED  BY <2>2, <2>4, <2>5
  <1>15. ASSUME page.cursor = End, c.kind = "objects" PROVE c.stable \subseteq ToSet(seen)
    <2> SUFFICES ASSUME NEW x \in c.stable PROVE x \in ToSet(seen)
      OBVIOUS
    <2>1. x \in Items(c.kind, held) /\ x[1] \in Int
      BY <1>1, ItemKeys
    <2>2. CASE x[1] <= from
      BY <1>4, <1>8, <1>15, <2>2
    <2>3. CASE x[1] > from
      BY <1>3, <1>8, <1>15, <2>1, <2>3
    <2> QED  BY <1>2, <2>1, <2>2, <2>3
  <1>16. ByKey(new)
    BY <1>11, <1>13, <1>14, <1>15 DEF ByKey
  <1> QED  BY <1>1, <1>12, <1>13, <1>16 DEF Walked

(* Where a page of the double's begins and ends.                           *)
PageStart(all, cursor) == IF Offset(cursor) <= Len(all) THEN Offset(cursor) ELSE Len(all)
PageEnd(all, cursor, limit) ==
    IF limit > 0 /\ PageStart(all, cursor) + limit <= Len(all) THEN PageStart(all, cursor) + limit
    ELSE Len(all)

LEMMA PaginateIs ==
    ASSUME NEW kind, NEW b, NEW cursor, Offset(cursor) \in Nat, NEW limit \in Nat,
           NEW S, NEW all \in Seq(S), all = Listable(kind, b),
           NEW page, page = Paginate(kind, b, cursor, limit),
           NEW start, start = PageStart(all, cursor), NEW end, end = PageEnd(all, cursor, limit)
    PROVE  /\ start \in 0 .. end /\ end \in 0 .. Len(all)
           /\ page.found = SubSeq(all, start + 1, end)
           /\ page.cursor = IF end < Len(all) THEN Cursor("offset", end) ELSE End
  <1>1. Len(all) \in Nat
    OBVIOUS
  <1>2. start \in Nat /\ start <= Len(all)
    BY <1>1 DEF PageStart
  <1>3. end \in Nat /\ end <= Len(all) /\ start <= end
    BY <1>1, <1>2 DEF PageEnd
  <1>4. Min({IF cursor.at = "offset" THEN cursor.n ELSE 0, Len(all)}) = start
    <2>1. Min({Offset(cursor), Len(all)}) = start
      BY <1>1, SmallerOf DEF PageStart
    <2> QED  BY <2>1 DEF Offset
  <1>5. (IF limit > 0 THEN Min({start + limit, Len(all)}) ELSE Len(all)) = end
    <2>1. Min({start + limit, Len(all)}) = IF start + limit <= Len(all) THEN start + limit ELSE Len(all)
      BY <1>1, <1>2, SmallerOf
    <2> QED  BY <1>1, <1>2, <2>1 DEF PageEnd
  <1>6. page = [found |-> SubSeq(all, start + 1, end),
                cursor |-> IF end < Len(all) THEN Cursor("offset", end) ELSE End]
    BY <1>4, <1>5, Zenon DEF Paginate
  <1>7. \A f, g : [found |-> f, cursor |-> g].found = f /\ [found |-> f, cursor |-> g].cursor = g
    OBVIOUS
  <1>8. /\ page.found = SubSeq(all, start + 1, end)
        /\ page.cursor = IF end < Len(all) THEN Cursor("offset", end) ELSE End
    BY <1>6, <1>7, Zenon
  <1> QED  BY <1>1, <1>2, <1>3, <1>8

(* A page of the double's: while nothing changed it goes on from where the *)
(* pages before it ended.                                                  *)
LEMMA PagedByOffset ==
    ASSUME StoreInv, NEW c, IsWalk(c), c.cursor # End,
           NEW held, held = objects[c.bucket], Walked(c, "double", held),
           NEW page, page = Paginate(c.kind, c.bucket, c.cursor, c.limit),
           NEW seen, seen = c.seen \o Yielded(c.kind, page.found),
           NEW new, new = [kind |-> c.kind, bucket |-> c.bucket, limit |-> c.limit, cursor |-> page.cursor,
                           seen |-> seen, stable |-> c.stable, disturbed |-> c.disturbed, failed |-> c.failed]
    PROVE  IsWalk(new) /\ Walked(new, "double", held)
  <1> DEFINE E == Entries(written)
             I == Keys \X Nat
             all == ListingOf(c.kind, held)
             start == PageStart(all, c.cursor)
             end == PageEnd(all, c.cursor, c.limit)
             found == SubSeq(all, start + 1, end)
             out == Yielded(c.kind, found)
  <1>1. /\ c.kind \in {"idle", "objects", "versions"} /\ c.bucket \in Buckets /\ c.limit \in Nat
        /\ c.cursor \in Cursors /\ c.seen \in Seq(I) /\ c.stable \subseteq Items(c.kind, held)
        /\ ~c.disturbed => ByOffset(c, all)
    BY DEF IsWalk, Walked
  <1>2. Offset(c.cursor) \in Nat
    BY <1>1, CursorIs
  <1>3. written \in Nat /\ IsBucket(held, written) /\ all = Listable(c.kind, c.bucket)
    BY <1>1, ListableIs DEF StoreInv
  <1>4. all \in Seq(E)
    BY <1>3, ListingIs
  <1> HIDE DEF all, E, I
  <1>5. /\ start \in 0 .. end /\ end \in 0 .. Len(all) /\ Len(all) \in Nat
        /\ page.found = found
        /\ page.cursor = IF end < Len(all) THEN Cursor("offset", end) ELSE End
    <2>1. start = PageStart(all, c.cursor) /\ end = PageEnd(all, c.cursor, c.limit) /\ c.limit \in Nat
      BY <1>1
    <2> HIDE DEF start, end
    <2> QED  BY <1>2, <1>3, <1>4, <2>1, PaginateIs
  <1> HIDE DEF end
  <1>6. page.cursor \in Cursors
    <2>1. end \in Nat
      BY <1>5
    <2> QED  BY <1>5, <2>1, CursorIs
  <1> HIDE DEF start
  <1>8. found \in Seq(E)
    <2>1. \A i \in (start + 1) .. end : all[i] \in E
      BY <1>4, <1>5
    <2>2. start + 1 \in Int /\ end \in Int
      BY <1>5
    <2> QED  BY <2>1, <2>2, SubSeqProperties
  <1> HIDE DEF found
  <1>9. out \in Seq(I)
    <2>1. found \in Seq(Entries(written))
      BY <1>8 DEF E
    <2> QED  BY <1>3, <2>1, YieldedIs DEF I
  <1>10. seen = c.seen \o out /\ seen \in Seq(I)
    <2>1. seen = c.seen \o out
      BY <1>5
    <2> HIDE DEF out
    <2>2. c.seen \o out \in Seq(I)
      BY <1>1, <1>9, ConcatProperties
    <2> QED  BY <2>1, <2>2
  <1>11. IsWalk(new)
    BY <1>6, <1>10, PagedIsWalk DEF I
  <1>12. new.kind = c.kind /\ new.cursor = page.cursor /\ new.seen = seen /\ new.stable = c.stable
    BY WalkFields
  <1>13. new.disturbed = c.disturbed
    BY WalkFields
  <1>14. ASSUME ~c.disturbed PROVE ByOffset(new, all)
    <2>1. Offset(c.cursor) <= Len(all) /\ c.seen = Yielded(c.kind, SubSeq(all, 1, Offset(c.cursor)))
      BY <1>1, <1>14 DEF ByOffset
    <2>2. start = Offset(c.cursor)
      BY <2>1 DEF start, PageStart
    <2>3. SubSeq(all, 1, start) \in Seq(E)
      <3>1. \A i \in 1 .. start : all[i] \in E
        BY <1>4, <1>5
      <3>2. start \in Int
        BY <1>5
      <3> QED  BY <3>1, <3>2, SubSeqProperties
    <2>4. SubSeq(all, 1, start) \o found = SubSeq(all, 1, end)
      <3>1. 1 \in 1 .. (Len(all) + 1) /\ start \in (1 - 1) .. Len(all) /\ end \in start .. Len(all)
        BY <1>5
      <3> QED  BY <1>4, <3>1, ConcatAdjacentSubSeq DEF found
    <2>5. Yielded(c.kind, SubSeq(all, 1, start) \o found)
            = Yielded(c.kind, SubSeq(all, 1, start)) \o Yielded(c.kind, found)
      <3> DEFINE head == SubSeq(all, 1, start)
      <3>1. head \in Seq(E)
        BY <2>3
      <3> HIDE DEF head
      <3>2. Yielded(c.kind, head \o found) = Yielded(c.kind, head) \o Yielded(c.kind, found)
        BY <1>8, <3>1, YieldedConcat
      <3> QED  BY <3>2 DEF head
    <2>6. seen = Yielded(c.kind, SubSeq(all, 1, end))
      BY <1>10, <2>1, <2>2, <2>4, <2>5
    <2>7. CASE end < Len(all)
      <3>1. page.cursor # End /\ Offset(page.cursor) = end
        <4>1. end \in Nat
          BY <1>5
        <4> QED  BY <1>5, <2>7, <4>1, CursorIs
      <3>2. Offset(page.cursor) <= Len(all)
        BY <1>5, <2>7, <3>1
      <3> QED  BY <1>12, <2>6, <3>1, <3>2, Zenon DEF ByOffset
    <2>8. CASE ~ (end < Len(all))
      <3>1. page.cursor = End /\ end = Len(all)
        BY <1>5, <2>8
      <3>2. SubSeq(all, 1, Len(all)) = all
        BY <1>4, SubSeqFull
      <3> QED  BY <1>12, <2>6, <3>1, <3>2 DEF ByOffset
    <2> QED  BY <2>7, <2>8
  <1> QED  BY <1>1, <1>11, <1>12, <1>13, <1>14 DEF Walked, all

(* What a change to the bucket leaves of a walk of it.                     *)
LEMMA DisturbedWalk ==
    ASSUME NEW c, IsWalk(c), NEW impl, NEW held, Walked(c, impl, held), NEW after,
           NEW stable, stable = c.stable \cap Items(c.kind, after),
           NEW new, new = [kind |-> c.kind, bucket |-> c.bucket, limit |-> c.limit, cursor |-> c.cursor,
                           seen |-> c.seen, stable |-> stable, disturbed |-> TRUE, failed |-> c.failed]
    PROVE  IsWalk(new) /\ Walked(new, impl, after) /\ new.bucket = c.bucket
  <1>1. /\ new.kind = c.kind /\ new.bucket = c.bucket /\ new.limit = c.limit /\ new.cursor = c.cursor
        /\ new.seen = c.seen /\ new.stable = stable
    BY WalkFields
  <1>2. new.disturbed = TRUE /\ new.failed = c.failed
    BY WalkFields
  <1>3. /\ c.kind \in {"idle", "objects", "versions"} /\ c.bucket \in Buckets /\ c.limit \in Nat
        /\ c.cursor \in Cursors /\ c.failed \in BOOLEAN /\ c.seen \in Seq(Keys \X Nat)
        /\ c.kind = "idle" => c.cursor = End /\ c.seen = <<>> /\ c.stable = {}
    BY DEF IsWalk
  <1>4. stable \subseteq c.stable /\ stable \subseteq Items(c.kind, after) /\ TRUE \in BOOLEAN
    OBVIOUS
  <1>5. c.stable = {} => stable = {}
    BY <1>4
  <1>6. IsWalk(new)
    BY <1>1, <1>2, <1>3, <1>4, <1>5, Zenon DEF IsWalk
  <1>7. impl = "s3" => ByKey(c)
    BY DEF Walked
  <1>8. ASSUME impl = "s3" PROVE ByKey(new)
    <2>1. /\ Distinct(new.seen)
          /\ new.cursor # End => \A i \in DOMAIN new.seen : new.seen[i][1] <= new.cursor.n
      BY <1>1, <1>7, <1>8, Zenon DEF ByKey
    <2>2. ASSUME new.cursor # End, new.kind = "objects", NEW x \in new.stable, x[1] <= new.cursor.n
          PROVE  x \in ToSet(new.seen)
      <3>1. x \in c.stable
        BY <1>1, <1>4
      <3> QED  BY <1>1, <1>7, <1>8, <2>2, <3>1, Zenon DEF ByKey
    <2>3. ASSUME new.cursor = End, new.kind = "objects", ~new.failed
          PROVE  new.stable \subseteq ToSet(new.seen)
      <3>1. c.stable \subseteq ToSet(c.seen)
        BY <1>1, <1>2, <1>7, <1>8, <2>3, Zenon DEF ByKey
      <3> QED  BY <1>1, <1>4, <3>1
    <2> QED  BY <2>1, <2>2, <2>3, Zenon DEF ByKey
  <1>9. new.stable \subseteq Items(new.kind, after)
    BY <1>1, <1>4
  <1> QED  BY <1>1, <1>2, <1>6, <1>8, <1>9 DEF Walked

LEMMA WalksChanged ==
    ASSUME StoreInv, WalkInv, build' = build, NEW b \in Buckets, NEW new, Changed(b, new)
    PROVE  WalkInv'
  <1>1. /\ DOMAIN walk = Walkers /\ DOMAIN objects = Buckets
        /\ \A w \in Walkers : IsWalk(walk[w]) /\ Walked(walk[w], build.impl, objects[walk[w].bucket])
    BY DEF WalkInv, StoreInv
  <1>2. /\ objects' = [objects EXCEPT ![b] = new]
        /\ walk' = [w \in Walkers |->
             IF walk[w].bucket # b \/ new = objects[b] THEN walk[w]
             ELSE [walk[w] EXCEPT !.disturbed = TRUE, !.stable = walk[w].stable \cap Items(walk[w].kind, new)]]
    BY DEF Changed
  <1>3. \A q \in Buckets : objects'[q] = IF q = b THEN new ELSE objects[q]
    BY <1>1, <1>2
  <1>4. ASSUME NEW w \in Walkers
        PROVE  IsWalk(walk'[w]) /\ Walked(walk'[w], build.impl, objects'[walk'[w].bucket])
    <2> DEFINE c == walk[w]
               d == walk'[w]
               stable == c.stable \cap Items(c.kind, new)
    <2>1. IsWalk(c) /\ Walked(c, build.impl, objects[c.bucket]) /\ c.bucket \in Buckets
      BY <1>1 DEF IsWalk
    <2>2. CASE c.bucket # b \/ new = objects[b]
      <3>1. d = c
        BY <1>2, <2>2
      <3>2. objects'[c.bucket] = objects[c.bucket]
        BY <1>3, <2>1, <2>2
      <3> HIDE DEF c, d
      <3>3. IsWalk(d) /\ Walked(d, build.impl, objects'[d.bucket])
        BY <2>1, <3>1, <3>2
      <3> QED  BY <3>3 DEF d
    <2>3. CASE ~ (c.bucket # b \/ new = objects[b])
      <3>1. d = [c EXCEPT !.disturbed = TRUE, !.stable = stable]
        BY <1>2, <2>3
      <3>2. objects'[c.bucket] = new
        BY <1>3, <2>1, <2>3
      <3>3. stable = c.stable \cap Items(c.kind, new)
        OBVIOUS
      <3> HIDE DEF c, d, stable
      <3>4. d = [kind |-> c.kind, bucket |-> c.bucket, limit |-> c.limit, cursor |-> c.cursor,
                 seen |-> c.seen, stable |-> stable, disturbed |-> TRUE, failed |-> c.failed]
        BY <2>1, <3>1, WalkEta, WalkDisturbed
      <3>5. IsWalk(d) /\ Walked(d, build.impl, new) /\ d.bucket = c.bucket
        BY <2>1, <3>3, <3>4, DisturbedWalk
      <3>6. IsWalk(d) /\ Walked(d, build.impl, objects'[d.bucket])
        BY <3>2, <3>5
      <3> QED  BY <3>6 DEF d
    <2> QED  BY <2>2, <2>3
  <1>5. DOMAIN walk' = Walkers
    BY <1>2
  <1> QED  BY <1>4, <1>5 DEF WalkInv

LEMMA OneWalk ==
    ASSUME WalkInv, build' = build, objects' = objects, NEW w \in Walkers, NEW new,
           IsWalk(new), Walked(new, build.impl, objects[new.bucket]), walk' = [walk EXCEPT ![w] = new]
    PROVE  WalkInv'
  <1>1. /\ DOMAIN walk = Walkers
        /\ \A v \in Walkers : IsWalk(walk[v]) /\ Walked(walk[v], build.impl, objects[walk[v].bucket])
    BY DEF WalkInv
  <1>2. DOMAIN walk' = Walkers /\ \A v \in Walkers : walk'[v] = IF v = w THEN new ELSE walk[v]
    BY <1>1
  <1>3. \A v \in Walkers : IsWalk(walk'[v]) /\ Walked(walk'[v], build.impl, objects[walk'[v].bucket])
    BY <1>1, <1>2
  <1> QED  BY <1>2, <1>3 DEF WalkInv

LEMMA SameWalks == ASSUME WalkInv, build' = build, objects' = objects, walk' = walk PROVE WalkInv'
  BY DEF WalkInv

LEMMA WalkStartKeeps ==
    ASSUME StoreInv, WalkInv, NEW w \in Walkers, NEW kind \in {"objects", "versions"}, NEW b \in Busy,
           NEW limit \in Limits, NEW cursor \in {Start, Foreign}, WalkStart(w, kind, b, limit, cursor)
    PROVE  WalkInv'
  <1> DEFINE stable == Items(kind, objects[b])
             new == [NoWalk EXCEPT !.kind = kind, !.bucket = b, !.limit = limit, !.cursor = cursor,
                                   !.stable = stable]
  <1>1. b \in Buckets /\ limit \in Nat
    BY BucketAssumption
  <1>2. walk' = [walk EXCEPT ![w] = new] /\ build' = build /\ objects' = objects
    BY DEF WalkStart
  <1>3. written \in Nat /\ IsBucket(objects[b], written)
    BY <1>1 DEF StoreInv
  <1>4. new = [NoWalk EXCEPT !.kind = kind, !.bucket = b, !.limit = limit, !.cursor = cursor, !.stable = stable]
    OBVIOUS
  <1>8. stable = Items(kind, objects[b])
    OBVIOUS
  <1> HIDE DEF new, stable
  <1>5. new = [kind |-> kind, bucket |-> b, limit |-> limit, cursor |-> cursor,
               seen |-> <<>>, stable |-> stable, disturbed |-> FALSE, failed |-> FALSE]
    BY <1>4 DEF NoWalk
  <1>6. new.bucket = b
    BY <1>5
  <1>7. IsWalk(new) /\ Walked(new, build.impl, objects[b])
    BY <1>1, <1>3, <1>5, <1>8, BegunWalk
  <1> QED  BY <1>2, <1>6, <1>7, OneWalk

LEMMA WalkPageKeeps ==
    ASSUME StoreInv, WalkInv, NEW w \in Walkers, NEW outcome, NEW n \in 1 .. MaxKeysPerPage,
           NEW time \in Clocks, WalkPage(w, outcome, n, time)
    PROVE  WalkInv'
  <1> DEFINE c == walk[w]
             held == objects[c.bucket]
             page == IF build.impl = "s3" THEN S3Page(c.kind, c.bucket, c.cursor, c.limit, n, time)
                     ELSE Paginate(c.kind, c.bucket, c.cursor, c.limit)
             refused == build.impl = "s3" /\ (c.cursor = Foreign \/ ~Reaches(c.bucket))
             seen == c.seen \o Yielded(c.kind, page.found)
             new == walk'[w]
  <1>1. /\ c.cursor # End /\ build' = build /\ objects' = objects
        /\ outcome # "answered" => build.impl = "s3"
        /\ outcome \in {"answered", "failed"}
    BY DEF WalkPage, Fault
  <1>2. walk' = [walk EXCEPT ![w] =
           IF refused \/ outcome = "failed" THEN [c EXCEPT !.cursor = End, !.failed = TRUE]
           ELSE [c EXCEPT !.cursor = page.cursor, !.seen = seen]]
    BY DEF WalkPage, Yielded
  <1>3. DOMAIN walk = Walkers /\ IsWalk(c) /\ Walked(c, build.impl, held) /\ build \in BuildType
    BY DEF WalkInv, StoreInv
  <1>4. new = IF refused \/ outcome = "failed" THEN [c EXCEPT !.cursor = End, !.failed = TRUE]
              ELSE [c EXCEPT !.cursor = page.cursor, !.seen = seen]
    BY <1>2, <1>3
  <1>5. walk' = [walk EXCEPT ![w] = new]
    BY <1>2, <1>4
  <1>6. build.impl \in {"s3", "double"}
    BY <1>3 DEF BuildType
  <1>7. /\ c.kind \in {"objects", "versions"} /\ c.bucket \in Buckets /\ c.limit \in Nat /\ c.cursor.n \in Nat
    BY <1>1, <1>3, CursorIs DEF IsWalk
  <1>8. refused => build.impl = "s3"
    OBVIOUS
  <1>9. /\ build.impl = "s3" => page = S3Page(c.kind, c.bucket, c.cursor, c.limit, n, time)
        /\ build.impl = "double" => page = Paginate(c.kind, c.bucket, c.cursor, c.limit)
    BY <1>6
  <1>10. held = objects[c.bucket] /\ seen = c.seen \o Yielded(c.kind, page.found) /\ written \in Nat
    BY DEF StoreInv
  <1> HIDE DEF c, held, page, refused, seen, new
  <1>11. c = [kind |-> c.kind, bucket |-> c.bucket, limit |-> c.limit, cursor |-> c.cursor,
              seen |-> c.seen, stable |-> c.stable, disturbed |-> c.disturbed, failed |-> c.failed]
    BY <1>3, WalkEta
  <1>12. IsWalk(new) /\ Walked(new, build.impl, held) /\ new.bucket = c.bucket
    <2>1. CASE refused \/ outcome = "failed"
      <3>1. build.impl = "s3"
        BY <1>1, <1>8, <2>1
      <3>2. new = [c EXCEPT !.cursor = End, !.failed = TRUE]
        BY <1>4, <2>1
      <3>3. new = [kind |-> c.kind, bucket |-> c.bucket, limit |-> c.limit, cursor |-> End,
                   seen |-> c.seen, stable |-> c.stable, disturbed |-> c.disturbed, failed |-> TRUE]
        BY <1>11, <3>2, WalkFails
      <3>4. new.bucket = c.bucket
        BY <3>3, WalkFields
      <3>5. IsWalk(new) /\ Walked(new, "s3", held)
        BY <1>1, <1>3, <3>1, <3>3, FailedWalk
      <3> QED  BY <3>1, <3>4, <3>5
    <2>2. CASE ~ (refused \/ outcome = "failed")
      <3>1. new = [c EXCEPT !.cursor = page.cursor, !.seen = seen]
        BY <1>4, <2>2
      <3>2. new = [kind |-> c.kind, bucket |-> c.bucket, limit |-> c.limit, cursor |-> page.cursor,
                   seen |-> seen, stable |-> c.stable, disturbed |-> c.disturbed, failed |-> c.failed]
        BY <1>11, <3>1, WalkMoves
      <3>3. new.bucket = c.bucket
        BY <3>2, WalkFields
      <3>4. CASE build.impl = "s3"
        <4>1. PageFrom(c.kind, held, c.cursor.n, page) /\ page.found \in Seq(Entries(written))
          BY <1>7, <1>9, <1>10, <3>4, S3PageIs
        <4>2. IsWalk(new) /\ Walked(new, "s3", held)
          BY <1>1, <1>3, <1>10, <3>2, <3>4, <4>1, PagedByKey
        <4> QED  BY <3>3, <3>4, <4>2
      <3>5. CASE build.impl = "double"
        <4>1. IsWalk(new) /\ Walked(new, "double", held)
          BY <1>1, <1>3, <1>9, <1>10, <3>2, <3>5, PagedByOffset
        <4> QED  BY <3>3, <3>5, <4>1
      <3> QED  BY <1>6, <3>4, <3>5
    <2> QED  BY <2>1, <2>2
  <1>13. Walked(new, build.impl, objects[new.bucket])
    BY <1>10, <1>12
  <1> QED  BY <1>1, <1>5, <1>12, <1>13, OneWalk

LEMMA WalkStep ==
    ASSUME StoreInv, BatchInv, WalkInv, [Next]_vars
    PROVE  WalkInv'
  <1>1. ASSUME build' = build, Stores PROVE WalkInv'
    <2>1. PICK b \in Buckets, n \in Nat : \E new : Write(b, new, n) /\ IsBucket(new, written + n)
      BY <1>1 DEF Stores
    <2>2. PICK new : Write(b, new, n)
      BY <2>1
    <2>3. Changed(b, new)
      BY <2>2 DEF Write
    <2> QED  BY <1>1, <2>3, WalksChanged
  <1>2. ASSUME build' = build, NoWrite PROVE WalkInv'
    BY <1>2, SameWalks DEF NoWrite
  <1>3. CASE UNCHANGED vars
    BY <1>3, SameWalks DEF vars
  <1>4. CASE \E h \in Writers : Writing(h) \/ Copying(h) \/ DoubleCopyPut(h) \/ BatchReturn(h)
    <2>1. PICK h \in Writers : Writing(h) \/ Copying(h) \/ DoubleCopyPut(h) \/ BatchReturn(h)
      BY <1>4
    <2>2. build' = build /\ (Stores \/ NoWrite)
      <3>1. CASE BatchReturn(h)
        BY <3>1 DEF BatchReturn
      <3> QED  BY <2>1, <3>1, WritingEffect, CopyingEffect, CopyPutEffect
    <2> QED  BY <1>1, <1>2, <2>2
  <1>5. CASE \E w \in Walkers : Walking(w) \/ WalkReturn(w)
    <2>1. PICK w \in Walkers : Walking(w) \/ WalkReturn(w)
      BY <1>5
    <2>2. CASE WalkReturn(w)
      <3>1. walk' = [walk EXCEPT ![w] = NoWalk] /\ build' = build /\ objects' = objects
        BY <2>2 DEF WalkReturn
      <3> QED  BY <3>1, IdleWalk, OneWalk
    <2>3. CASE \E kind \in {"objects", "versions"}, b \in Busy, limit \in Limits, cursor \in {Start, Foreign} :
                  WalkStart(w, kind, b, limit, cursor)
      BY <2>3, WalkStartKeeps
    <2>4. CASE \E outcome \in Outcomes, n \in 1..MaxKeysPerPage, time \in Clocks : WalkPage(w, outcome, n, time)
      BY <2>4, WalkPageKeeps
    <2> QED  BY <2>1, <2>2, <2>3, <2>4 DEF Walking
  <1>6. CASE Uploading
    BY <1>1, <1>6, UploadingEffect
  <1> QED  BY <1>3, <1>4, <1>5, <1>6 DEF Next

LEMMA WalkInit == Init => WalkInv
  <1> SUFFICES ASSUME Init PROVE WalkInv
    OBVIOUS
  <1>1. DOMAIN walk = Walkers /\ \A w \in Walkers : walk[w] = NoWalk
    BY DEF Init
  <1> QED  BY <1>1, IdleWalk DEF WalkInv

(* The whole of the inductive invariant: the store, the batches and the    *)
(* walks are what they should be after every step of every action.         *)
THEOREM InvariantHolds == Spec => [](StoreInv /\ BatchInv /\ WalkInv)
  <1>1. StoreInv /\ BatchInv /\ WalkInv /\ [Next]_vars => (StoreInv /\ BatchInv /\ WalkInv)'
    BY StoreStep, BatchStep, WalkStep
  <1>2. Init => StoreInv /\ BatchInv /\ WalkInv
    BY StoreInit, WalkInit
  <1> QED  BY <1>1, <1>2, PTL DEF Spec

(* A walk on S3 yields no key and no version twice, and one of the objects *)
(* that reached its end has yielded every key that held an object          *)
(* throughout, whatever is stored and removed between its pages; so does   *)
(* one on the double while nothing changes (Objects, List, paginate).      *)
THEOREM WalksListOnce == Spec => []ListedOnce
  <1>1. ASSUME StoreInv, WalkInv PROVE ListedOnce
    <2> SUFFICES ASSUME NEW w \in Walkers, build.impl = "s3" \/ ~walk[w].disturbed
                 PROVE  /\ Distinct(walk[w].seen)
                        /\ (walk[w].kind = "objects" /\ walk[w].cursor = End /\ ~walk[w].failed) =>
                               walk[w].stable \subseteq ToSet(walk[w].seen)
      BY Zenon DEF ListedOnce, Distinct
    <2> DEFINE c == walk[w]
               held == objects[c.bucket]
               all == ListingOf(c.kind, held)
               E == Entries(written)
    <2>1. IsWalk(c) /\ Walked(c, build.impl, held) /\ build.impl \in {"s3", "double"}
      BY <1>1 DEF WalkInv, StoreInv, BuildType
    <2>2. CASE build.impl = "s3"
      BY <2>1, <2>2 DEF Walked, ByKey
    <2>3. CASE build.impl = "double"
      <3>1. ByOffset(c, all) /\ c.stable \subseteq Items(c.kind, held)
        BY <2>1, <2>3 DEF Walked
      <3>2. /\ c.kind \in {"idle", "objects", "versions"} /\ c.bucket \in Buckets /\ c.cursor \in Cursors
            /\ c.kind = "idle" => c.cursor = End /\ c.seen = <<>>
        BY <2>1 DEF IsWalk
      <3>3. written \in Nat /\ IsBucket(held, written)
        BY <1>1, <3>2 DEF StoreInv
      <3>4. all \in Seq(E) /\ Ordered(c.kind, all) /\ {ItemOf(c.kind, x) : x \in ToSet(all)} = Items(c.kind, held)
        BY <3>3, ListingIs
      <3>5. \A x \in E : x.key \in Int /\ x.id \in Int
        BY <3>3, EntryTypes
      <3> HIDE DEF c, held, all, E
      <3>6. Distinct(Yielded(c.kind, all)) /\ ToSet(Yielded(c.kind, all)) = Items(c.kind, held)
        <4>1. Distinct(Yielded(c.kind, all))
          BY <3>4, <3>5, OrderedIsDistinct
        <4>2. ToSet(Yielded(c.kind, all)) = {ItemOf(c.kind, x) : x \in ToSet(all)}
          BY YieldedSet
        <4> QED  BY <3>4, <4>1, <4>2
      <3>7. CASE c.kind = "idle"
        <4>1. c.seen = <<>>
          BY <3>2, <3>7
        <4>2. Distinct(<<>>)
          BY DEF Distinct
        <4> QED  BY <3>7, <4>1, <4>2 DEF c
      <3>8. CASE c.kind # "idle" /\ c.cursor = End
        <4>1. c.seen = Yielded(c.kind, all)
          BY <3>1, <3>8 DEF ByOffset
        <4> QED  BY <3>1, <3>6, <4>1 DEF c
      <3>9. CASE c.cursor # End
        <4> DEFINE n == Offset(c.cursor)
                   part == SubSeq(all, 1, n)
        <4>1. n <= Len(all) /\ c.seen = Yielded(c.kind, part)
          BY <3>1, <3>9 DEF ByOffset
        <4>2. n \in 0 .. Len(all)
          <5>1. n \in Nat /\ Len(all) \in Nat
            BY <3>2, <3>4, CursorIs
          <5> HIDE DEF n, part
          <5> QED  BY <4>1, <5>1
        <4> HIDE DEF n
        <4>3. SubSeq(all, 1, n) \in Seq(E)
          BY <3>4, <4>2, BeginningIs
        <4>4. Ordered(c.kind, SubSeq(all, 1, n))
          BY <3>4, <4>2, BeginningIs
        <4>5. part \in Seq(E) /\ Ordered(c.kind, part)
          BY <4>3, <4>4
        <4> HIDE DEF part
        <4>6. Distinct(Yielded(c.kind, part))
          BY <3>5, <4>5, OrderedIsDistinct
        <4> QED  BY <3>9, <4>1, <4>6 DEF c
      <3> QED  BY <3>7, <3>8, <3>9
    <2> QED  BY <2>1, <2>2, <2>3
  <1>2. StoreInv /\ BatchInv /\ WalkInv => ListedOnce
    BY <1>1
  <1> QED  BY <1>2, InvariantHolds, PTL

-----------------------------------------------------------------------------
(* A page of versions, as one bucket lists them.                           *)

(* The positions of a list, put in order, are the list's own.              *)
LEMMA AllPlaces ==
    ASSUME NEW S, NEW s \in Seq(S), NEW places, places = DOMAIN s
    PROVE  AtPlaces(s, places) = s
  <1> DEFINE m == Len(s)
             part == AtPlaces(s, places)
  <1>1. places \in SUBSET DOMAIN s
    OBVIOUS
  <1>2. m \in Nat /\ DOMAIN s = 1 .. m /\ s = [p \in 1 .. m |-> s[p]]
    OBVIOUS
  <1>3. PICK n, q : Passes(s, places, part, q, n)
    BY <1>1, AtPlacesPasses
  <1> HIDE DEF part, m
  <1>4. n = Cardinality(places) /\ n \in Nat /\ q \in [1 .. n -> places] /\ {q[p] : p \in 1 .. n} = places
        /\ (\A i, j \in 1 .. n : i < j => q[i] < q[j]) /\ part = [p \in 1 .. n |-> s[q[p]]]
    BY <1>3 DEF Passes
  <1>5. n = m /\ places = 1 .. m
    <2>1. Cardinality(1 .. m) = m
      BY <1>2, FS_Interval
    <2> QED  BY <1>2, <1>4, <2>1
  <1> DEFINE Bad == {i \in 1 .. m : q[i] # i}
  <1>6. ASSUME Bad # {} PROVE FALSE
    <2>1. PICK k \in Bad : \A x \in Bad : k <= x
      <3>1. Bad \in SUBSET Nat
        BY <1>2
      <3> HIDE DEF Bad
      <3> QED  BY <1>6, <3>1, Least
    <2>2. k \in 1 .. m /\ q[k] # k
      BY <2>1
    <2>3. ASSUME NEW i \in 1 .. m, i < k PROVE q[i] = i
      <3>1. ~ (k <= i)
        BY <1>2, <2>2, <2>3
      <3>2. i \notin Bad
        <4> HIDE DEF Bad
        <4> QED  BY <2>1, <3>1
      <3> QED  BY <3>2
    <2> HIDE DEF Bad
    <2>4. \A i \in 1 .. m : q[i] \in 1 .. m
      BY <1>4, <1>5
    <2>5. q[k] > k
      <3>1. CASE k = 1
        BY <1>2, <2>2, <2>4, <3>1
      <3>2. CASE k # 1
        <4>1. k - 1 \in 1 .. m /\ k - 1 < k
          BY <1>2, <2>2, <3>2
        <4>2. q[k - 1] = k - 1 /\ q[k - 1] < q[k]
          BY <1>4, <1>5, <2>2, <2>3, <4>1
        <4> QED  BY <1>2, <2>2, <2>4, <4>2
      <3> QED  BY <3>1, <3>2
    <2>6. PICK p \in 1 .. m : q[p] = k
      BY <1>4, <1>5, <2>2
    <2>7. ~ (p < k)
      BY <2>2, <2>3, <2>6
    <2>8. p # k
      BY <2>2, <2>6
    <2>9. k < p
      BY <1>2, <2>2, <2>7, <2>8
    <2>10. q[k] < q[p]
      BY <1>4, <1>5, <2>2, <2>9
    <2> QED  BY <1>2, <2>2, <2>4, <2>5, <2>6, <2>10
  <1>7. \A i \in 1 .. m : q[i] = i
    BY <1>6
  <1>8. part = [p \in 1 .. m |-> s[p]]
    BY <1>4, <1>5, <1>7
  <1> QED  BY <1>2, <1>8 DEF part

(* How many entries a first page of the store's own size has.              *)
LEMMA FirstCount ==
    ASSUME NEW n \in 1 .. MaxKeysPerPage, NEW left \in Nat
    PROVE  Min({n, PageLimit(0), left}) = Min({n, left}) /\ Min({n, left}) \in 0 .. left
  <1>1. MaxKeysPerPage \in Nat /\ n \in Nat /\ n <= MaxKeysPerPage
    BY BucketAssumption
  <1>2. PageLimit(0) = MaxKeysPerPage
    BY DEF PageLimit
  <1> DEFINE count == Min({n, MaxKeysPerPage, left})
  <1>3. count \in Nat /\ count \in {n, MaxKeysPerPage, left} /\ count <= n /\ count <= MaxKeysPerPage /\ count <= left
    BY <1>1, SmallestOf
  <1> HIDE DEF count
  <1>4. Min({n, left}) = IF n <= left THEN n ELSE left
    BY <1>1, SmallerOf
  <1>5. \A m : m \in Nat /\ m \in {n, MaxKeysPerPage, left} /\ m <= n /\ m <= MaxKeysPerPage /\ m <= left =>
                 m = IF n <= left THEN n ELSE left
    BY <1>1
  <1>6. count = IF n <= left THEN n ELSE left
    BY <1>3, <1>5, Zenon
  <1>7. (IF n <= left THEN n ELSE left) \in 0 .. left
    BY <1>1
  <1>8. count = Min({n, left}) /\ Min({n, left}) \in 0 .. left
    BY <1>4, <1>6, <1>7, Zenon
  <1> QED  BY <1>2, <1>8, Zenon DEF count

(* A page of versions has what the bucket's listing begins with, nothing   *)
(* lost in merging the two lists of S3's answer, in the order of the keys  *)
(* and newest first within a key as far as the times tell; of those made   *)
(* at one time the markers come first, and versions, or markers, keep the  *)
(* order they were made in (versionsOf, takeVersionNext).                  *)
THEOREM PagesAreInOrder == Spec => []VersionsInOrder
  <1>1. ASSUME StoreInv, NEW b \in Buckets, NEW n \in 1 .. MaxKeysPerPage, NEW time \in Clocks,
               NEW page, page = S3Page("versions", b, Start, 0, n, time),
               NEW whole, whole = Versions(b)
        PROVE  /\ ToSet(page.found) = {whole[i] : i \in 1 .. Min({n, Len(whole)})}
               /\ InTime(time, page.found)
    <2> DEFINE E == Entries(written)
               rest == AtPlaces(whole, {i \in DOMAIN whole : whole[i].key > Start.n})
               count == Min({n, PageLimit(0), Len(rest)})
               slice == SubSeq(rest, 1, count)
               found == VersionsOf(slice, time)
    <2>1. Listable("versions", b) = whole
      BY <1>1 DEF Listable
    <2>2. page.found = found
      <3>1. page = IF PageEnds(count < Len(rest), found, 0) THEN [found |-> found, cursor |-> End]
                   ELSE [found |-> found, cursor |-> ResumeAfter(found)]
        BY <1>1, <2>1 DEF S3Page
      <3> HIDE DEF found
      <3> QED  BY <3>1
    <2>3. written \in Nat /\ written <= MaxWrites /\ IsBucket(objects[b], written)
      BY <1>1, BucketAssumption DEF StoreInv
    <2>4. whole = ListingOf("versions", objects[b])
      BY <2>1, ListableIs
    <2>5. whole \in Seq(E) /\ Ordered("versions", whole)
      BY <2>3, <2>4, ListingIs
    <2>6. \A x \in E : x.key > 0
      BY <2>3, EntryTypes
    <2> HIDE DEF E
    <2>7. rest = whole
      <3>1. Start.n = 0
        BY CursorIs
      <3>2. \A i \in DOMAIN whole : whole[i].key > 0
        BY <2>5, <2>6
      <3>3. {i \in DOMAIN whole : whole[i].key > Start.n} = DOMAIN whole
        BY <3>1, <3>2
      <3>4. AtPlaces(whole, DOMAIN whole) = whole
        BY <2>5, AllPlaces
      <3> QED  BY <3>3, <3>4
    <2>8. Len(whole) \in Nat
      BY <2>5
    <2>9. count = Min({n, Len(whole)}) /\ count \in 0 .. Len(whole)
      BY <2>7, <2>8, FirstCount
    <2> HIDE DEF rest, count
    <2>10. slice \in Seq(E) /\ DOMAIN slice = 1 .. count /\ Ordered("versions", slice)
           /\ \A i \in 1 .. count : slice[i] = whole[i]
      <3>1. SubSeq(whole, 1, count) \in Seq(E)
        BY <2>5, <2>9, BeginningIs
      <3>2. DOMAIN SubSeq(whole, 1, count) = 1 .. count
        BY <2>5, <2>9, BeginningIs
      <3>3. Ordered("versions", SubSeq(whole, 1, count))
        BY <2>5, <2>9, BeginningIs
      <3>4. \A i \in 1 .. count : SubSeq(whole, 1, count)[i] = whole[i]
        BY <2>5, <2>9, BeginningIs
      <3> QED  BY <2>7, <3>1, <3>2, <3>3, <3>4, Zenon
    <2> HIDE DEF slice
    <2>11. found = VersionsOf(slice, time)
      OBVIOUS
    <2> HIDE DEF found
    <2>12. InTime(time, found) /\ ToSet(found) = ToSet(slice)
      BY <1>1, <2>3, <2>10, <2>11, VersionsOfIs DEF E
    <2>13. ToSet(slice) = {whole[i] : i \in 1 .. count}
      BY <2>10 DEF ToSet
    <2> QED  BY <2>2, <2>9, <2>12, <2>13
  <1>2. ASSUME StoreInv PROVE VersionsInOrder
    <2> SUFFICES ASSUME NEW b \in Buckets, NEW n \in 1 .. MaxKeysPerPage, NEW time \in Clocks
                 PROVE  /\ ToSet(S3Page("versions", b, Start, 0, n, time).found)
                             = {Versions(b)[i] : i \in 1 .. Min({n, Len(Versions(b))})}
                        /\ InTime(time, S3Page("versions", b, Start, 0, n, time).found)
      BY Zenon DEF VersionsInOrder, InTime, Newer
    <2> QED  BY <1>1, <1>2
  <1> QED  BY <1>2, StoreHolds, PTL

(* Versions carry identifiers handed out once and stay in the order they   *)
(* were made in, whatever is stored, removed and copied, and every batch   *)
(* and walk is of a bucket there is (Put, Delete, DeleteMany).             *)
THEOREM StaysWellTyped == Spec => []TypeOK
  <1>1. ASSUME StoreInv, BatchInv, WalkInv PROVE TypeOK
    <2>1. build \in BuildType /\ written \in 0 .. MaxWrites /\ faults \in 0 .. MaxFaults /\ MaxWrites \in Nat
      BY <1>1, BucketAssumption DEF StoreInv
    <2>2. ASSUME NEW b \in Buckets, NEW k \in Keys
          PROVE  /\ \A i \in DOMAIN objects[b][k] : objects[b][k][i] \in Version /\ objects[b][k][i].id <= written
                 /\ \A i, j \in DOMAIN objects[b][k] : i < j => objects[b][k][i].id < objects[b][k][j].id
      <3>1. IsHeld(objects[b][k], written)
        BY <1>1 DEF StoreInv, IsBucket
      <3>2. objects[b][k] \in Seq(MadeBy(written))
        BY <3>1 DEF IsHeld
      <3>3. \A x \in MadeBy(written) : x \in Version /\ x.id <= written
        <4>1. 1 .. written \subseteq 1 .. MaxWrites /\ \A i \in 1 .. written : i <= written
          BY <2>1
        <4> QED  BY <4>1 DEF MadeBy, Version
      <3> DEFINE M == MadeBy(written)
                 held == objects[b][k]
      <3> HIDE DEF M
      <3>4. held \in Seq(M) /\ \A x \in M : x \in Version /\ x.id <= written
        BY <3>2, <3>3 DEF M
      <3>5. \A i \in DOMAIN held : held[i] \in M
        BY <3>4
      <3> QED  BY <3>1, <3>4, <3>5 DEF IsHeld
    <2>3. \A h \in Writers : batch[h].bucket \in Buckets /\ batch[h].next \in Nat
      BY <1>1 DEF BatchInv, IsBatch
    <2>4. \A w \in Walkers : walk[w].limit \in Nat /\ walk[w].bucket \in Buckets
      BY <1>1 DEF WalkInv, IsWalk
    <2> QED  BY <2>1, <2>2, <2>3, <2>4, Zenon DEF TypeOK
  <1>2. StoreInv /\ BatchInv /\ WalkInv => TypeOK
    BY <1>1
  <1> QED  BY <1>2, InvariantHolds, PTL

=============================================================================
