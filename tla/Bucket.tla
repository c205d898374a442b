------------------------------- MODULE Bucket -------------------------------
(***************************************************************************)
(* Object storage: the S3 store of resources/aws/bucket behind the         *)
(* portable contract of resources/bucket, and the in-memory double of      *)
(* celeritytest that a test uses in its place.  Handlers store, remove,    *)
(* copy and read objects, remove many in requests of a limited size, and   *)
(* page through the objects or the versions of a bucket while others       *)
(* change it.  A request can fail before the store applies it, or be       *)
(* applied and its answer lost.                                            *)
(*                                                                         *)
(* A key is its place in the order a listing reads; an object's content is *)
(* its length, since a version identifier tells two contents apart.        *)
(***************************************************************************)
EXTENDS Integers, Sequences, SequencesExt, FiniteSets, FiniteSetsExt, Places

CONSTANTS
    NKeys,          \* the keys are 1..NKeys
    Buckets, Home,  \* the buckets, and the one the deployment created
    Regions, OwnRegion, NoRegion, RegionOf,  \* where each bucket really is
    Writers, Walkers,      \* the invocations that change, and that list
    Lengths,        \* the content lengths stored
    Attributes,     \* the pairs <<content type, metadata>> callers store
    Starts, Spans,  \* the starts and lengths of the ranges read
    RefLists,       \* the lists of references handed to DeleteMany
    MaxDeletes,     \* maxDeletesPerRequest
    MaxKeysPerPage, \* maxKeysPerPage
    Limits,         \* the page limits callers ask for; 0 leaves it to the store
    Builds,         \* the stores a behaviour may run on
    Busy,           \* bound: the buckets changed other than by a copy, and listed
    MaxWrites,      \* bound: version identifiers handed out
    MaxFaults       \* bound: requests that fail or lose their answer

Keys      == 1..NKeys
NoVersion == 0      \* an empty VersionID: the current one
Bare      == <<"", "">>        \* neither a content type nor metadata
\* What an object may carry: what a caller stores, or a signed type alone.
Carriable == Attributes \cup {Bare} \cup {<<a[1], "">> : a \in Attributes}
Version   == [id : 1..MaxWrites, marker : BOOLEAN, length : Lengths \cup {0}, attrs : Carriable]
Nothing   == [id |-> 0, marker |-> TRUE, length |-> 0, attrs |-> Bare]
\* impl: "s3" | "double"; handle: "traced" as resources.Bucket hands one out, or
\* "raw" as a provider driven directly does; recorded: whether the deployment
\* recorded the region of a bucket outside the application's own.
BuildType == [impl : {"s3", "double"}, versioned : BOOLEAN,
              handle : {"traced", "raw"}, recorded : BOOLEAN]

ASSUME BucketAssumption ==
    /\ NKeys \in Nat \ {0} /\ Home \in Buckets /\ Busy \subseteq Buckets
    /\ MaxDeletes \in Nat \ {0} /\ MaxKeysPerPage \in Nat \ {0}
    /\ MaxWrites \in Nat /\ MaxFaults \in Nat
    /\ RegionOf \in [Buckets -> Regions] /\ OwnRegion \in Regions /\ NoRegion \notin Regions
    /\ RegionOf[Home] = OwnRegion
    /\ Lengths \subseteq Nat /\ Starts \subseteq Nat /\ Spans \subseteq Int /\ Limits \subseteq Nat
    /\ \A refs \in RefLists : refs \in Seq([key : Keys, version : Nat])
    /\ Builds \subseteq BuildType

VARIABLES
    build,      \* the store this behaviour runs on
    objects,    \* per bucket and key: its versions, oldest first
    written,    \* version identifiers handed out
    batch,      \* per writer: the DeleteMany under way
    walk,       \* per walker: the Objects or AllVersions under way
    faults      \* failures so far

vars == <<build, objects, written, batch, walk, faults>>

-----------------------------------------------------------------------------
(* What a bucket holds                                                     *)

Newest(b, k)  == IF objects[b][k] = <<>> THEN Nothing ELSE Last(objects[b][k])
Current(b, k) == LET newest == Newest(b, k) IN IF newest.marker THEN Nothing ELSE newest

\* The version a request names, or the newest; a marker is found like any other.
Find(b, k, v) ==
    IF v = NoVersion THEN Newest(b, k)
    ELSE LET held  == objects[b][k]
             named == {i \in DOMAIN held : held[i].id = v}
         IN  IF named = {} THEN Nothing ELSE held[Min(named)]

\* Storing adds a version, and replaces the only one without versioning.
Stored(held, version) == IF build.versioned THEN Append(held, version) ELSE <<version>>

Marker(id) == [id |-> id, marker |-> TRUE, length |-> 0, attrs |-> Bare]

Without(held, v) == AtPlaces(held, {i \in DOMAIN held : held[i].id # v})

\* Removing what a request names from the versions of a key.  S3 marks a key
\* deleted whether or not it held anything, the double only one that did.
S3Removed(held, v, id) ==
    CASE v # NoVersion                      -> Without(held, v)
      [] v = NoVersion /\ build.versioned   -> Append(held, Marker(id))
      [] v = NoVersion /\ ~build.versioned  -> <<>>

DoubleRemoved(held, v, id) ==
    CASE v # NoVersion -> Without(held, v)
      [] v = NoVersion /\ (held = <<>> \/ Last(held).marker)  -> held
      [] v = NoVersion /\ held # <<>> /\ ~Last(held).marker   -> Append(held, Marker(id))

Removed(held, v, id) ==
    IF build.impl = "s3" THEN S3Removed(held, v, id) ELSE DoubleRemoved(held, v, id)

-----------------------------------------------------------------------------
(* Where a request goes, and what its answer is told as                    *)

\* What the deployment recorded for a bucket, which is nothing for its own.
RecordedRegion(b) == IF b = Home \/ ~build.recorded THEN NoRegion ELSE RegionOf[b]

\* The region of the client a bucket is reached with.
ClientRegion(b) == IF RecordedRegion(b) = NoRegion THEN OwnRegion ELSE RecordedRegion(b)

AbsentCodes == {"NoSuchKey", "NoSuchVersion", "NotFound"}
Misrouted   == {"PermanentRedirect", "AuthorizationHeaderMalformed"}

Wrap(code) ==
    CASE code = "OK"             -> "ok"
      [] code \in AbsentCodes    -> "not_found"
      [] code \in Misrouted      -> "misrouted"
      [] OTHER                   -> "failed"

\* Mutant: a read distinguishes no more than a write does.
WrapRead_SameAsWrap(code) == Wrap(code)

\* A read of a version that is a deletion marker is a 405 and an absence.
WrapRead(code) == IF code = "MethodNotAllowed" THEN "not_found" ELSE Wrap(code)

-----------------------------------------------------------------------------
(* Reads                                                                   *)

Ranges == [start : Starts, span : Spans]
Whole(r) == r.start = 0 /\ r.span = 0

NoHeader == <<>>
ToTheEnd == -1

\* The positions of the first and the last byte wanted, both included.
RangeHeader(r) ==
    IF Whole(r) THEN NoHeader
    ELSE IF r.span <= 0 THEN <<r.start, ToTheEnd>> ELSE <<r.start, r.start + r.span - 1>>

\* The bytes HTTP serves for a range header, of content of that length.
Served(length, header) ==
    IF header = NoHeader THEN 0..(length - 1)
    ELSE header[1]..(IF header[2] = ToTheEnd THEN length - 1 ELSE Min({header[2], length - 1}))

\* The double cuts the slice itself, and answers nothing beyond the end.
ApplyRange(length, r) ==
    IF Whole(r) THEN 0..(length - 1)
    ELSE LET start == Min({r.start, length})
             end   == IF r.span > 0 THEN Min({start + r.span, length}) ELSE length
         IN  start..(end - 1)

\* S3's code for a read of one version, as a GetObject or as a HeadObject.
ReadCode(b, k, v, header, head) ==
    LET held == Find(b, k, v)
    IN  CASE ClientRegion(b) # RegionOf[b]     -> "PermanentRedirect"
          [] ClientRegion(b) = RegionOf[b] /\ (held = Nothing \/ (held.marker /\ v = NoVersion)) ->
               IF head THEN "NotFound" ELSE IF v = NoVersion THEN "NoSuchKey" ELSE "NoSuchVersion"
          [] ClientRegion(b) = RegionOf[b] /\ held # Nothing /\ held.marker /\ v # NoVersion ->
               "MethodNotAllowed"
          [] ClientRegion(b) = RegionOf[b] /\ ~held.marker ->
               IF header # NoHeader /\ header[1] >= held.length THEN "InvalidRange" ELSE "OK"

NoAnswer(told) == [told |-> told, id |-> 0, part |-> {}, size |-> 0, attrs |-> Bare]

\* Size is the whole object's: the total of Content-Range where a part was read.
ObjectSize(length, part, header) == IF header = NoHeader THEN Cardinality(part) ELSE length

S3Get(b, k, v, r) ==
    LET told == WrapRead(ReadCode(b, k, v, RangeHeader(r), FALSE))
        held == Find(b, k, v)
        part == Served(held.length, RangeHeader(r))
    IN  IF told # "ok" THEN NoAnswer(told)
        ELSE [told |-> told, id |-> held.id, part |-> part, attrs |-> held.attrs,
              size |-> ObjectSize(held.length, part, RangeHeader(r))]

DoubleGet(b, k, v, r) ==
    LET held == Find(b, k, v)
    IN  IF held.marker THEN NoAnswer("not_found")
        ELSE [told |-> "ok", id |-> held.id, part |-> ApplyRange(held.length, r),
              attrs |-> held.attrs, size |-> held.length]

Get(b, k, v, r) == IF build.impl = "s3" THEN S3Get(b, k, v, r) ELSE DoubleGet(b, k, v, r)

\* Info reads no content: its size is the length HeadObject reports.
S3Info(b, k, v) ==
    LET told == WrapRead(ReadCode(b, k, v, NoHeader, TRUE))
        held == Find(b, k, v)
    IN  IF told # "ok" THEN NoAnswer(told)
        ELSE [told |-> told, id |-> held.id, part |-> {}, attrs |-> held.attrs, size |-> held.length]

DoubleInfo(b, k, v) ==
    LET held == Find(b, k, v)
    IN  IF held.marker THEN NoAnswer("not_found")
        ELSE [told |-> "ok", id |-> held.id, part |-> {}, attrs |-> held.attrs, size |-> held.length]

Info(b, k, v) == IF build.impl = "s3" THEN S3Info(b, k, v) ELSE DoubleInfo(b, k, v)

\* Presence: an absence is the answer no, and any other failure stays one.
S3Exists(b, k, v) ==
    LET told == S3Info(b, k, v).told
    IN  CASE told = "ok" -> "yes" [] told = "not_found" -> "no" [] OTHER -> told

DoubleExists(b, k, v) == IF Find(b, k, v).marker THEN "no" ELSE "yes"

Exists(b, k, v) == IF build.impl = "s3" THEN S3Exists(b, k, v) ELSE DoubleExists(b, k, v)

-----------------------------------------------------------------------------
(* Pages of a listing                                                      *)

Entry(k, x) == [key |-> k, id |-> x.id, marker |-> x.marker, latest |-> FALSE]

\* Every key's versions, newest first, in the order of the keys: the order S3
\* lists in.
Versions(b) ==
    FlattenSeq([k \in Keys |->
        LET held == objects[b][k]
        IN  [i \in DOMAIN held |->
               [Entry(k, held[Len(held) + 1 - i]) EXCEPT !.latest = (i = 1)]]])

\* The entry of the current object of each key that has one.
Objects(b) ==
    LET all == Versions(b)
    IN  AtPlaces(all, {i \in DOMAIN all : all[i].latest /\ ~all[i].marker})

Listable(kind, b) == IF kind = "objects" THEN Objects(b) ELSE Versions(b)

\* Positions: where a listing begins, a key, a place in the double's listing,
\* something this store did not produce, and the end.
Cursor(at, n) == [at |-> at, n |-> n]
Start   == Cursor("start", 0)
Foreign == Cursor("foreign", 0)
End     == Cursor("end", 0)

\* How many entries one request asks for; the store's own page is the ceiling.
PageLimit(limit) == IF limit > 0 THEN Min({limit, MaxKeysPerPage}) ELSE MaxKeysPerPage

\* The times versions were made at, as coarse as S3 reports them: two writes may
\* share one.
Clocks == {time \in [1..MaxWrites -> 0..1] :
             \A i, j \in 1..MaxWrites : i < j => time[i] <= time[j]}

\* Mutant: within a key the older of the two goes first.
TakeVersionNext_Older(version, marker, time) ==
    IF version.key # marker.key THEN version.key < marker.key
    ELSE time[version.id] < time[marker.id]

\* The two lists of an answer are merged in one pass: the smaller key first, and
\* within a key the version where it is newer than the marker.
TakeVersionNext(version, marker, time) ==
    IF version.key # marker.key THEN version.key < marker.key
    ELSE time[version.id] > time[marker.id]

VersionsOf(answer, time) ==
    LET vs == AtPlaces(answer, {i \in DOMAIN answer : ~answer[i].marker})
        ms == AtPlaces(answer, {i \in DOMAIN answer : answer[i].marker})
        merged[p \in (1..(Len(vs) + 1)) \X (1..(Len(ms) + 1))] ==
            IF p[1] > Len(vs) THEN SubSeq(ms, p[2], Len(ms))
            ELSE IF p[2] > Len(ms) THEN SubSeq(vs, p[1], Len(vs))
            ELSE IF TakeVersionNext(vs[p[1]], ms[p[2]], time)
                 THEN <<vs[p[1]]>> \o merged[<<p[1] + 1, p[2]>>]
                 ELSE <<ms[p[2]]>> \o merged[<<p[1], p[2] + 1>>]
    IN  merged[<<1, 1>>]

\* Mutant: a page that is not full is taken for the last.
PageEnds_Short(truncated, found, limit) == ~truncated \/ Len(found) < PageLimit(limit)

\* A page ends the listing when S3 has no more or answered with nothing.
PageEnds(truncated, found, limit) == ~truncated \/ found = <<>>

\* The last key handed out, rather than the token S3 offers.
ResumeAfter(found) == Cursor("key", Last(found).key)

\* One page from S3, which lists what comes after a key and may answer with
\* fewer entries than it was asked for, though not with none while it has more.
S3Page(kind, b, cursor, limit, n, time) ==
    LET all   == Listable(kind, b)
        rest  == AtPlaces(all, {i \in DOMAIN all : all[i].key > cursor.n})
        count == Min({n, PageLimit(limit), Len(rest)})
        slice == SubSeq(rest, 1, count)
        found == IF kind = "objects" THEN slice ELSE VersionsOf(slice, time)
    IN  IF PageEnds(count < Len(rest), found, limit)
        THEN [found |-> found, cursor |-> End]
        ELSE [found |-> found, cursor |-> ResumeAfter(found)]

\* The double's cursor is an offset; one it cannot read is the beginning.
Paginate(kind, b, cursor, limit) ==
    LET all   == Listable(kind, b)
        start == Min({IF cursor.at = "offset" THEN cursor.n ELSE 0, Len(all)})
        end   == IF limit > 0 THEN Min({start + limit, Len(all)}) ELSE Len(all)
    IN  [found  |-> SubSeq(all, start + 1, end),
         cursor |-> IF end < Len(all) THEN Cursor("offset", end) ELSE End]

-----------------------------------------------------------------------------
(* Writes                                                                  *)

Outcomes == {"answered", "failed", "lost"}

Fault(outcome) ==
    /\ outcome # "answered" => faults < MaxFaults /\ build.impl = "s3"
    /\ faults' = IF outcome = "answered" THEN faults ELSE faults + 1

\* What a walk lists of what a bucket holds: keys with an object, or versions.
Items(kind, held) ==
    IF kind = "objects"
    THEN {<<k, 0>> : k \in {q \in Keys : held[q] # <<>> /\ ~Last(held[q]).marker}}
    ELSE UNION {{<<k, x.id>> : x \in ToSet(held[k])} : k \in Keys}

ItemOf(kind, e) == <<e.key, IF kind = "objects" THEN 0 ELSE e.id>>

\* The bucket after a request, and what was listable ever since each walk began.
Changed(b, new) ==
    /\ objects' = [objects EXCEPT ![b] = new]
    /\ walk' = [w \in Walkers |->
         IF walk[w].bucket # b \/ new = objects[b] THEN walk[w]
         ELSE [walk[w] EXCEPT !.disturbed = TRUE, !.stable = @ \cap Items(walk[w].kind, new)]]

\* One write is applied, making n versions.
Write(b, new, n) ==
    /\ written + n <= MaxWrites
    /\ written' = written + n
    /\ Changed(b, new)

NoWrite == UNCHANGED <<objects, written, walk>>

NewVersion(length, attrs) ==
    [id |-> written + 1, marker |-> FALSE, length |-> length, attrs |-> attrs]

NoBatch == [bucket |-> Home, refs |-> <<>>, next |-> 1, open |-> FALSE, deleted |-> <<>>,
            failed |-> <<>>, unsent |-> <<>>, copy |-> <<>>]
Ready(h) == batch[h] = NoBatch

\* S3 takes no request sent to a region the bucket is not in.
Reaches(b) == build.impl = "s3" => ClientRegion(b) = RegionOf[b]

StoredUnder(b, k, version) == [objects[b] EXCEPT ![k] = Stored(@, version)]

\* An upload is cut into parts by the transfer manager and appears at once.
Put(h, b, k, length, attrs, outcome) ==
    /\ Ready(h) /\ Fault(outcome)
    /\ IF outcome = "failed" \/ ~Reaches(b) THEN NoWrite
       ELSE Write(b, StoredUnder(b, k, NewVersion(length, attrs)), 1)
    /\ UNCHANGED <<build, batch>>

\* The identifiers a delete of one reference uses: one where it leaves a marker.
Uses(b, k, v) ==
    IF \E x \in ToSet(Removed(objects[b][k], v, written + 1)) : x.id = written + 1
    THEN 1 ELSE 0

Delete(h, b, k, v, outcome) ==
    /\ Ready(h) /\ Fault(outcome)
    /\ IF outcome = "failed" \/ ~Reaches(b) THEN NoWrite
       ELSE Write(b, [objects[b] EXCEPT ![k] = Removed(@, v, written + 1)], Uses(b, k, v))
    /\ UNCHANGED <<build, batch>>

\* Giving either the content type or the metadata replaces both.
Replaces(attrs) == attrs # Bare

\* The bucket behind another handle.  Only a store of this package's own type
\* is resolved, and a handle the application took is a traced wrapper of one.
DestinationOf(b, dest) == IF dest = b \/ build.handle = "raw" THEN dest ELSE "refused"

\* S3 copies in the region of the bucket written to.
CopyRegion(b, dest) == ClientRegion(dest)

\* How a copy of the current object of a key would end.  S3 hears of it once the
\* destination is resolved; the double looks for the source first.
CopyTold(b, k, dest) ==
    LET absent == Current(b, k) = Nothing IN
    IF build.impl = "double" /\ absent THEN Wrap("NoSuchKey")
    ELSE IF DestinationOf(b, dest) = "refused" THEN "refused"
    ELSE IF build.impl = "s3" /\ CopyRegion(b, dest) # RegionOf[dest] THEN Wrap("PermanentRedirect")
    ELSE IF absent THEN Wrap("NoSuchKey") ELSE "ok"

Carried(source, attrs) == IF Replaces(attrs) THEN attrs ELSE source.attrs

\* One request, which S3 carries out itself.
Copy(h, b, k, dest, to, attrs, outcome) ==
    LET source == Current(b, k)
        copied == NewVersion(source.length, Carried(source, attrs))
    IN  /\ build.impl = "s3" /\ Ready(h) /\ Fault(outcome)
        /\ IF outcome = "failed" \/ CopyTold(b, k, dest) # "ok" THEN NoWrite
           ELSE Write(dest, StoredUnder(dest, to, copied), 1)
        /\ UNCHANGED <<build, batch>>

\* The double reads the source under its lock and puts it afterwards.
DoubleCopy(h, b, k, dest, to, attrs) ==
    LET source == Current(b, k)
    IN  /\ build.impl = "double" /\ Ready(h) /\ CopyTold(b, k, dest) = "ok"
        /\ batch' = [batch EXCEPT ![h].bucket = dest, ![h].copy =
                        <<[to |-> to, length |-> source.length, attrs |-> Carried(source, attrs)]>>]
        /\ NoWrite /\ UNCHANGED <<build, faults>>

DoubleCopyPut(h) ==
    /\ batch[h].copy # <<>>
    /\ LET copy == batch[h].copy[1]  dest == batch[h].bucket
       IN  Write(dest, StoredUnder(dest, copy.to, NewVersion(copy.length, copy.attrs)), 1)
    /\ batch' = [batch EXCEPT ![h] = NoBatch]
    /\ UNCHANGED <<build, faults>>

\* What a URL may be signed for; signing makes no request and a type given for an
\* upload is signed into the URL.
SignedURL(b, k, action, type) ==
    IF action \in {"read", "write"}
    THEN [bucket |-> b, key |-> k, action |-> action, type |-> IF action = "write" THEN type ELSE ""]
    ELSE [bucket |-> b, key |-> k, action |-> "refused", type |-> ""]

\* Whoever holds a URL that has not expired uploads through it, declaring the
\* type it was signed with if it was signed with one.
Upload(url, length, type) ==
    /\ build.impl = "s3" /\ Reaches(url.bucket)
    /\ url.action = "write" /\ (url.type # "" => type = url.type)
    /\ Write(url.bucket, StoredUnder(url.bucket, url.key, NewVersion(length, <<type, "">>)), 1)
    /\ UNCHANGED <<build, batch, faults>>

-----------------------------------------------------------------------------
(* DeleteMany                                                              *)

\* The requests of a batch begin; one that cannot resolve the bucket sends none.
DeleteMany(h, b, refs, outcome) ==
    /\ Ready(h) /\ refs # <<>>
    /\ outcome \in {"answered", "failed"} /\ Fault(outcome)
    /\ batch' = [batch EXCEPT ![h] = [NoBatch EXCEPT
                   !.bucket = b, !.refs = refs, !.open = (outcome = "answered"),
                   !.unsent = IF outcome = "failed" THEN refs ELSE <<>>]]
    /\ NoWrite /\ UNCHANGED build

Chunk(refs, next) ==
    SubSeq(refs, next, Min({next + (IF build.impl = "s3" THEN MaxDeletes ELSE Len(refs)) - 1,
                            Len(refs)}))

\* The store applies the references of a request it does not refuse, in order.
AllRemoved(held, refs, refused) ==
    LET applied[i \in 0..Len(refs)] ==
            IF i = 0 THEN [held |-> held, id |-> written]
            ELSE LET was == applied[i - 1]
                     k   == refs[i].key
                     new == Removed(was.held[k], refs[i].version, was.id + 1)
                 IN  IF i \in refused THEN was
                     ELSE [held |-> [was.held EXCEPT ![k] = new],
                           id |-> IF \E x \in ToSet(new) : x.id = was.id + 1 THEN was.id + 1 ELSE was.id]
    IN  applied[Len(refs)]

\* Mutant: only the requests not begun count as not sent.
UnsentRefs_Rest(refs, next) == SubSeq(refs, Min({next + MaxDeletes, Len(refs) + 1}), Len(refs))

\* Everything from the request that failed on was never answered for.
UnsentRefs(refs, next) == SubSeq(refs, next, Len(refs))

\* One request of the batch: answered for each reference, or not at all.
DeleteChunk(h, outcome, refused) ==
    LET here  == batch[h]
        chunk == Chunk(here.refs, here.next)
        after == AllRemoved(objects[here.bucket], chunk, refused)
        sent  == outcome # "failed" /\ Reaches(here.bucket)
    IN  /\ here.open /\ Fault(outcome)
        /\ refused \subseteq DOMAIN chunk /\ (refused # {} => build.impl = "s3" /\ sent)
        /\ IF sent THEN Write(here.bucket, after.held, after.id - written) ELSE NoWrite
        /\ batch' = [batch EXCEPT ![h] =
             IF sent /\ outcome = "answered"
             THEN [here EXCEPT !.next = @ + Len(chunk),
                               !.open = here.next + Len(chunk) <= Len(here.refs),
                               !.deleted = @ \o AtPlaces(chunk, DOMAIN chunk \ refused),
                               !.failed  = @ \o AtPlaces(chunk, refused)]
             ELSE [here EXCEPT !.open = FALSE, !.unsent = UnsentRefs(here.refs, here.next)]]
        /\ UNCHANGED build

BatchReturn(h) ==
    /\ batch[h].refs # <<>> /\ ~batch[h].open
    /\ batch' = [batch EXCEPT ![h] = NoBatch]
    /\ NoWrite /\ UNCHANGED <<build, faults>>

-----------------------------------------------------------------------------
(* Reading a listing through                                               *)

NoWalk == [kind |-> "idle", bucket |-> Home, limit |-> 0, cursor |-> End, seen |-> <<>>,
           stable |-> {}, disturbed |-> FALSE, failed |-> FALSE]

\* Objects and AllVersions, from the beginning or from a cursor a client sent.
WalkStart(w, kind, b, limit, cursor) ==
    /\ walk[w] = NoWalk
    /\ walk' = [walk EXCEPT ![w] =
         [NoWalk EXCEPT !.kind = kind, !.bucket = b, !.limit = limit, !.cursor = cursor,
                        !.stable = Items(kind, objects[b])]]
    /\ UNCHANGED <<build, objects, written, batch, faults>>

\* One page is asked for and handed out whole; a failure ends the walk.
WalkPage(w, outcome, n, time) ==
    LET here == walk[w]
        page == IF build.impl = "s3" THEN S3Page(here.kind, here.bucket, here.cursor, here.limit, n, time)
                ELSE Paginate(here.kind, here.bucket, here.cursor, here.limit)
        refused == build.impl = "s3" /\ (here.cursor = Foreign \/ ~Reaches(here.bucket))
    IN  /\ here.cursor # End
        /\ outcome \in {"answered", "failed"} /\ Fault(outcome)
        /\ walk' = [walk EXCEPT ![w] =
             IF refused \/ outcome = "failed" THEN [here EXCEPT !.cursor = End, !.failed = TRUE]
             ELSE [here EXCEPT !.cursor = page.cursor,
                     !.seen = @ \o [i \in DOMAIN page.found |-> ItemOf(here.kind, page.found[i])]]]
        /\ UNCHANGED <<build, objects, written, batch>>

\* The listing ended, or the caller stopped reading it.
WalkReturn(w) ==
    /\ walk[w].kind # "idle"
    /\ walk' = [walk EXCEPT ![w] = NoWalk]
    /\ UNCHANGED <<build, objects, written, batch, faults>>

-----------------------------------------------------------------------------
Init ==
    /\ build \in Builds
    /\ objects = [b \in Buckets |-> [k \in Keys |-> <<>>]]
    /\ written = 0 /\ faults = 0
    /\ batch = [h \in Writers |-> NoBatch]
    /\ walk = [w \in Walkers |-> NoWalk]

Writing(h) ==
    \E b \in Busy, outcome \in Outcomes :
        \/ \E k \in Keys :
             \/ \E length \in Lengths, attrs \in Attributes : Put(h, b, k, length, attrs, outcome)
             \/ \E v \in 0..written : Delete(h, b, k, v, outcome)
        \/ \E refs \in RefLists : DeleteMany(h, b, refs, outcome)
        \/ \E refused \in SUBSET (1..MaxDeletes) : DeleteChunk(h, outcome, refused)

Copying(h) ==
    \E b, dest \in Buckets, k, to \in Keys, attrs \in Attributes :
        \/ \E outcome \in Outcomes : Copy(h, b, k, dest, to, attrs, outcome)
        \/ DoubleCopy(h, b, k, dest, to, attrs)

Uploading ==
    \E b \in Busy, k \in Keys, action \in {"read", "write"}, attrs \in Attributes, length \in Lengths :
        Upload(SignedURL(b, k, action, attrs[1]), length, attrs[1])

Walking(w) ==
    \/ \E kind \in {"objects", "versions"}, b \in Busy, limit \in Limits, cursor \in {Start, Foreign} :
          WalkStart(w, kind, b, limit, cursor)
    \/ \E outcome \in Outcomes, n \in 1..MaxKeysPerPage, time \in Clocks :
          WalkPage(w, outcome, n, time)

Next ==
    \/ \E h \in Writers : Writing(h) \/ Copying(h) \/ DoubleCopyPut(h) \/ BatchReturn(h)
    \/ \E w \in Walkers : Walking(w) \/ WalkReturn(w)
    \/ Uploading

Spec == Init /\ [][Next]_vars

-----------------------------------------------------------------------------
(* Properties                                                              *)

\* The state stays within its type: versions carry identifiers handed out once
\* and stay in the order they were made in (Put, Delete).
TypeOK ==
    /\ build \in BuildType
    /\ \A b \in Buckets, k \in Keys : LET held == objects[b][k] IN
         /\ \A i \in DOMAIN held : held[i] \in Version /\ held[i].id <= written
         /\ \A i, j \in DOMAIN held : i < j => held[i].id < held[j].id
    /\ written \in 0..MaxWrites /\ faults \in 0..MaxFaults
    /\ \A h \in Writers : batch[h].bucket \in Buckets /\ batch[h].next \in Nat
    /\ \A w \in Walkers : walk[w].limit \in Nat /\ walk[w].bucket \in Buckets

\* The bytes of a range as the contract counts them: from a start, that many or
\* all to the end.
Asked(length, r) == {i \in 0..(length - 1) : i >= r.start /\ (r.span > 0 => i < r.start + r.span)}

\* A range that begins where the content has ended.
BeyondEnd(length, r) == ~Whole(r) /\ r.start >= length

\* Whatever read is made of whatever version, current, named, or a deletion
\* marker: it is answered as absent exactly when there is no object, and
\* otherwise with that version, the whole size and the bytes asked for (Get,
\* Info, Exists of bucket.go, rangeHeader, objectSize, wrapRead).  One kind of
\* read the two stores do not answer alike: a range that begins at or beyond the
\* end S3 refuses, which is told as a failure, and the double answers with no
\* bytes.  A bucket whose region the deployment recorded is always reached
\* (resolve).
ReadsTellTruth ==
    \A b \in Buckets, k \in Keys, v \in 0..written :
      /\ build.recorded => Reaches(b)
      /\ Reaches(b) =>
        LET held == Find(b, k, v)
        IN  /\ Exists(b, k, v) = IF held.marker THEN "no" ELSE "yes"
            /\ Info(b, k, v).told = IF held.marker THEN "not_found" ELSE "ok"
            /\ \A r \in Ranges : LET got == Get(b, k, v, r) IN
                 /\ got.told = IF held.marker THEN "not_found"
                               ELSE IF build.impl = "s3" /\ BeyondEnd(held.length, r) THEN "failed"
                               ELSE "ok"
                 /\ got.told = "ok" =>
                      got.id = held.id /\ got.size = held.length /\ got.part = Asked(held.length, r)

\* The order of a merged page: by key, then the later time first; of those made
\* at one time the deletion markers first, and of either list the newer first.
ListedBefore(x, y, time) ==
    \/ x.key < y.key
    \/ x.key = y.key /\ time[x.id] > time[y.id]
    \/ /\ x.key = y.key /\ time[x.id] = time[y.id]
       /\ (x.marker /\ ~y.marker) \/ (x.marker = y.marker /\ x.id > y.id)

\* A page of versions is the beginning of the bucket's listing with nothing lost
\* or repeated in merging the two lists, in the order of the keys and newest
\* first within a key, wherever the times S3 reports tell which is newer
\* (versionsOf, versions.go).  Where a version and a marker share a time they do
\* not, and takeVersionNext puts the marker first though the version may be the
\* newer; two versions, or two markers, stay in the order they were made in.
VersionsInOrder ==
    \A b \in Buckets, n \in 1..MaxKeysPerPage, time \in Clocks : build.impl = "s3" =>
        LET found == S3Page("versions", b, Start, 0, n, time).found
            whole == Versions(b)
        IN  /\ ToSet(found) = {whole[i] : i \in 1..Min({n, Len(whole)})}
            /\ \A i, j \in DOMAIN found : i < j => ListedBefore(found[i], found[j], time)

\* A walk of the objects that reached its end has yielded every key that held an
\* object throughout, and no walk yields a key or a version twice, whatever is
\* stored and removed between its pages (Objects, List).  The double counts
\* offsets, so for it only while nothing changed.
ListedOnce ==
    \A w \in Walkers : LET here == walk[w] IN
        (build.impl = "s3" \/ ~here.disturbed) =>
            /\ \A i, j \in DOMAIN here.seen : here.seen[i] = here.seen[j] => i = j
            /\ (here.kind = "objects" /\ here.cursor = End /\ ~here.failed) =>
                   here.stable \subseteq ToSet(here.seen)

Times_Of(s, r) == Cardinality({i \in DOMAIN s : s[i] = r})

\* A DeleteMany that returned has every reference it was handed, as often as it
\* was handed it, in exactly one of its three lists, whichever request failed or
\* lost its answer (DeleteMany, versions.go).
RefsAccounted ==
    \A h \in Writers : LET here == batch[h] IN
        (here.refs # <<>> /\ ~here.open) => \A r \in ToSet(here.refs) :
            Times_Of(here.refs, r) = Times_Of(here.deleted, r) + Times_Of(here.failed, r)
                                       + Times_Of(here.unsent, r)

\* Not so: "Every version of every matching key" (resources/bucket/bucket.go:67)
\* is read by AllVersions.  The cursor of a page of versions is the last key
\* alone, so the versions of that key the page did not reach are skipped.
EveryVersionListed ==
    \A w \in Walkers : LET here == walk[w] IN
        (here.kind = "versions" /\ here.cursor = End /\ ~here.failed) =>
            here.stable \subseteq ToSet(here.seen)

=============================================================================
