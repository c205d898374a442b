-------------------------- MODULE Datastore_proofs --------------------------
(***************************************************************************)
(* Proofs about the data store, for every number of keys, handlers, chunks *)
(* and bounds, and for both stores: no acknowledged write is lost, except  *)
(* on a key whose revision an update sent again has set back; a write that *)
(* was refused, and whose refusal is settled, leaves nothing behind; a     *)
(* batch that returns has accounted for everything it was handed; and an   *)
(* item a listing could have found throughout is yielded once.             *)
(*                                                                         *)
(* A put under a revision writes back what its handler read, however long  *)
(* ago.  It loses nothing because a revision says what an item holds: that *)
(* is the invariant, for what handlers have read, for the items batches    *)
(* have yet to deliver and for the requests the client has yet to send     *)
(* again, although batches and resends stamp items of one revision at      *)
(* different times.                                                        *)
(***************************************************************************)
EXTENDS Datastore, FiniteSetTheorems, SequenceTheorems, TLAPS, WellFoundedInduction

(* What handlers have read: by Get, by a BatchGet under way, or before a   *)
(* put the client has yet to send again.                                   *)
PendingReads == {pending[h].read : h \in Handlers}
Delivered    == UNION {batch[b].got : b \in Handlers}
Readings     == {seen[h] : h \in Handlers} \cup Delivered \cup PendingReads

(* Tokens drawn, none of which was refused for good.                       *)
Clean(held) == held \subseteq 1..used /\ held \cap (refused \ unsettled) = {}

Numbers ==
    /\ used \in Nat
    /\ \A k \in Keys : /\ table[k].held \subseteq 1..used
                       /\ table[k].rev \in 0..used
                       /\ table[k].rev = 0 => table[k].held = {}
                       /\ table[k].leaked \subseteq unsettled
    /\ refused \subseteq 1..used /\ unsettled \subseteq 1..used

BatchRecord(call) ==
    call = [mode |-> call.mode, token |-> call.token, asked |-> call.asked, todo |-> call.todo,
            missed |-> call.missed, settled |-> call.settled, got |-> call.got]

(* A batch under way has a token of its own; what carries its revision was *)
(* put by it.                                                              *)
BatchTokens ==
    /\ batch = [b \in Handlers |-> batch[b]]
    /\ \A b \in Handlers :
         /\ BatchRecord(batch[b])
         /\ batch[b].token \in 0..used
         /\ batch[b].mode # "idle" => batch[b].token # 0
    /\ \A b, c \in Handlers : batch[b].token # 0 /\ batch[b].token = batch[c].token => b = c
    /\ \A b \in Handlers : batch[b].token # 0 =>
         /\ batch[b].token \notin refused
         /\ \A k \in Keys : table[k].rev = batch[b].token => table[k].held = {batch[b].token}

(* A request yet to be sent again has a token of its own too; what carries *)
(* the revision of a put is what the put wrote.                            *)
PendingRequest(h) ==
    pending[h].kind # "none" =>
        /\ pending[h].kind \in AtomicKinds /\ pending[h].key \in Keys
        /\ pending[h].token \in 1..used /\ pending[h].token \in unsettled
        /\ \A b \in Handlers : batch[b].token # pending[h].token
        /\ \A g \in Handlers : pending[g].kind # "none" /\ pending[g].token = pending[h].token
                                  => g = h
        /\ pending[h].kind = "put" =>
             /\ IF pending[h].rev.asked
                THEN pending[h].read.key = pending[h].key /\ pending[h].rev = pending[h].read.rev
                ELSE pending[h].read = NothingSeen
             /\ table[pending[h].key].rev = pending[h].token
                  => table[pending[h].key].held = pending[h].read.held \cup {pending[h].token}

(* A revision says what the item under it holds.                           *)
Faithful(x) ==
    /\ Clean(x.held)
    /\ x.key \in Keys =>
        /\ x.rev = IfUnchanged(x.rev.value)
        /\ x.rev.value \in 0..used
        /\ x.rev.value = 0 => x.held = {}
        /\ x.key \notin rewound /\ x.rev.value # 0 /\ x.rev.value = table[x.key].rev
              => x.held = table[x.key].held
        /\ \A b \in Handlers : batch[b].token # 0 /\ x.rev.value = batch[b].token
                                  => x.held = {batch[b].token}
        /\ \A h \in Handlers : pending[h].kind = "put" /\ pending[h].key = x.key
                                  /\ x.rev.value = pending[h].token
                                  => x.held = pending[h].read.held \cup {pending[h].token}

Shapes ==
    /\ table = [k \in Keys |-> table[k]]
    /\ acked = [k \in Keys |-> acked[k]]
    /\ seen = [h \in Handlers |-> seen[h]]
    /\ pending = [h \in Handlers |-> pending[h]]

DatastoreInv ==
    /\ Shapes /\ Numbers /\ BatchTokens
    /\ \A h \in Handlers : PendingRequest(h)
    /\ \A x \in Readings : Faithful(x)
    /\ NoLostUpdate /\ RefusedNotApplied
-----------------------------------------------------------------------------
(* What a step does to one item, when the write carries token t.           *)

Stamps(k, item, t) ==
    \E held : item = PutItem(held, t) /\ Clean(held) /\ (k \in rewound \/ table[k].held \subseteq held)

KeyStep(k, t) ==
    \/ /\ table'[k].held = table[k].held /\ table'[k].rev = table[k].rev
       /\ acked'[k] \subseteq acked[k]
       /\ table'[k].leaked \subseteq table[k].leaked \cup unsettled'
    \/ table'[k] = Absent /\ acked'[k] = {}
    \/ table'[k] = PutItem({}, t) /\ acked'[k] \subseteq {t}
    \/ Stamps(k, table'[k], t) /\ acked'[k] \subseteq acked[k] \cup {t}

(* The request just sent is one the client will send again.                *)
Kept(req, t) ==
    /\ req.kind \in AtomicKinds /\ req.key \in Keys /\ req.token = t /\ t \in unsettled'
    /\ req.read \in Readings \/ req.read = NothingSeen
    /\ req.kind = "put" =>
         /\ IF req.rev.asked THEN req.read.key = req.key /\ req.rev = req.read.rev
            ELSE req.read = NothingSeen
         /\ table'[req.key] = PutItem(req.read.held, t)

(* A fresh token: one write of a handler, whatever came of it.             *)
WriteStep ==
    /\ used' = used + 1
    /\ \A k \in Keys : KeyStep(k, used + 1)
    /\ refused' = refused \/ (/\ refused' = refused \cup {used + 1}
                              /\ \A k \in Keys : table'[k].held = table[k].held)
    /\ unsettled' = unsettled \/ unsettled' = unsettled \cup {used + 1}
    /\ UNCHANGED <<batch, rewound>>
    /\ \A h \in Handlers : seen'[h] \in {seen[h], NothingSeen}
    /\ \E w \in Handlers :
         /\ \A h \in Handlers : h # w => pending'[h] = pending[h]
         /\ pending'[w] \in {pending[w], NoRequest} \/ Kept(pending'[w], used + 1)
    /\ Shapes'

(* A request sent again: its token is an old one.                          *)
ResendKey(req, k) ==
    \/ table'[k] = table[k] /\ acked'[k] = acked[k]
    \/ table'[k] = Absent /\ acked'[k] = {}
    \/ /\ req.kind = "put" /\ table'[k] = PutItem(req.read.held, req.token)
       /\ \/ acked'[k] \subseteq {req.token}
          \/ /\ acked'[k] \subseteq acked[k] \cup {req.token}
             /\ k \notin rewound => req.read.held = table[k].held
    \/ /\ req.kind = "update" /\ acked'[k] \subseteq acked[k] \cup {req.token}
       /\ table'[k] = PutItem(table[k].held \cup table[k].leaked, req.token)
       /\ k \in rewound' \/ table'[k] = table[k]

ResendStep(w) ==
    /\ pending[w].kind # "none"
    /\ UNCHANGED <<used, seen, batch, unsettled>>
    /\ refused' \subseteq refused \cup {pending[w].token}
    /\ refused \subseteq refused'
    /\ \A h \in Handlers : h # w => pending'[h] = pending[h]
    /\ pending'[w] \in {pending[w], NoRequest}
    /\ \A k \in Keys : k # pending[w].key => table'[k] = table[k] /\ acked'[k] = acked[k]
    /\ ResendKey(pending[w], pending[w].key)
    /\ rewound \subseteq rewound'
    /\ Shapes'

(* A request of a batch: what it puts is new and carries the batch's token.*)
ChunkStep(b) ==
    /\ batch[b].mode = "call"
    /\ \A k \in Keys : \/ table'[k] = table[k] /\ acked'[k] = acked[k]
                       \/ table'[k] = Absent /\ acked'[k] = {}
                       \/ table'[k] = PutItem({}, batch[b].token) /\ acked'[k] \subseteq {batch[b].token}
    /\ batch' = [batch EXCEPT ![b] = batch'[b]]
    /\ BatchRecord(batch'[b])
    /\ batch'[b].token = batch[b].token /\ batch'[b].got \subseteq batch[b].got
    /\ UNCHANGED <<seen, used, refused, sendVars>>
    /\ Shapes'

LEMMA ReadingsAre ==
    /\ \A h \in Handlers : seen[h] \in Readings /\ pending[h].read \in Readings
    /\ \A b \in Handlers : batch[b].got \subseteq Readings
    /\ \A x \in Readings' : \/ \E h \in Handlers : x = seen'[h] \/ x = pending'[h].read
                            \/ \E b \in Handlers : x \in batch'[b].got
  <1>1. \A h \in Handlers : pending[h].read \in PendingReads
    BY DEF PendingReads
  <1>2. \A b \in Handlers : batch[b].got \subseteq Delivered
    BY DEF Delivered
  <1>3. \A x \in PendingReads' : \E h \in Handlers : x = pending'[h].read
    BY DEF PendingReads
  <1>4. \A x \in Delivered' : \E b \in Handlers : x \in batch'[b].got
    BY DEF Delivered
  <1> QED  BY <1>1, <1>2, <1>3, <1>4 DEF Readings

LEMMA ChangedEffect ==
    ASSUME NEW new, NEW replaced, NEW told, NEW t, Changed(new, replaced, told), told \subseteq {t},
           \A k \in Keys : k \in DOMAIN new =>
               \/ new[k] = Absent
               \/ k \in replaced /\ new[k] = PutItem({}, t)
               \/ Stamps(k, new[k], t)
               \/ new[k] = Spilt(table[k], t) /\ t \in unsettled' /\ told = {}
    PROVE  /\ \A k \in Keys : KeyStep(k, t)
           /\ table' = [k \in Keys |-> table'[k]] /\ acked' = [k \in Keys |-> acked'[k]]
  <1>1. /\ table' = [k \in Keys |-> IF k \in DOMAIN new THEN new[k] ELSE table[k]]
        /\ acked' = [k \in Keys |->
                   IF k \notin DOMAIN new THEN acked[k]
                   ELSE ((IF k \in replaced THEN {} ELSE acked[k]) \cup told) \cap
                        (IF new[k] = Absent THEN {} ELSE Tokens)]
    BY DEF Changed
  <1>2. ASSUME NEW k \in Keys PROVE KeyStep(k, t)
    <2>1. /\ table'[k] = IF k \in DOMAIN new THEN new[k] ELSE table[k]
          /\ acked'[k] = IF k \notin DOMAIN new THEN acked[k]
                         ELSE ((IF k \in replaced THEN {} ELSE acked[k]) \cup told) \cap
                              (IF new[k] = Absent THEN {} ELSE Tokens)
      BY <1>1
    <2>2. CASE k \notin DOMAIN new
      BY <2>1, <2>2 DEF KeyStep
    <2>3. CASE k \in DOMAIN new
      <3>1. CASE new[k] = Absent
        BY <2>1, <2>3, <3>1 DEF KeyStep
      <3>2. CASE k \in replaced /\ new[k] = PutItem({}, t)
        BY <2>1, <2>3, <3>2 DEF KeyStep
      <3>3. CASE Stamps(k, new[k], t)
        <4>1. acked'[k] \subseteq acked[k] \cup {t} /\ table'[k] = new[k]
          BY <2>1, <2>3
        <4> QED  BY <3>3, <4>1 DEF KeyStep
      <3>4. CASE new[k] = Spilt(table[k], t) /\ t \in unsettled' /\ told = {}
        <4>1. acked'[k] \subseteq acked[k] /\ table'[k] = Spilt(table[k], t)
          BY <2>1, <2>3, <3>4
        <4> QED  BY <3>4, <4>1 DEF KeyStep, Spilt
      <3> QED  BY <2>3, <3>1, <3>2, <3>3, <3>4
    <2> QED  BY <2>2, <2>3
  <1>3. table' = [k \in Keys |-> table'[k]] /\ acked' = [k \in Keys |-> acked'[k]]
    BY <1>1
  <1> QED  BY <1>2, <1>3

LEMMA NothingChanges ==
    ASSUME Shapes, NEW new, DOMAIN new = {}, NEW replaced, NEW told, Changed(new, replaced, told)
    PROVE  UNCHANGED <<table, acked>>
  BY DEF Changed, Shapes

-----------------------------------------------------------------------------
(* The invariant is kept by each kind of step.                             *)

LEMMA WriteStepKeeps ==
    ASSUME DatastoreInv, WriteStep PROVE DatastoreInv'
  <1> DEFINE t == used + 1
  <1> USE DEF DatastoreInv
  <1>1. used \in Nat /\ t \in Nat /\ used' = t /\ t \notin 0..used /\ 0..used \subseteq 0..t
        /\ 1..used \subseteq 1..t /\ t \in 1..t /\ t # 0 /\ t \notin 1..used
    BY DEF Numbers, WriteStep
  <1>2. ASSUME NEW k \in Keys
        PROVE  \/ /\ table'[k].rev = table[k].rev /\ table'[k].held = table[k].held
                  /\ acked'[k] \subseteq acked[k]
                  /\ table'[k].leaked \subseteq table[k].leaked \cup unsettled'
               \/ /\ table'[k].rev = 0 /\ table'[k].held = {} /\ acked'[k] = {}
                  /\ table'[k].leaked = {}
               \/ /\ table'[k].rev = t /\ table'[k].held = {t}
                  /\ acked'[k] \subseteq {t} /\ table'[k].leaked = {}
               \/ \E held : /\ table'[k].rev = t /\ table'[k].held = held \cup {t}
                            /\ acked'[k] \subseteq acked[k] \cup {t} /\ table'[k].leaked = {}
                            /\ Clean(held) /\ (k \in rewound \/ table[k].held \subseteq held)
    <2> HIDE DEF t
    <2>1. KeyStep(k, t)
      BY DEF WriteStep, t
    <2>2. CASE Stamps(k, table'[k], t) /\ acked'[k] \subseteq acked[k] \cup {t}
      <3>1. PICK held : /\ table'[k] = PutItem(held, t) /\ Clean(held)
                        /\ (k \in rewound \/ table[k].held \subseteq held)
        BY <2>2 DEF Stamps
      <3>2. table'[k].rev = t /\ table'[k].held = held \cup {t} /\ table'[k].leaked = {}
        BY <3>1 DEF PutItem
      <3> QED  BY <2>2, <3>1, <3>2, Zenon
    <2>3. CASE table'[k] = PutItem({}, t) /\ acked'[k] \subseteq {t}
      BY <2>3 DEF PutItem
    <2>4. CASE table'[k] = Absent /\ acked'[k] = {}
      BY <2>4 DEF Absent
    <2> QED  BY <2>1, <2>2, <2>3, <2>4 DEF KeyStep
  <1>3. /\ refused' \subseteq 1..t /\ t \notin refused /\ refused \subseteq refused'
        /\ unsettled' \subseteq 1..t /\ t \notin unsettled /\ unsettled \subseteq unsettled'
        /\ refused \subseteq 1..used /\ unsettled \subseteq 1..used
        /\ refused' \ unsettled' \subseteq (refused \ unsettled) \cup {t}
    <2>1. /\ refused \subseteq 1..used /\ refused' \in {refused, refused \cup {t}}
          /\ unsettled \subseteq 1..used /\ unsettled' \in {unsettled, unsettled \cup {t}}
      BY DEF WriteStep, Numbers
    <2> HIDE DEF t
    <2>2. refused' \subseteq 1..t /\ unsettled' \subseteq 1..t
      BY <1>1, <2>1
    <2>3. t \notin refused /\ t \notin unsettled
      BY <1>1, <2>1
    <2>4. refused' \ unsettled' \subseteq (refused \ unsettled) \cup {t}
      BY <2>1
    <2> QED  BY <2>1, <2>2, <2>3, <2>4
  <1>4. UNCHANGED <<batch, rewound>> /\ Shapes'
    BY DEF WriteStep
  <1>5. \A k \in Keys : table[k].held \subseteq 1..used /\ table[k].rev \in 0..used /\
                         (table[k].rev = 0 => table[k].held = {}) /\ table[k].leaked \subseteq unsettled
    BY DEF Numbers
  <1>6. PICK w \in Handlers :
         /\ \A h \in Handlers : h # w => pending'[h] = pending[h]
         /\ pending'[w] \in {pending[w], NoRequest} \/ Kept(pending'[w], used + 1)
    BY DEF WriteStep
  <1>60. Kept(pending'[w], used + 1) <=> Kept(pending'[w], t)
    OBVIOUS
  <1> HIDE DEF t
  <1>7. Numbers'
    <2>1. ASSUME NEW k \in Keys
          PROVE  /\ table'[k].held \subseteq 1..used'
                 /\ table'[k].rev \in 0..used'
                 /\ table'[k].rev = 0 => table'[k].held = {}
                 /\ table'[k].leaked \subseteq unsettled'
      <3>1. {t} \subseteq 1..t /\ t \in 0..t /\ 0 \in 0..t
        BY <1>1
      <3>2. \A held : Clean(held) => held \subseteq 1..t
        BY <1>1 DEF Clean
      <3>3. /\ table[k].held \subseteq 1..t /\ table[k].rev \in 0..t
            /\ table[k].rev = 0 => table[k].held = {}
            /\ table[k].leaked \subseteq unsettled'
        BY <1>1, <1>3, <1>5
      <3> QED  BY <1>1, <1>2, <3>1, <3>2, <3>3
    <2> QED  BY <1>1, <1>3, <2>1 DEF Numbers
  <1>8. BatchTokens'
    <2>1. \A b \in Handlers : batch[b].token \in 0..used
      BY DEF BatchTokens
    <2>2. ASSUME NEW b \in Handlers, batch[b].token # 0
          PROVE  /\ batch[b].token \notin refused'
                 /\ \A k \in Keys : table'[k].rev = batch[b].token => table'[k].held = {batch[b].token}
      <3>1. batch[b].token # t /\ batch[b].token \notin refused
        BY <2>1, <2>2, <1>1 DEF BatchTokens
      <3>2. batch[b].token \notin refused'
        BY <3>1 DEF WriteStep, t
      <3>3. ASSUME NEW k \in Keys, table'[k].rev = batch[b].token
            PROVE  table'[k].held = {batch[b].token}
        <4>1. table'[k].rev = table[k].rev /\ table'[k].held = table[k].held
          BY <2>2, <3>1, <3>3, <1>2
        <4> QED  BY <2>2, <3>3, <4>1 DEF BatchTokens
      <3> QED  BY <3>2, <3>3
    <2> QED  BY <1>1, <1>4, <2>1, <2>2 DEF BatchTokens, BatchRecord
  (* The requests that were waiting still are, each with its own token.     *)
  <1>9. \A h \in Handlers : pending[h].kind # "none" =>
           pending[h].token \in 1..used /\ pending[h].token # t
    BY <1>1 DEF PendingRequest
  <1>10. \A h \in Handlers : pending'[h].kind # "none" =>
            pending'[h] = pending[h] \/ (h = w /\ Kept(pending'[h], t))
    BY <1>6, <1>60 DEF NoRequest
  <1>11. ASSUME NEW h \in Handlers, pending'[h].kind # "none" PROVE PendingRequest(h)'
    <2>1. \A b \in Handlers : batch[b].token \in 0..used
      BY DEF BatchTokens
    <2>2. CASE pending'[h] = pending[h]
      <3> DEFINE req == pending[h]
      <3>1. /\ req.kind \in AtomicKinds /\ req.key \in Keys
            /\ req.token \in 1..used /\ req.token \in unsettled /\ req.token # t
            /\ \A b \in Handlers : batch[b].token # req.token
            /\ \A g \in Handlers : pending[g].kind # "none" /\ pending[g].token = req.token => g = h
            /\ req.kind = "put" =>
                 /\ IF req.rev.asked THEN req.read.key = req.key /\ req.rev = req.read.rev
                    ELSE req.read = NothingSeen
                 /\ table[req.key].rev = req.token => table[req.key].held = req.read.held \cup {req.token}
        BY <1>9, <1>11, <2>2 DEF PendingRequest
      <3>2. \A g \in Handlers : pending'[g].kind # "none" /\ pending'[g].token = req.token => g = h
        <4>1. \A g \in Handlers : Kept(pending'[g], t) => pending'[g].token = t
          BY DEF Kept
        <4> QED  BY <1>10, <3>1, <4>1
      <3>3. req.kind = "put" /\ table'[req.key].rev = req.token
               => table'[req.key].held = req.read.held \cup {req.token}
        BY <1>1, <1>2, <3>1
      <3>4. req.token \in 1..used' /\ req.token \in unsettled'
        BY <1>1, <1>3, <3>1
      <3> HIDE DEF req
      <3>5. pending'[h] = req
        BY <2>2 DEF req
      <3> QED  BY <1>4, <3>1, <3>2, <3>3, <3>4, <3>5 DEF PendingRequest
    <2>3. CASE h = w /\ Kept(pending'[h], t)
      <3> DEFINE req == pending'[h]
      <3>1. /\ req.kind \in AtomicKinds /\ req.key \in Keys /\ req.token = t /\ t \in unsettled'
            /\ req.kind = "put" =>
                 /\ IF req.rev.asked THEN req.read.key = req.key /\ req.rev = req.read.rev
                    ELSE req.read = NothingSeen
                 /\ table'[req.key] = PutItem(req.read.held, t)
        BY <2>3 DEF Kept
      <3>2. \A g \in Handlers : pending'[g].kind # "none" /\ pending'[g].token = t => g = h
        BY <1>9, <1>10, <2>3
      <3>3. \A b \in Handlers : batch[b].token # t
        BY <1>1, <2>1
      <3>4. req.kind = "put" => table'[req.key].held = req.read.held \cup {t}
        <4> HIDE DEF req
        <4> QED  BY <3>1 DEF PutItem
      <3>5. t \in 1..used'
        BY <1>1
      <3> QED  BY <1>4, <3>1, <3>2, <3>3, <3>4, <3>5 DEF PendingRequest
    <2> QED  BY <1>10, <1>11, <2>2, <2>3
  <1>12. \A h \in Handlers : PendingRequest(h)'
    BY <1>11 DEF PendingRequest
  <1>13. ASSUME NEW x \in Readings' PROVE Faithful(x)'
    <2>1. x \in Readings \/ x = NothingSeen
      <3>1. \A h \in Handlers : pending'[h].read \in Readings \/ pending'[h].read = NothingSeen
        <4>1. \A h \in Handlers : pending[h].read \in Readings
          BY ReadingsAre
        <4>2. pending'[w].read \in Readings \/ pending'[w].read = NothingSeen
          BY <1>6, <4>1 DEF Kept, NoRequest
        <4> QED  BY <1>6, <4>1, <4>2
      <3>2. \A h \in Handlers : seen'[h] \in {seen[h], NothingSeen}
        BY DEF WriteStep
      <3> QED  BY <1>4, <3>1, <3>2, ReadingsAre
    <2>2. CASE x = NothingSeen
      <3>1. x.held = {} /\ x.key \notin Keys
        BY <2>2 DEF NothingSeen, Keys
      <3> QED  BY <3>1 DEF Faithful, Clean
    <2>3. CASE x \in Readings
      <3>1. Faithful(x)
        BY <2>3
      <3>2. Clean(x.held)'
        <4>1. x.held \subseteq 1..used /\ x.held \cap (refused \ unsettled) = {} /\ t \notin x.held
          BY <1>1, <3>1 DEF Faithful, Clean
        <4> QED  BY <1>1, <1>3, <4>1 DEF Clean
      <3>3. SUFFICES ASSUME x.key \in Keys
                     PROVE  /\ x.rev = IfUnchanged(x.rev.value)
                            /\ x.rev.value \in 0..used'
                            /\ x.rev.value = 0 => x.held = {}
                            /\ x.key \notin rewound /\ x.rev.value # 0
                                 /\ x.rev.value = table'[x.key].rev => x.held = table'[x.key].held
                            /\ \A b \in Handlers : batch[b].token # 0 /\ x.rev.value = batch[b].token
                                 => x.held = {batch[b].token}
                            /\ \A h \in Handlers : pending'[h].kind = "put" /\ pending'[h].key = x.key
                                 /\ x.rev.value = pending'[h].token
                                 => x.held = pending'[h].read.held \cup {pending'[h].token}
        BY <1>4, <3>2 DEF Faithful
      <3>4. /\ x.rev = IfUnchanged(x.rev.value)
            /\ x.rev.value \in 0..used
            /\ x.rev.value = 0 => x.held = {}
            /\ x.key \notin rewound /\ x.rev.value # 0 /\ x.rev.value = table[x.key].rev
                  => x.held = table[x.key].held
            /\ \A b \in Handlers : batch[b].token # 0 /\ x.rev.value = batch[b].token
                                      => x.held = {batch[b].token}
            /\ \A h \in Handlers : pending[h].kind = "put" /\ pending[h].key = x.key
                                      /\ x.rev.value = pending[h].token
                                      => x.held = pending[h].read.held \cup {pending[h].token}
        BY <3>1, <3>3 DEF Faithful
      <3>5. x.rev.value # t /\ x.rev.value \in 0..used'
        BY <1>1, <3>4
      <3>6. x.rev.value # 0 /\ x.rev.value = table'[x.key].rev
              => table'[x.key].rev = table[x.key].rev /\ table'[x.key].held = table[x.key].held
        BY <1>2, <3>3, <3>5
      <3>7. \A h \in Handlers : pending'[h].kind = "put" /\ x.rev.value = pending'[h].token
              => pending'[h] = pending[h]
        BY <1>10, <3>5 DEF Kept
      <3> QED  BY <3>4, <3>5, <3>6, <3>7
    <2> QED  BY <2>1, <2>2, <2>3
  <1>14. NoLostUpdate'
    <2>1. ASSUME NEW k \in Keys, k \notin rewound PROVE acked'[k] \subseteq table'[k].held
      BY <1>2, <2>1 DEF NoLostUpdate
    <2> QED  BY <1>4, <2>1 DEF NoLostUpdate
  <1>15. RefusedNotApplied'
    <2>1. ASSUME NEW k \in Keys PROVE table'[k].held \cap (refused' \ unsettled') = {}
      <3>1. table[k].held \cap (refused \ unsettled) = {} /\ t \notin table[k].held
        BY <1>1, <1>5 DEF RefusedNotApplied
      <3>2. CASE refused' = refused
        <4>1. table'[k].held \cap (refused \ unsettled) = {}
          <5>1. {} \cap (refused \ unsettled) = {} /\ {t} \cap (refused \ unsettled) = {}
            BY <1>3
          <5>2. ASSUME NEW held, Clean(held) PROVE (held \cup {t}) \cap (refused \ unsettled) = {}
            BY <1>3, <5>2 DEF Clean
          <5> QED  BY <1>2, <3>1, <5>1, <5>2
        <4> QED  BY <1>3, <3>2, <4>1
      <3>3. CASE /\ refused' = refused \cup {t} /\ table'[k].held = table[k].held
        BY <1>3, <3>1, <3>3
      <3> QED  BY <3>2, <3>3 DEF WriteStep, t
    <2> QED  BY <2>1 DEF RefusedNotApplied
  <1> QED  BY <1>4, <1>7, <1>8, <1>12, <1>13, <1>14, <1>15

LEMMA ResendStepKeeps ==
    ASSUME DatastoreInv, NEW w \in Handlers, ResendStep(w) PROVE DatastoreInv'
  <1> DEFINE req == pending[w]
             t   == pending[w].token
             q   == pending[w].key
  <1> USE DEF DatastoreInv
  <1>1. /\ req.kind \in AtomicKinds /\ q \in Keys /\ t \in 1..used /\ t \in unsettled
        /\ \A b \in Handlers : batch[b].token # t
        /\ \A g \in Handlers : pending[g].kind # "none" /\ pending[g].token = t => g = w
    BY DEF PendingRequest, ResendStep
  <1>2. used \in Nat /\ t # 0
    BY <1>1 DEF Numbers
  <1>3. UNCHANGED <<used, seen, batch, unsettled>> /\ Shapes' /\ rewound \subseteq rewound'
    BY DEF ResendStep
  <1>4. /\ refused \subseteq refused' /\ refused' \subseteq 1..used
        /\ refused' \ unsettled' = refused \ unsettled
    <2>1. /\ refused' \subseteq refused \cup {t} /\ refused \subseteq refused'
          /\ refused \subseteq 1..used
      BY DEF ResendStep, Numbers
    <2> HIDE DEF t
    <2> QED  BY <1>1, <1>3, <2>1
  <1>5. Clean(req.read.held) /\ Faithful(req.read)
    <2>1. req.read \in Readings
      BY ReadingsAre
    <2> QED  BY <2>1 DEF Faithful
  <1>6. \A k \in Keys : /\ table[k].held \subseteq 1..used /\ table[k].rev \in 0..used
                        /\ table[k].rev = 0 => table[k].held = {}
                        /\ table[k].leaked \subseteq unsettled /\ unsettled \subseteq 1..used
                        /\ table[k].held \cap (refused \ unsettled) = {}
    BY DEF Numbers, RefusedNotApplied
  <1>7. ResendKey(req, q) /\ \A k \in Keys : k # q => table'[k] = table[k] /\ acked'[k] = acked[k]
    BY DEF ResendStep
  <1>8. /\ \A h \in Handlers : h # w => pending'[h] = pending[h]
        /\ pending'[w] = req \/ pending'[w] = NoRequest
    BY DEF ResendStep
  <1>9. req.kind = "put" => \A x \in Readings : x.key = q /\ x.rev.value = t
                                => x.held = req.read.held \cup {t}
    BY <1>1 DEF Faithful
  <1> HIDE DEF req, t, q
  <1>10. \/ /\ table'[q].rev = table[q].rev /\ table'[q].held = table[q].held
            /\ table'[q].leaked = table[q].leaked /\ acked'[q] = acked[q]
         \/ /\ table'[q].rev = 0 /\ table'[q].held = {} /\ acked'[q] = {}
            /\ table'[q].leaked = {}
         \/ /\ req.kind = "put" /\ table'[q].rev = t /\ table'[q].held = req.read.held \cup {t}
            /\ table'[q].leaked = {}
            /\ \/ acked'[q] \subseteq {t}
               \/ /\ acked'[q] \subseteq acked[q] \cup {t}
                  /\ q \notin rewound => req.read.held = table[q].held
         \/ /\ req.kind = "update" /\ acked'[q] \subseteq acked[q] \cup {t}
            /\ table'[q].rev = t /\ table'[q].held = (table[q].held \cup table[q].leaked) \cup {t}
            /\ table'[q].leaked = {}
            /\ q \in rewound' \/ (table'[q].rev = table[q].rev /\ table'[q].held = table[q].held)
    <2>1. req.token = t
      BY DEF req, t
    <2>2. CASE table'[q] = table[q] /\ acked'[q] = acked[q]
      BY <2>2
    <2>3. CASE table'[q] = Absent /\ acked'[q] = {}
      BY <2>3 DEF Absent
    <2>4. CASE /\ req.kind = "put" /\ table'[q] = PutItem(req.read.held, t)
               /\ \/ acked'[q] \subseteq {t}
                  \/ /\ acked'[q] \subseteq acked[q] \cup {t}
                     /\ q \notin rewound => req.read.held = table[q].held
      <3>1. table'[q].rev = t /\ table'[q].held = req.read.held \cup {t} /\ table'[q].leaked = {}
        BY <2>4 DEF PutItem
      <3> QED  BY <2>4, <3>1
    <2>5. CASE /\ req.kind = "update" /\ acked'[q] \subseteq acked[q] \cup {t}
               /\ table'[q] = PutItem(table[q].held \cup table[q].leaked, t)
               /\ q \in rewound' \/ table'[q] = table[q]
      <3>1. /\ table'[q].rev = t /\ table'[q].held = (table[q].held \cup table[q].leaked) \cup {t}
            /\ table'[q].leaked = {}
        BY <2>5 DEF PutItem
      <3>2. q \in rewound' \/ (table'[q].rev = table[q].rev /\ table'[q].held = table[q].held)
        BY <2>5
      <3> QED  BY <2>5, <3>1, <3>2
    <2> QED  BY <1>7, <2>1, <2>2, <2>3, <2>4, <2>5 DEF ResendKey
  (* The item under the request is now one of these.                        *)
  <1>11. ASSUME NEW k \in Keys
         PROVE  /\ table'[k].held \subseteq 1..used /\ table'[k].rev \in 0..used
                /\ table'[k].rev = 0 => table'[k].held = {}
                /\ table'[k].leaked \subseteq unsettled
                /\ table'[k].held \cap (refused \ unsettled) = {}
                /\ table'[k].rev = t \/ (table'[k].rev = table[k].rev /\ table'[k].held = table[k].held)
                     \/ (table'[k].rev = 0 /\ table'[k].held = {})
    <2>1. CASE k # q
      BY <1>6, <1>7, <2>1
    <2>2. CASE k = q
      <3>1. t \in 0..used /\ {t} \subseteq 1..used /\ {t} \cap (refused \ unsettled) = {}
        BY <1>1, <1>2
      <3>2. /\ req.read.held \subseteq 1..used
            /\ req.read.held \cap (refused \ unsettled) = {}
        BY <1>5 DEF Clean
      <3>3. /\ table[q].leaked \subseteq 1..used
            /\ table[q].leaked \cap (refused \ unsettled) = {}
        BY <1>1, <1>6
      <3> QED  BY <1>1, <1>2, <1>6, <1>10, <2>2, <3>1, <3>2, <3>3
    <2> QED  BY <2>1, <2>2
  <1>12. Numbers'
    BY <1>2, <1>3, <1>4, <1>6, <1>11 DEF Numbers
  <1>13. BatchTokens'
    <2>1. ASSUME NEW b \in Handlers, batch[b].token # 0
          PROVE  /\ batch[b].token \notin refused'
                 /\ \A k \in Keys : table'[k].rev = batch[b].token => table'[k].held = {batch[b].token}
      <3>1. /\ batch[b].token # t /\ batch[b].token \notin refused
            /\ \A k \in Keys : table[k].rev = batch[b].token => table[k].held = {batch[b].token}
        BY <1>1, <2>1 DEF BatchTokens
      <3>2. batch[b].token \notin refused'
        BY <3>1 DEF ResendStep, t
      <3> QED  BY <1>11, <2>1, <3>1, <3>2
    <2>2. /\ batch = [b \in Handlers |-> batch[b]]
          /\ \A b \in Handlers : /\ BatchRecord(batch[b])
                                 /\ batch[b].token \in 0..used
                                 /\ batch[b].mode # "idle" => batch[b].token # 0
          /\ \A b, c \in Handlers : batch[b].token # 0 /\ batch[b].token = batch[c].token => b = c
      BY DEF BatchTokens
    <2> QED  BY <1>3, <2>1, <2>2 DEF BatchTokens, BatchRecord
  <1>14. \A h \in Handlers : pending'[h].kind # "none" => pending'[h] = pending[h]
    BY <1>8 DEF NoRequest, req
  <1>15. ASSUME NEW h \in Handlers, pending'[h].kind # "none" PROVE PendingRequest(h)'
    <2> DEFINE r == pending[h]
    <2>1. pending'[h] = r /\ r.kind # "none"
      BY <1>14, <1>15
    <2>2. /\ r.kind \in AtomicKinds /\ r.key \in Keys
          /\ r.token \in 1..used /\ r.token \in unsettled
          /\ \A b \in Handlers : batch[b].token # r.token
          /\ \A g \in Handlers : pending[g].kind # "none" /\ pending[g].token = r.token => g = h
          /\ r.kind = "put" =>
               /\ IF r.rev.asked THEN r.read.key = r.key /\ r.rev = r.read.rev
                  ELSE r.read = NothingSeen
               /\ table[r.key].rev = r.token => table[r.key].held = r.read.held \cup {r.token}
      BY <2>1 DEF PendingRequest
    <2>3. \A g \in Handlers : pending'[g].kind # "none" /\ pending'[g].token = r.token => g = h
      BY <1>14, <2>2
    <2>4. r.kind = "put" /\ table'[r.key].rev = r.token
            => table'[r.key].held = r.read.held \cup {r.token}
      <3>1. CASE h = w
        <4>1. r = req /\ r.token = t /\ r.key = q
          BY <3>1 DEF req, t, q
        <4> HIDE DEF r
        <4>2. r.kind = "put" => req.kind # "update"
          BY <4>1
        <4> QED  BY <1>2, <1>10, <2>2, <4>1, <4>2
      <3>2. CASE h # w
        <4>1. r.token # t
          BY <1>1, <2>1, <3>2
        <4>2. r.token # 0
          BY <2>2, <1>2
        <4> HIDE DEF r
        <4> QED  BY <1>11, <2>2, <4>1, <4>2
      <3> QED  BY <3>1, <3>2
    <2> HIDE DEF r
    <2> QED  BY <1>3, <2>1, <2>2, <2>3, <2>4 DEF PendingRequest
  <1>16. \A h \in Handlers : PendingRequest(h)'
    BY <1>15 DEF PendingRequest
  <1>17. ASSUME NEW x \in Readings' PROVE Faithful(x)'
    <2>1. x \in Readings \/ x = NothingSeen
      <3>1. \A h \in Handlers : pending'[h].read \in Readings \/ pending'[h].read = NothingSeen
        <4>1. \A h \in Handlers : pending[h].read \in Readings
          BY ReadingsAre
        <4> QED  BY <1>8, <4>1 DEF NoRequest, req
      <3> QED  BY <1>3, <3>1, ReadingsAre
    <2>2. CASE x = NothingSeen
      <3>1. x.held = {} /\ x.key \notin Keys
        BY <2>2 DEF NothingSeen, Keys
      <3> QED  BY <3>1 DEF Faithful, Clean
    <2>3. CASE x \in Readings
      <3>1. Faithful(x)
        BY <2>3
      <3>2. Clean(x.held)'
        BY <1>3, <1>4, <3>1 DEF Faithful, Clean
      <3>3. SUFFICES ASSUME x.key \in Keys
                     PROVE  /\ x.rev = IfUnchanged(x.rev.value)
                            /\ x.rev.value \in 0..used
                            /\ x.rev.value = 0 => x.held = {}
                            /\ x.key \notin rewound' /\ x.rev.value # 0
                                 /\ x.rev.value = table'[x.key].rev => x.held = table'[x.key].held
                            /\ \A b \in Handlers : batch[b].token # 0 /\ x.rev.value = batch[b].token
                                 => x.held = {batch[b].token}
                            /\ \A h \in Handlers : pending'[h].kind = "put" /\ pending'[h].key = x.key
                                 /\ x.rev.value = pending'[h].token
                                 => x.held = pending'[h].read.held \cup {pending'[h].token}
        BY <1>3, <3>2 DEF Faithful
      <3>4. /\ x.rev = IfUnchanged(x.rev.value)
            /\ x.rev.value \in 0..used
            /\ x.rev.value = 0 => x.held = {}
            /\ x.key \notin rewound /\ x.rev.value # 0 /\ x.rev.value = table[x.key].rev
                  => x.held = table[x.key].held
            /\ \A b \in Handlers : batch[b].token # 0 /\ x.rev.value = batch[b].token
                                      => x.held = {batch[b].token}
            /\ \A h \in Handlers : pending[h].kind = "put" /\ pending[h].key = x.key
                                      /\ x.rev.value = pending[h].token
                                      => x.held = pending[h].read.held \cup {pending[h].token}
        BY <3>1, <3>3 DEF Faithful
      <3>5. x.key \notin rewound' /\ x.rev.value # 0 /\ x.rev.value = table'[x.key].rev
               => x.held = table'[x.key].held
        <4>1. CASE x.key # q
          BY <1>3, <1>7, <3>3, <3>4, <4>1
        <4>2. CASE x.key = q
          <5>1. req.kind = "put" /\ x.rev.value = t => x.held = req.read.held \cup {t}
            BY <1>9, <2>3, <4>2
          <5> QED  BY <1>3, <1>10, <3>4, <4>2, <5>1
        <4> QED  BY <4>1, <4>2
      <3>6. \A h \in Handlers : pending'[h].kind = "put" => pending'[h] = pending[h]
        BY <1>14
      <3> QED  BY <3>4, <3>5, <3>6
    <2> QED  BY <2>1, <2>2, <2>3
  <1>18. NoLostUpdate'
    <2>1. ASSUME NEW k \in Keys, k \notin rewound' PROVE acked'[k] \subseteq table'[k].held
      <3>1. acked[k] \subseteq table[k].held
        BY <1>3, <2>1 DEF NoLostUpdate
      <3>2. CASE k # q
        BY <1>7, <3>1, <3>2
      <3>3. CASE k = q
        BY <1>3, <1>10, <2>1, <3>1, <3>3
      <3> QED  BY <3>2, <3>3
    <2> QED  BY <2>1 DEF NoLostUpdate
  <1>19. RefusedNotApplied'
    BY <1>3, <1>4, <1>11 DEF RefusedNotApplied
  <1> QED  BY <1>3, <1>12, <1>13, <1>16, <1>17, <1>18, <1>19

LEMMA ChunkStepKeeps ==
    ASSUME DatastoreInv, NEW b \in Handlers, ChunkStep(b) PROVE DatastoreInv'
  <1> DEFINE t == batch[b].token
  <1> USE DEF DatastoreInv
  <1>1. used \in Nat /\ UNCHANGED <<used, refused, seen, pending, rewound, unsettled>> /\ Shapes'
    BY DEF Numbers, ChunkStep, sendVars
  <1>2. t \in 1..used /\ t # 0 /\ t \notin refused
    <2>1. t # 0 /\ t \in 0..used
      BY DEF ChunkStep, BatchTokens
    <2>2. t \notin refused
      BY <2>1 DEF BatchTokens
    <2> QED  BY <1>1, <2>1, <2>2
  <1>3. ASSUME NEW k \in Keys
        PROVE  \/ table'[k] = table[k] /\ acked'[k] = acked[k]
               \/ /\ table'[k].rev = 0 /\ table'[k].held = {} /\ acked'[k] = {}
                  /\ table'[k].leaked = {}
               \/ /\ table'[k].rev = t /\ table'[k].held = {t} /\ acked'[k] \subseteq {t}
                  /\ table'[k].leaked = {}
    <2>1. \/ table'[k] = table[k] /\ acked'[k] = acked[k]
          \/ table'[k] = Absent /\ acked'[k] = {}
          \/ table'[k] = PutItem({}, t) /\ acked'[k] \subseteq {t}
      BY DEF ChunkStep
    <2> HIDE DEF t
    <2> QED  BY <2>1 DEF PutItem, Absent
  <1>4. \A c \in Handlers : /\ batch'[c].token = batch[c].token
                            /\ batch'[c].got \subseteq batch[c].got
                            /\ BatchRecord(batch[c])'
                            /\ batch'[c].mode # "idle" => batch[c].token # 0
    <2>1. /\ batch' = [batch EXCEPT ![b] = batch'[b]] /\ batch = [c \in Handlers |-> batch[c]]
          /\ batch'[b].token = t /\ batch'[b].got \subseteq batch[b].got /\ BatchRecord(batch'[b])
      BY DEF ChunkStep, BatchTokens
    <2>2. \A c \in Handlers : c # b => batch'[c] = batch[c]
      BY <2>1
    <2>3. \A c \in Handlers : BatchRecord(batch[c]) /\ (batch[c].mode # "idle" => batch[c].token # 0)
      BY DEF BatchTokens
    <2>4. t # 0
      BY <1>2
    <2> QED  BY <2>1, <2>2, <2>3, <2>4 DEF BatchRecord
  <1>5. Numbers'
    <2>1. ASSUME NEW k \in Keys
          PROVE  /\ table'[k].held \subseteq 1..used'
                 /\ table'[k].rev \in 0..used'
                 /\ table'[k].rev = 0 => table'[k].held = {}
                 /\ table'[k].leaked \subseteq unsettled'
      <3>1. table[k].held \subseteq 1..used /\ table[k].rev \in 0..used /\
            (table[k].rev = 0 => table[k].held = {}) /\ table[k].leaked \subseteq unsettled
        BY DEF Numbers
      <3> HIDE DEF t
      <3> QED  BY <1>1, <1>2, <1>3, <3>1
    <2> QED  BY <1>1, <2>1 DEF Numbers
  <1>6. BatchTokens'
    <2>1. batch' = [c \in Handlers |-> batch'[c]]
      BY DEF ChunkStep, BatchTokens
    <2>2. \A c \in Handlers : batch[c].token \in 0..used
      BY DEF BatchTokens
    <2>3. \A c, e \in Handlers : batch[c].token # 0 /\ batch[c].token = batch[e].token => c = e
      BY DEF BatchTokens
    <2>4. ASSUME NEW c \in Handlers, batch[c].token # 0
          PROVE  /\ batch[c].token \notin refused
                 /\ \A k \in Keys : table'[k].rev = batch[c].token => table'[k].held = {batch[c].token}
      <3>1. /\ batch[c].token \notin refused
            /\ \A k \in Keys : table[k].rev = batch[c].token => table[k].held = {batch[c].token}
        BY <2>4 DEF BatchTokens
      <3> HIDE DEF t
      <3> QED  BY <2>4, <3>1, <1>3
    <2> QED  BY <1>1, <1>4, <2>1, <2>2, <2>3, <2>4 DEF BatchTokens
  <1>7. \A h \in Handlers : PendingRequest(h)'
    <2>1. ASSUME NEW h \in Handlers, pending[h].kind # "none" PROVE PendingRequest(h)'
      <3> DEFINE r == pending[h]
      <3>1. /\ r.kind \in AtomicKinds /\ r.key \in Keys
            /\ r.token \in 1..used /\ r.token \in unsettled /\ r.token # t
            /\ \A c \in Handlers : batch[c].token # r.token
            /\ \A g \in Handlers : pending[g].kind # "none" /\ pending[g].token = r.token => g = h
            /\ r.kind = "put" =>
                 /\ IF r.rev.asked THEN r.read.key = r.key /\ r.rev = r.read.rev
                    ELSE r.read = NothingSeen
                 /\ table[r.key].rev = r.token => table[r.key].held = r.read.held \cup {r.token}
        BY <2>1 DEF PendingRequest
      <3>2. r.token # 0
        BY <1>1, <3>1
      <3> HIDE DEF t, r
      <3>3. r.kind = "put" /\ table'[r.key].rev = r.token
              => table'[r.key].held = r.read.held \cup {r.token}
        BY <1>3, <3>1, <3>2
      <3>4. pending[h] = r
        BY DEF r
      <3> QED  BY <1>1, <1>4, <3>1, <3>3, <3>4 DEF PendingRequest
    <2> QED  BY <1>1, <2>1 DEF PendingRequest
  <1>8. ASSUME NEW x \in Readings' PROVE Faithful(x)'
    <2>1. x \in Readings
      BY <1>1, <1>4, ReadingsAre
    <2>2. Faithful(x)
      BY <2>1
    <2>3. Clean(x.held)'
      BY <1>1, <2>2 DEF Faithful, Clean
    <2>4. SUFFICES ASSUME x.key \in Keys PROVE Faithful(x)'
      BY <2>3 DEF Faithful
    <2>5. /\ x.rev = IfUnchanged(x.rev.value)
          /\ x.rev.value \in 0..used
          /\ x.rev.value = 0 => x.held = {}
          /\ x.key \notin rewound /\ x.rev.value # 0 /\ x.rev.value = table[x.key].rev
                => x.held = table[x.key].held
          /\ \A c \in Handlers : batch[c].token # 0 /\ x.rev.value = batch[c].token
                                    => x.held = {batch[c].token}
          /\ \A h \in Handlers : pending[h].kind = "put" /\ pending[h].key = x.key
                                    /\ x.rev.value = pending[h].token
                                    => x.held = pending[h].read.held \cup {pending[h].token}
      BY <2>2, <2>4 DEF Faithful
    <2>6. x.rev.value = t => x.held = {t}
      BY <1>2, <2>5
    <2> HIDE DEF t
    <2>7. x.key \notin rewound /\ x.rev.value # 0 /\ x.rev.value = table'[x.key].rev
            => x.held = table'[x.key].held
      BY <1>3, <2>4, <2>5, <2>6
    <2> QED  BY <1>1, <1>4, <2>3, <2>4, <2>5, <2>7 DEF Faithful
  <1>9. NoLostUpdate'
    <2>1. ASSUME NEW k \in Keys, k \notin rewound PROVE acked'[k] \subseteq table'[k].held
      <3> HIDE DEF t
      <3> QED  BY <1>3, <2>1 DEF NoLostUpdate
    <2> QED  BY <1>1, <2>1 DEF NoLostUpdate
  <1>10. RefusedNotApplied'
    <2>1. ASSUME NEW k \in Keys PROVE table'[k].held \cap (refused' \ unsettled') = {}
      <3>1. table[k].held \cap (refused \ unsettled) = {}
        BY DEF RefusedNotApplied
      <3> HIDE DEF t
      <3> QED  BY <3>1, <1>1, <1>2, <1>3
    <2> QED  BY <2>1 DEF RefusedNotApplied
  <1> QED  BY <1>1, <1>5, <1>6, <1>7, <1>8, <1>9, <1>10

(* A step that writes nothing: handlers read, begin a batch or end one.    *)
QuietStep ==
    /\ UNCHANGED <<table, acked, refused, sendVars>>
    /\ Shapes'
    /\ \/ UNCHANGED <<batch, used>>
       \/ \E b \in Handlers :
            /\ batch' = [batch EXCEPT ![b] = batch'[b]]
            /\ BatchRecord(batch'[b])
            /\ \/ /\ used' = used + 1 /\ batch'[b].token = used + 1
                  /\ batch'[b].got = {}
               \/ /\ UNCHANGED used
                  /\ batch'[b].token = 0 /\ batch'[b].mode = "idle"
                  /\ batch'[b].got = {}
               \/ /\ UNCHANGED used
                  /\ batch'[b].token = batch[b].token
                  /\ batch'[b].mode # "idle" => batch[b].token # 0
    /\ \A x \in Readings' : \/ x \in Readings \/ x = NothingSeen
                            \/ \E k \in Keys : x = [key |-> k, held |-> table[k].held,
                                                     rev |-> IfUnchanged(table[k].rev)]

LEMMA QuietStepKeeps ==
    ASSUME DatastoreInv, QuietStep PROVE DatastoreInv'
  <1> USE DEF DatastoreInv
  <1>1. UNCHANGED <<table, acked, refused, pending, rewound, unsettled>> /\ Shapes'
    BY DEF QuietStep, sendVars
  <1>2. used \in Nat /\ used' \in Nat /\ (used' = used \/ used' = used + 1)
        /\ 0..used \subseteq 0..used' /\ 1..used \subseteq 1..used'
    <2>1. used \in Nat /\ (used' = used \/ used' = used + 1)
      BY DEF QuietStep, Numbers
    <2> QED  BY <2>1
  <1>3. Numbers'
    BY <1>1, <1>2 DEF Numbers
  (* The batches either keep their tokens, give one back or draw a fresh one. *)
  <1>4. /\ batch' = [b \in Handlers |-> batch'[b]]
        /\ \A b \in Handlers : BatchRecord(batch[b])'
        /\ \A b \in Handlers : /\ batch'[b].token \in {0, batch[b].token, used + 1}
                               /\ batch'[b].token = used + 1 => used' = used + 1
                               /\ batch'[b].mode # "idle" => batch'[b].token # 0
        /\ \A b, c \in Handlers : batch'[b].token = used + 1 /\ batch'[c].token = used + 1 => b = c
    <2>1. /\ batch = [b \in Handlers |-> batch[b]]
          /\ \A b \in Handlers : /\ BatchRecord(batch[b]) /\ batch[b].token # used + 1
                                 /\ batch[b].mode # "idle" => batch[b].token # 0
      <3>1. \A b \in Handlers : batch[b].token \in 0..used
        BY DEF BatchTokens
      <3>2. used + 1 \notin 0..used
        BY <1>2
      <3> QED  BY <3>1, <3>2 DEF BatchTokens
    <2>2. CASE UNCHANGED <<batch, used>>
      BY <2>1, <2>2 DEF BatchRecord
    <2>3. ASSUME NEW b \in Handlers,
                 batch' = [batch EXCEPT ![b] = batch'[b]], BatchRecord(batch'[b]),
                 \/ /\ used' = used + 1 /\ batch'[b].token = used + 1
                    /\ batch'[b].got = {}
                 \/ /\ UNCHANGED used
                    /\ batch'[b].token = 0 /\ batch'[b].mode = "idle"
                    /\ batch'[b].got = {}
                 \/ /\ UNCHANGED used
                    /\ batch'[b].token = batch[b].token
                    /\ batch'[b].mode # "idle" => batch[b].token # 0
          PROVE  <1>4!1 /\ <1>4!2 /\ <1>4!3 /\ <1>4!4
      <3>1. \A c \in Handlers : c # b => batch'[c] = batch[c]
        BY <2>1, <2>3
      <3>2. batch' = [c \in Handlers |-> batch'[c]]
        BY <2>1, <2>3
      <3>3. used + 1 # 0 /\ used + 1 # used
        BY <1>2
      <3>4. /\ batch'[b].token \in {0, batch[b].token, used + 1}
            /\ batch'[b].token = used + 1 => used' = used + 1
            /\ batch'[b].mode # "idle" => batch'[b].token # 0
        BY <2>1, <2>3, <3>3
      <3>5. \A c \in Handlers : BatchRecord(batch[c])'
        BY <2>1, <2>3, <3>1 DEF BatchRecord
      <3> QED  BY <2>1, <3>1, <3>2, <3>4, <3>5
    <2> QED  BY <2>2, <2>3 DEF QuietStep
  <1>5. \A k \in Keys : table[k].rev # used + 1
    <2>1. \A k \in Keys : table[k].rev \in 0..used
      BY DEF Numbers
    <2> QED  BY <2>1, <1>2
  <1>6. used + 1 \notin refused
    BY <1>2 DEF Numbers
  <1>7. BatchTokens'
    <2>1. \A b \in Handlers : batch'[b].token \in 0..used'
      <3>1. \A b \in Handlers : batch[b].token \in 0..used
        BY DEF BatchTokens
      <3>2. ASSUME NEW b \in Handlers PROVE batch'[b].token \in 0..used'
        <4>1. batch[b].token \in 0..used' /\ 0 \in 0..used'
          BY <3>1, <1>2
        <4>2. used' = used + 1 => used + 1 \in 0..used'
          BY <1>2
        <4> QED  BY <4>1, <4>2, <1>4
      <3> QED  BY <3>2
    <2>2. \A b, c \in Handlers : batch'[b].token # 0 /\ batch'[b].token = batch'[c].token => b = c
      BY <1>4 DEF BatchTokens
    <2>3. ASSUME NEW b \in Handlers, batch'[b].token # 0
          PROVE  /\ batch'[b].token \notin refused
                 /\ \A k \in Keys : table[k].rev = batch'[b].token => table[k].held = {batch'[b].token}
      BY <2>3, <1>4, <1>5, <1>6 DEF BatchTokens
    <2> QED  BY <1>1, <1>4, <2>1, <2>2, <2>3 DEF BatchTokens
  <1>8. \A h \in Handlers : PendingRequest(h)'
    <2>1. ASSUME NEW h \in Handlers, pending[h].kind # "none" PROVE PendingRequest(h)'
      <3> DEFINE r == pending[h]
      <3>1. /\ r.kind \in AtomicKinds /\ r.key \in Keys
            /\ r.token \in 1..used /\ r.token \in unsettled
            /\ \A b \in Handlers : batch[b].token # r.token
            /\ \A g \in Handlers : pending[g].kind # "none" /\ pending[g].token = r.token => g = h
            /\ r.kind = "put" =>
                 /\ IF r.rev.asked THEN r.read.key = r.key /\ r.rev = r.read.rev
                    ELSE r.read = NothingSeen
                 /\ table[r.key].rev = r.token => table[r.key].held = r.read.held \cup {r.token}
        BY <2>1 DEF PendingRequest
      <3>2. r.token # 0 /\ r.token # used + 1 /\ r.token \in 1..used'
        BY <1>2, <3>1
      <3> HIDE DEF r
      <3>3. \A b \in Handlers : batch'[b].token # r.token
        BY <1>4, <3>1, <3>2
      <3>4. pending[h] = r
        BY DEF r
      <3> QED  BY <1>1, <3>1, <3>2, <3>3, <3>4 DEF PendingRequest
    <2> QED  BY <1>1, <2>1 DEF PendingRequest
  <1>9. ASSUME NEW x \in Readings' PROVE Faithful(x)'
    <2>1. ASSUME NEW y, Clean(y) PROVE Clean(y)'
      BY <1>1, <1>2, <2>1 DEF Clean
    <2>2. CASE x \in Readings
      <3>1. Faithful(x)
        BY <2>2
      <3>2. Clean(x.held)'
        BY <2>1, <3>1 DEF Faithful
      <3>3. SUFFICES ASSUME x.key \in Keys PROVE Faithful(x)'
        BY <3>2 DEF Faithful
      <3>4. /\ x.rev = IfUnchanged(x.rev.value)
            /\ x.rev.value \in 0..used
            /\ x.rev.value = 0 => x.held = {}
            /\ x.key \notin rewound /\ x.rev.value # 0 /\ x.rev.value = table[x.key].rev
                  => x.held = table[x.key].held
            /\ \A b \in Handlers : batch[b].token # 0 /\ x.rev.value = batch[b].token
                                      => x.held = {batch[b].token}
            /\ \A h \in Handlers : pending[h].kind = "put" /\ pending[h].key = x.key
                                      /\ x.rev.value = pending[h].token
                                      => x.held = pending[h].read.held \cup {pending[h].token}
        BY <3>1, <3>3 DEF Faithful
      <3>5. x.rev.value # used + 1 /\ x.rev.value \in 0..used'
        BY <1>2, <3>4
      <3>6. \A b \in Handlers : batch'[b].token # 0 /\ x.rev.value = batch'[b].token
                                   => x.held = {batch'[b].token}
        BY <1>4, <3>4, <3>5
      <3> QED  BY <1>1, <3>2, <3>3, <3>4, <3>5, <3>6 DEF Faithful
    <2>3. ASSUME NEW k \in Keys, x = [key |-> k, held |-> table[k].held,
                                      rev |-> IfUnchanged(table[k].rev)]
          PROVE  Faithful(x)'
      <3>1. x.key = k /\ x.held = table[k].held /\ x.rev = IfUnchanged(table[k].rev)
            /\ x.rev.value = table[k].rev
        BY <2>3 DEF IfUnchanged
      <3>2. table[k].rev \in 0..used' /\ (table[k].rev = 0 => table[k].held = {})
        BY <2>3, <1>2 DEF Numbers
      <3>3. \A b \in Handlers : batch'[b].token # 0 /\ table[k].rev = batch'[b].token
                                   => table[k].held = {batch'[b].token}
        BY <2>3, <1>1, <1>7 DEF BatchTokens
      <3>4. Clean(x.held)'
        <4>1. Clean(table[k].held)
          BY <2>3 DEF Clean, Numbers, RefusedNotApplied
        <4> QED  BY <2>1, <3>1, <4>1
      <3>5. \A h \in Handlers : pending[h].kind = "put" /\ pending[h].key = k
                                   /\ table[k].rev = pending[h].token
                                   => table[k].held = pending[h].read.held \cup {pending[h].token}
        BY DEF PendingRequest
      <3> QED  BY <1>1, <3>1, <3>2, <3>3, <3>4, <3>5 DEF Faithful
    <2>4. CASE x = NothingSeen
      <3>1. x.held = {} /\ x.key \notin Keys
        BY <2>4 DEF NothingSeen, Keys
      <3> QED  BY <3>1 DEF Faithful, Clean
    <2> QED  BY <2>2, <2>3, <2>4 DEF QuietStep
  <1>10. NoLostUpdate' /\ RefusedNotApplied'
    BY <1>1 DEF NoLostUpdate, RefusedNotApplied
  <1> QED  BY <1>1, <1>3, <1>7, <1>8, <1>9, <1>10
-----------------------------------------------------------------------------
(* Every step is of one of those kinds.                                    *)

(* A revision read and still that of the item says what the item holds.    *)
LEMMA RevisionHolds ==
    ASSUME DatastoreInv, NEW x \in Readings, x.key \in Keys, x.rev.value = table[x.key].rev
    PROVE  x.key \in rewound \/ x.held = table[x.key].held
  <1>1. Faithful(x)
    BY DEF DatastoreInv
  <1>2. table[x.key].rev = 0 => table[x.key].held = {}
    BY DEF DatastoreInv, Numbers
  <1> QED  BY <1>1, <1>2 DEF Faithful

LEMMA ForgetShape ==
    ASSUME Shapes, NEW w \in Handlers, Forget(w)
    PROVE  /\ seen' = [h \in Handlers |-> seen'[h]]
           /\ \A h \in Handlers : seen'[h] \in {seen[h], NothingSeen}
  BY DEF Shapes, Forget

(* What was drawn from the items themselves is clean.                      *)
LEMMA ItemClean ==
    ASSUME DatastoreInv, NEW k \in Keys
    PROVE  Clean(table[k].held \cup table[k].leaked)
  <1>1. /\ table[k].held \subseteq 1..used /\ table[k].held \cap (refused \ unsettled) = {}
        /\ table[k].leaked \subseteq unsettled /\ unsettled \subseteq 1..used
    BY DEF DatastoreInv, Numbers, RefusedNotApplied
  <1> QED  BY <1>1 DEF Clean

LEMMA UpdateStamps ==
    ASSUME DatastoreInv, NEW k \in Keys, NEW t
    PROVE  Stamps(k, UpdateItem(table[k], t), t)
  BY ItemClean DEF Stamps, UpdateItem

(* A put under a revision carries what its caller read with it.            *)
ReadFor(req) ==
    IF req.rev.asked THEN req.read.key = req.key /\ req.rev = req.read.rev
    ELSE req.read = NothingSeen

Replaces(req) == req.kind = "delete" \/ (req.kind = "put" /\ ~req.rev.asked)

(* A request that was applied to its item.                                 *)
Applied(req) ==
    /\ table'[req.key] = RequestItem(req)
    /\ RequestHolds(req.kind, req.key, req.cond, req.rev)
    /\ acked'[req.key] \subseteq (IF Replaces(req) THEN {} ELSE acked[req.key]) \cup {req.token}
    /\ RequestItem(req) = Absent => acked'[req.key] = {}

(* One sending of a request, the first or a later one.                     *)
LEMMA SendIs ==
    ASSUME DatastoreInv, NEW w \in Handlers, NEW req, NEW valid \in BOOLEAN,
           NEW outcome \in Outcomes, Send(w, req, valid, outcome), req.key \in Keys
    PROVE  /\ \A k \in Keys : k # req.key => table'[k] = table[k] /\ acked'[k] = acked[k]
           /\ \/ UNCHANGED <<table, acked>>
              \/ valid /\ Applied(req)
           /\ \/ refused' = refused
              \/ refused' = refused \cup {req.token} /\ UNCHANGED table
           /\ outcome = "again" => valid /\ Applied(req)
           /\ table' = [k \in Keys |-> table'[k]] /\ acked' = [k \in Keys |-> acked'[k]]
           /\ pending' = [pending EXCEPT ![w] = IF outcome = "again" THEN req ELSE NoRequest]
           /\ unsettled' = unsettled \cup (IF outcome = "again" THEN {req.token} ELSE {})
           /\ UNCHANGED batch
  <1> DEFINE q     == req.key
             t     == req.token
             holds == RequestHolds(req.kind, req.key, req.cond, req.rev)
             item  == RequestItem(req)
             new   == IF holds THEN [x \in {q} |-> item] ELSE Nothing
             app   == IF valid /\ outcome # "failed" THEN new ELSE Nothing
             repl  == {k \in {q} : Replaces(req)}
             told  == IF outcome = "answered" /\ valid /\ holds THEN {t} ELSE {}
  <1>1. /\ Changed(app, repl, told)
        /\ refused' = refused \cup (IF outcome = "answered" /\ ~(valid /\ holds) THEN {t} ELSE {})
        /\ UNCHANGED batch
        /\ outcome = "again" => valid /\ holds
        /\ pending' = [pending EXCEPT ![w] = IF outcome = "again" THEN req ELSE NoRequest]
        /\ unsettled' = unsettled \cup (IF outcome = "again" THEN {t} ELSE {})
    BY Zenon DEF Send, Write, Replaces
  <1>2. q \in Keys /\ holds \in BOOLEAN
    BY DEF RequestHolds, UpdateExpression, WriteExpression
  <1>3. /\ DOMAIN app \subseteq {q}
        /\ q \in DOMAIN app <=> valid /\ outcome # "failed" /\ holds
        /\ q \in DOMAIN app => app[q] = item
    <2> HIDE DEF holds, item, q
    <2> QED  BY DEF Nothing
  <1>4. told \subseteq {t}
    OBVIOUS
  <1>5. q \in repl <=> Replaces(req)
    OBVIOUS
  <1>6. holds <=> RequestHolds(req.kind, req.key, req.cond, req.rev)
    OBVIOUS
  <1> HIDE DEF app, told, repl, holds, item, q, t
  <1>7. /\ table' = [k \in Keys |-> IF k \in DOMAIN app THEN app[k] ELSE table[k]]
        /\ acked' = [k \in Keys |->
                   IF k \notin DOMAIN app THEN acked[k]
                   ELSE ((IF k \in repl THEN {} ELSE acked[k]) \cup told) \cap
                        (IF app[k] = Absent THEN {} ELSE Tokens)]
    BY <1>1 DEF Changed
  <1>8. \A k \in Keys : k # q => table'[k] = table[k] /\ acked'[k] = acked[k]
    BY <1>3, <1>7
  <1>9. table' = [k \in Keys |-> table'[k]] /\ acked' = [k \in Keys |-> acked'[k]]
    BY <1>7
  <1>10. CASE valid /\ outcome # "failed" /\ holds
    <2>1. table'[q] = item
      BY <1>2, <1>3, <1>7, <1>10
    <2>2. acked'[q] = ((IF Replaces(req) THEN {} ELSE acked[q]) \cup told) \cap
                      (IF item = Absent THEN {} ELSE Tokens)
      <3>1. q \in DOMAIN app /\ app[q] = item
        BY <1>3, <1>10
      <3> QED  BY <1>2, <1>5, <1>7, <3>1
    <2>3. /\ acked'[q] \subseteq (IF Replaces(req) THEN {} ELSE acked[q]) \cup {t}
          /\ item = Absent => acked'[q] = {}
      BY <1>4, <2>2
    <2>4. Applied(req)
      BY <1>10, <2>1, <2>3, Zenon DEF Applied, q, t, item, holds
    <2>5. refused' = refused
      BY <1>1, <1>10
    <2> QED  BY <1>1, <1>8, <1>9, <1>10, <2>4, <2>5 DEF q, t
  <1>11. CASE ~(valid /\ outcome # "failed" /\ holds)
    <2>1. DOMAIN app = {}
      BY <1>3, <1>11
    <2>2. UNCHANGED <<table, acked>>
      BY <1>1, <2>1, NothingChanges DEF DatastoreInv
    <2>3. outcome # "again"
      BY <1>1, <1>11
    <2>4. refused' = refused \/ refused' = refused \cup {t}
      BY <1>1
    <2> QED  BY <1>1, <1>8, <1>9, <2>2, <2>3, <2>4 DEF q, t
  <1> QED  BY <1>10, <1>11

(* What a request's conditions say of the put they let through.            *)
LEMMA PutHolds ==
    ASSUME DatastoreInv, NEW req, req.kind = "put", req.key \in Keys, req.rev.asked, ReadFor(req),
           RequestHolds(req.kind, req.key, req.cond, req.rev), req.read \in Readings
    PROVE  Clean(req.read.held) /\ (req.key \in rewound \/ req.read.held = table[req.key].held)
  <1>1. req.rev.value = table[req.key].rev
    BY DEF RequestHolds, WriteExpression, RevisionCondition
  <1>2. req.read.key = req.key /\ req.rev = req.read.rev
    BY DEF ReadFor
  <1>3. Faithful(req.read)
    BY DEF DatastoreInv
  <1> QED  BY <1>1, <1>2, <1>3, RevisionHolds DEF Faithful

LEMMA AppliedStep ==
    ASSUME DatastoreInv, NEW req, req.key \in Keys, req.kind \in AtomicKinds,
           req.kind = "put" => ReadFor(req),
           req.read \in Readings \/ req.read = NothingSeen, Applied(req)
    PROVE  KeyStep(req.key, req.token)
  <1> DEFINE q == req.key
             t == req.token
  <1>1. CASE req.kind = "delete"
    BY <1>1 DEF Applied, RequestItem, KeyStep
  <1>2. CASE req.kind = "update"
    <2>1. table'[q] = UpdateItem(table[q], t) /\ acked'[q] \subseteq acked[q] \cup {t}
      BY <1>2 DEF Applied, RequestItem, Replaces
    <2> QED  BY <2>1, UpdateStamps DEF KeyStep
  <1>3. CASE req.kind = "put" /\ ~req.rev.asked
    <2>1. req.read.held = {}
      BY <1>3 DEF ReadFor, NothingSeen
    <2>2. table'[q] = PutItem({}, t) /\ acked'[q] \subseteq {t}
      BY <1>3, <2>1 DEF Applied, RequestItem, Replaces
    <2> QED  BY <2>2 DEF KeyStep
  <1>4. CASE req.kind = "put" /\ req.rev.asked
    <2>1. req.read \in Readings
      <3>1. NothingSeen.key \notin Keys
        BY DEF NothingSeen, Keys
      <3> QED  BY <1>4, <3>1 DEF ReadFor
    <2>2. Clean(req.read.held) /\ (q \in rewound \/ req.read.held = table[q].held)
      BY <1>4, <2>1, PutHolds DEF Applied
    <2>3. table'[q] = PutItem(req.read.held, t) /\ acked'[q] \subseteq acked[q] \cup {t}
      BY <1>4 DEF Applied, RequestItem, Replaces
    <2>4. Stamps(q, table'[q], t)
      BY <2>2, <2>3 DEF Stamps
    <2> QED  BY <2>3, <2>4 DEF KeyStep
  <1> QED  BY <1>1, <1>2, <1>3, <1>4 DEF AtomicKinds

LEMMA SentIsWrite ==
    ASSUME DatastoreInv, NEW w \in Handlers, NEW req, NEW valid \in BOOLEAN, Sent(w, req, valid),
           req.key \in Keys, req.kind \in AtomicKinds, req.token = used + 1,
           req.kind = "put" /\ valid => ReadFor(req),
           req.read \in Readings \/ req.read = NothingSeen,
           seen' = [h \in Handlers |-> seen'[h]],
           \A h \in Handlers : seen'[h] \in {seen[h], NothingSeen}
    PROVE  WriteStep
  <1> DEFINE t == used + 1
  <1>1. PICK outcome \in Outcomes : Send(w, req, valid, outcome)
    BY DEF Sent
  <1>2. used' = t /\ UNCHANGED rewound
    BY DEF Sent
  <1> HIDE DEF t
  <1>3. /\ \A k \in Keys : k # req.key => table'[k] = table[k] /\ acked'[k] = acked[k]
        /\ \/ UNCHANGED <<table, acked>>
           \/ valid /\ Applied(req)
        /\ \/ refused' = refused
           \/ refused' = refused \cup {req.token} /\ UNCHANGED table
        /\ outcome = "again" => valid /\ Applied(req)
        /\ table' = [k \in Keys |-> table'[k]] /\ acked' = [k \in Keys |-> acked'[k]]
        /\ pending' = [pending EXCEPT ![w] = IF outcome = "again" THEN req ELSE NoRequest]
        /\ unsettled' = unsettled \cup (IF outcome = "again" THEN {req.token} ELSE {})
        /\ UNCHANGED batch
    BY <1>1, SendIs
  <1>4. req.token = t
    BY DEF t
  <1>5. valid /\ Applied(req) => KeyStep(req.key, t)
    BY <1>4, AppliedStep
  <1>6. \A k \in Keys : table'[k] = table[k] /\ acked'[k] = acked[k] => KeyStep(k, t)
    BY DEF KeyStep
  <1>7. \A k \in Keys : KeyStep(k, t)
    BY <1>3, <1>5, <1>6
  <1>8. /\ pending = [h \in Handlers |-> pending[h]]
        /\ pending' = [h \in Handlers |-> pending'[h]]
        /\ \A h \in Handlers : h # w => pending'[h] = pending[h]
        /\ pending'[w] = IF outcome = "again" THEN req ELSE NoRequest
    <2>1. pending = [h \in Handlers |-> pending[h]]
      BY DEF DatastoreInv, Shapes
    <2> QED  BY <1>3, <2>1
  <1>9. outcome = "again" => Kept(req, t)
    <2>1. SUFFICES ASSUME outcome = "again" PROVE Kept(req, t)
      OBVIOUS
    <2>2. valid /\ Applied(req) /\ t \in unsettled'
      BY <1>3, <1>4, <2>1
    <2>3. req.kind = "put" => ReadFor(req) /\ table'[req.key] = PutItem(req.read.held, t)
      BY <1>4, <2>2 DEF Applied, RequestItem
    <2> QED  BY <1>4, <2>2, <2>3 DEF Kept, ReadFor
  <1>10. \E h \in Handlers :
         /\ \A g \in Handlers : g # h => pending'[g] = pending[g]
         /\ pending'[h] \in {pending[h], NoRequest} \/ Kept(pending'[h], t)
    BY <1>8, <1>9
  <1>11. refused' = refused \/ (/\ refused' = refused \cup {t}
                                /\ \A k \in Keys : table'[k].held = table[k].held)
    BY <1>3, <1>4
  <1>12. unsettled' = unsettled \/ unsettled' = unsettled \cup {t}
    BY <1>3, <1>4
  <1>13. Shapes'
    BY <1>3, <1>8 DEF Shapes
  <1> QED  BY <1>2, <1>3, <1>7, <1>10, <1>11, <1>12, <1>13 DEF WriteStep, t

LEMMA RequestFields ==
    ASSUME NEW kind, NEW k, NEW cond, NEW rev, NEW read
    PROVE  LET req == Request(kind, k, cond, rev, read) IN
           /\ req.kind = kind /\ req.key = k /\ req.cond = cond /\ req.rev = rev
           /\ req.read = read /\ req.token = used + 1
  BY DEF Request

LEMMA PutIsWrite ==
    ASSUME DatastoreInv, NEW w \in Handlers, NEW k \in Keys, NEW carried, NEW cond,
           NEW rev \in RevisionsFor(w, k), Put(w, k, carried, cond, rev)
    PROVE  WriteStep
  <1> DEFINE read  == IF rev.asked THEN seen[w] ELSE NothingSeen
             req   == Request("put", k, cond, rev, read)
             valid == KeyFits(k, carried) /\ ExpressionOK(cond, rev)
  <1>1. Sent(w, req, valid) /\ Forget(w)
    BY DEF Put
  <1>2. /\ req.kind = "put" /\ req.key = k /\ req.rev = rev
        /\ req.read = read /\ req.token = used + 1
    BY RequestFields
  <1>3. valid \in BOOLEAN
    OBVIOUS
  <1>4. valid => rev.known
    BY DEF ExpressionOK
  <1>5. read \in Readings \/ read = NothingSeen
    BY ReadingsAre
  <1>6. valid => IF rev.asked THEN read.key = k /\ rev = read.rev ELSE read = NothingSeen
    <2>1. rev.known /\ rev.asked => seen[w].key = k /\ rev = seen[w].rev
      BY DEF RevisionsFor, NoRevision, ZeroRevision
    <2> QED  BY <1>4, <2>1
  <1>7. /\ seen' = [h \in Handlers |-> seen'[h]]
        /\ \A h \in Handlers : seen'[h] \in {seen[h], NothingSeen}
    BY <1>1, ForgetShape DEF DatastoreInv
  <1> HIDE DEF valid, req, read
  <1>8. valid => ReadFor(req)
    BY <1>2, <1>6 DEF ReadFor
  <1> QED  BY <1>1, <1>2, <1>3, <1>5, <1>7, <1>8, SentIsWrite DEF AtomicKinds

LEMMA UpdateIsWrite ==
    ASSUME DatastoreInv, NEW w \in Handlers, NEW k \in Keys, NEW n, NEW cond, NEW rev,
           Update(w, k, n, cond, rev)
    PROVE  WriteStep
  <1> DEFINE req   == Request("update", k, cond, rev, NothingSeen)
             valid == MutationsOK(n) /\ KeyFits(k, 0) /\ ExpressionOK(cond, rev)
  <1>1. Sent(w, req, valid) /\ UNCHANGED seen
    BY DEF Update
  <1>2. /\ req.kind = "update" /\ req.key = k
        /\ req.read = NothingSeen /\ req.token = used + 1
    BY RequestFields
  <1>3. valid \in BOOLEAN
    OBVIOUS
  <1>4. /\ seen' = [h \in Handlers |-> seen'[h]]
        /\ \A h \in Handlers : seen'[h] \in {seen[h], NothingSeen}
    BY <1>1 DEF DatastoreInv, Shapes
  <1> HIDE DEF valid, req
  <1> QED  BY <1>1, <1>2, <1>3, <1>4, SentIsWrite DEF AtomicKinds

LEMMA DeleteIsWrite ==
    ASSUME DatastoreInv, NEW w \in Handlers, NEW k \in Keys, NEW cond, NEW rev,
           Delete(w, k, cond, rev)
    PROVE  WriteStep
  <1> DEFINE req   == Request("delete", k, cond, rev, NothingSeen)
             valid == KeyFits(k, 0) /\ ExpressionOK(cond, rev)
  <1>1. Sent(w, req, valid) /\ Forget(w)
    BY DEF Delete
  <1>2. /\ req.kind = "delete" /\ req.key = k
        /\ req.read = NothingSeen /\ req.token = used + 1
    BY RequestFields
  <1>3. valid \in BOOLEAN
    OBVIOUS
  <1>4. /\ seen' = [h \in Handlers |-> seen'[h]]
        /\ \A h \in Handlers : seen'[h] \in {seen[h], NothingSeen}
    BY <1>1, ForgetShape DEF DatastoreInv
  <1> HIDE DEF valid, req
  <1> QED  BY <1>1, <1>2, <1>3, <1>4, SentIsWrite DEF AtomicKinds

LEMMA ResendIsResend ==
    ASSUME DatastoreInv, NEW w \in Handlers, NEW outcome \in Outcomes, Resend(w, outcome)
    PROVE  ResendStep(w)
  <1> DEFINE req == pending[w]
  <1>1. /\ req.kind # "none" /\ Send(w, req, TRUE, outcome) /\ UNCHANGED <<seen, used>>
        /\ rewound' = rewound \cup {k \in {req.key} : req.kind = "update" /\ table'[k] # table[k]}
    BY DEF Resend
  <1>2. /\ req.kind \in AtomicKinds /\ req.key \in Keys /\ req.token \in unsettled
        /\ req.kind = "put" => ReadFor(req)
    BY <1>1 DEF DatastoreInv, PendingRequest, ReadFor
  <1>3. req.read \in Readings
    BY ReadingsAre
  <1> HIDE DEF req
  <1>4. /\ \A k \in Keys : k # req.key => table'[k] = table[k] /\ acked'[k] = acked[k]
        /\ \/ UNCHANGED <<table, acked>>
           \/ Applied(req)
        /\ \/ refused' = refused
           \/ refused' = refused \cup {req.token} /\ UNCHANGED table
        /\ table' = [k \in Keys |-> table'[k]] /\ acked' = [k \in Keys |-> acked'[k]]
        /\ pending' = [pending EXCEPT ![w] = IF outcome = "again" THEN req ELSE NoRequest]
        /\ unsettled' = unsettled \cup (IF outcome = "again" THEN {req.token} ELSE {})
        /\ UNCHANGED batch
    BY <1>1, <1>2, SendIs
  <1>5. /\ pending' = [h \in Handlers |-> pending'[h]]
        /\ \A h \in Handlers : h # w => pending'[h] = pending[h]
        /\ pending'[w] = req \/ pending'[w] = NoRequest
    <2>1. pending = [h \in Handlers |-> pending[h]]
      BY DEF DatastoreInv, Shapes
    <2> QED  BY <1>4, <2>1
  <1>6. unsettled' = unsettled
    BY <1>2, <1>4
  <1>7. ResendKey(req, req.key)
    <2> DEFINE q == req.key
               t == req.token
    <2>1. CASE UNCHANGED <<table, acked>>
      BY <2>1 DEF ResendKey
    <2>2. CASE Applied(req)
      <3>1. CASE req.kind = "delete"
        BY <2>2, <3>1 DEF Applied, RequestItem, ResendKey
      <3>2. CASE req.kind = "update"
        <4>1. table'[q] = PutItem(table[q].held \cup table[q].leaked, t)
              /\ acked'[q] \subseteq acked[q] \cup {t}
          BY <2>2, <3>2 DEF Applied, RequestItem, Replaces, UpdateItem
        <4>2. q \in rewound' \/ table'[q] = table[q]
          BY <1>1, <3>2
        <4> QED  BY <3>2, <4>1, <4>2 DEF ResendKey
      <3>3. CASE req.kind = "put" /\ ~req.rev.asked
        <4>1. table'[q] = PutItem(req.read.held, t) /\ acked'[q] \subseteq {t}
          BY <2>2, <3>3 DEF Applied, RequestItem, Replaces
        <4> QED  BY <3>3, <4>1 DEF ResendKey
      <3>4. CASE req.kind = "put" /\ req.rev.asked
        <4>1. table'[q] = PutItem(req.read.held, t) /\ acked'[q] \subseteq acked[q] \cup {t}
          BY <2>2, <3>4 DEF Applied, RequestItem, Replaces
        <4>2. q \in rewound \/ req.read.held = table[q].held
          BY <1>2, <1>3, <2>2, <3>4, PutHolds DEF Applied
        <4> QED  BY <3>4, <4>1, <4>2 DEF ResendKey
      <3> QED  BY <1>2, <3>1, <3>2, <3>3, <3>4 DEF AtomicKinds
    <2> QED  BY <1>4, <2>1, <2>2
  <1>8. Shapes'
    BY <1>1, <1>4, <1>5 DEF Shapes, DatastoreInv
  <1>9. refused' \subseteq refused \cup {req.token} /\ refused \subseteq refused'
    BY <1>4
  <1>10. rewound \subseteq rewound'
    BY <1>1
  <1> QED  BY <1>1, <1>4, <1>5, <1>6, <1>7, <1>8, <1>9, <1>10 DEF ResendStep, req


LEMMA SamePending ==
    ASSUME DatastoreInv, NEW w \in Handlers, UNCHANGED pending
    PROVE  /\ pending' = [h \in Handlers |-> pending'[h]]
           /\ \E v \in Handlers :
                /\ \A h \in Handlers : h # v => pending'[h] = pending[h]
                /\ pending'[v] \in {pending[v], NoRequest} \/ Kept(pending'[v], used + 1)
  <1>1. pending = [h \in Handlers |-> pending[h]]
    BY DEF DatastoreInv, Shapes
  <1>2. pending' = [h \in Handlers |-> pending'[h]]
    BY <1>1
  <1> QED  BY <1>2

(* What an operation of a transaction does to its item.                    *)
LEMMA TransactEffect ==
    ASSUME DatastoreInv, NEW k \in Keys, NEW kind \in AtomicKinds, NEW t
    PROVE  \/ TransactItem(kind, k, t) = Absent
           \/ kind # "update" /\ TransactItem(kind, k, t) = PutItem({}, t)
           \/ Stamps(k, TransactItem(kind, k, t), t)
  <1>1. CASE kind = "put"
    BY <1>1 DEF TransactItem
  <1>2. CASE kind = "update"
    BY <1>2, UpdateStamps DEF TransactItem
  <1>3. CASE kind = "delete"
    BY <1>3 DEF TransactItem
  <1> QED  BY <1>1, <1>2, <1>3 DEF AtomicKinds

LEMMA AtomicallyIsWrite ==
    ASSUME DatastoreInv, NEW w \in Handlers, NEW partition, NEW ks \in SUBSET Keys,
           NEW ops \in [ks -> AtomicKinds], NEW cond, NEW rev,
           Atomically(w, partition, ops, cond, rev)
    PROVE  WriteStep
  <1> DEFINE t     == used + 1
             holds == \A k \in DOMAIN ops : RequestHolds(ops[k], k, cond, rev)
             valid == /\ Cardinality(DOMAIN ops) <= MaxAtomicOps
                      /\ \A k \in DOMAIN ops : PartitionOf[k] = partition /\ KeyFits(k, 0)
                      /\ ExpressionOK(cond, rev)
             new   == [k \in TransactApplies(ops, cond, rev) |-> TransactItem(ops[k], k, t)]
             repl  == {k \in DOMAIN ops : ops[k] # "update"}
  <1>1. PICK outcome \in Outcomes \ {"again"} :
            /\ Changed(IF valid /\ outcome # "failed" THEN new ELSE Nothing, repl,
                       IF outcome = "answered" /\ valid /\ holds THEN {t} ELSE {})
            /\ refused' = refused \cup (IF outcome = "answered" /\ ~(valid /\ holds) THEN {t} ELSE {})
            /\ used' = t /\ UNCHANGED batch
    BY DEF Atomically, Write
  <1>2. UNCHANGED <<seen, pending, rewound, unsettled>>
    BY DEF Atomically, sendVars
  <1> DEFINE app == IF valid /\ outcome # "failed" THEN new ELSE Nothing
             told == IF outcome = "answered" /\ valid /\ holds THEN {t} ELSE {}
  <1>3. TransactApplies(ops, cond, rev) = IF holds THEN DOMAIN ops ELSE {}
    BY DEF TransactApplies
  <1> HIDE DEF valid, holds, t
  <1>4. DOMAIN app \subseteq ks /\ \A k \in DOMAIN app : app[k] = TransactItem(ops[k], k, t)
    BY <1>3 DEF Nothing
  <1>5. ~(valid /\ holds) => DOMAIN app = {}
    BY <1>3 DEF Nothing
  <1> HIDE DEF app
  <1>6. \A x \in Keys : x \in DOMAIN app =>
               \/ app[x] = Absent
               \/ x \in repl /\ app[x] = PutItem({}, t)
               \/ Stamps(x, app[x], t)
    <2>1. ASSUME NEW x \in Keys, x \in DOMAIN app
          PROVE  \/ app[x] = Absent
                 \/ x \in repl /\ app[x] = PutItem({}, t)
                 \/ Stamps(x, app[x], t)
      <3>1. x \in ks /\ ops[x] \in AtomicKinds /\ x \in DOMAIN ops /\ app[x] = TransactItem(ops[x], x, t)
        BY <1>4, <2>1
      <3>2. ops[x] # "update" => x \in repl
        BY <3>1
      <3> QED  BY <3>1, <3>2, TransactEffect
    <2> QED  BY <2>1
  <1>7. told \subseteq {t} /\ Changed(app, repl, told)
    BY <1>1 DEF app
  <1> HIDE DEF told, repl
  <1>8. /\ \A x \in Keys : KeyStep(x, t)
        /\ table' = [x \in Keys |-> table'[x]] /\ acked' = [x \in Keys |-> acked'[x]]
    BY <1>6, <1>7, ChangedEffect
  <1>9. ~(valid /\ holds) => table' = table
    BY <1>5, <1>7, NothingChanges DEF DatastoreInv
  <1>10. refused' = refused \/ (/\ refused' = refused \cup {t}
                                /\ \A k \in Keys : table'[k].held = table[k].held)
    BY <1>1, <1>9
  <1>11. Shapes'
    BY <1>2, <1>8 DEF Shapes, DatastoreInv
  <1> QED  BY <1>1, <1>2, <1>8, <1>10, <1>11, SamePending DEF WriteStep, t

(* A write of the store in memory, from what it applies when it holds.     *)
LEMMA MemWriteIsWrite ==
    ASSUME DatastoreInv, NEW w \in Handlers, NEW holds \in BOOLEAN, NEW new, NEW replaced,
           NEW spill \in SUBSET Keys, MemWrite(used + 1, holds, new, replaced, spill),
           holds => \A k \in Keys : k \in DOMAIN new =>
               \/ new[k] = Absent
               \/ k \in replaced /\ new[k] = PutItem({}, used + 1)
               \/ Stamps(k, new[k], used + 1),
           seen' = [h \in Handlers |-> seen'[h]],
           \A h \in Handlers : seen'[h] \in {seen[h], NothingSeen}
    PROVE  WriteStep
  <1> DEFINE t    == used + 1
             left == [k \in spill |-> Spilt(table[k], t)]
             app  == IF holds THEN new ELSE left
             repl == IF holds THEN replaced ELSE {}
             told == IF holds THEN {t} ELSE {}
  <1>1. /\ Changed(app, repl, told) /\ used' = t /\ UNCHANGED <<batch, pending, rewound>>
        /\ refused' = refused \cup (IF holds THEN {} ELSE {t})
        /\ unsettled' = unsettled \cup (IF holds \/ spill = {} THEN {} ELSE {t})
    BY DEF MemWrite
  <1>2. /\ DOMAIN left = spill
        /\ \A k \in spill : left[k] = Spilt(table[k], t)
    OBVIOUS
  <1> HIDE DEF left
  <1>3. \A k \in Keys : k \in DOMAIN app =>
               \/ app[k] = Absent
               \/ k \in repl /\ app[k] = PutItem({}, t)
               \/ Stamps(k, app[k], t)
               \/ app[k] = Spilt(table[k], t) /\ t \in unsettled' /\ told = {}
    BY <1>1, <1>2
  <1>4. told \subseteq {t}
    OBVIOUS
  <1>5. ~holds => \A k \in Keys : /\ k \in DOMAIN app => app[k] = Spilt(table[k], t)
    BY <1>2
  <1> HIDE DEF app, told, t, repl
  <1>6. /\ \A x \in Keys : KeyStep(x, t)
        /\ table' = [x \in Keys |-> table'[x]] /\ acked' = [x \in Keys |-> acked'[x]]
    BY <1>1, <1>3, <1>4, ChangedEffect
  <1>7. ~holds => \A k \in Keys : table'[k].held = table[k].held
    <2>1. table' = [k \in Keys |-> IF k \in DOMAIN app THEN app[k] ELSE table[k]]
      BY <1>1 DEF Changed
    <2>2. \A k \in Keys : Spilt(table[k], t).held = table[k].held
      BY DEF Spilt
    <2> QED  BY <1>5, <2>1, <2>2
  <1>8. refused' = refused \/ (/\ refused' = refused \cup {t}
                               /\ \A k \in Keys : table'[k].held = table[k].held)
    BY <1>1, <1>7
  <1>9. unsettled' = unsettled \/ unsettled' = unsettled \cup {t}
    BY <1>1
  <1>10. Shapes'
    BY <1>1, <1>6, SamePending DEF Shapes
  <1> QED  BY <1>1, <1>6, <1>8, <1>9, <1>10, SamePending DEF WriteStep, t

LEMMA MemPutIsWrite ==
    ASSUME DatastoreInv, NEW w \in Handlers, NEW k \in Keys, NEW cond,
           NEW rev \in RevisionsFor(w, k), MemPut(w, k, cond, rev)
    PROVE  WriteStep
  <1> DEFINE t     == used + 1
             holds == MemCheck(cond, rev, table[k])
             held  == IF rev.asked THEN seen[w].held ELSE {}
             repl  == IF rev.asked THEN {} ELSE {k}
             new   == [x \in {k} |-> PutItem(held, t)]
  <1>1. MemWrite(used + 1, holds, new, repl, {}) /\ Forget(w)
    BY DEF MemPut
  <1>2. holds /\ rev.asked => Stamps(k, PutItem(held, t), t)
    <2>1. SUFFICES ASSUME holds, rev.asked PROVE Stamps(k, PutItem(held, t), t)
      OBVIOUS
    <2>2. rev.known /\ rev.value = table[k].rev
      BY <2>1 DEF MemCheck
    <2>3. seen[w].key = k /\ rev = seen[w].rev
      BY <2>1, <2>2 DEF RevisionsFor, NoRevision, ZeroRevision
    <2>4. seen[w] \in Readings
      BY ReadingsAre
    <2>5. k \in rewound \/ seen[w].held = table[k].held
      BY <2>2, <2>3, <2>4, RevisionHolds
    <2>6. Clean(seen[w].held)
      BY <2>4 DEF DatastoreInv, Faithful
    <2>7. held = seen[w].held
      BY <2>1
    <2> HIDE DEF held, t
    <2> QED  BY <2>5, <2>6, <2>7 DEF Stamps
  <1>3. holds \in BOOLEAN
    BY DEF MemCheck
  <1>4. holds => \A x \in Keys : x \in DOMAIN new =>
               \/ new[x] = Absent
               \/ x \in repl /\ new[x] = PutItem({}, used + 1)
               \/ Stamps(x, new[x], used + 1)
    <2> HIDE DEF holds
    <2> QED  BY <1>2
  <1>5. /\ seen' = [h \in Handlers |-> seen'[h]]
        /\ \A h \in Handlers : seen'[h] \in {seen[h], NothingSeen}
    BY <1>1, ForgetShape DEF DatastoreInv
  <1> HIDE DEF holds, new, repl
  <1> QED  BY <1>1, <1>3, <1>4, <1>5, MemWriteIsWrite

LEMMA MemDeleteIsWrite ==
    ASSUME DatastoreInv, NEW w \in Handlers, NEW k \in Keys, NEW cond, NEW rev,
           MemDelete(w, k, cond, rev)
    PROVE  WriteStep
  <1> DEFINE holds == MemCheck(cond, rev, table[k])
             new   == [x \in {k} |-> Absent]
  <1>1. MemWrite(used + 1, holds, new, {k}, {}) /\ Forget(w)
    BY DEF MemDelete
  <1>2. holds \in BOOLEAN
    BY DEF MemCheck
  <1>3. \A x \in Keys : x \in DOMAIN new => new[x] = Absent
    OBVIOUS
  <1>4. /\ seen' = [h \in Handlers |-> seen'[h]]
        /\ \A h \in Handlers : seen'[h] \in {seen[h], NothingSeen}
    BY <1>1, ForgetShape DEF DatastoreInv
  <1> HIDE DEF holds, new
  <1> QED  BY <1>1, <1>2, <1>3, <1>4, MemWriteIsWrite

LEMMA MemUpdateIsWrite ==
    ASSUME DatastoreInv, NEW w \in Handlers, NEW k \in Keys, NEW n, NEW bad, NEW cond, NEW rev,
           NEW spill \in SUBSET {k}, MemUpdate(w, k, n, bad, cond, rev, spill)
    PROVE  WriteStep
  <1> DEFINE holds == (n <= MaxUpdates /\ MemUpdateHolds(cond, rev, table[k])) /\ bad = 0
             new   == [x \in {k} |-> UpdateItem(table[k], used + 1)]
  <1>1. MemWrite(used + 1, holds, new, {}, spill) /\ UNCHANGED seen
    BY DEF MemUpdate
  <1>2. holds \in BOOLEAN /\ spill \in SUBSET Keys
    OBVIOUS
  <1>3. \A x \in Keys : x \in DOMAIN new => Stamps(x, new[x], used + 1)
    BY UpdateStamps
  <1>4. /\ seen' = [h \in Handlers |-> seen'[h]]
        /\ \A h \in Handlers : seen'[h] \in {seen[h], NothingSeen}
    BY <1>1 DEF DatastoreInv, Shapes
  <1> HIDE DEF holds, new
  <1> QED  BY <1>1, <1>2, <1>3, <1>4, MemWriteIsWrite

LEMMA MemAtomicallyIsWrite ==
    ASSUME DatastoreInv, NEW w \in Handlers, NEW partition, NEW ks \in SUBSET Keys,
           NEW ops \in [ks -> AtomicKinds], NEW sound \in BOOLEAN, NEW cond, NEW rev,
           NEW spill \in SUBSET ks, MemAtomically(w, partition, ops, sound, cond, rev, spill)
    PROVE  WriteStep
  <1> DEFINE t       == used + 1
             begun   == /\ Cardinality(DOMAIN ops) <= MaxAtomicOps
                        /\ \A k \in DOMAIN ops : PartitionOf[k] = partition
             applies == sound /\ \A k \in DOMAIN ops : MemApplies(ops[k], k, cond, rev)
             holds   == begun /\ applies
             new     == [k \in DOMAIN ops |-> TransactItem(ops[k], k, t)]
             repl    == {k \in DOMAIN ops : ops[k] # "update"}
  <1>1. MemWrite(t, holds, new, repl, spill) /\ UNCHANGED seen
    BY DEF MemAtomically
  <1>2. holds \in BOOLEAN /\ spill \in SUBSET Keys
    OBVIOUS
  <1> HIDE DEF holds
  <1>3. \A x \in Keys : x \in DOMAIN new =>
               \/ new[x] = Absent
               \/ x \in repl /\ new[x] = PutItem({}, t)
               \/ Stamps(x, new[x], t)
    <2>1. ASSUME NEW x \in Keys, x \in DOMAIN new
          PROVE  \/ new[x] = Absent
                 \/ x \in repl /\ new[x] = PutItem({}, t)
                 \/ Stamps(x, new[x], t)
      <3>1. x \in ks /\ ops[x] \in AtomicKinds /\ x \in DOMAIN ops /\ new[x] = TransactItem(ops[x], x, t)
        BY <2>1
      <3>2. ops[x] # "update" => x \in repl
        BY <3>1
      <3> HIDE DEF new, repl, t
      <3> QED  BY <3>1, <3>2, TransactEffect
    <2> QED  BY <2>1
  <1>4. /\ seen' = [h \in Handlers |-> seen'[h]]
        /\ \A h \in Handlers : seen'[h] \in {seen[h], NothingSeen}
    BY <1>1 DEF DatastoreInv, Shapes
  <1> HIDE DEF new, repl
  <1> QED  BY <1>1, <1>2, <1>3, <1>4, MemWriteIsWrite

-----------------------------------------------------------------------------
(* Batches.                                                                *)

LEMMA ChunkDoneRecord ==
    ASSUME NEW call, BatchRecord(call), NEW ok \in BOOLEAN, NEW unprocessed, NEW got, NEW done,
           done = ChunkDone(call, ok, unprocessed, got)
    PROVE  /\ BatchRecord(done) /\ done.token = call.token
           /\ done.got \subseteq call.got \cup got
  <1> DEFINE rest == Rest(call.todo)
             missed == Missed(call, unprocessed)
             settled == {op \in ToSet(Chunk(call.todo)) : op.key \notin unprocessed}
             mode == IF Rest(call.todo) = <<>> THEN "returned" ELSE "call"
  <1>1. CASE ~ok
    <2>1. done = [call EXCEPT !.mode = "failed", !.missed = <<>>, !.got = {}]
      BY <1>1 DEF ChunkDone
    <2> QED  BY <2>1 DEF BatchRecord
  <1>2. CASE ok
    <2>1. done = [call EXCEPT !.todo = rest, !.missed = missed, !.settled = @ \cup settled,
                              !.got = @ \cup got, !.mode = mode]
      BY <1>2 DEF ChunkDone
    <2> HIDE DEF rest, missed, settled, mode
    <2> QED  BY <2>1 DEF BatchRecord
  <1> QED  BY <1>1, <1>2

LEMMA MemReturnRecord ==
    ASSUME NEW call, BatchRecord(call), NEW missed, NEW got, NEW done,
           done = MemReturn(call, missed, got)
    PROVE  /\ BatchRecord(done) /\ done.token = call.token
           /\ done.got \subseteq call.got \cup got
  <1> DEFINE left == OpsFor(call.todo, missed)
             settled == {op \in ToSet(call.todo) : op.key \notin missed}
  <1>1. done = [call EXCEPT !.mode = "returned", !.todo = <<>>, !.missed = left,
                            !.settled = @ \cup settled, !.got = @ \cup got]
    BY DEF MemReturn
  <1> HIDE DEF left, settled
  <1> QED  BY <1>1 DEF BatchRecord

(* What a request of a batch writes.                                       *)
LEMMA ChangedByChunk ==
    ASSUME NEW new, NEW told, NEW t, Changed(new, Keys, told), told \subseteq {t},
           \A k \in Keys : k \in DOMAIN new => new[k] = Absent \/ new[k] = PutItem({}, t)
    PROVE  /\ \A k \in Keys : \/ table'[k] = table[k] /\ acked'[k] = acked[k]
                              \/ table'[k] = Absent /\ acked'[k] = {}
                              \/ table'[k] = PutItem({}, t) /\ acked'[k] \subseteq {t}
           /\ table' = [k \in Keys |-> table'[k]] /\ acked' = [k \in Keys |-> acked'[k]]
  <1>1. /\ table' = [k \in Keys |-> IF k \in DOMAIN new THEN new[k] ELSE table[k]]
        /\ acked' = [k \in Keys |->
                   IF k \notin DOMAIN new THEN acked[k]
                   ELSE ((IF k \in Keys THEN {} ELSE acked[k]) \cup told) \cap
                        (IF new[k] = Absent THEN {} ELSE Tokens)]
    BY DEF Changed
  <1>2. ASSUME NEW k \in Keys
        PROVE  \/ table'[k] = table[k] /\ acked'[k] = acked[k]
               \/ table'[k] = Absent /\ acked'[k] = {}
               \/ table'[k] = PutItem({}, t) /\ acked'[k] \subseteq {t}
    <2>1. /\ table'[k] = IF k \in DOMAIN new THEN new[k] ELSE table[k]
          /\ acked'[k] = IF k \notin DOMAIN new THEN acked[k]
                         ELSE told \cap (IF new[k] = Absent THEN {} ELSE Tokens)
      BY <1>1
    <2> QED  BY <2>1
  <1>3. table' = [k \in Keys |-> table'[k]] /\ acked' = [k \in Keys |-> acked'[k]]
    BY <1>1
  <1> QED  BY <1>2, <1>3

LEMMA WriteChunkIsChunk ==
    ASSUME DatastoreInv, NEW b \in Handlers, NEW outcome, NEW unprocessed,
           WriteChunk(b, outcome, unprocessed)
    PROVE  ChunkStep(b)
  <1> DEFINE t     == batch[b].token
             chunk == Chunk(batch[b].todo)
             sent  == {op \in ToSet(chunk) : op.key \notin unprocessed}
             new   == [k \in {op.key : op \in sent} |->
                         IF \E op \in sent : op.key = k /\ op.kind = "delete" THEN Absent
                         ELSE PutItem({}, batch[b].token)]
             app   == IF Built(chunk) /\ outcome # "failed" THEN new ELSE Nothing
             told  == IF outcome = "answered" THEN {batch[b].token} ELSE {}
             ok    == Built(chunk) /\ outcome = "answered"
  <1>1. /\ batch[b].mode = "call"
        /\ Changed(app, Keys, told)
        /\ batch' = [batch EXCEPT ![b] = IF outcome = "again" THEN batch[b]
                                           ELSE ChunkDone(batch[b], ok, unprocessed, {})]
        /\ UNCHANGED <<seen, used, refused, sendVars>>
    BY DEF WriteChunk, Sendable
  <1>2. \A k \in Keys : k \in DOMAIN app => app[k] = Absent \/ app[k] = PutItem({}, t)
    <2>1. \A k \in DOMAIN new : new[k] = Absent \/ new[k] = PutItem({}, t)
      OBVIOUS
    <2> HIDE DEF new
    <2> QED  BY <2>1 DEF Nothing
  <1>3. told \subseteq {t} /\ ok \in BOOLEAN
    OBVIOUS
  <1> HIDE DEF app, told, ok
  <1>4. /\ \A k \in Keys : \/ table'[k] = table[k] /\ acked'[k] = acked[k]
                           \/ table'[k] = Absent /\ acked'[k] = {}
                           \/ table'[k] = PutItem({}, t) /\ acked'[k] \subseteq {t}
        /\ table' = [k \in Keys |-> table'[k]] /\ acked' = [k \in Keys |-> acked'[k]]
    BY <1>1, <1>2, <1>3, ChangedByChunk
  <1>5. batch = [c \in Handlers |-> batch[c]] /\ BatchRecord(batch[b])
    BY DEF DatastoreInv, BatchTokens
  <1>6. batch'[b] \in {batch[b], ChunkDone(batch[b], ok, unprocessed, {})}
        /\ batch' = [batch EXCEPT ![b] = batch'[b]]
    BY <1>1, <1>5
  <1>7. /\ BatchRecord(batch'[b]) /\ batch'[b].token = batch[b].token
        /\ batch'[b].got \subseteq batch[b].got
    BY <1>3, <1>5, <1>6, ChunkDoneRecord
  <1>8. Shapes'
    BY <1>1, <1>4 DEF Shapes, DatastoreInv, sendVars
  <1> QED  BY <1>1, <1>4, <1>6, <1>7, <1>8 DEF ChunkStep

LEMMA MemBatchWriteIsChunk ==
    ASSUME DatastoreInv, NEW b \in Handlers, NEW unapplied, MemBatchWrite(b, unapplied)
    PROVE  ChunkStep(b)
  <1> DEFINE t    == batch[b].token
             ops  == ToSet(batch[b].todo)
             new  == [k \in {op.key : op \in ops} \ unapplied |->
                        IF \E op \in ops : op.key = k /\ op.kind = "delete" THEN Absent
                        ELSE PutItem({}, batch[b].token)]
  <1>1. /\ batch[b].mode = "call"
        /\ Changed(new, Keys, {t})
        /\ batch' = [batch EXCEPT ![b] = MemReturn(batch[b], unapplied, {})]
        /\ UNCHANGED <<seen, used, refused, sendVars>>
    BY DEF MemBatchWrite
  <1>2. \A k \in Keys : k \in DOMAIN new => new[k] = Absent \/ new[k] = PutItem({}, t)
    OBVIOUS
  <1> HIDE DEF new
  <1>3. /\ \A k \in Keys : \/ table'[k] = table[k] /\ acked'[k] = acked[k]
                           \/ table'[k] = Absent /\ acked'[k] = {}
                           \/ table'[k] = PutItem({}, t) /\ acked'[k] \subseteq {t}
        /\ table' = [k \in Keys |-> table'[k]] /\ acked' = [k \in Keys |-> acked'[k]]
    BY <1>1, <1>2, ChangedByChunk
  <1>4. batch = [c \in Handlers |-> batch[c]] /\ BatchRecord(batch[b])
    BY DEF DatastoreInv, BatchTokens
  <1>5. batch'[b] = MemReturn(batch[b], unapplied, {})
        /\ batch' = [batch EXCEPT ![b] = batch'[b]]
    BY <1>1, <1>4
  <1>6. /\ BatchRecord(batch'[b]) /\ batch'[b].token = batch[b].token
        /\ batch'[b].got \subseteq batch[b].got
    BY <1>4, <1>5, MemReturnRecord
  <1>7. Shapes'
    BY <1>1, <1>3 DEF Shapes, DatastoreInv, sendVars
  <1> QED  BY <1>1, <1>3, <1>5, <1>6, <1>7 DEF ChunkStep

(* A batch of gets: what it delivers is what the table holds.              *)
LEMMA GetsAreQuiet ==
    ASSUME DatastoreInv, NEW b \in Handlers, batch[b].mode = "call", NEW keys,
           UNCHANGED <<table, acked, refused, seen, used, sendVars>>,
           batch' = [batch EXCEPT ![b] = batch'[b]], BatchRecord(batch'[b]),
           batch'[b].token = batch[b].token,
           batch'[b].got \subseteq batch[b].got \cup DeliverRevisions(keys)
    PROVE  QuietStep
  <1>1. batch = [c \in Handlers |-> batch[c]] /\ batch[b].token # 0
    BY DEF DatastoreInv, BatchTokens
  <1>2. ASSUME NEW x \in Readings'
        PROVE  \/ x \in Readings
               \/ \E k \in Keys : x = [key |-> k, held |-> table[k].held,
                                       rev |-> IfUnchanged(table[k].rev)]
    <2>1. CASE x \in DeliverRevisions(keys)
      BY <2>1 DEF DeliverRevisions
    <2>2. CASE x \notin DeliverRevisions(keys)
      <3>1. \A c \in Handlers : c # b => batch'[c] = batch[c]
        BY <1>1
      <3>2. \A c \in Handlers : x \in batch'[c].got => x \in batch[c].got
        BY <2>2, <3>1
      <3> QED  BY <3>2, ReadingsAre DEF sendVars
    <2> QED  BY <2>1, <2>2
  <1>3. Shapes'
    BY DEF DatastoreInv, Shapes, sendVars
  <1> QED  BY <1>1, <1>2, <1>3 DEF QuietStep
LEMMA GetChunkIsQuiet ==
    ASSUME DatastoreInv, NEW b \in Handlers, NEW outcome, NEW unprocessed,
           GetChunk(b, outcome, unprocessed)
    PROVE  QuietStep
  <1> DEFINE chunk == Chunk(batch[b].todo)
             keys  == {op.key : op \in ToSet(chunk)} \ unprocessed
             ok    == Built(chunk) /\ outcome = "answered"
             got   == IF Built(chunk) THEN DeliverRevisions(keys) ELSE {}
  <1>1. /\ batch[b].mode = "call"
        /\ batch' = [batch EXCEPT ![b] = ChunkDone(batch[b], ok, unprocessed, got)]
        /\ UNCHANGED <<table, acked, refused, seen, used, sendVars>>
    BY DEF GetChunk, Sendable
  <1>2. ok \in BOOLEAN /\ got \subseteq DeliverRevisions(keys)
    OBVIOUS
  <1>3. batch = [c \in Handlers |-> batch[c]] /\ BatchRecord(batch[b])
    BY DEF DatastoreInv, BatchTokens
  <1> HIDE DEF ok, got, keys
  <1>4. batch'[b] = ChunkDone(batch[b], ok, unprocessed, got)
        /\ batch' = [batch EXCEPT ![b] = batch'[b]]
    BY <1>1, <1>3
  <1>5. /\ BatchRecord(batch'[b]) /\ batch'[b].token = batch[b].token
        /\ batch'[b].got \subseteq batch[b].got \cup got
    BY <1>2, <1>3, <1>4, ChunkDoneRecord
  <1>6. batch'[b].got \subseteq batch[b].got \cup DeliverRevisions(keys)
    BY <1>2, <1>5
  <1> QED  BY <1>1, <1>4, <1>5, <1>6, GetsAreQuiet

LEMMA MemBatchGetIsQuiet ==
    ASSUME DatastoreInv, NEW b \in Handlers, MemBatchGet(b)
    PROVE  QuietStep
  <1> DEFINE keys == {op.key : op \in ToSet(batch[b].todo)}
             missed == {k \in keys : table[k] = Absent}
             got == DeliverRevisions(keys)
  <1>1. /\ batch[b].mode = "call"
        /\ batch' = [batch EXCEPT ![b] = MemReturn(batch[b], missed, got)]
        /\ UNCHANGED <<table, acked, refused, seen, used, sendVars>>
    BY DEF MemBatchGet
  <1>2. batch = [c \in Handlers |-> batch[c]] /\ BatchRecord(batch[b])
    BY DEF DatastoreInv, BatchTokens
  <1> HIDE DEF missed, keys
  <1>3. batch'[b] = MemReturn(batch[b], missed, got)
        /\ batch' = [batch EXCEPT ![b] = batch'[b]]
    BY <1>1, <1>2
  <1>4. /\ BatchRecord(batch'[b]) /\ batch'[b].token = batch[b].token
        /\ batch'[b].got \subseteq batch[b].got \cup DeliverRevisions(keys)
    BY <1>2, <1>3, MemReturnRecord
  <1> QED  BY <1>1, <1>3, <1>4, GetsAreQuiet

LEMMA BatchStartIsQuiet ==
    ASSUME DatastoreInv, NEW b \in Handlers, NEW ops, BatchStart(b, ops)
    PROVE  QuietStep
  <1>1. batch = [c \in Handlers |-> batch[c]] /\ Shapes
    BY DEF DatastoreInv, BatchTokens
  <1>2. /\ used' = used + 1 /\ Forget(b) /\ UNCHANGED <<table, acked, refused, sendVars>>
        /\ batch' = [batch EXCEPT ![b] = [NoBatch EXCEPT !.mode = "call", !.token = used + 1,
                                                         !.asked = ops, !.todo = ops]]
    BY DEF BatchStart
  <1>3. batch'[b] = [NoBatch EXCEPT !.mode = "call", !.token = used + 1, !.asked = ops, !.todo = ops]
        /\ batch' = [batch EXCEPT ![b] = batch'[b]]
    BY <1>1, <1>2
  <1>4. BatchRecord(batch'[b]) /\ batch'[b].token = used + 1 /\ batch'[b].got = {}
    BY <1>3 DEF NoBatch, BatchRecord
  <1>5. /\ seen' = [h \in Handlers |-> seen'[h]]
        /\ \A h \in Handlers : seen'[h] \in {seen[h], NothingSeen}
    BY <1>1, <1>2, ForgetShape
  <1>6. Shapes'
    BY <1>1, <1>2, <1>5 DEF Shapes, sendVars
  <1>7. ASSUME NEW x \in Readings' PROVE x \in Readings \/ x = NothingSeen
    <2>1. \A c \in Handlers : c # b => batch'[c] = batch[c]
      BY <1>1, <1>3
    <2>2. \A c \in Handlers : x \in batch'[c].got => x \in batch[c].got
      BY <1>4, <2>1
    <2> QED  BY <1>2, <1>5, <2>2, ReadingsAre DEF sendVars
  <1> QED  BY <1>2, <1>3, <1>4, <1>6, <1>7 DEF QuietStep

LEMMA BatchEndIsQuiet ==
    ASSUME DatastoreInv, NEW b \in Handlers, NEW item, BatchEnd(b, item)
    PROVE  QuietStep
  <1>1. batch = [c \in Handlers |-> batch[c]] /\ Shapes
    BY DEF DatastoreInv, BatchTokens
  <1>2. /\ item \in batch[b].got \/ item = NothingSeen
        /\ batch' = [batch EXCEPT ![b] = NoBatch]
        /\ seen' = [seen EXCEPT ![b] = item]
        /\ UNCHANGED <<table, acked, refused, used, sendVars>>
    BY DEF BatchEnd
  <1>3. batch'[b] = NoBatch /\ batch' = [batch EXCEPT ![b] = batch'[b]]
    BY <1>1, <1>2
  <1>4. /\ BatchRecord(batch'[b]) /\ batch'[b].token = 0 /\ batch'[b].got = {}
        /\ batch'[b].mode = "idle"
    BY <1>3 DEF NoBatch, BatchRecord
  <1>5. Shapes'
    BY <1>1, <1>2 DEF Shapes, sendVars
  <1>6. ASSUME NEW x \in Readings' PROVE x \in Readings \/ x = NothingSeen
    <2>1. \A c \in Handlers : c # b => batch'[c] = batch[c]
      BY <1>1, <1>3
    <2>2. \A c \in Handlers : x \in batch'[c].got => x \in batch[c].got
      BY <1>4, <2>1
    <2>3. \A h \in Handlers : seen'[h] \in {seen[h], item}
      BY <1>1, <1>2 DEF Shapes
    <2>4. item \in Readings \/ item = NothingSeen
      BY <1>2, ReadingsAre
    <2> QED  BY <1>2, <2>2, <2>3, <2>4, ReadingsAre DEF sendVars
  <1> QED  BY <1>2, <1>3, <1>4, <1>5, <1>6 DEF QuietStep

LEMMA BatchRetryIsQuiet ==
    ASSUME DatastoreInv, NEW b \in Handlers, BatchRetry(b)
    PROVE  QuietStep
  <1>1. batch = [c \in Handlers |-> batch[c]] /\ BatchRecord(batch[b]) /\ Shapes
        /\ batch[b].token # 0
    BY DEF DatastoreInv, BatchTokens, BatchRetry
  <1>2. /\ batch' = [batch EXCEPT ![b] =
               [batch[b] EXCEPT !.mode = "call", !.todo = batch[b].missed, !.missed = <<>>]]
        /\ UNCHANGED <<table, acked, refused, used, seen, sendVars>>
    BY DEF BatchRetry
  <1>3. batch'[b] = [batch[b] EXCEPT !.mode = "call", !.todo = batch[b].missed, !.missed = <<>>]
        /\ batch' = [batch EXCEPT ![b] = batch'[b]]
    BY <1>1, <1>2
  <1>4. BatchRecord(batch'[b]) /\ batch'[b].token = batch[b].token /\ batch'[b].got = batch[b].got
    BY <1>1, <1>3 DEF BatchRecord
  <1>5. Shapes'
    BY <1>1, <1>2 DEF Shapes, sendVars
  <1>6. \A c \in Handlers : batch'[c].got = batch[c].got
    BY <1>1, <1>3, <1>4
  <1>7. \A x \in Readings' : x \in Readings
    BY <1>2, <1>6, ReadingsAre DEF sendVars
  <1> QED  BY <1>1, <1>2, <1>3, <1>4, <1>5, <1>7 DEF QuietStep

(* A step that leaves the batches alone and whose handlers forget at most. *)
LEMMA IdleIsQuiet ==
    ASSUME DatastoreInv, UNCHANGED <<table, acked, refused, used, batch, sendVars>>,
           UNCHANGED seen \/ \E h \in Handlers : Forget(h)
    PROVE  QuietStep
  <1>1. /\ seen' = [h \in Handlers |-> seen'[h]]
        /\ \A h \in Handlers : seen'[h] \in {seen[h], NothingSeen}
    BY ForgetShape DEF DatastoreInv, Shapes
  <1>2. Shapes'
    BY <1>1 DEF Shapes, DatastoreInv, sendVars
  <1>3. \A x \in Readings' : x \in Readings \/ x = NothingSeen
    BY <1>1, ReadingsAre DEF sendVars
  <1> QED  BY <1>2, <1>3 DEF QuietStep

LEMMA GetIsQuiet ==
    ASSUME DatastoreInv, NEW w \in Handlers, NEW k \in Keys, Get(w, k)
    PROVE  QuietStep
  <1> DEFINE x == IF table[k] = Absent THEN NothingSeen
                  ELSE [key |-> k, held |-> table[k].held, rev |-> IfUnchanged(table[k].rev)]
  <1>1. seen' = [seen EXCEPT ![w] = x] /\ UNCHANGED <<table, acked, refused, used, batch, sendVars>>
    BY DEF Get
  <1>2. Shapes
    BY DEF DatastoreInv
  <1>3. x = NothingSeen \/ x = [key |-> k, held |-> table[k].held, rev |-> IfUnchanged(table[k].rev)]
    OBVIOUS
  <1> HIDE DEF x
  <1>4. Shapes' /\ \A h \in Handlers : seen'[h] \in {seen[h], x}
    BY <1>1, <1>2 DEF Shapes, sendVars
  <1>5. \A y \in Readings' : y \in Readings \/ y = x
    BY <1>1, <1>4, ReadingsAre DEF sendVars
  <1>6. \A y \in Readings' : \/ y \in Readings \/ y = NothingSeen
                             \/ \E q \in Keys : y = [key |-> q, held |-> table[q].held,
                                                      rev |-> IfUnchanged(table[q].rev)]
    BY <1>3, <1>5
  <1> QED  BY <1>1, <1>4, <1>6 DEF QuietStep

-----------------------------------------------------------------------------
LEMMA DatastoreInit == Init => DatastoreInv
  <1> SUFFICES ASSUME Init PROVE DatastoreInv
    OBVIOUS
  <1>1. \A k \in Keys : table[k].held = {} /\ table[k].rev = 0 /\ table[k].leaked = {}
    BY DEF Init, Absent
  <1>2. Shapes
    BY DEF Init, Shapes
  <1>3. Numbers
    BY <1>1 DEF Init, Numbers
  <1>4. \A b \in Handlers : batch[b] = NoBatch /\ batch[b].token = 0 /\ batch[b].got = {}
                            /\ batch[b].mode = "idle" /\ BatchRecord(batch[b])
    BY DEF Init, NoBatch, BatchRecord
  <1>5. BatchTokens
    BY <1>4 DEF Init, BatchTokens
  <1>6. \A h \in Handlers : pending[h] = NoRequest /\ pending[h].kind = "none"
                            /\ pending[h].read = NothingSeen /\ seen[h] = NothingSeen
    BY DEF Init, NoRequest
  <1>7. \A h \in Handlers : PendingRequest(h)
    BY <1>6 DEF PendingRequest
  <1>8. \A x \in Readings : Faithful(x)
    <2>1. \A x \in PendingReads : x = NothingSeen
      BY <1>6 DEF PendingReads
    <2>2. Delivered = {}
      BY <1>4 DEF Delivered
    <2>3. \A x \in Readings : x = NothingSeen
      BY <1>6, <2>1, <2>2 DEF Readings
    <2>4. NothingSeen.held = {} /\ NothingSeen.key \notin Keys
      BY DEF NothingSeen, Keys
    <2> QED  BY <2>3, <2>4 DEF Faithful, Clean
  <1>9. NoLostUpdate /\ RefusedNotApplied
    BY <1>1 DEF Init, NoLostUpdate, RefusedNotApplied
  <1> QED  BY <1>2, <1>3, <1>5, <1>7, <1>8, <1>9 DEF DatastoreInv

LEMMA DynamoWriteIsWrite ==
    ASSUME DatastoreInv, NEW h \in Handlers, DynamoWrite(h) PROVE WriteStep
  BY PutIsWrite, UpdateIsWrite, DeleteIsWrite, AtomicallyIsWrite DEF DynamoWrite

LEMMA MemoryWriteIsWrite ==
    ASSUME DatastoreInv, NEW h \in Handlers, MemoryWrite(h) PROVE WriteStep
  <1>1. ASSUME NEW k \in Keys, NEW cond, NEW rev \in RevisionsFor(h, k),
               \/ MemPut(h, k, cond, rev)
               \/ \E n \in 0..(MaxUpdates + 1), spill \in SUBSET {k} :
                    \E bad \in 0..n : MemUpdate(h, k, n, bad, cond, rev, spill)
               \/ MemDelete(h, k, cond, rev)
        PROVE  WriteStep
    <2>1. CASE MemPut(h, k, cond, rev)
      BY <2>1, MemPutIsWrite
    <2>2. ASSUME NEW n, NEW spill \in SUBSET {k}, NEW bad, MemUpdate(h, k, n, bad, cond, rev, spill)
          PROVE  WriteStep
      BY <2>2, MemUpdateIsWrite
    <2>3. CASE MemDelete(h, k, cond, rev)
      BY <2>3, MemDeleteIsWrite
    <2> QED  BY <1>1, <2>1, <2>2, <2>3
  <1>2. CASE \E k \in Keys, cond \in Conds : \E rev \in RevisionsFor(h, k) :
               \/ MemPut(h, k, cond, rev)
               \/ \E n \in 0..(MaxUpdates + 1), spill \in SUBSET {k} :
                    \E bad \in 0..n : MemUpdate(h, k, n, bad, cond, rev, spill)
               \/ MemDelete(h, k, cond, rev)
    BY <1>1, <1>2, Zenon
  <1>3. CASE \E ks \in SUBSET Keys, partition \in Partitions, cond \in Conds :
               \E ops \in [ks -> AtomicKinds], sound \in BOOLEAN, spill \in SUBSET ks :
                  MemAtomically(h, partition, ops, sound, cond, NoRevision, spill)
    <2>1. PICK ks \in SUBSET Keys, partition \in Partitions, cond \in Conds :
               \E ops \in [ks -> AtomicKinds], sound \in BOOLEAN, spill \in SUBSET ks :
                  MemAtomically(h, partition, ops, sound, cond, NoRevision, spill)
      BY <1>3, Zenon
    <2>2. PICK ops \in [ks -> AtomicKinds], sound \in BOOLEAN, spill \in SUBSET ks :
                  MemAtomically(h, partition, ops, sound, cond, NoRevision, spill)
      BY <2>1, Zenon
    <2> QED  BY <2>2, MemAtomicallyIsWrite
  <1> QED  BY <1>2, <1>3, Zenon DEF MemoryWrite

LEMMA StepKinds ==
    ASSUME DatastoreInv, Next
    PROVE  WriteStep \/ QuietStep \/ \E b \in Handlers : ChunkStep(b) \/ ResendStep(b)
  <1>1. CASE TableSchema
    BY <1>1, IdleIsQuiet DEF TableSchema
  <1>2. ASSUME NEW h \in Handlers, Call(h) PROVE WriteStep \/ QuietStep
    <2>1. ASSUME NEW k \in Keys, Get(h, k) PROVE QuietStep
      BY <2>1, GetIsQuiet
    <2>2. CASE DynamoWrite(h)
      BY <2>2, DynamoWriteIsWrite
    <2>3. CASE MemoryWrite(h)
      BY <2>3, MemoryWriteIsWrite
    <2>4. ASSUME NEW ops, BatchStart(h, ops) PROVE QuietStep
      BY <2>4, BatchStartIsQuiet
    <2>5. ASSUME NEW over, NEW filter, ListStart(h, over, filter) PROVE QuietStep
      BY <2>5, IdleIsQuiet DEF ListStart
    <2> QED  BY <1>2, <2>1, <2>2, <2>3, <2>4, <2>5 DEF Call
  <1>3. ASSUME NEW h \in Handlers, Proceed(h) PROVE QuietStep \/ ChunkStep(h) \/ ResendStep(h)
    <2>1. ASSUME NEW outcome, NEW unprocessed, WriteChunk(h, outcome, unprocessed) PROVE ChunkStep(h)
      BY <2>1, WriteChunkIsChunk
    <2>2. ASSUME NEW outcome, NEW unprocessed, GetChunk(h, outcome, unprocessed) PROVE QuietStep
      BY <2>2, GetChunkIsQuiet
    <2>3. ASSUME NEW last, NEW more, Page(h, last, more) PROVE QuietStep
      BY <2>3, IdleIsQuiet DEF Page
    <2>4. ASSUME NEW unapplied, MemBatchWrite(h, unapplied) PROVE ChunkStep(h)
      BY <2>4, MemBatchWriteIsChunk
    <2>5. CASE MemBatchGet(h)
      BY <2>5, MemBatchGetIsQuiet
    <2>6. ASSUME NEW limit, MemPage(h, limit) PROVE QuietStep
      BY <2>6, IdleIsQuiet DEF MemPage
    <2>7. CASE BatchRetry(h)
      BY <2>7, BatchRetryIsQuiet
    <2>8. ASSUME NEW item, BatchEnd(h, item) PROVE QuietStep
      BY <2>8, BatchEndIsQuiet
    <2>9. ASSUME NEW failed, ListStop(h, failed) PROVE QuietStep
      BY <2>9, IdleIsQuiet DEF ListStop
    <2>10. ASSUME NEW outcome \in Outcomes, Resend(h, outcome) PROVE ResendStep(h)
      BY <2>10, ResendIsResend
    <2> QED  BY <1>3, <2>1, <2>2, <2>3, <2>4, <2>5, <2>6, <2>7, <2>8, <2>9, <2>10
             DEF Proceed, DynamoProceed, MemoryProceed
  <1> QED  BY <1>1, <1>2, <1>3 DEF Next

(* A revision identifies what an item holds, at every step of both stores. *)
LEMMA DatastoreInvariant == Spec => []DatastoreInv
  <1>1. DatastoreInv /\ [Next]_vars => DatastoreInv'
    <2> SUFFICES ASSUME DatastoreInv, [Next]_vars PROVE DatastoreInv'
      OBVIOUS
    <2>1. CASE Next
      BY <2>1, StepKinds, WriteStepKeeps, ResendStepKeeps, QuietStepKeeps, ChunkStepKeeps
    <2>2. CASE UNCHANGED vars
      <3>1. UNCHANGED <<table, acked, refused, used, batch, seen, sendVars>>
        BY <2>2 DEF vars
      <3> QED  BY <3>1, IdleIsQuiet, QuietStepKeeps
    <2> QED  BY <2>1, <2>2
  <1> QED  BY <1>1, DatastoreInit, PTL DEF Spec

(* What a write was acknowledged with stays until a write that asked for   *)
(* no revision replaces it, for any number of handlers and writes, and     *)
(* whatever requests are sent again, on every key but those where an       *)
(* update was applied a second time over something else: it puts back the  *)
(* revision it stamped first (update.go:50), and RevisionsProtect fails.   *)
THEOREM UpdatesAreNotLost == Spec => []NoLostUpdate
  <1>1. DatastoreInv => NoLostUpdate
    BY DEF DatastoreInv
  <1> QED  BY <1>1, DatastoreInvariant, PTL

(* A write answered with one of the package's errors left nothing behind,  *)
(* in its own item or in another one of an atomic write, unless its        *)
(* request was sent again after it had been applied, or the double kept    *)
(* its changes to nested objects (celeritytest/datastore.go walk).         *)
THEOREM RefusalsLeaveNothing == Spec => []RefusedNotApplied
  <1>1. DatastoreInv => RefusedNotApplied
    BY DEF DatastoreInv
  <1> QED  BY <1>1, DatastoreInvariant, PTL
-----------------------------------------------------------------------------
(* Listings of DynamoDB, whose cursor is a key.  The store in memory, whose *)
(* cursor is a position among what matches, comes last.                     *)

ListingRecord(q) ==
    q = [mode |-> q.mode, over |-> q.over, filter |-> q.filter, cursor |-> q.cursor,
         stable |-> q.stable, got |-> q.got]

(* What was there all along has been yielded up to the cursor, once, and   *)
(* not beyond it; a listing that is done has come to the last key.         *)
UpToCursor(q) ==
    /\ ListingRecord(q)
    /\ q.got = [k \in Keys |-> q.got[k]]
    /\ q.cursor \in 0..NKeys
    /\ q.mode = "done" => q.cursor = NKeys
    /\ \A k \in q.stable :
         /\ k \in Keys /\ k \in q.over
         /\ table[k] # Absent /\ WriteCondition(q.filter, table[k])
         /\ q.got[k] = IF k <= q.cursor THEN 1 ELSE 0

ListingInv ==
    impl = "dynamodb" =>
        /\ listing = [l \in Handlers |-> listing[l]]
        /\ \A l \in Handlers : UpToCursor(listing[l])

LEMMA NoListingRecord ==
    /\ ListingRecord(NoListing) /\ NoListing.mode = "idle" /\ NoListing.cursor = 0
    /\ NoListing.stable = {} /\ NoListing.got = [k \in Keys |-> 0]
  <1> DEFINE none == [k \in Keys |-> 0]
  <1>1. NoListing = [mode |-> "idle", over |-> {}, filter |-> NoCond, cursor |-> 0, stable |-> {},
                     got |-> none]
    BY DEF NoListing
  <1> HIDE DEF none
  <1>2. /\ ListingRecord(NoListing) /\ NoListing.mode = "idle" /\ NoListing.cursor = 0
        /\ NoListing.stable = {} /\ NoListing.got = none
    BY <1>1 DEF ListingRecord
  <1> QED  BY <1>2 DEF none

LEMMA NoListingUpToCursor == UpToCursor(NoListing)
  BY NoListingRecord, SizesAssumption DEF UpToCursor

(* A write of any kind.                                                    *)
LEMMA ChangedListings ==
    ASSUME ListingInv, NEW new, NEW replaced, NEW told, Changed(new, replaced, told), UNCHANGED impl
    PROVE  ListingInv'
  <1>1. SUFFICES ASSUME impl = "dynamodb"
                 PROVE  /\ listing' = [l \in Handlers |-> listing'[l]]
                        /\ \A l \in Handlers : UpToCursor(listing[l])'
    BY DEF ListingInv
  <1> DEFINE left(l) == {k \in listing[l].stable : /\ table'[k] # Absent
                                                   /\ WriteCondition(listing[l].filter, table'[k])
                                                   /\ impl = "memory" => table' = table}
  <1>2. listing' = [l \in Handlers |-> [listing[l] EXCEPT !.stable = left(l)]]
    BY DEF Changed
  <1>3. ASSUME NEW l \in Handlers PROVE UpToCursor(listing[l])'
    <2> DEFINE s == left(l)
    <2>1. UpToCursor(listing[l])
      BY <1>1 DEF ListingInv
    <2>2. s \subseteq listing[l].stable
      OBVIOUS
    <2>3. \A k \in s : table'[k] # Absent /\ WriteCondition(listing[l].filter, table'[k])
      OBVIOUS
    <2>4. listing'[l] = [listing[l] EXCEPT !.stable = s]
      BY <1>2
    <2> HIDE DEF s
    <2>5. /\ ListingRecord(listing'[l]) /\ listing'[l].stable = s
          /\ listing'[l].got = listing[l].got /\ listing'[l].cursor = listing[l].cursor
          /\ listing'[l].mode = listing[l].mode /\ listing'[l].over = listing[l].over
          /\ listing'[l].filter = listing[l].filter
      BY <2>1, <2>4 DEF UpToCursor, ListingRecord
    <2>6. ListingRecord(listing[l])'
      BY <2>5 DEF ListingRecord
    <2> QED  BY <2>1, <2>2, <2>3, <2>5, <2>6 DEF UpToCursor
  <1>4. listing' = [l \in Handlers |-> listing'[l]]
    <2> HIDE DEF left
    <2> QED  BY <1>2
  <1> QED  BY <1>3, <1>4

LEMMA ListStartKeeps ==
    ASSUME ListingInv, NEW l \in Handlers, NEW over \in SUBSET Keys, NEW filter,
           ListStart(l, over, filter), UNCHANGED impl
    PROVE  ListingInv'
  <1>1. SUFFICES ASSUME impl = "dynamodb"
                 PROVE  /\ listing' = [m \in Handlers |-> listing'[m]]
                        /\ \A m \in Handlers : UpToCursor(listing[m])'
    BY DEF ListingInv
  <1> DEFINE s == {k \in over : table[k] # Absent /\ WriteCondition(filter, table[k])}
             q == [NoListing EXCEPT !.mode = "run", !.over = over, !.filter = filter, !.stable = s]
  <1>2. listing' = [listing EXCEPT ![l] = q] /\ UNCHANGED table
    BY DEF ListStart
  <1>3. listing = [m \in Handlers |-> listing[m]] /\ \A m \in Handlers : UpToCursor(listing[m])
    BY <1>1 DEF ListingInv
  <1>4. \A k \in s : k \in Keys /\ k \in over /\ table[k] # Absent /\ WriteCondition(filter, table[k])
    OBVIOUS
  <1> HIDE DEF s
  <1>5. /\ q.mode = "run" /\ q.over = over /\ q.filter = filter /\ q.stable = s /\ q.cursor = 0
        /\ q.got = [k \in Keys |-> 0] /\ ListingRecord(q)
    <2>1. PICK r : r = q
      OBVIOUS
    <2>2. r = [NoListing EXCEPT !.mode = "run", !.over = over, !.filter = filter, !.stable = s]
      BY <2>1
    <2> HIDE DEF q
    <2>3. /\ r.mode = "run" /\ r.over = over /\ r.filter = filter /\ r.stable = s /\ r.cursor = 0
          /\ r.got = [k \in Keys |-> 0] /\ ListingRecord(r)
      BY <2>2, NoListingRecord DEF ListingRecord
    <2> QED  BY <2>1, <2>3
  <1> HIDE DEF q
  <1>6. listing'[l] = q /\ \A m \in Handlers : m # l => listing'[m] = listing[m]
    BY <1>2, <1>3
  <1>7. UpToCursor(listing[l])'
    <2>1. NKeys \in Nat /\ \A k \in Keys : ~(k <= 0)
      BY SizesAssumption DEF Keys
    <2>2. ListingRecord(listing[l])'
      BY <1>5, <1>6 DEF ListingRecord
    <2> QED  BY <1>2, <1>4, <1>5, <1>6, <2>1, <2>2 DEF UpToCursor
  <1>8. ASSUME NEW m \in Handlers, m # l PROVE UpToCursor(listing[m])'
    BY <1>2, <1>3, <1>6, <1>8 DEF UpToCursor, ListingRecord
  <1>9. listing' = [m \in Handlers |-> listing'[m]]
    BY <1>2, <1>3
  <1> QED  BY <1>7, <1>8, <1>9

LEMMA PageKeeps ==
    ASSUME ListingInv, NEW l \in Handlers, NEW last \in Keys, NEW more \in BOOLEAN,
           Page(l, last, more), UNCHANGED impl
    PROVE  ListingInv'
  <1>1. SUFFICES ASSUME impl = "dynamodb"
                 PROVE  /\ listing' = [m \in Handlers |-> listing'[m]]
                        /\ \A m \in Handlers : UpToCursor(listing[m])'
    BY DEF ListingInv
  <1> DEFINE p == listing[l]
             read == {k \in QueryInput(l) : k <= last}
             page == {k \in read : WriteCondition(p.filter, table[k])}
             got == Yield(p.got, page)
             mode == IF EndsAfter(page, more) THEN "done" ELSE "run"
             q == [p EXCEPT !.cursor = last, !.got = got, !.mode = mode]
  <1>2. /\ IF more THEN last \in read ELSE last = NKeys
        /\ listing' = [listing EXCEPT ![l] = q] /\ UNCHANGED table
    <2>1. (IF more THEN last \in read ELSE last = NKeys) /\ UNCHANGED table
      BY DEF Page
    <2>2. listing' = [listing EXCEPT ![l] = q]
      BY DEF Page
    <2> QED  BY <2>1, <2>2
  <1>3. listing = [m \in Handlers |-> listing[m]] /\ \A m \in Handlers : UpToCursor(listing[m])
    BY <1>1 DEF ListingInv
  <1>4. UpToCursor(p)
    BY <1>3
  <1>5. NKeys \in Nat /\ last \in 0..NKeys /\ last \in Nat /\ p.cursor \in Nat
        /\ \A k \in Keys : k \in Nat /\ k <= NKeys
    BY <1>4, SizesAssumption DEF Keys, UpToCursor
  <1>6. mode = "done" => last = NKeys
    BY <1>2 DEF EndsAfter
  <1>7. p.cursor <= last
    <2>1. \A k \in read : p.cursor < k
      BY DEF QueryInput
    <2>2. p.cursor <= NKeys
      BY <1>4, <1>5 DEF UpToCursor
    <2> QED  BY <1>2, <1>5, <2>1, <2>2
  <1>8. \A k \in page : p.cursor < k /\ k <= last
    BY DEF QueryInput
  <1>9. ASSUME NEW k \in p.stable PROVE got[k] = IF k <= last THEN 1 ELSE 0
    <2>1. /\ k \in Keys /\ k \in p.over /\ table[k] # Absent /\ WriteCondition(p.filter, table[k])
          /\ p.got[k] = IF k <= p.cursor THEN 1 ELSE 0
      BY <1>4 DEF UpToCursor
    <2>2. got[k] = IF k \in page /\ p.got[k] < 2 THEN p.got[k] + 1 ELSE p.got[k]
      BY <2>1 DEF Yield
    <2>3. k \in page <=> p.cursor < k /\ k <= last
      BY <2>1, <1>5 DEF QueryInput
    <2> HIDE DEF got, page
    <2> QED  BY <1>5, <1>7, <2>1, <2>2, <2>3
  <1>10. got = [k \in Keys |-> got[k]]
    BY DEF Yield
  <1> HIDE DEF got, mode
  <1>11. /\ ListingRecord(q) /\ q.cursor = last /\ q.got = got /\ q.mode = mode
         /\ q.stable = p.stable /\ q.over = p.over /\ q.filter = p.filter
    <2>1. ListingRecord(p)
      BY <1>4 DEF UpToCursor
    <2>2. PICK r : r = q
      OBVIOUS
    <2> HIDE DEF p, page
    <2>3. r = [p EXCEPT !.cursor = last, !.got = got, !.mode = mode]
      BY <2>2
    <2> HIDE DEF q
    <2>4. /\ ListingRecord(r) /\ r.cursor = last /\ r.got = got /\ r.mode = mode
          /\ r.stable = p.stable /\ r.over = p.over /\ r.filter = p.filter
      BY <2>1, <2>3 DEF ListingRecord
    <2> QED  BY <2>2, <2>4
  <1>12. listing'[l] = q /\ \A m \in Handlers : m # l => listing'[m] = listing[m]
    BY <1>2, <1>3
  <1>13. listing' = [m \in Handlers |-> listing'[m]]
    BY <1>2, <1>3
  <1> HIDE DEF q
  <1>14. UpToCursor(listing[l])'
    <2>1. ListingRecord(listing[l])'
      BY <1>11, <1>12 DEF ListingRecord
    <2> QED  BY <1>2, <1>4, <1>5, <1>6, <1>9, <1>10, <1>11, <1>12, <2>1 DEF UpToCursor
  <1>15. ASSUME NEW m \in Handlers, m # l PROVE UpToCursor(listing[m])'
    BY <1>2, <1>3, <1>12, <1>15 DEF UpToCursor, ListingRecord
  <1> QED  BY <1>13, <1>14, <1>15

LEMMA ListStopKeeps ==
    ASSUME ListingInv, NEW l \in Handlers, NEW failed, ListStop(l, failed), UNCHANGED impl
    PROVE  ListingInv'
  <1>1. SUFFICES ASSUME impl = "dynamodb"
                 PROVE  /\ listing' = [m \in Handlers |-> listing'[m]]
                        /\ \A m \in Handlers : UpToCursor(listing[m])'
    BY DEF ListingInv
  <1>2. listing' = [listing EXCEPT ![l] = NoListing] /\ UNCHANGED table
    BY DEF ListStop
  <1>3. listing = [m \in Handlers |-> listing[m]] /\ \A m \in Handlers : UpToCursor(listing[m])
    BY <1>1 DEF ListingInv
  <1>4. listing'[l] = NoListing /\ \A m \in Handlers : m # l => listing'[m] = listing[m]
    BY <1>2, <1>3
  <1>5. UpToCursor(listing[l])'
    BY <1>2, <1>4, NoListingUpToCursor DEF UpToCursor, ListingRecord
  <1>6. ASSUME NEW m \in Handlers, m # l PROVE UpToCursor(listing[m])'
    BY <1>2, <1>3, <1>4, <1>6 DEF UpToCursor, ListingRecord
  <1>7. listing' = [m \in Handlers |-> listing'[m]]
    BY <1>2, <1>3
  <1> QED  BY <1>5, <1>6, <1>7

LEMMA UnlistedKeeps ==
    ASSUME ListingInv, UNCHANGED <<impl, table, listing>> PROVE ListingInv'
  BY DEF ListingInv, UpToCursor, ListingRecord

(* Every write of one call changes the table, or leaves it as it is, by    *)
(* the same rule.                                                          *)
LEMMA WritesChange ==
    ASSUME NEW h, DynamoWrite(h) \/ MemoryWrite(h) \/ \E outcome \in Outcomes : Resend(h, outcome)
    PROVE  \E new, replaced, told : Changed(new, replaced, told)
  <1> DEFINE Goal == \E new, replaced, told : Changed(new, replaced, told)
  <1> SUFFICES Goal
    OBVIOUS
  <1>1. ASSUME NEW t, NEW valid, NEW holds, NEW outcome, NEW new, NEW replaced,
               Write(t, valid, holds, outcome, new, replaced)
        PROVE  Goal
    BY <1>1, Zenon DEF Write
  <1>2. ASSUME NEW t, NEW holds, NEW new, NEW replaced, NEW spill,
               MemWrite(t, holds, new, replaced, spill)
        PROVE  Goal
    BY <1>2, Zenon DEF MemWrite
  <1> HIDE DEF Goal
  <1>3. ASSUME NEW req, NEW valid, NEW outcome, Send(h, req, valid, outcome) PROVE Goal
    BY <1>1, <1>3, Zenon DEF Send
  <1>4. ASSUME NEW req, NEW valid, Sent(h, req, valid) PROVE Goal
    BY <1>3, <1>4, Zenon DEF Sent
  <1>5. ASSUME NEW k, NEW carried, NEW cond, NEW rev, Put(h, k, carried, cond, rev) PROVE Goal
    BY <1>4, <1>5, Zenon DEF Put
  <1>6. ASSUME NEW k, NEW n, NEW cond, NEW rev, Update(h, k, n, cond, rev) PROVE Goal
    BY <1>4, <1>6, Zenon DEF Update
  <1>7. ASSUME NEW k, NEW cond, NEW rev, Delete(h, k, cond, rev) PROVE Goal
    BY <1>4, <1>7, Zenon DEF Delete
  <1>8. ASSUME NEW partition, NEW ops, NEW cond, NEW rev, Atomically(h, partition, ops, cond, rev)
        PROVE  Goal
    BY <1>1, <1>8, Zenon DEF Atomically
  <1>9. ASSUME NEW outcome, Resend(h, outcome) PROVE Goal
    BY <1>3, <1>9, Zenon DEF Resend
  <1>10. ASSUME NEW k, NEW cond, NEW rev, MemPut(h, k, cond, rev) PROVE Goal
    BY <1>2, <1>10, Zenon DEF MemPut
  <1>11. ASSUME NEW k, NEW n, NEW bad, NEW cond, NEW rev, NEW spill,
                MemUpdate(h, k, n, bad, cond, rev, spill)
         PROVE  Goal
    BY <1>2, <1>11, Zenon DEF MemUpdate
  <1>12. ASSUME NEW k, NEW cond, NEW rev, MemDelete(h, k, cond, rev) PROVE Goal
    BY <1>2, <1>12, Zenon DEF MemDelete
  <1>13. ASSUME NEW partition, NEW ops, NEW sound, NEW cond, NEW rev, NEW spill,
                MemAtomically(h, partition, ops, sound, cond, rev, spill)
         PROVE  Goal
    BY <1>2, <1>13, Zenon DEF MemAtomically
  <1>14. CASE DynamoWrite(h)
    BY <1>5, <1>6, <1>7, <1>8, <1>14, Zenon DEF DynamoWrite
  <1>15. CASE MemoryWrite(h)
    BY <1>10, <1>11, <1>12, <1>13, <1>15, Zenon DEF MemoryWrite
  <1> QED  BY <1>9, <1>14, <1>15, Zenon

LEMMA ListingStep == ListingInv /\ [Next]_vars => ListingInv'
  <1> SUFFICES ASSUME ListingInv, [Next]_vars PROVE ListingInv'
    OBVIOUS
  <1>1. CASE UNCHANGED vars
    BY <1>1, UnlistedKeeps DEF vars
  <1>2. SUFFICES ASSUME Next PROVE ListingInv'
    BY <1>1
  <1>3. UNCHANGED impl
    BY <1>2 DEF Next
  <1>4. CASE TableSchema
    BY <1>3, <1>4, UnlistedKeeps DEF TableSchema
  <1>5. ASSUME NEW h \in Handlers, Call(h) PROVE ListingInv'
    <2>1. ASSUME NEW k, Get(h, k) PROVE ListingInv'
      BY <2>1, <1>3, UnlistedKeeps DEF Get
    <2>2. CASE DynamoWrite(h) \/ MemoryWrite(h)
      BY <2>2, <1>3, WritesChange, ChangedListings
    <2>4. ASSUME NEW ops, BatchStart(h, ops) PROVE ListingInv'
      BY <2>4, <1>3, UnlistedKeeps DEF BatchStart
    <2>5. ASSUME NEW over \in {Keys} \cup {KeyCondition(p, low, high) : p \in Partitions,
                                              low \in Keys, high \in {NKeys}},
                 NEW filter, ListStart(h, over, filter)
          PROVE  ListingInv'
      <3>1. over \in SUBSET Keys
        BY DEF KeyCondition, SortBetween
      <3> QED  BY <2>5, <3>1, <1>3, ListStartKeeps
    <2> QED  BY <1>5, <2>1, <2>2, <2>4, <2>5 DEF Call
  <1>6. ASSUME NEW h \in Handlers, Proceed(h) PROVE ListingInv'
    <2>1. ASSUME NEW outcome, NEW unprocessed, WriteChunk(h, outcome, unprocessed) PROVE ListingInv'
      BY <2>1, <1>3, ChangedListings DEF WriteChunk
    <2>2. ASSUME NEW outcome, NEW unprocessed, GetChunk(h, outcome, unprocessed) PROVE ListingInv'
      BY <2>2, <1>3, UnlistedKeeps DEF GetChunk
    <2>3. ASSUME NEW last \in Keys, NEW more \in BOOLEAN, Page(h, last, more) PROVE ListingInv'
      BY <2>3, <1>3, PageKeeps
    <2>4. CASE impl = "memory"
      BY <2>4, <1>3 DEF ListingInv
    <2>5. CASE BatchRetry(h)
      BY <2>5, <1>3, UnlistedKeeps DEF BatchRetry
    <2>6. ASSUME NEW item, BatchEnd(h, item) PROVE ListingInv'
      BY <2>6, <1>3, UnlistedKeeps DEF BatchEnd
    <2>7. ASSUME NEW failed, ListStop(h, failed) PROVE ListingInv'
      BY <2>7, <1>3, ListStopKeeps
    <2>8. ASSUME NEW outcome \in Outcomes, Resend(h, outcome) PROVE ListingInv'
      BY <2>8, <1>3, WritesChange, ChangedListings
    <2> QED  BY <1>6, <2>1, <2>2, <2>3, <2>4, <2>5, <2>6, <2>7, <2>8 DEF Proceed, DynamoProceed
  <1> QED  BY <1>2, <1>4, <1>5, <1>6 DEF Next

(* On DynamoDB, an item that was in the table and matched the filter all   *)
(* through a listing is yielded once, whatever pages the store made of it  *)
(* and whatever was written meanwhile.                                     *)
THEOREM DynamoListsOnce == Spec => [](impl = "dynamodb" => StableListedOnce)
  <1>1. Init => ListingInv
    <2>1. SUFFICES ASSUME Init PROVE /\ listing = [l \in Handlers |-> listing[l]]
                                     /\ \A l \in Handlers : UpToCursor(listing[l])
      BY DEF ListingInv
    <2>2. listing = [l \in Handlers |-> NoListing]
      BY <2>1 DEF Init
    <2> QED  BY <2>2, NoListingUpToCursor
  <1>2. ListingInv => (impl = "dynamodb" => StableListedOnce)
    <2>1. SUFFICES ASSUME ListingInv, impl = "dynamodb",
                          NEW l \in Handlers, listing[l].mode = "done", NEW k \in listing[l].stable
                   PROVE  listing[l].got[k] = 1
      BY DEF StableListedOnce
    <2>2. UpToCursor(listing[l]) /\ NKeys \in Nat
      BY <2>1, SizesAssumption DEF ListingInv
    <2>3. listing[l].cursor = NKeys /\ k \in 1..NKeys
          /\ listing[l].got[k] = IF k <= listing[l].cursor THEN 1 ELSE 0
      BY <2>1, <2>2 DEF UpToCursor, Keys
    <2> QED  BY <2>2, <2>3
  <1> QED  BY <1>1, <1>2, ListingStep, PTL DEF Spec
-----------------------------------------------------------------------------
(* Parts of a list.                                                        *)

LEMMA Least ==
    ASSUME NEW S \in SUBSET Nat, S # {}
    PROVE  \E m \in S : \A x \in S : m <= x
  <1>1. PICK m \in S : \A x \in S : ~ (<<x, m>> \in OpToRel(<, Nat))
    BY WFMin, NatLessThanWellFounded, Zenon
  <1>2. \A x \in S : ~ (x < m)
    BY <1>1 DEF OpToRel
  <1> QED BY <1>2

(* That a set of positions can be put in order, by induction over its      *)
(* size: a set as small as can be that cannot would have a least element,  *)
(* and could be put in order once the rest of it was.                      *)
Orders(S) ==
    {s \in [1 .. Cardinality(S) -> S] : \A i, j \in DOMAIN s : i < j => s[i] < s[j]}

LEMMA OrderExists ==
    ASSUME NEW S \in SUBSET Nat, IsFiniteSet(S)
    PROVE  Orders(S) # {}
  <1> DEFINE Bad == {n \in Nat : \E T \in SUBSET Nat :
                                    IsFiniteSet(T) /\ Cardinality(T) = n /\ Orders(T) = {}}
  <1>1. ASSUME Bad # {} PROVE FALSE
    <2>1. PICK n \in Bad : \A x \in Bad : n <= x
      <3>1. Bad \in SUBSET Nat
        OBVIOUS
      <3> HIDE DEF Bad
      <3> QED BY <1>1, <3>1, Least
    <2>2. PICK T \in SUBSET Nat : IsFiniteSet(T) /\ Cardinality(T) = n /\ Orders(T) = {}
      BY <2>1
    <2>3. CASE T = {}
      <3>1. Cardinality(T) = 0 /\ 1 .. 0 = {}
        BY <2>3, FS_EmptySet
      <3>2. [x \in {} |-> x] \in [{} -> T]
        BY <2>3
      <3>3. [x \in {} |-> x] \in Orders(T)
        BY <3>1, <3>2 DEF Orders
      <3> QED BY <3>3, <2>2
    <2>4. CASE T # {}
      <3>1. PICK m \in T : \A x \in T : m <= x
        BY <2>4, Least
      <3> DEFINE U == T \ {m}
      <3>2. U \in SUBSET Nat /\ IsFiniteSet(U) /\ Cardinality(U) = n - 1
        BY <2>2, <3>1, FS_RemoveElement
      <3>3. n \in Nat /\ Cardinality(U) \in Nat
        BY <2>1, <3>2, FS_CardinalityType
      <3>4. n - 1 \notin Bad
        BY <2>1, <3>2, <3>3
      <3>5. Orders(U) # {}
        BY <3>2, <3>3, <3>4
      <3>6. PICK s \in [1 .. (n - 1) -> U] : \A i, j \in 1 .. (n - 1) : i < j => s[i] < s[j]
        BY <3>2, <3>5 DEF Orders
      <3> DEFINE t == [i \in 1 .. n |-> IF i = 1 THEN m ELSE s[i - 1]]
      <3>7. \A i \in 1 .. n : i # 1 => i - 1 \in 1 .. (n - 1) /\ s[i - 1] \in U
        BY <3>2, <3>3, <3>6
      <3>8. t \in [1 .. n -> T]
        BY <3>1, <3>7
      <3>9. ASSUME NEW i \in 1 .. n, NEW j \in 1 .. n, i < j PROVE t[i] < t[j]
        <4>1. j # 1 /\ j - 1 \in 1 .. (n - 1) /\ s[j - 1] \in U /\ t[j] = s[j - 1]
          BY <3>3, <3>7, <3>9
        <4>2. CASE i = 1
          <5>1. t[i] = m /\ m <= s[j - 1] /\ m # s[j - 1]
            BY <3>1, <4>1, <4>2
          <5>2. m \in Nat /\ s[j - 1] \in Nat
            BY <2>2, <3>1, <4>1
          <5> QED BY <4>1, <5>1, <5>2
        <4>3. CASE i # 1
          <5>1. i - 1 \in 1 .. (n - 1) /\ t[i] = s[i - 1] /\ i - 1 < j - 1
            BY <3>3, <3>7, <3>9, <4>3
          <5> QED BY <3>6, <4>1, <5>1
        <4> QED BY <4>2, <4>3
      <3>10. DOMAIN t = 1 .. n
        OBVIOUS
      <3> HIDE DEF t
      <3>11. t \in Orders(T)
        BY <2>2, <3>8, <3>9, <3>10 DEF Orders
      <3> QED BY <3>11, <2>2
    <2> QED BY <2>3, <2>4
  <1>2. Cardinality(S) \in Nat
    BY FS_CardinalityType
  <1> QED BY <1>1, <1>2

LEMMA InOrderIs ==
    ASSUME NEW S \in SUBSET Nat, IsFiniteSet(S)
    PROVE  /\ Cardinality(S) \in Nat
           /\ InOrder(S) \in [1 .. Cardinality(S) -> S]
           /\ {InOrder(S)[i] : i \in 1 .. Cardinality(S)} = S
           /\ \A i, j \in 1 .. Cardinality(S) : i < j => InOrder(S)[i] < InOrder(S)[j]
  <1> DEFINE n == Cardinality(S)
             s == InOrder(S)
  <1>1. n \in Nat
    BY FS_CardinalityType
  <1> HIDE DEF n
  <1>2. s \in [1 .. n -> S] /\ \A i, j \in 1 .. n : i < j => s[i] < s[j]
    <2>1. \E x \in [1 .. n -> S] : \A i, j \in DOMAIN x : i < j => x[i] < x[j]
      BY OrderExists DEF Orders, n
    <2> QED BY <2>1 DEF InOrder, n
  <1> HIDE DEF s
  <1>3. s \in Injection(1 .. n, S)
    <2>1. ASSUME NEW i \in 1 .. n, NEW j \in 1 .. n, s[i] = s[j] PROVE i = j
      <3>1. s[i] \in S /\ s[i] \in Nat
        BY <1>2
      <3>2. ~ (s[i] < s[j]) /\ ~ (s[j] < s[i])
        BY <2>1, <3>1
      <3>3. ~ (i < j) /\ ~ (j < i)
        BY <1>2, <3>2
      <3>4. i \in Int /\ j \in Int
        BY <1>1
      <3> QED BY <3>3, <3>4
    <2> QED BY <1>2, <2>1 DEF Injection, IsInjective
  <1>4. IsFiniteSet(1 .. n) /\ Cardinality(1 .. n) = n
    BY <1>1, FS_Interval
  <1>5. s \in Surjection(1 .. n, S)
    BY <1>3, <1>4, FS_Injection DEF n
  <1>6. {s[i] : i \in 1 .. n} = S
    BY <1>2, <1>5 DEF Surjection
  <1> QED BY <1>1, <1>2, <1>6 DEF s, n

LEMMA AtPlacesIs ==
    ASSUME NEW S, NEW list \in Seq(S), NEW places \in SUBSET DOMAIN list
    PROVE  /\ AtPlaces(list, places) \in Seq(S)
           /\ ToSet(AtPlaces(list, places)) = {list[i] : i \in places}
  <1> DEFINE n == Cardinality(places)
             q == InOrder(places)
             part == AtPlaces(list, places)
  <1>1. DOMAIN list = 1 .. Len(list) /\ Len(list) \in Nat /\ \A i \in DOMAIN list : list[i] \in S
    OBVIOUS
  <1>2. places \in SUBSET Nat /\ IsFiniteSet(places)
    <2>1. IsFiniteSet(1 .. Len(list))
      BY <1>1, FS_Interval
    <2> QED  BY <1>1, <2>1, FS_Subset
  <1>3. n \in Nat /\ q \in [1 .. n -> places] /\ {q[p] : p \in 1 .. n} = places
    BY <1>2, InOrderIs
  <1> HIDE DEF n
  <1>4. part = [p \in 1 .. n |-> list[q[p]]]
    BY <1>3 DEF AtPlaces
  <1> HIDE DEF q, part
  <1>5. \A p \in 1 .. n : list[q[p]] \in S
    BY <1>1, <1>3
  <1>6. part \in Seq(S)
    BY <1>3, <1>4, <1>5
  <1>7. ToSet(part) = {list[i] : i \in places}
    BY <1>3, <1>4 DEF ToSet
  <1> QED  BY <1>6, <1>7 DEF part

LEMMA ToSetConcat ==
    ASSUME NEW S, NEW s \in Seq(S), NEW t \in Seq(S)
    PROVE  s \o t \in Seq(S) /\ ToSet(s \o t) = ToSet(s) \cup ToSet(t)
  <1>1. /\ s \o t \in Seq(S) /\ Len(s \o t) = Len(s) + Len(t)
        /\ \A i \in 1 .. Len(s) + Len(t) :
              (s \o t)[i] = IF i <= Len(s) THEN s[i] ELSE t[i - Len(s)]
    OBVIOUS
  <1>2. Len(s) \in Nat /\ Len(t) \in Nat /\ DOMAIN s = 1 .. Len(s) /\ DOMAIN t = 1 .. Len(t)
        /\ DOMAIN (s \o t) = 1 .. Len(s) + Len(t)
    BY <1>1
  <1>3. ASSUME NEW x \in ToSet(s) PROVE x \in ToSet(s \o t)
    <2>1. PICK i \in DOMAIN s : s[i] = x
      BY <1>3 DEF ToSet
    <2>2. i \in 1 .. Len(s) + Len(t) /\ (s \o t)[i] = x
      BY <1>1, <1>2, <2>1
    <2> QED  BY <1>2, <2>2 DEF ToSet
  <1>4. ASSUME NEW x \in ToSet(t) PROVE x \in ToSet(s \o t)
    <2>1. PICK i \in DOMAIN t : t[i] = x
      BY <1>4 DEF ToSet
    <2>2. Len(s) + i \in 1 .. Len(s) + Len(t) /\ (s \o t)[Len(s) + i] = x
      BY <1>1, <1>2, <2>1
    <2> QED  BY <1>2, <2>2 DEF ToSet
  <1>5. ASSUME NEW x \in ToSet(s \o t) PROVE x \in ToSet(s) \cup ToSet(t)
    <2>1. PICK i \in 1 .. Len(s) + Len(t) : (s \o t)[i] = x
      BY <1>2, <1>5 DEF ToSet
    <2>2. CASE i <= Len(s)
      BY <1>1, <1>2, <2>1, <2>2 DEF ToSet
    <2>3. CASE ~(i <= Len(s))
      <3>1. i - Len(s) \in DOMAIN t /\ t[i - Len(s)] = x
        BY <1>1, <1>2, <2>1, <2>3
      <3> QED  BY <3>1 DEF ToSet
    <2> QED  BY <2>2, <2>3
  <1> QED  BY <1>1, <1>3, <1>4, <1>5

LEMMA SmallerOf ==
    ASSUME NEW a \in Nat, NEW b \in Nat
    PROVE  Min({a, b}) = IF a <= b THEN a ELSE b
  <1> DEFINE m == IF a <= b THEN a ELSE b
  <1>1. m \in {a, b} /\ \A y \in {a, b} : m <= y
    OBVIOUS
  <1>2. \A x \in {a, b} : (\A y \in {a, b} : x <= y) => x = m
    OBVIOUS
  <1> HIDE DEF m
  <1>3. Min({a, b}) = m
    BY <1>1, <1>2 DEF Min
  <1> QED  BY <1>3 DEF m

LEMMA ChunkAndRest ==
    ASSUME NEW S, NEW ops \in Seq(S)
    PROVE  /\ Chunk(ops) \in Seq(S) /\ Rest(ops) \in Seq(S)
           /\ ToSet(ops) = ToSet(Chunk(ops)) \cup ToSet(Rest(ops))
  <1> DEFINE L == Len(ops)
             m == Min({ChunkSize, L})
  <1>1. L \in Nat /\ ChunkSize \in Nat /\ \A i \in 1 .. L : ops[i] \in S
    BY SizesAssumption
  <1>2. m \in 0 .. L
    <2>1. m = IF ChunkSize <= L THEN ChunkSize ELSE L
      BY <1>1, SmallerOf
    <2> QED  BY <1>1, <2>1
  <1>3. Chunk(ops) = SubSeq(ops, 1, m) /\ Rest(ops) = SubSeq(ops, m + 1, L)
    BY DEF Chunk, Rest
  <1> HIDE DEF m
  <1>4. SubSeq(ops, 1, m) \in Seq(S) /\ SubSeq(ops, m + 1, L) \in Seq(S)
    <2>1. m \in Int /\ m + 1 \in Int /\ L \in Int /\ 1 \in Int
      BY <1>1, <1>2
    <2>2. (\A i \in 1 .. m : ops[i] \in S) /\ \A i \in (m + 1) .. L : ops[i] \in S
      BY <1>1, <1>2
    <2> QED  BY <2>1, <2>2, SubSeqProperties
  <1>5. ops = SubSeq(ops, 1, m) \o SubSeq(ops, m + 1, L)
    <2>1. 1 \in 1 .. Len(ops) + 1 /\ m \in (1 - 1) .. Len(ops) /\ L \in m .. Len(ops)
      BY <1>1, <1>2
    <2>2. SubSeq(ops, 1, m) \o SubSeq(ops, m + 1, L) = SubSeq(ops, 1, L)
      BY <2>1, ConcatAdjacentSubSeq
    <2> QED  BY <2>2, SubSeqFull
  <1>6. ToSet(SubSeq(ops, 1, m) \o SubSeq(ops, m + 1, L))
          = ToSet(SubSeq(ops, 1, m)) \cup ToSet(SubSeq(ops, m + 1, L))
    BY <1>4, ToSetConcat
  <1> QED  BY <1>3, <1>4, <1>5, <1>6, Zenon

(* What was not processed of some operations is of those operations.       *)
LEMMA OpsForIs ==
    ASSUME NEW S, NEW ops \in Seq(S), NEW u
    PROVE  /\ OpsFor(ops, u) \in Seq(S)
           /\ ToSet(OpsFor(ops, u)) = {op \in ToSet(ops) : op.key \in u}
  <1> DEFINE places == {i \in DOMAIN ops : ops[i].key \in u}
  <1>1. places \in SUBSET DOMAIN ops
    OBVIOUS
  <1>2. {ops[i] : i \in places} = {op \in ToSet(ops) : op.key \in u}
    BY DEF ToSet
  <1>3. OpsFor(ops, u) = AtPlaces(ops, places)
    BY DEF OpsFor
  <1> HIDE DEF places
  <1> QED  BY <1>1, <1>2, <1>3, AtPlacesIs

(* The lists a batch is begun with.                                        *)
LEMMA BatchesAreOps == \A ops \in Batches : ops \in Seq(BatchOps)
  <1> DEFINE lists == {InOrder(ks) : ks \in SUBSET Keys}
             opsOf(s) == {[i \in DOMAIN s |-> [key |-> s[i], kind |-> kinds[i]]] :
                            kinds \in [DOMAIN s -> {"put", "delete"}] \cup [DOMAIN s -> {"get"}]}
             good == UNION {opsOf(s) : s \in lists}
  <1>1. Batches = good \cup {Append(o, [key |-> BadKey, kind |-> o[1].kind]) : o \in good \ {<<>>}}
    BY DEF Batches
  <1>2. ASSUME NEW s \in lists, NEW o \in opsOf(s) PROVE o \in Seq(BatchOps)
    <2>1. PICK ks \in SUBSET Keys : s = InOrder(ks)
      BY <1>2
    <2>2. ks \in SUBSET Nat /\ IsFiniteSet(ks)
      <3>1. NKeys \in Nat /\ Keys \subseteq Nat
        BY SizesAssumption DEF Keys
      <3>2. IsFiniteSet(Keys)
        BY <3>1, FS_Interval DEF Keys
      <3> QED  BY <2>1, <3>1, <3>2, FS_Subset
    <2>3. Cardinality(ks) \in Nat /\ s \in [1 .. Cardinality(ks) -> ks]
      BY <2>1, <2>2, InOrderIs
    <2>4. PICK kinds \in [DOMAIN s -> {"put", "delete"}] \cup [DOMAIN s -> {"get"}] :
                 o = [i \in DOMAIN s |-> [key |-> s[i], kind |-> kinds[i]]]
      BY <1>2
    <2>5. \A i \in 1 .. Cardinality(ks) :
             s[i] \in Keys /\ kinds[i] \in {"put", "delete", "get"}
      BY <2>1, <2>3, <2>4
    <2>6. \A i \in 1 .. Cardinality(ks) : [key |-> s[i], kind |-> kinds[i]] \in BatchOps
      BY <2>5 DEF BatchOps
    <2>7. o = [i \in 1 .. Cardinality(ks) |-> [key |-> s[i], kind |-> kinds[i]]]
      BY <2>3, <2>4
    <2> QED  BY <2>3, <2>6, <2>7
  <1>3. \A o \in good : o \in Seq(BatchOps)
    BY <1>2
  <1> HIDE DEF good
  <1>4. ASSUME NEW o \in good \ {<<>>}
        PROVE  Append(o, [key |-> BadKey, kind |-> o[1].kind]) \in Seq(BatchOps)
    <2>1. o \in Seq(BatchOps) /\ o # <<>>
      BY <1>3
    <2>2. o[1] \in BatchOps
      BY <2>1
    <2>3. [key |-> BadKey, kind |-> o[1].kind] \in BatchOps
      BY <2>2 DEF BatchOps
    <2> QED  BY <2>1, <2>3
  <1> QED  BY <1>1, <1>3, <1>4

-----------------------------------------------------------------------------
(* Batches.  While a call is under way, each operation asked for has been  *)
(* settled, will be returned, or is still to be sent.                      *)

Sorted(c) ==
    /\ c.todo \in Seq(BatchOps) /\ c.missed \in Seq(BatchOps)
    /\ c.mode = "call" => ToSet(c.asked) = c.settled \cup ToSet(c.missed) \cup ToSet(c.todo)
    /\ c.mode = "returned" => ToSet(c.asked) = c.settled \cup ToSet(c.missed)

(* A call of the store in memory is one step: nothing was missed before it.*)
BatchInv ==
    \A b \in Handlers : /\ Sorted(batch[b])
                        /\ impl = "memory" /\ batch[b].mode = "call" => batch[b].missed = <<>>

LEMMA NoBatchSorted == Sorted(NoBatch)
  <1>1. NoBatch.todo = <<>> /\ NoBatch.missed = <<>> /\ NoBatch.mode = "idle"
    BY DEF NoBatch
  <1> QED  BY <1>1 DEF Sorted

LEMMA StartSorted ==
    ASSUME NEW ops \in Seq(BatchOps), NEW t, NEW d,
           d = [NoBatch EXCEPT !.mode = "call", !.token = t, !.asked = ops, !.todo = ops]
    PROVE  Sorted(d) /\ d.missed = <<>>
  <1>1. /\ d.mode = "call" /\ d.asked = ops /\ d.todo = ops /\ d.missed = <<>> /\ d.settled = {}
    BY DEF NoBatch
  <1>2. ToSet(<<>>) = {}
    BY DEF ToSet
  <1>3. d.settled \cup ToSet(d.missed) \cup ToSet(d.todo) = ToSet(d.asked)
    BY <1>1, <1>2
  <1>4. d.todo \in Seq(BatchOps) /\ <<>> \in Seq(BatchOps)
    BY <1>1
  <1>5. d.mode # "returned"
    BY <1>1
  <1> QED  BY <1>1, <1>3, <1>4, <1>5, Zenon DEF Sorted

LEMMA ChunkDoneSorted ==
    ASSUME NEW c, BatchRecord(c), Sorted(c), c.mode = "call",
           NEW ok \in BOOLEAN, NEW u, NEW got, NEW d, d = ChunkDone(c, ok, u, got)
    PROVE  Sorted(d)
  <1> DEFINE chunk == Chunk(c.todo)
             rest == Rest(c.todo)
             missed == Missed(c, u)
             settled == {op \in ToSet(chunk) : op.key \notin u}
             mode == IF rest = <<>> THEN "returned" ELSE "call"
  <1>1. CASE ~ok
    <2>1. d = [c EXCEPT !.mode = "failed", !.missed = <<>>, !.got = {}]
      BY <1>1 DEF ChunkDone
    <2>2. d.mode = "failed" /\ d.missed = <<>> /\ d.todo = c.todo
      BY <2>1 DEF BatchRecord
    <2> QED  BY <2>2 DEF Sorted
  <1>2. CASE ok
    <2>1. d = [c EXCEPT !.todo = rest, !.missed = missed, !.settled = c.settled \cup settled,
                        !.got = c.got \cup got, !.mode = mode]
      BY <1>2 DEF ChunkDone
    <2>2. c.todo \in Seq(BatchOps) /\ c.missed \in Seq(BatchOps)
          /\ ToSet(c.asked) = c.settled \cup ToSet(c.missed) \cup ToSet(c.todo)
      BY DEF Sorted
    <2>3. /\ chunk \in Seq(BatchOps) /\ rest \in Seq(BatchOps)
          /\ ToSet(c.todo) = ToSet(chunk) \cup ToSet(rest)
      BY <2>2, ChunkAndRest
    <2> HIDE DEF chunk, rest
    <2>4. OpsFor(chunk, u) \in Seq(BatchOps) /\ ToSet(OpsFor(chunk, u)) = {op \in ToSet(chunk) : op.key \in u}
      BY <2>3, OpsForIs
    <2>5. missed = c.missed \o OpsFor(chunk, u)
      BY DEF Missed, chunk
    <2>6. missed \in Seq(BatchOps) /\ ToSet(missed) = ToSet(c.missed) \cup ToSet(OpsFor(chunk, u))
      BY <2>2, <2>4, <2>5, ToSetConcat
    <2>7. ToSet(chunk) = settled \cup ToSet(OpsFor(chunk, u))
      BY <2>4
    <2> HIDE DEF missed, settled
    <2>8. ToSet(c.asked) = (c.settled \cup settled) \cup ToSet(missed) \cup ToSet(rest)
      BY <2>2, <2>3, <2>6, <2>7
    <2>9. mode = "returned" => ToSet(rest) = {}
      BY DEF ToSet
    <2> HIDE DEF mode
    <2>10. /\ d.todo = rest /\ d.missed = missed /\ d.settled = c.settled \cup settled
           /\ d.mode = mode /\ d.asked = c.asked
      BY <2>1 DEF BatchRecord
    <2> QED  BY <2>3, <2>6, <2>8, <2>9, <2>10 DEF Sorted
  <1> QED  BY <1>1, <1>2

LEMMA MemReturnSorted ==
    ASSUME NEW c, BatchRecord(c), Sorted(c), c.mode = "call", c.missed = <<>>,
           NEW u, NEW got, NEW d, d = MemReturn(c, u, got)
    PROVE  Sorted(d) /\ d.mode = "returned"
  <1> DEFINE left == OpsFor(c.todo, u)
             settled == {op \in ToSet(c.todo) : op.key \notin u}
  <1>1. d = [c EXCEPT !.mode = "returned", !.todo = <<>>, !.missed = left,
                      !.settled = c.settled \cup settled, !.got = c.got \cup got]
    BY DEF MemReturn
  <1>2. c.todo \in Seq(BatchOps)
        /\ ToSet(c.asked) = c.settled \cup ToSet(c.missed) \cup ToSet(c.todo)
    BY DEF Sorted
  <1>3. left \in Seq(BatchOps) /\ ToSet(left) = {op \in ToSet(c.todo) : op.key \in u}
    BY <1>2, OpsForIs
  <1>4. ToSet(c.todo) = settled \cup ToSet(left) /\ ToSet(<<>>) = {}
    BY <1>3 DEF ToSet
  <1> HIDE DEF left, settled
  <1>5. /\ d.todo = <<>> /\ d.missed = left /\ d.settled = c.settled \cup settled
        /\ d.mode = "returned" /\ d.asked = c.asked
    BY <1>1 DEF BatchRecord
  <1>6. ToSet(c.asked) = (c.settled \cup settled) \cup ToSet(left)
    BY <1>2, <1>4
  <1> QED  BY <1>3, <1>5, <1>6 DEF Sorted

LEMMA RetrySorted ==
    ASSUME NEW c, BatchRecord(c), Sorted(c), c.mode = "returned", NEW d,
           d = [c EXCEPT !.mode = "call", !.todo = c.missed, !.missed = <<>>]
    PROVE  Sorted(d) /\ d.missed = <<>>
  <1>1. /\ d.mode = "call" /\ d.asked = c.asked /\ d.todo = c.missed /\ d.missed = <<>>
        /\ d.settled = c.settled
    BY DEF BatchRecord
  <1>2. ToSet(<<>>) = {}
    BY DEF ToSet
  <1>3. c.missed \in Seq(BatchOps) /\ ToSet(c.asked) = c.settled \cup ToSet(c.missed)
    BY DEF Sorted
  <1>4. d.settled \cup ToSet(d.missed) \cup ToSet(d.todo) = ToSet(d.asked)
    BY <1>1, <1>2, <1>3
  <1>5. d.mode # "returned" /\ d.todo \in Seq(BatchOps) /\ d.missed \in Seq(BatchOps)
    BY <1>1, <1>3
  <1> QED  BY <1>1, <1>4, <1>5, Zenon DEF Sorted

(* A step changes the batch of one handler at most.                        *)
LEMMA OneBatch ==
    ASSUME BatchInv, DatastoreInv, UNCHANGED impl, NEW b \in Handlers, NEW d,
           batch' = [batch EXCEPT ![b] = d], Sorted(d),
           impl = "memory" /\ d.mode = "call" => d.missed = <<>>
    PROVE  BatchInv'
  <1>1. batch = [c \in Handlers |-> batch[c]]
    BY DEF DatastoreInv, BatchTokens
  <1>2. batch'[b] = d /\ \A c \in Handlers : c # b => batch'[c] = batch[c]
    BY <1>1
  <1>3. ASSUME NEW c \in Handlers
        PROVE  /\ Sorted(batch'[c])
               /\ impl = "memory" /\ batch'[c].mode = "call" => batch'[c].missed = <<>>
    BY <1>2 DEF BatchInv
  <1>4. \A c \in Handlers : Sorted(batch[c])' <=> Sorted(batch'[c])
    BY DEF Sorted
  <1> QED  BY <1>3, <1>4 DEF BatchInv

LEMMA SameBatches ==
    ASSUME BatchInv, UNCHANGED <<impl, batch>> PROVE BatchInv'
  BY DEF BatchInv, Sorted

LEMMA BatchStep == DatastoreInv /\ BatchInv /\ [Next]_vars => BatchInv'
  <1> SUFFICES ASSUME DatastoreInv, BatchInv, [Next]_vars PROVE BatchInv'
    OBVIOUS
  <1>1. CASE UNCHANGED vars
    BY <1>1, SameBatches DEF vars
  <1>2. SUFFICES ASSUME Next PROVE BatchInv'
    BY <1>1
  <1>3. UNCHANGED impl
    BY <1>2 DEF Next
  <1>4. \A b \in Handlers : BatchRecord(batch[b]) /\ Sorted(batch[b])
    BY DEF DatastoreInv, BatchTokens, BatchInv
  <1>5. CASE TableSchema
    BY <1>3, <1>5, SameBatches DEF TableSchema
  <1>6. ASSUME NEW h \in Handlers, Call(h) PROVE BatchInv'
    <2>1. ASSUME NEW k, Get(h, k) PROVE BatchInv'
      BY <2>1, <1>3, SameBatches DEF Get
    <2>2. CASE DynamoWrite(h)
      <3>1. UNCHANGED batch
        BY <2>2, DynamoWriteIsWrite DEF WriteStep
      <3> QED  BY <3>1, <1>3, SameBatches
    <2>3. CASE MemoryWrite(h)
      <3>1. UNCHANGED batch
        BY <2>3, MemoryWriteIsWrite DEF WriteStep
      <3> QED  BY <3>1, <1>3, SameBatches
    <2>4. ASSUME NEW ops \in Batches, BatchStart(h, ops) PROVE BatchInv'
      <3> DEFINE d == [NoBatch EXCEPT !.mode = "call", !.token = used + 1, !.asked = ops, !.todo = ops]
      <3>1. batch' = [batch EXCEPT ![h] = d]
        BY <2>4 DEF BatchStart
      <3>2. ops \in Seq(BatchOps)
        BY BatchesAreOps
      <3>3. Sorted(d) /\ d.missed = <<>>
        BY <3>2, StartSorted
      <3> HIDE DEF d
      <3> QED  BY <1>3, <3>1, <3>3, OneBatch
    <2>5. ASSUME NEW over, NEW filter, ListStart(h, over, filter) PROVE BatchInv'
      BY <2>5, <1>3, SameBatches DEF ListStart
    <2> QED  BY <1>6, <2>1, <2>2, <2>3, <2>4, <2>5 DEF Call
  <1>7. ASSUME NEW h \in Handlers, Proceed(h) PROVE BatchInv'
    <2>1. ASSUME impl = "dynamodb", NEW outcome, NEW u, WriteChunk(h, outcome, u) PROVE BatchInv'
      <3> DEFINE ok == Built(Chunk(batch[h].todo)) /\ outcome = "answered"
                 d  == ChunkDone(batch[h], ok, u, {})
                 c  == IF outcome = "again" THEN batch[h] ELSE d
      <3>1. batch' = [batch EXCEPT ![h] = c] /\ batch[h].mode = "call" /\ ok \in BOOLEAN
        BY <2>1 DEF WriteChunk, Sendable
      <3> HIDE DEF ok
      <3>2. Sorted(d)
        BY <1>4, <3>1, ChunkDoneSorted
      <3> HIDE DEF d
      <3>3. Sorted(c)
        BY <1>4, <3>2
      <3> HIDE DEF c
      <3> QED  BY <1>3, <2>1, <3>1, <3>3, OneBatch
    <2>2. ASSUME impl = "dynamodb", NEW outcome, NEW u, GetChunk(h, outcome, u) PROVE BatchInv'
      <3> DEFINE chunk == Chunk(batch[h].todo)
                 keys == {op.key : op \in ToSet(chunk)} \ u
                 ok  == Built(chunk) /\ outcome = "answered"
                 got == IF Built(chunk) THEN DeliverRevisions(keys) ELSE {}
                 d   == ChunkDone(batch[h], ok, u, got)
      <3>1. batch' = [batch EXCEPT ![h] = d] /\ batch[h].mode = "call" /\ ok \in BOOLEAN
        BY <2>2 DEF GetChunk, Sendable
      <3> HIDE DEF ok, got
      <3>2. Sorted(d)
        BY <1>4, <3>1, ChunkDoneSorted
      <3> HIDE DEF d
      <3> QED  BY <1>3, <2>2, <3>1, <3>2, OneBatch
    <2>3. ASSUME NEW last, NEW more, Page(h, last, more) PROVE BatchInv'
      BY <2>3, <1>3, SameBatches DEF Page
    <2>4. ASSUME impl = "memory", NEW u, MemBatchWrite(h, u) PROVE BatchInv'
      <3> DEFINE d == MemReturn(batch[h], u, {})
      <3>1. batch' = [batch EXCEPT ![h] = d] /\ batch[h].mode = "call"
        BY <2>4 DEF MemBatchWrite
      <3>2. batch[h].missed = <<>>
        BY <2>4, <3>1 DEF BatchInv
      <3>3. Sorted(d) /\ d.mode = "returned"
        BY <1>4, <3>1, <3>2, MemReturnSorted
      <3> HIDE DEF d
      <3> QED  BY <1>3, <3>1, <3>3, OneBatch
    <2>5. ASSUME impl = "memory", MemBatchGet(h) PROVE BatchInv'
      <3> DEFINE keys == {op.key : op \in ToSet(batch[h].todo)}
                 u == {k \in keys : table[k] = Absent}
                 got == DeliverRevisions(keys)
                 d == MemReturn(batch[h], u, got)
      <3>1. batch' = [batch EXCEPT ![h] = d] /\ batch[h].mode = "call"
        BY <2>5 DEF MemBatchGet
      <3>2. batch[h].missed = <<>>
        BY <2>5, <3>1 DEF BatchInv
      <3> HIDE DEF u, got
      <3>3. Sorted(d) /\ d.mode = "returned"
        BY <1>4, <3>1, <3>2, MemReturnSorted
      <3> HIDE DEF d
      <3> QED  BY <1>3, <3>1, <3>3, OneBatch
    <2>6. ASSUME NEW limit, MemPage(h, limit) PROVE BatchInv'
      BY <2>6, <1>3, SameBatches DEF MemPage
    <2>7. CASE BatchRetry(h)
      <3> DEFINE d == [batch[h] EXCEPT !.mode = "call", !.todo = batch[h].missed, !.missed = <<>>]
      <3>1. batch' = [batch EXCEPT ![h] = d] /\ batch[h].mode = "returned"
        BY <2>7 DEF BatchRetry
      <3>2. Sorted(d) /\ d.missed = <<>>
        BY <1>4, <3>1, RetrySorted
      <3> HIDE DEF d
      <3> QED  BY <1>3, <3>1, <3>2, OneBatch
    <2>8. ASSUME NEW item, BatchEnd(h, item) PROVE BatchInv'
      <3>1. batch' = [batch EXCEPT ![h] = NoBatch] /\ NoBatch.mode # "call"
        BY <2>8 DEF BatchEnd, NoBatch
      <3> QED  BY <1>3, <3>1, NoBatchSorted, OneBatch
    <2>9. ASSUME NEW failed, ListStop(h, failed) PROVE BatchInv'
      BY <2>9, <1>3, SameBatches DEF ListStop
    <2>10. ASSUME NEW outcome \in Outcomes, Resend(h, outcome) PROVE BatchInv'
      <3>1. UNCHANGED batch
        BY <2>10, ResendIsResend DEF ResendStep
      <3> QED  BY <3>1, <1>3, SameBatches
    <2> QED  BY <1>7, <2>1, <2>2, <2>3, <2>4, <2>5, <2>6, <2>7, <2>8, <2>9, <2>10
             DEF Proceed, DynamoProceed, MemoryProceed
  <1> QED  BY <1>2, <1>5, <1>6, <1>7 DEF Next

(* When a batch call returns without an error, each operation asked for    *)
(* was settled or is returned, for every size of batch, chunk and retry.   *)
THEOREM BatchesAreAccounted == Spec => []BatchAccounted
  <1>1. Init => BatchInv
    <2>1. SUFFICES ASSUME Init, NEW b \in Handlers
                   PROVE  Sorted(batch[b]) /\ batch[b].mode # "call"
      BY DEF BatchInv
    <2>2. batch[b] = NoBatch /\ NoBatch.mode = "idle"
      BY <2>1 DEF Init, NoBatch
    <2> QED  BY <2>2, NoBatchSorted
  <1>2. BatchInv => BatchAccounted
    BY DEF BatchInv, Sorted, BatchAccounted
  <1> QED  BY <1>1, <1>2, BatchStep, DatastoreInvariant, PTL DEF Spec
-----------------------------------------------------------------------------
(* Listings of the store in memory.  It resumes a listing at a position    *)
(* among what matches now: while nothing is written that is what matched   *)
(* when it began, in the same order, and as much of it as the cursor says  *)
(* has been yielded.  A write leaves nothing to be promised.               *)

MatchedIn(q, tab) == {k \in q.over : tab[k] # Absent /\ WriteCondition(q.filter, tab[k])}

Given(q, tab) ==
    LET M == MatchedIn(q, tab)
    IN  /\ q.stable = M
        /\ \A i \in 1 .. Cardinality(M) : q.got[InOrder(M)[i]] = IF i <= q.cursor THEN 1 ELSE 0
        /\ q.mode = "done" => Cardinality(M) <= q.cursor

MemListed(q, tab) ==
    /\ ListingRecord(q)
    /\ q.got = [k \in Keys |-> q.got[k]]
    /\ q.cursor \in Nat
    /\ q.over \subseteq Keys
    /\ q.stable = {} \/ Given(q, tab)

MemListingInv ==
    impl = "memory" =>
        /\ listing = [l \in Handlers |-> listing[l]]
        /\ \A l \in Handlers : MemListed(listing[l], table)

(* The keys that match, in order.                                          *)
LEMMA MatchedSorted ==
    ASSUME NEW q, NEW tab, q.over \subseteq Keys, NEW M, M = MatchedIn(q, tab)
    PROVE  /\ M \subseteq Keys /\ Cardinality(M) \in Nat
           /\ InOrder(M) \in [1 .. Cardinality(M) -> M] /\ Len(InOrder(M)) = Cardinality(M)
           /\ {InOrder(M)[i] : i \in 1 .. Cardinality(M)} = M
           /\ \A i, j \in 1 .. Cardinality(M) : InOrder(M)[i] = InOrder(M)[j] => i = j
  <1>1. M \subseteq Keys
    BY DEF MatchedIn
  <1>2. M \in SUBSET Nat /\ IsFiniteSet(M)
    <2>1. NKeys \in Nat /\ Keys \subseteq Nat
      BY SizesAssumption DEF Keys
    <2>2. IsFiniteSet(Keys)
      BY <2>1, FS_Interval DEF Keys
    <2> QED  BY <1>1, <2>1, <2>2, FS_Subset
  <1> DEFINE n == Cardinality(M)
             s == InOrder(M)
  <1>3. /\ n \in Nat /\ s \in [1 .. n -> M] /\ {s[i] : i \in 1 .. n} = M
        /\ \A i, j \in 1 .. n : i < j => s[i] < s[j]
    BY <1>2, InOrderIs
  <1> HIDE DEF n, s
  <1>4. Len(s) = n
    BY <1>3
  <1>5. ASSUME NEW i \in 1 .. n, NEW j \in 1 .. n, s[i] = s[j] PROVE i = j
    <2>1. s[i] \in Nat /\ ~ (s[i] < s[j]) /\ ~ (s[j] < s[i])
      BY <1>2, <1>3, <1>5
    <2>2. ~ (i < j) /\ ~ (j < i) /\ i \in Int /\ j \in Int
      BY <1>3, <2>1
    <2> QED  BY <2>2
  <1> QED  BY <1>1, <1>3, <1>4, <1>5 DEF n, s

LEMMA NoListingMemListed == \A tab : MemListed(NoListing, tab)
  <1>1. NoListing.over \subseteq Keys
    <2> DEFINE none == [k \in Keys |-> 0]
    <2>1. NoListing = [mode |-> "idle", over |-> {}, filter |-> NoCond, cursor |-> 0, stable |-> {},
                       got |-> none]
      BY DEF NoListing
    <2> HIDE DEF none
    <2> QED  BY <2>1
  <1> QED  BY <1>1, NoListingRecord DEF MemListed

(* A step changes the listing of one handler and no item.                  *)
LEMMA OneMemListing ==
    ASSUME MemListingInv, impl = "memory", UNCHANGED <<impl, table>>, NEW l \in Handlers, NEW q,
           listing' = [listing EXCEPT ![l] = q], MemListed(q, table)
    PROVE  MemListingInv'
  <1>1. listing = [m \in Handlers |-> listing[m]] /\ \A m \in Handlers : MemListed(listing[m], table)
    BY DEF MemListingInv
  <1>2. listing'[l] = q /\ \A m \in Handlers : m # l => listing'[m] = listing[m]
    BY <1>1
  <1>3. listing' = [m \in Handlers |-> listing'[m]]
    BY <1>1
  <1>4. \A m \in Handlers : MemListed(listing'[m], table')
    BY <1>1, <1>2
  <1>5. \A m \in Handlers : MemListed(listing[m], table)' <=> MemListed(listing'[m], table')
    BY DEF MemListed, Given, MatchedIn, ListingRecord
  <1> QED  BY <1>3, <1>4, <1>5 DEF MemListingInv

LEMMA UnlistedMemKeeps ==
    ASSUME MemListingInv, UNCHANGED <<impl, table, listing>> PROVE MemListingInv'
  BY DEF MemListingInv, MemListed, Given, MatchedIn, ListingRecord

LEMMA ChangedMemListings ==
    ASSUME MemListingInv, NEW new, NEW replaced, NEW told, Changed(new, replaced, told), UNCHANGED impl
    PROVE  MemListingInv'
  <1>1. SUFFICES ASSUME impl = "memory"
                 PROVE  /\ listing' = [l \in Handlers |-> listing'[l]]
                        /\ \A l \in Handlers : MemListed(listing'[l], table')
    <2>1. \A m \in Handlers : MemListed(listing[m], table)' <=> MemListed(listing'[m], table')
      BY DEF MemListed, Given, MatchedIn, ListingRecord
    <2> QED  BY <2>1 DEF MemListingInv
  <1> DEFINE left(l) == {k \in listing[l].stable : /\ table'[k] # Absent
                                                   /\ WriteCondition(listing[l].filter, table'[k])
                                                   /\ impl = "memory" => table' = table}
  <1>2. listing' = [l \in Handlers |-> [listing[l] EXCEPT !.stable = left(l)]]
    BY DEF Changed
  <1>3. ASSUME NEW l \in Handlers PROVE MemListed(listing'[l], table')
    <2> DEFINE s == left(l)
               p == listing[l]
               q == listing'[l]
    <2>1. MemListed(p, table)
      BY <1>1 DEF MemListingInv
    <2>2. CASE p.stable = {} \/ table' # table
      <3>1. s = {}
        BY <1>1, <2>2
      <3>2. q = [p EXCEPT !.stable = s]
        BY <1>2
      <3> HIDE DEF s, q
      <3>3. /\ ListingRecord(q) /\ q.stable = s /\ q.got = p.got /\ q.cursor = p.cursor
            /\ q.over = p.over
        BY <2>1, <3>2 DEF MemListed, ListingRecord
      <3> QED  BY <2>1, <3>1, <3>3 DEF MemListed, q
    <2>3. CASE p.stable # {} /\ table' = table
      <3>1. Given(p, table)
        BY <2>1, <2>3 DEF MemListed
      <3>2. p.stable = MatchedIn(p, table)
        BY <3>1 DEF Given
      <3>3. s = p.stable
        BY <2>3, <3>2 DEF MatchedIn
      <3>4. q = [p EXCEPT !.stable = s]
        BY <1>2
      <3> HIDE DEF s, q
      <3>5. q = p
        BY <2>1, <3>3, <3>4 DEF MemListed, ListingRecord
      <3> QED  BY <2>1, <2>3, <3>5 DEF q
    <2> QED  BY <2>2, <2>3
  <1>4. listing' = [l \in Handlers |-> listing'[l]]
    <2> HIDE DEF left
    <2> QED  BY <1>2
  <1> QED  BY <1>3, <1>4

LEMMA ListStartMemKeeps ==
    ASSUME MemListingInv, impl = "memory", NEW l \in Handlers, NEW over \in SUBSET Keys, NEW filter,
           ListStart(l, over, filter), UNCHANGED impl
    PROVE  MemListingInv'
  <1> DEFINE s == {k \in over : table[k] # Absent /\ WriteCondition(filter, table[k])}
             q == [NoListing EXCEPT !.mode = "run", !.over = over, !.filter = filter, !.stable = s]
  <1>1. listing' = [listing EXCEPT ![l] = q] /\ UNCHANGED table
    BY DEF ListStart
  <1>2. /\ q.mode = "run" /\ q.over = over /\ q.filter = filter /\ q.stable = s /\ q.cursor = 0
        /\ q.got = [k \in Keys |-> 0] /\ ListingRecord(q)
    <2>1. PICK r : r = q
      OBVIOUS
    <2> HIDE DEF s
    <2>2. r = [NoListing EXCEPT !.mode = "run", !.over = over, !.filter = filter, !.stable = s]
      BY <2>1
    <2> HIDE DEF q
    <2>3. /\ r.mode = "run" /\ r.over = over /\ r.filter = filter /\ r.stable = s /\ r.cursor = 0
          /\ r.got = [k \in Keys |-> 0] /\ ListingRecord(r)
      BY <2>2, NoListingRecord DEF ListingRecord
    <2> QED  BY <2>1, <2>3
  <1> HIDE DEF q
  <1>3. s = MatchedIn(q, table)
    BY <1>2 DEF MatchedIn
  <1> HIDE DEF s
  <1>4. /\ s \subseteq Keys /\ Cardinality(s) \in Nat /\ InOrder(s) \in [1 .. Cardinality(s) -> s]
    BY <1>2, <1>3, MatchedSorted
  <1>5. \A i \in 1 .. Cardinality(s) : q.got[InOrder(s)[i]] = IF i <= q.cursor THEN 1 ELSE 0
    <2>1. ASSUME NEW i \in 1 .. Cardinality(s) PROVE q.got[InOrder(s)[i]] = 0 /\ ~ (i <= 0)
      BY <1>2, <1>4
    <2> QED  BY <1>2, <2>1
  <1>6. Given(q, table)
    BY <1>2, <1>3, <1>5 DEF Given
  <1>7. q.got = [k \in Keys |-> q.got[k]]
    BY <1>2
  <1>8. MemListed(q, table)
    BY <1>2, <1>6, <1>7 DEF MemListed
  <1> QED  BY <1>1, <1>8, OneMemListing

LEMMA MemPageKeeps ==
    ASSUME MemListingInv, impl = "memory", NEW l \in Handlers, NEW limit \in Nat,
           MemPage(l, limit), UNCHANGED impl
    PROVE  MemListingInv'
  <1> DEFINE p == listing[l]
             M == MatchedIn(p, table)
             m == MemMatched(l)
             n == Len(m)
             start == p.cursor
             end == IF limit = 0 THEN n ELSE Min({start + limit, n})
             page == {m[i] : i \in (start + 1) .. end}
             got == Yield(p.got, page)
             mode == IF EndsAfter(page, end < n) THEN "done" ELSE "run"
             q == [p EXCEPT !.cursor = end, !.got = got, !.mode = mode]
  <1>1. MemListed(p, table) /\ p.over \subseteq Keys /\ start \in Nat
    BY DEF MemListingInv, MemListed
  <1>2. UNCHANGED table
    BY DEF MemPage
  <1>3. listing' = [listing EXCEPT ![l] = IF start > n THEN NoListing ELSE q]
    BY DEF MemPage
  <1>4. /\ M \subseteq Keys /\ n \in Nat /\ m \in [1 .. n -> M] /\ n = Cardinality(M)
        /\ m = InOrder(M)
        /\ \A i, j \in 1 .. n : m[i] = m[j] => i = j
    <2>1. m = InOrder(M)
      BY DEF MemMatched, MatchedIn
    <2> HIDE DEF m, M
    <2>2. M = MatchedIn(p, table)
      BY DEF M
    <2> QED  BY <1>1, <2>1, <2>2, MatchedSorted
  <1> HIDE DEF m, n
  <1>5. CASE start > n
    <2>1. listing' = [listing EXCEPT ![l] = NoListing]
      BY <1>3, <1>5
    <2> QED  BY <1>2, <2>1, NoListingMemListed, OneMemListing
  <1>6. CASE ~ (start > n)
    <2>1. end \in start .. n
      <3>1. CASE limit = 0
        BY <1>1, <1>4, <1>6, <3>1
      <3>2. CASE limit # 0
        <4>1. end = IF start + limit <= n THEN start + limit ELSE n
          BY <1>1, <1>4, <3>2, SmallerOf
        <4> QED  BY <1>1, <1>4, <1>6, <4>1
      <3> QED  BY <3>1, <3>2
    <2>2. listing' = [listing EXCEPT ![l] = q]
      BY <1>3, <1>6
    <2>3. mode = "done" => n <= end
      BY <1>4, <2>1 DEF EndsAfter
    <2>4. got = [k \in Keys |-> got[k]] /\ p.got = [k \in Keys |-> p.got[k]]
      BY <1>1 DEF Yield, MemListed
    <2>5. ASSUME Given(p, table), NEW i \in 1 .. n PROVE got[m[i]] = IF i <= end THEN 1 ELSE 0
      <3>1. p.got[m[i]] = IF i <= start THEN 1 ELSE 0
        BY <1>4, <2>5 DEF Given
      <3>2. m[i] \in Keys
        BY <1>4
      <3>3. got[m[i]] = IF m[i] \in page /\ p.got[m[i]] < 2 THEN p.got[m[i]] + 1 ELSE p.got[m[i]]
        BY <3>2 DEF Yield
      <3>4. m[i] \in page <=> start < i /\ i <= end
        <4>1. ASSUME m[i] \in page PROVE start < i /\ i <= end
          <5>1. PICK j \in (start + 1) .. end : m[i] = m[j]
            BY <4>1
          <5>2. j \in 1 .. n
            BY <1>1, <1>4, <2>1
          <5>3. i = j
            BY <1>4, <5>1, <5>2
          <5> QED  BY <1>1, <1>4, <2>1, <5>1, <5>3
        <4>2. ASSUME start < i, i <= end PROVE m[i] \in page
          <5>1. i \in (start + 1) .. end
            BY <1>1, <1>4, <2>1, <4>2
          <5> QED  BY <5>1
        <4> QED  BY <4>1, <4>2
      <3> HIDE DEF got, page, end, m
      <3> QED  BY <1>1, <1>4, <2>1, <3>1, <3>3, <3>4
    <2> HIDE DEF got, mode, end
    <2>6. /\ ListingRecord(q) /\ q.cursor = end /\ q.got = got /\ q.mode = mode
          /\ q.stable = p.stable /\ q.over = p.over /\ q.filter = p.filter
      <3>1. ListingRecord(p)
        BY <1>1 DEF MemListed
      <3>2. PICK r : r = q
        OBVIOUS
      <3> HIDE DEF p
      <3>3. r = [p EXCEPT !.cursor = end, !.got = got, !.mode = mode]
        BY <3>2
      <3> HIDE DEF q
      <3>4. /\ ListingRecord(r) /\ r.cursor = end /\ r.got = got /\ r.mode = mode
            /\ r.stable = p.stable /\ r.over = p.over /\ r.filter = p.filter
        BY <3>1, <3>3 DEF ListingRecord
      <3> QED  BY <3>2, <3>4
    <2> HIDE DEF q
    <2>7. MatchedIn(q, table) = M
      BY <2>6 DEF MatchedIn
    <2>8. ASSUME Given(p, table) PROVE Given(q, table)
      <3>1. p.stable = M
        BY <2>8 DEF Given
      <3>2. \A i \in 1 .. n : q.got[m[i]] = IF i <= q.cursor THEN 1 ELSE 0
        BY <2>5, <2>6, <2>8
      <3> QED  BY <1>4, <2>3, <2>6, <2>7, <3>1, <3>2 DEF Given
    <2>9. MemListed(q, table)
      <3>1. q.cursor \in Nat
        BY <1>1, <1>4, <2>1, <2>6
      <3>2. q.stable = {} \/ Given(q, table)
        BY <1>1, <2>6, <2>8 DEF MemListed
      <3> QED  BY <1>1, <2>4, <2>6, <3>1, <3>2 DEF MemListed
    <2> QED  BY <1>2, <2>2, <2>9, OneMemListing
  <1> QED  BY <1>5, <1>6

LEMMA MemListingStep == MemListingInv /\ [Next]_vars => MemListingInv'
  <1> SUFFICES ASSUME MemListingInv, [Next]_vars PROVE MemListingInv'
    OBVIOUS
  <1>1. CASE UNCHANGED vars
    BY <1>1, UnlistedMemKeeps DEF vars
  <1>2. SUFFICES ASSUME Next, impl = "memory" PROVE MemListingInv'
    BY <1>1 DEF Next, MemListingInv
  <1>3. UNCHANGED impl
    BY <1>2 DEF Next
  <1>4. CASE TableSchema
    BY <1>3, <1>4, UnlistedMemKeeps DEF TableSchema
  <1>5. ASSUME NEW h \in Handlers, Call(h) PROVE MemListingInv'
    <2>1. ASSUME NEW k, Get(h, k) PROVE MemListingInv'
      BY <2>1, <1>3, UnlistedMemKeeps DEF Get
    <2>2. CASE MemoryWrite(h)
      BY <2>2, <1>3, WritesChange, ChangedMemListings
    <2>3. ASSUME NEW ops, BatchStart(h, ops) PROVE MemListingInv'
      BY <2>3, <1>3, UnlistedMemKeeps DEF BatchStart
    <2>4. ASSUME NEW over \in {Keys} \cup {KeyCondition(p, low, high) : p \in Partitions,
                                              low \in Keys, high \in {NKeys}},
                 NEW filter, ListStart(h, over, filter)
          PROVE  MemListingInv'
      <3>1. over \in SUBSET Keys
        BY DEF KeyCondition, SortBetween
      <3> QED  BY <2>4, <3>1, <1>2, <1>3, ListStartMemKeeps
    <2> QED  BY <1>2, <1>5, <2>1, <2>2, <2>3, <2>4 DEF Call
  <1>6. ASSUME NEW h \in Handlers, Proceed(h) PROVE MemListingInv'
    <2>1. ASSUME NEW unapplied, MemBatchWrite(h, unapplied) PROVE MemListingInv'
      BY <2>1, <1>3, ChangedMemListings DEF MemBatchWrite
    <2>2. CASE MemBatchGet(h)
      BY <2>2, <1>3, UnlistedMemKeeps DEF MemBatchGet
    <2>3. ASSUME NEW limit \in 0..NKeys, MemPage(h, limit) PROVE MemListingInv'
      <3>1. limit \in Nat
        BY SizesAssumption
      <3> QED  BY <2>3, <3>1, <1>2, <1>3, MemPageKeeps
    <2>4. CASE BatchRetry(h)
      BY <2>4, <1>3, UnlistedMemKeeps DEF BatchRetry
    <2>5. ASSUME NEW item, BatchEnd(h, item) PROVE MemListingInv'
      BY <2>5, <1>3, UnlistedMemKeeps DEF BatchEnd
    <2>6. ASSUME NEW failed, ListStop(h, failed) PROVE MemListingInv'
      <3>1. listing' = [listing EXCEPT ![h] = NoListing] /\ UNCHANGED table
        BY <2>6 DEF ListStop
      <3> QED  BY <1>2, <1>3, <3>1, NoListingMemListed, OneMemListing
    <2> QED  BY <1>2, <1>6, <2>1, <2>2, <2>3, <2>4, <2>5, <2>6 DEF Proceed, MemoryProceed
  <1> QED  BY <1>2, <1>4, <1>5, <1>6 DEF Next

(* On either store, an item that was in the table and matched the filter   *)
(* all through a listing is yielded once: on DynamoDB whatever was written *)
(* meanwhile, on the store in memory while nothing was.                    *)
THEOREM ListsOnce == Spec => []StableListedOnce
  <1>1. Init => MemListingInv
    <2>1. SUFFICES ASSUME Init PROVE /\ listing = [l \in Handlers |-> listing[l]]
                                     /\ \A l \in Handlers : MemListed(listing[l], table)
      BY DEF MemListingInv
    <2>2. listing = [l \in Handlers |-> NoListing]
      BY <2>1 DEF Init
    <2> QED  BY <2>2, NoListingMemListed
  <1>2. MemListingInv => (impl = "memory" => StableListedOnce)
    <2>1. SUFFICES ASSUME MemListingInv, impl = "memory",
                          NEW l \in Handlers, listing[l].mode = "done", NEW k \in listing[l].stable
                   PROVE  listing[l].got[k] = 1
      BY DEF StableListedOnce
    <2> DEFINE q == listing[l]
               M == MatchedIn(q, table)
    <2>2. q.over \subseteq Keys /\ Given(q, table) /\ q.cursor \in Nat
      BY <2>1 DEF MemListingInv, MemListed
    <2>3. k \in M /\ Cardinality(M) <= q.cursor
          /\ \A i \in 1 .. Cardinality(M) : q.got[InOrder(M)[i]] = IF i <= q.cursor THEN 1 ELSE 0
      BY <2>1, <2>2 DEF Given
    <2>4. Cardinality(M) \in Nat /\ {InOrder(M)[i] : i \in 1 .. Cardinality(M)} = M
      BY <2>2, MatchedSorted
    <2> HIDE DEF M
    <2>5. PICK i \in 1 .. Cardinality(M) : InOrder(M)[i] = k
      BY <2>3, <2>4
    <2>6. i <= q.cursor
      BY <2>2, <2>3, <2>4
    <2> QED  BY <2>3, <2>5, <2>6
  <1>3. Init => impl \in Impls
    BY DEF Init
  <1>4. impl \in Impls /\ [Next]_vars => (impl \in Impls)'
    BY DEF Next, vars
  <1>5. impl \in Impls => impl = "dynamodb" \/ impl = "memory"
    BY SizesAssumption
  <1> QED  BY <1>1, <1>2, <1>3, <1>4, <1>5, MemListingStep, DynamoListsOnce, PTL DEF Spec

=============================================================================
