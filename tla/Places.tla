------------------------------- MODULE Places --------------------------------
(***************************************************************************)
(* Parts of a list: what stands at some of its places, in its order.  The  *)
(* code collects such a part in a loop over the list: the operations of a  *)
(* batch the store left unprocessed, the keys of one shard, the entries of *)
(* a request that were refused.                                            *)
(***************************************************************************)
EXTENDS Naturals, FiniteSets

\* Positions, from the first to the last.
InOrder(S) ==
    CHOOSE s \in [1..Cardinality(S) -> S] : \A i, j \in DOMAIN s : i < j => s[i] < s[j]

AtPlaces(list, places) ==
    LET order == InOrder(places) IN [p \in DOMAIN order |-> list[order[p]]]
=============================================================================
