----------------------------- MODULE MCDatastore -----------------------------
(* Instances of Datastore for TLC.                                         *)
EXTENDS Datastore

OnePartition   == [k \in 1..NKeys |-> "p"]
SomeConditions ==
    {NoCond, [op |-> "or", of |-> {[op |-> "notExists", of |-> {}], [op |-> "contains", of |-> {1}]}]}
NoConditions    == {NoCond}
HandlerSymmetry == Permutations(Handlers)
=============================================================================
