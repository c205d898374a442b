------------------------------- MODULE MCCache -------------------------------
(* Instances of Cache for TLC. *)
EXTENDS Cache, TLC

CONSTANT UserTag

AllOfOrders == [h \in Handlers |-> "orders"]
\* One instance; a cluster with the names on a shard each; a cluster with the
\* names put on one shard by a hash tag.
ThreeDeployments ==
    {[clustered |-> FALSE, tagOf |-> [n \in Names |-> NoTag]],
     [clustered |-> TRUE,  tagOf |-> [n \in Names |-> NoTag]],
     [clustered |-> TRUE,  tagOf |-> [n \in Names |-> UserTag]]}
OnShards == [x \in {UserTag} \cup Keys |->
               IF x = UserTag THEN "s1" ELSE IF x.name = 1 THEN "s1" ELSE "s2"]
SomeNames == {<<2, 1>>}
SomeModes == {[OnlyIfAbsent |-> TRUE, OnlyIfPresent |-> FALSE, Expires |-> TRUE],
              [OnlyIfAbsent |-> FALSE, OnlyIfPresent |-> TRUE, Expires |-> FALSE]}
==============================================================================
