---------------------------- MODULE MCMessaging -----------------------------
(* Instances of Messaging for TLC.                                         *)
EXTENDS Messaging

Opts(delay, group, dedup, subject) ==
    [delay |-> delay, group |-> group, dedup |-> dedup, subject |-> subject]
Item(id, n, text, options) == [id |-> id, n |-> n, text |-> text, options |-> options]

\* One sender's entries share a name and a message group, the other's one is
\* not text.
BatchesOf == [s \in Senders |->
    IF s = "s1" THEN {<<Item(1, 1, TRUE, Opts(19, "g", "d1", "about")),
                        Item(1, 2, TRUE, Opts(0, "g", "d2", "")),
                        Item(2, 3, TRUE, Opts(0, "g", "d3", ""))>>}
    ELSE {<<Item(1, 4, TRUE, Opts(0, "h", "d4", "")), Item(2, 5, FALSE, Opts(0, "h", "d5", ""))>>}]
Alone == {Item(1, 6, TRUE, Opts(0, "", "d6", ""))}

Aws(topic, fifo) == [impl |-> "aws", topic |-> topic, fifo |-> fifo]
AllBackends ==
    {Aws(FALSE, TRUE), Aws(TRUE, FALSE)}
        \cup {[impl |-> i, topic |-> t, fifo |-> FALSE] : i \in {"redis", "double"}, t \in BOOLEAN}
=============================================================================
