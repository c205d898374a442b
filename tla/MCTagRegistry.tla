---------------------------- MODULE MCTagRegistry ---------------------------
(* Small instances of the tag registry for TLC: handlers of every kind, of *)
(* which two pairs are registered under one tag, spelled differently or    *)
(* for different kinds, and blueprints that key the routes in every way    *)
(* and leave names out.                                                    *)
EXTENDS TagRegistry, TLC

MCTags == {Tag(k, r) : k \in {"event", "action", "custom", "GET", "blueprint"}, r \in {"a", "b"}}
          \cup {Tag("GET", "{*p}"), SourceTag("q", "a"), SourceTag("q", "b")}

MCCatchAll == [r \in {"{p+}"} |-> "{*p}"]

Opts(n, cap) == [name |-> n, maxConcurrent |-> cap]

MCHandlers == {Handler("a", Opts("a", 2)), Handler("b", Opts("b", 0)),
               OnMessage("a", Opts("a", 1)), OnMessage("b", Opts("b", 0)),
               registerHTTP("GET", "{p+}", Opts("a", 0)),
               registerHTTP("get", "{*p}", Opts("b", 1)),
               Consume("q", Opts("b", 0)), Schedule("q", Opts("b", 0)),
               Invoke("a", Opts("a", 0))}

Entry(n, p, t) == [name |-> n, published |-> p, tag |-> t]

Entries == {Entry(n, p, t) : n \in {"a", "b"}, p \in {"", "b"},
                             t \in {Tag("event", "a"), Tag("action", "a"), Tag("action", "b"),
                                    Tag("GET", "a"), SourceTag("q", "b")}}

MCBlueprints == {<<x, y>> : x \in Entries, y \in Entries} \cup {<<x>> : x \in Entries}

=============================================================================
