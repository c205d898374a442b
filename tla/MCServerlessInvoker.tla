------------------------ MODULE MCServerlessInvoker ------------------------
(* Small instances of ServerlessInvoker.                                   *)
EXTENDS ServerlessInvoker

CONSTANTS n1, n2, m1, m2

Reg(name, wrap, guards) ==
    [name |-> name, published |-> "pub" \o name, tag |-> "tag" \o name,
     wrap |-> wrap, guards |-> guards]

Orders  == Reg("orders", "consumer", <<"jwt", "scope">>)
Returns == Reg("returns", "consumer", <<>>)
Chat    == Reg("chat", "websocket", <<"jwt">>)
List    == Reg("list", "typedHTTP", <<>>)
Raw     == Reg("raw", "http", <<"absent">>)
Nightly == Reg("nightly", "schedule", <<"jwt">>)
Job     == Reg("job", "custom", <<>>)
Wired   == Reg("wired", "any", <<>>)

MCApps == {<<Orders, List>>, <<Returns, Orders, Job>>, <<Chat, Nightly>>, <<Wired, Raw>>}

Deploy(id, tag, kind, source) == [id |-> id, tag |-> tag, kind |-> kind, source |-> source]

(* Told nothing, told by id, by published name, by tag, by a name that no  *)
(* code registers, and told the kind.                                      *)
MCDeployments ==
    {Deploy(id, tag, kind, source) :
        id \in {"", "pubwired"}, tag \in {"", "tagorders"},
        kind \in {""}, source \in Kinds}
    \cup
    {Deploy(id, "", source, source) : id \in {"", "list"}, source \in Kinds}

MCGuards == {"jwt", "scope"}
=============================================================================
