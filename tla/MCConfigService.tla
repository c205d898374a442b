--------------------------- MODULE MCConfigService --------------------------
(* Small instances of the configuration service for TLC.                   *)
EXTENDS ConfigService, TLC

CONSTANTS r1, r2

Deployed(platform, linked, described, refresh, attached, holds, until) ==
    [platform |-> platform, linked |-> linked, described |-> described,
     refresh |-> refresh, extension |-> attached, wired |-> TRUE,
     file |-> "written", inline |-> "absent",
     topology |-> "orders" :> [type |-> "bucket", key |-> <<"ORDERS">>], holds |-> holds,
     until |-> until]

Described(key, namespace, prefix, id, kind) ==
    [key |-> key, namespace |-> namespace, prefix |-> prefix, id |-> id, kind |-> kind]

Both == {"aws", "local"}
Host == <<"DB", "/", "HOST">>
Port == <<"PORT">>
App(kind) == Described(NotSet, NotSet, NotSet, "app", kind)
Infra == Described("resources", NotSet, NotSet, "infra", "secrets-manager")
AppHolds == "app" :> {Host, Port}
AllHolds == AppHolds @@ ("infra" :> {<<"ORDERS">>})

Paged == Deployed("aws", Both, {App("parameter-store")}, NotSet, FALSE, AppHolds, 4)
Ordinary == Deployed("aws", Both, {App(NotSet), Infra}, "off", FALSE, AllHolds, 0)
Attached == Deployed("aws", Both, {App("secrets-manager")}, NotSet, TRUE, AppHolds, 1)
Local == [Deployed("local", Both, {App("anything"), Infra}, "2000", FALSE, AllHolds, 0)
            EXCEPT !.file = "absent", !.inline = "written"]
Unlinked == [Deployed("aws", {"local"}, {App(NotSet)}, NotSet, FALSE, AppHolds, 0)
                EXCEPT !.file = "malformed"]
Unsupported == Deployed("aws", Both, {App("blob-store")}, NotSet, FALSE, AppHolds, 0)
Unwritten == Deployed("aws", Both, {App("parameter-store")}, NotSet, FALSE, "app" :> {}, 2)
Nameless == Deployed("vm", Both, {}, NotSet, FALSE, AppHolds, 0)

\* A store two applications share, a second one, and one that comes to its name.
Shared == [Deployed("aws", Both,
            {Described("orders", "orders", "DB", "app", NotSet),
             Described("audit", NotSet, "audit", "infra", NotSet),
             Described("more", "orders", NotSet, "infra", NotSet),
             Described("store", NotSet, NotSet, "infra", NotSet)}, "off", FALSE, AllHolds, 0)
            EXCEPT !.wired = FALSE]

MCDeployments ==
    {Paged, Ordinary, Attached, Local, Unlinked, Unsupported, Unwritten,
     Nameless, Shared}

Settings == <<[levels |-> <<"DB", "HOST">>, type |-> "string"],
              [levels |-> <<"DB", "embedded", "PORT">>, type |-> "int"]>>

Call(via, op, key) == [via |-> via, op |-> op, key |-> key, name |-> NotSet, kind |-> NotSet,
                       fields |-> Settings]

MCCalls ==
    (r1 :> {Call("only", "get", Port), Call("only", "bind", Nothing),
            [Call("named", "get", <<"HOST">>) EXCEPT !.name = "orders"]}) @@
    (r2 :> {Call("only", "all", Nothing),
            [Call("resource", "get", Nothing) EXCEPT !.name = "orders", !.kind = "bucket"],
            [Call("resource", "get", Nothing) EXCEPT !.name = "orders", !.kind = "queue"]})

=============================================================================
