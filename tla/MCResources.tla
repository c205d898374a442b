---------------------------- MODULE MCResources -----------------------------
(* Instances of Resources for TLC.                                         *)
EXTENDS Resources

Rec(kind, region) ==
    [kind |-> kind, region |-> region, host |-> "main", user |-> "app", port |-> "", auth |-> "",
     ssl |-> "", readHost |-> "", engine |-> "postgres", password |-> "literal", poolMax |-> 0]

Env(extract, socket, ipc, lambda) ==
    [extract |-> extract, socket |-> socket, ipc |-> ipc, lambda |-> lambda, fallback |-> FALSE]

U(r, read) == [r |-> r, read |-> read]

\* A database with a replica and IAM authentication, a cache with the same, and
\* two buckets, one of them in another region.
Records ==
    [db |-> [Rec("sqlDatabase", "") EXCEPT !.auth = "iam", !.ssl = "false", !.readHost = "replica",
                                           !.poolMax = 1],
     sessions |-> [Rec("cache", "west") EXCEPT !.auth = "iam", !.ssl = "false"],
     files |-> Rec("bucket", ""), remote |-> Rec("bucket", "west"),
     jobs |-> Rec("queue", "")]

All == {"bucket", "queue", "topic", "cache", "datastore", "sqlDatabase"}

Plain ==
    [env |-> Env(FALSE, TRUE, TRUE, FALSE), explicit |-> FALSE, linked |-> <<"aws">>,
     platform |-> "aws", kinds |-> All, backends |-> {}, drivers |-> {"postgres"},
     handlers |-> TRUE, app |-> <<"db">>, record |-> Records,
     uses |-> [h \in Callers |-> {U("db", FALSE)}]]

\* Two callers on the pools of one database.
Pools == [Plain EXCEPT !.uses = [h \in Callers |->
            IF h = "h1" THEN {U("db", FALSE)} ELSE {U("db", FALSE), U("db", TRUE)}]]
\* A cache whose token is held, with time passing, and a database to release after it.
Tokens == [Plain EXCEPT !.app = <<"sessions">>, !.uses = [h \in Callers |-> {U("sessions", FALSE)}]]
\* Service clients in two regions.
Regions == [Plain EXCEPT !.app = <<"files", "remote">>, !.uses = [h \in Callers |->
            IF h = "h1" THEN {U("files", FALSE)} ELSE {U("files", FALSE), U("remote", FALSE)}]]
\* A development session: its own queue, the platform's database with a password
\* in a secret.
Develop == [Plain EXCEPT !.linked = <<"aws", "local">>, !.platform = "local", !.backends = {"queue"},
              !.app = <<"db", "jobs">>,
              !.record = [Records EXCEPT !.db = [Rec("sqlDatabase", "") EXCEPT !.password = "object",
                                                                               !.engine = "mysql"]],
              !.drivers = {"mysql"},
              !.uses = [h \in Callers |-> IF h = "h1" THEN {U("db", FALSE)} ELSE {U("jobs", FALSE)}]]
\* The same process as a function.
Function == [Pools EXCEPT !.env = Env(FALSE, FALSE, FALSE, TRUE)]

\* Builds that do not get as far as serving, and records that cannot be read.
Describe == [Plain EXCEPT !.env = Env(TRUE, FALSE, FALSE, FALSE), !.linked = <<>>]
Undetected == [Plain EXCEPT !.linked = <<"aws", "local">>, !.platform = "other"]
Unlinked == [Plain EXCEPT !.kinds = {"bucket"}]
NoBackend == [Develop EXCEPT !.backends = {}]
NoFallback == [Plain EXCEPT !.linked = <<"local">>]
NoHandlers == [Plain EXCEPT !.handlers = FALSE]
NoTarget == [Plain EXCEPT !.env = Env(FALSE, FALSE, TRUE, FALSE)]
Fake == [Undetected EXCEPT !.explicit = TRUE]
NoHost == [Plain EXCEPT !.record = [Records EXCEPT !.db.host = ""]]
NoUser == [Tokens EXCEPT !.record = [Records EXCEPT !.sessions.user = ""]]

MCBuilds == {Pools, Tokens, Regions, Develop, Function, Describe, Undetected, Unlinked, NoBackend,
             NoFallback, NoHandlers, NoTarget, Fake, NoHost, NoUser}
=============================================================================
