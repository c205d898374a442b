# Celerity Go SDK: TLA+ models, checks and proofs

This directory holds TLA+ specifications of the parts of the SDK whose
correctness depends on orders of events that tests hardly reach: the stream a
handler process serves to the Celerity runtime, the functions it becomes on a
serverless platform, the registry both of them route by, the configuration it
reads while it is refreshed, the resources handlers share, and the life of the
process around all of these. The specifications are translated from the Go source.
TLC checks them on small instances, and TLAPS proves most of the safety properties
for every instance.

## The system

An application registers handlers and calls `celerity.Run`, which serves them in
one of three modes: against the Celerity runtime over a gRPC stream
(`internal/ipc`), inside a serverless platform (`serverless`), or, for the CLI's
extraction step, by printing a manifest. Handlers reach queues, topics, buckets,
datastores, caches, SQL databases and configuration through provider-agnostic
interfaces with AWS, Redis, local and in-memory implementations.

| Part | State it keeps | Operations | What is hard, and what makes it correct | Module |
| --- | --- | --- | --- | --- |
| Handler stream: `internal/ipc` `client.go`, `loop.go`, `websocket.go` | events in flight with their cancel functions, the bounded `out` channel, waiting WebSocket sends, one goroutine per event, a sender goroutine | handshake, dispatch, cancel, acknowledge, drain, shut down | every goroutine waits for some other one. Each dispatched event is answered exactly once with exactly one credit; a send is told about its own frame; shutdown closes things in order and ends | `HandlerStream`, `CreditWindow` |
| Registry and reconciliation: `celerity/registry.go`, `register.go`, `reconcile.go`, `tags.go` | `byTag`, `order`, the registrations | the registration functions, `Add`, `Retag`, `ReconcileTags`, `HandlerLimits` | registrations move one at a time while a snapshot of them is walked. Dispatcher, handshake, caps and manifest agree | `TagRegistry` |
| Serverless invoker, adapter and pipeline: `serverless`, `serverless/aws`, `celerity` `pipeline.go`, `wrap.go` | the resolved handler, kept for ever | detect, resolve, guard, bind, invoke, answer | the first event decides for all later ones; what an unroutable event is answered with | `ServerlessInvoker` |
| Configuration: `config`, `config/aws`, `config/local` | the namespaces, their values, the time of the last check, a lock each | discover, `Lookup`, `Get`, `All`, `Bind`, `Resource` | slow, paged or failing fetches under concurrent reads; the choice of a store | `ConfigService` |
| Data store: `resources/datastore`, `resources/aws/datastore`, `celeritytest` | the table | get, put, update, delete, atomic writes, batches, queries, scans | revisions, all-or-nothing, batches cut into requests, pages of nothing | `Datastore` |
| Cache: `resources/cache`, `resources/redis` | the keyspace | the commands of six types, batches, walks, transactions | shards, answers lost or repeated, keys that come and go under a walk | `Cache` |
| Bucket: `resources/bucket`, `resources/aws/bucket`, `celeritytest` | objects and their versions | put, get, info, delete, copy, sign, delete many, list | versions and markers, ranges, regions, cursors | `Bucket` |
| Queue and topic: `resources/queue`, `topic`, `aws`, `local/redis`, `celeritytest` | what the service took | send, publish, batches of both | requests that fail, lose their answer or are refused in part | `Messaging` |
| Handles, clients, pools and the process: `resources`, `resources/aws/...`, `resources/redis`, `resources/local`, `celerity/run.go`, `runtime.go`, `internal/ipc` `grpc.go`, `dial.go` | handles, everything built behind a `sync.Once`, tokens, what is to be released | take, use, dial, serve, flush, release | first callers that decide for later ones, shared clients, one budget for all pools | `Resources` |
| Telemetry, manifest tool, wire conversion, generated code, the cache stub | buffers, files, scripts | export, extract, convert | | |

The parts interact by calls, except in these places: the runtime's frames arrive
on the stream in the runtime's own order; `Client.out` connects every handler
goroutine with the sender; a process signal cancels the context from which the
stream and every event's context are derived; and handlers of many processes share
the services behind the resources, each of which applies one request at a time.

`PROJECT.json` lists every part under `components`, and under `hazards` what can
go wrong where, with the properties that would catch it.

## Modules

### `CreditWindow`

What the stream promises the runtime, without goroutines, channels or frames: a
window of `Concurrency` credits is opened once, a credit is spent on each fresh
event, and the one result of an event owed an answer returns it. `WFairSpec` adds
that every dispatched event is answered.

### `HandlerStream`

One `ipc.Client` with all its goroutines, and the runtime as its environment.

| In the model | In the code |
| --- | --- |
| `main`, `serveErr`, `ctxDone` | where `Serve` is, what it returns, the context `loop` derives |
| `worker[e]`, `inFlight`, `ended` | the goroutine of `startDispatch`, `Client.inFlight`, the event's own context |
| `out`, `sender`, `holding` | `Client.out`, the goroutine of `startSender` and the frame it has taken |
| `corrCounter`, `corr`, `wsWaiting`, `acks` | `correlationCounter`, the correlation of a send in progress, `Client.wsWaiting`, the buffered channel behind each entry |
| `in`, `stream`, `runtime`, `credit`, ... | the transport and the runtime (external) |

| Actions | Code |
| --- | --- |
| `AwaitConfig`, `Reconcile`, `DeclareReady`, `AwaitReadyAck` | `Serve`, `awaitConfig`, `declareReady` |
| `StartDispatch`, `Cancel`, `DeliverWsAck`, `StartDrain`, `LoopRecvError` | the cases of `loop` |
| `WsRegister`, `WsEnqueue`, `WsAcked`, `WsGiveUp` | `sender.send`, one action up to each blocking point |
| `HandlerReturns`, `PutResult`, `FinishWorker` | `resultFor`, the put of the result, the deferred calls |
| `SenderTake`, `SenderSend`, `SenderFails`, `SenderExit` | `startSender` |
| `DrainFinished`, `DrainTimeout`, `CloseOut`, `CloseTransport` | `drain` and the deferred function of `loop` |
| `Runtime...`, `StreamEnds`, `DeadlinePasses` | the runtime, the network, signals, the clock |

A goroutine's step reaches from one point at which it can block, or at which
another goroutine can see what it did, to the next. `deliverWsAck` looks up the
channel under the lock and puts without it; the model makes this one step, since
the only other user of that channel is the one send that owns the correlation. A
handler's computation is left out: it makes some WebSocket sends and then returns,
fails, panics or turns out not to exist, all of which produce one result
(`resultFor`). The environment may send a wrong first frame, refuse the handshake,
cancel events that have or have not finished, acknowledge twice, drain, end the
stream in order or break it at any time; `Behaviours` says which of these a run
includes. After the stream's end, `Send` may still accept a frame that goes
nowhere before it reports the error, as gRPC does.

`Draining` and `Grant` have no caller in the repository and are not actions.

### `TagRegistry`

The registration functions (`HTTPTag` to `Handler`) build what `Add` is given;
then `ReconcileTags` is a walk, one registration per step, each bound with `Bind`
and moved with `Retag`, and `FinishReconcile` and `HandlerLimits` read back what
the handshake declares. A tag is a record of the parts around its separators,
which is what the code tells tags apart by, and a route is a name whose catch-all
form is a different name. Of two declarations with one key the later one wins, as
in the maps of the code. `HandlerLimits` walks `order` and dereferences what
`byTag` holds there; where that is nothing the process panics (`panicked`).

### `ConfigService`

Package `config` from the environment to a bound struct.

| In the model | In the code |
| --- | --- |
| `dep` | `CELERITY_PLATFORM`, the `CELERITY_CONFIG_...` variables, the linked provider modules, the links file |
| `svc`, `errs`, `links` | `Service.namespaces` as `celerity.New` fills it, `App.errs`, `Service.links` |
| `held[n]` | `namespace.values`, `checkedAt` and `mu` |
| `awsConfig` | the AWS provider's `once` with the failure it keeps |
| `stores`, `extension` | the stores and the Lambda extension's cache (external) |
| `at[r]`, `answer[r]` | how far a reader's call is, and what its last one returned |

`New` is `fromEnvironment` and `discoverStores`; `Ask` chooses the namespace
(`only`, `named`, `resource`); `ServeHeld` and `Fetch` are the two ways `load`
takes the lock; `ReadSecret`, `ReadExtension`, `ReadPage` and `ReadLocal` are the
backends, Parameter Store one page at a time; `Record` and `RecordError` are the
rest of `load`, and `Take` is what `Get`, `All` and `Bind` make of the map. Keys
are sequences of names and separators, so that prefixes and the spellings a nested
field may have are what they are in the code.

### `Datastore`

The portable contract on DynamoDB, and on the double tests use. Items are sets of
tokens, one per write, so that the table shows which writes it carries; a revision
is the number of a token. `Put`, `Update`, `Delete` and `Atomically` are one
request each, with the condition and revision expression the store evaluates;
`WriteChunk` and `GetChunk` are the requests of a batch, `Page` one page of `Items`
or `Scanned`. A request is answered, fails, or is applied and its answer lost; a
batch can leave keys unprocessed. After a lost answer the AWS client underneath, which
`client.go:76` builds with its default retries, either gives up or sends the same
request again: `pending` is such a request, with the conditions and the revision it was
built with, and `Resend` applies or refuses it against the item as it is by then, once
other handlers have written. An atomic write carries a token of the client's own by
which the store recognises it, so sending it again answers what the first sending did.
The chunk of a batch that is sent again is the call's next chunk once more.

`acked` and `refused` are history: tokens that a caller was told are in, or are not in.
So are `rewound`, the keys on which an update sent again changed something (and put its
first revision back), and `unsettled`, the tokens of requests sent again and of those a
refusal of the double left a part of. The two invariants leave these out, by name;
`find_rewound` is the run without the first exception.

The `Mem...` actions are `celeritytest.Datastore`, one step per call because one lock
covers it: it checks a revision only on an item that is there, applies an atomic write
in place and restores its snapshot, hands back absent keys from `BatchGet`, and resumes a
listing at a position. An item of the double is kept encoded and as fields; `leaked` is
what nested changes of a refused or undone update left in the fields, where conditions
and filters see it and from where the next update writes it out.

### `Cache`

`resources/redis` on a single instance or on a cluster. An operation is the command
it sends (`Cmd`), Redis is two operators, `Reply` and `After`, and `Told` is what
`missing`, `isNil` and `failed` make of a reply. Calls of several commands are
steps: a group of keys per shard (`BySlot`) for `GetMany`, `SetMany` and
`DeleteMany`, one page per step for `Walk`. A transaction records its keys,
checks the slots, and queues its commands as one. A command is answered, fails, is
applied and its answer lost, or is sent a second time by the client. `claims` is
history: conditional writes answered with success. Expiry is `Lapse`.

### `Bucket`

`resources/aws/bucket` and the double of `celeritytest`. A bucket holds for every
key its versions, oldest first, deletion markers among them. Reads (`Get`, `Info`,
`Exists`) are operators on that state, built as the code builds them: the range
header, S3's answer to it, the code S3 gives, and `wrap` or `wrapRead` of that
code. `Put`, `Delete`, `Copy`, `Upload` under a signed URL and the requests of
`DeleteMany` change it. `WalkPage` is one request of `Objects` or `AllVersions`;
for versions it merges the two lists S3 returns by time, and two versions may have
the same time. `build` chooses the store, its versioning, the handle and whether
the deployment recorded the region of a bucket elsewhere.

### `Messaging`

`SendBatch` and `PublishBatch` begin a call, `SendChunk`, `PublishChunk`,
`StreamExec` and `ChannelExec` send its requests, `Double...` are the doubles, and
`Retry` is a caller that sends again what came back unsent. What is written of a
message (`BatchEntries`, `PublishEntries`, `StreamFields`, `Envelope`) keeps the
delay, group, deduplication identifier, subject and form of the body. The service
(external) takes a request whole, in part, twice, or without its answer arriving,
and may answer for an entry nobody sent; a FIFO queue deduplicates.

### `Resources`

A process from registration to its end.

| In the model | In the code |
| --- | --- |
| `build` | linked packages and drivers, environment, platform, what the deployment recorded |
| `handles`, `refs`, `errs` | what `resources.Bucket` and its siblings returned, `App.resourceRefs`, `App.errs` and what the run reports |
| `once`, `made` | every `sync.Once` between a handle and its service: session, clients by region, settings, pools, caches, the local connection; and what the built client connects to |
| `token`, `now` | the token `iam.go` holds, and the clock |
| `call[h]` | a goroutine using a resource, from the settings it reads to the connection it gives back |
| `phase`, `dial`, `signalled` | `RunContext`, the loop of `openStream`, the signal's context |
| `release`, `draining`, `polled`, `expired`, `cut`, `late` | `resources.Release` with its budget, and `closePool` |

`TakeHandle`, `RunContext`, `OpenStream`, `ServeEnds`, `FlushTelemetry` and
`ReleaseStep` are the process; `Begin`, `ConnectionSettings`, `Enter`, `Build`,
`Connect`, `Connected` and `GiveBack` a caller. A caller that runs once serving has
ended is a goroutine a handler left behind. A caller waits inside a `once` that
another one builds, and gets its failure.

### `ServerlessInvoker`

A function on a serverless platform: `serverless.dispatcher` with the Lambda
adapter, the registry's resolver and the pipeline around a handler, in several
execution environments that share a queue and nothing else.

| In the model | In the code |
| --- | --- |
| `app`, `deploy` | what the application registered; `CELERITY_HANDLER_ID`, `CELERITY_HANDLER_TAG`, `CELERITY_HANDLER_TYPE`, and the source the platform feeds the function from |
| `resolved[e]`, `client[e]` | `dispatcher.resolved` and `resolveErr` behind `once`; the client of `sender` behind its own `once`, with the failure it keeps |
| `stage[e]`, `inv[e]` | how far `invoke` has come, and what it knows of the event |
| `queue`, `handled` | the messages SQS holds (external), and a history of what handlers took on |

| Actions | Code |
| --- | --- |
| `StartBatch`, `StartEvent`, `StartDirect` | the platform hands over an event, `Mapper.Detect` gives it a kind |
| `AcknowledgeReceipt` | `webSocketSender`, `acknowledgeReceipt`, `sender.resolveClient` |
| `Route` | `once.Do(resolve)`, then `noHandler` or `toEvent` |
| `Guard` | one turn of the loop in `guardLayer` |
| `Bind`, `HandlerReturns` | the wrapper before and after the handler: `wrongSource`, decoding, validation, `httpErrorResult`, then `fromResult` |
| `Answer`, `Crash`, `Recycle` | the answer reaches the platform; the environment is killed; an idle one is dropped (external) |

An event has one of six shapes: that of a platform source, another JSON object, or
JSON that is no object. This is what `Detect` and `decode` tell apart, and it keeps
what matters about `json.Unmarshal`: any object is accepted for any event type. An
answer is an error, a status, a partial failure report, an output or nothing,
which is what the platform tells apart. A handler's layer may also return no result at
all, which becomes nothing (`event.go:51`). Every answer that is not an error, a status
of failure or a report of failures counts as a success (`Success`), whatever was
invoked. The bodies of responses, spans, the
flush at the end and the application's own layers, which the model takes to pass
events through, are left out. Function configuration is taken to include
`ReportBatchItemFailures`, as the documentation of the adapter demands.

### `Places`

What stands at some of the places of a list, in the order of the list (`InOrder`,
`AtPlaces`). `Cache`, `Datastore`, `Bucket` and `Resources` write with it the loops that
collect a part of a list: the keys of a shard, the operations left unprocessed, the
objects of a listing, the versions kept by a deletion, the holdings of one kind.

### `MC...`

Instances for TLC: symmetry, the handlers and blueprints of the registry, the
applications, deployments and builds, the batches and conditions callers pass.

### `..._proofs`

The theorems about `HandlerStream`, `ServerlessInvoker`, `TagRegistry`, `Datastore`,
`Resources`, `ConfigService`, `Cache` and `Bucket`, below.

## What TLC checks

| Run | Instance | Shows |
| --- | --- | --- |
| `stream_shutdown` | 2 events, pool of 2, 1 send, everything the environment can do | `NoCreditLeak`: an event owed an answer is in exactly one place on its way there. `CancelReaches`: a cancellation read in time has ended the event's context. `NoSendOnClosedChannel`, `ClosedWithEverythingAnswered`: shutdown closes in order and cuts off no result. `RefinesWindow`: the stream implements the credit window |
| `stream_liveness` | 2 events, pool of 2, 2 sends, deadlines, repeated acknowledgements, drain, fairness | `AckMatchesSend`, `AckNotLost`: a send hears about its own frame, and no verdict is lost between the loop and the send. `RefinesFairWindow`: every dispatched event is answered; `DrainBounded`: a drain ends |
| `registry` | up to 3 of 9 registrations, 420 blueprints of 1 or 2 declarations | `RegistryAgrees`: at every step of a reconciliation in which no two handlers want one tag, each registration is found under its own tag, and the tags and caps declared are those registered |
| `config_refresh` | 2 readers, 9 deployments, interval 2, latency 1, up to 4 ticks, 1 rotation, fairness | `ServedFresh`, `ReadingIsWhole`: what is held is a whole reading and never older than the interval and a fetch. `AnsweredByTheStoreMeant`. `LoadsReturn` |
| `invoker` | 2 environments, 2 messages, 4 applications, 30 deployments, 2 faults, fairness | `NoSilentDrain`: no message is deleted that no handler took on. `SuccessIsEarned`: no success without the right handler, all of its guards and a return without error, except for a custom invocation that finds no handler (below). `ReceiptNotHostage`. `QueueDrains`: what reaches an environment first decides nothing once the deployment has said what is served |
| `datastore` | 2 handlers, 2 keys, requests of 1 operation, 2 writes, 1 fault, both stores | `NoLostUpdate`, `RefusedNotApplied`: through requests lost and sent again, but for the keys and tokens named above. `BatchAccounted`, `StableListedOnce` |
| `cache` | 2 handlers, 2 names, 2 shards, 3 deployments, 2 writes, 1 fault | `ClaimHeld`, `NoCrossShardCommand`, `BatchWhole`, `WalkComplete`. `ClaimSeen`: while a claim stands, every read of its key by any handler finds it, and another's conditional write is told that it lost and stores nothing, though it be sent twice |
| `bucket` | 2 buckets in 2 regions, 2 keys, 3 versions, pages and deletions of 2, 1 fault, 3 builds | `ReadsTellTruth`: what every read of every version and range is told, on every state reached and on either store. `VersionsInOrder`: the one order a merged page has, `ListedOnce`, `RefsAccounted` |
| `messaging` | 2 senders with batches of 3 and 2, requests of 2, 6 backends, 2 faults, 2 retries | `EveryEntryAccounted`, `AnswersMatched`, `AcceptedInOrder` |
| `resources` | 2 callers, 15 builds, tokens of lifetime 3, 1 fault, fairness | `NoNilHandleServed`, `ReachedAsRecorded`, `TokensFresh`, `ReleasedIsClosed`, `CutOnlyWhenSpent`; `ShutdownEnds` |
| `find_versions` | as `bucket`, a versioned S3 bucket | finds `EveryVersionListed` violated (below) |
| `find_rewound` | 3 handlers, 1 key, 3 writes, 1 fault, DynamoDB | finds `RevisionsProtect` violated (below) |

Bounds. Two events are enough for two goroutines to compete for `out`, for a
cancellation or an acknowledgement to reach the wrong one. One send makes a goroutine
wait on the receive loop; two make acknowledgements confusable. The run with fairness
has no cancellations, which end a handler's wait sooner and are in the other run. Three handlers are what it takes for
one registration to sit between two that move. Four ticks of the clock let a value
be read, go stale, fail to be refreshed and be refreshed after all; a store of two
keys is two pages, with room for a rotation between them. Two environments and two
messages let a batch be split between environments, fail in part and come back to
an environment that has resolved nothing; two faults let a crash follow a refusal.
Two handlers and two writes are a read, a write of the other in between, and the
write back, or a write, another one, and the first sent again; a revision that is set
back takes a third write to show, which is what `find_rewound` has; requests of one or two operations make batches of two and three need
several, so that a later one can fail after an earlier one was applied. Two names
on two shards are a command that crosses them. Three versions over pages of two end
a page in the middle of a key. The builds of `resources` cover every mode, each
kind of once-built client with two callers racing for it, and each way in which a
process does not get as far as serving; a token's lifetime of three with a margin
of one has moments at which it is new, about to be refused, and expired.

`stream_shutdown` does not check for deadlock, because the code can stall once the
sender has stopped (see below). The resource runs do not either: callers may stop
calling once the bound on writes or faults is reached. The others do.

Fairness. A goroutine that can go on does, a `select` with a ready case takes one,
and timers fire: Go's scheduler and runtime give these (`WF` on each goroutine's
steps). A reader waiting for a `sync.Mutex` gets it in the end, since Go's mutex
hands itself to a starving waiter (`SF` on taking the lock). An
invocation that has begun goes on (`WF`), and a message visible again and again is
delivered, since the platform starts environments for a backlog (`SF` on
`StartBatch`). Handlers of the stream return, and
the runtime answers the handshake and every WebSocket send: these are
assumptions about the environment. In `Resources` the process itself goes on and
the timer of the release fires (`WF` on `Process` and `ReleaseExpires`); a handler
may hold its connection for ever. Nothing is assumed of dispatches, cancellations,
drains, signals, rotations or the end of the stream.

## Where code and comments disagree

Two runs state what a contract says, and TLC finds a behaviour of the code that
violates it: `PROJECT.json` quotes the lines under `findings`.

* `find_versions`: a page of versions that ends in the middle of a key resumes after that
  key (`resources/aws/bucket/versions.go:58`), and `AllVersions` never yields the rest.
* `find_rewound`: `Update` draws the revision it stamps before it sends the request
  (`resources/aws/datastore/update.go:50`). An update is applied and its answer lost; a
  second handler reads the item; a third updates it and is acknowledged; then the client
  sends the first update again, which puts the revision the second handler read back on
  an item that has changed. Its write under that revision is accepted, and the third
  handler's update is gone.

The models also contain, without a run of their own, what the code does in these
places:

* `internal/ipc/loop.go:24`: after a drain's deadline the deferred function of
  `loop` still waits for every worker, and nobody reads acknowledgements any more. A
  WebSocket send of an event without a deadline never returns, and neither does
  `Serve`; line 103 says work still running is abandoned. `DrainBounded` is checked
  with deadlines.
* `internal/ipc/loop.go:82`: a failed send ends the sender goroutine. Once `out` is
  full, a worker blocks in its put for ever and `Serve` does not return, although the
  stream has closed (`client.go:115` says it does).
* `celerity/run.go:159`: the context a signal cancels is the one the stream was opened
  with, so a SIGTERM drops the results of events in flight; line 157 says the client
  tells the runtime that it is going away. `Draining` has no caller.
* `celerity/registry.go:110`: `Retag` overwrites the handler that holds the target tag,
  which `Add` would refuse (line 76). When the overwritten registration moves on, a
  tag of `order` can be left without an entry; `HandlerLimits`
  (`celerity/reconcile.go:186`) then dereferences a nil registration while the
  handshake is made.
* `celerity/reconcile.go:152`: a WebSocket route that spells the name of a custom
  handler is matched with that handler's tag, against the comment at line 57.
* `config/namespace.go:141`: a store that has never answered is asked on every read;
  line 147 says it is retried once an interval.
* `serverless/aws/detect.go:90`: with the kind set by the deployment, a direct
  invocation with any JSON object is decoded into an event of that kind whose fields
  are empty; line 84 says a payload that does not fit is an error.
* `resources/aws/datastore/expressions.go:181`: the revision of an item read without
  one compiles to "carries no revision", which an item deleted meanwhile satisfies:
  the write back brings it to life again (`resources/datastore/condition.go:241`).
* `resources/aws/datastore/datastore.go:159`: a put with a condition that is applied,
  loses its answer and is sent again meets its own item, and comes back as
  `ErrConditionFailed` although it is in the table; so does a write under a revision, and
  a removal under a condition. `RefusedNotApplied` leaves out the tokens of such requests.
* `celeritytest/datastore.go:416`: `walk` changes nested objects in place, and the copy
  `Update` works on and the snapshot of `Atomically` share them. An update refused at a
  later change, or undone with an atomic write, stays visible to conditions and filters,
  and the next update of the item encodes it. `RefusedNotApplied` leaves these out too.
* `serverless/serve.go:138`: a custom invocation no handler can be found for is answered
  with an empty result and no error, which the platform reports as a success;
  `SuccessIsEarned` names this one exception (`QuietlyUnrouted`). The `once` at line 80
  keeps the failed resolution, so every later one is answered in the same way.
* `resources/cache/options.go:24` says that of several handlers racing with
  `IfNotExists` "exactly one" gets true. A command go-redis sends a second time, because
  the answer to the first was lost, finds its own value and is told false: the key is
  taken and nobody was told so. At most one gets true (`ClaimHeld`, `ClaimSeen`). For the
  same reason `Rename` can report `ErrNotFound` for a value it has moved, and a deletion
  that nothing was there.
* `celeritytest/bucket.go:142` says that a range is clamped "the way a store clamps it".
  For one that begins at or past the end S3 answers with an error, and so does `Get`; the
  double answers with no bytes and no error. `ReadsTellTruth` says which store does which.
* `resources/aws/bucket/versions.go:97` compares times with a strict `After`, so of a
  version and an older deletion marker with one time the marker comes first,
  where `resources/bucket/bucket.go:64` says "newest first per key".
  `VersionsInOrder` states the order there is.
* `config/bind.go:187`: the fields of a struct embedded in a tagged group are bound
  without the group's prefix, though they are said to bind as though declared there.
* `config/discover.go:144`: the descriptions come out of a map and are sorted by name
  alone, with a sort that is not stable, so of two that come to one name either may win;
  the comment above it says that "a service is built the same way every time". A store
  whose key is `STORE` is not discovered.
* `config/aws/backends.go`: a Parameter Store path that does not exist reads as an empty
  store, where `config/backend.go` says a store that does not exist is an error.
* `resources/redis/transaction.go:50` returns any error but a missing value instead of
  the results, so one command the cache refused fails the whole call and what the others
  answered is lost; the comments at 48 and 63 say that a refused command comes back with
  the results, as an error in its own place.
* `config.LoadLinks` and `WithLinks` are called by nothing but tests: unless an
  application calls them, `Resource` always reports a missing link (`wired`).

These were met while reading and are outside the models, or outside the instances
checked:

* `resources/handles.go:79` hands out traced buckets, `traced_bucket.go:144` passes a
  destination on as it is, and `destinationOf` (`resources/aws/bucket/bucket.go:324`)
  refuses it: a copy to another bucket works on handles a provider is asked for
  directly, which is what the instances of `Bucket` use.
* `resources/redis/keys.go:197`: `ForEachMaster` runs its callback concurrently, and the
  callback appends to a slice without a lock. `Cache` takes the walk to visit any set
  of shards this can leave.
* `celeritytest/datastore.go`: a cursor is a position among the matching items, so a
  write between two pages can skip or repeat an item, where the real store resumes
  after a key; and `BatchGet` hands back absent keys, so a caller that asks again for
  what came back, as the real store invites, does so for ever.
* `celerity/pipeline.go:68` says that a result carrying an error is recorded on the
  span; the code returns it without recording it.

## What is proved

### The stream

For every finite set of events, every pool size, every bound on WebSocket sends
and every subset of the environment's behaviours (the `ASSUME`s of
`HandlerStream`):

* `StreamTypeCorrect`: `TypeOK`; in particular `out` never exceeds its capacity.
* `NeverSendsOnClosed`: `NoSendOnClosedChannel`. It is inductive together with
  the types: no action starts a goroutine once `main` has left the loop.
* `StreamInvariant`: the inductive invariant `IInv`.
* `StreamRefinesWindow`: `Spec => RefinesWindow`, every step of the stream is a
  step of `CreditWindow` or leaves it alone.
* `StreamConservesCredit` and `PoolIsBounded`: `CreditConserved` and
  `WorkersWithinWindow`.

The refinement is not inductive on its own. A result that reaches the runtime is
an `Answer` of the window only if its event is owed one, so `IInv` follows an
event through the queues: `DispatchInv`, a dispatch on the wire is there once and
has no goroutine yet, and a goroutine exists only for a dispatched event;
`ResultInv`, a result in `out` or with the sender is the only one for its event,
comes from a goroutine that is past its put, and the event is unanswered;
`HandshakeInv`, before `Ready` nothing is dispatched and no sender runs, so that
the window is opened while nothing is owed; `CorrInv`, a goroutine inside a send
has a correlation. `InStep` and `OutStep` sort the actions by what they do to the
two queues, so that each part of the invariant is proved against a handful of
kinds of step instead of against every action. With the refinement, conservation
of credit is a fact about the window's three actions, and the bound on goroutines
follows because every goroutine at work belongs to an event owed an answer.

The second half of `HandlerStream_proofs` has the five other invariants of the stream's
runs, under the same assumptions:

* `WindowNeverLeaks`: `NoCreditLeak`. `IInv` already says that an event is in at most
  one place; `OwedInv` adds that it is in one. This in turn needs `ReadyInv`: the frame
  the handshake consumes is the answer to `Ready` and never a dispatch.
* `CancellationsArrive`: `CancelReaches`. `CancelInv`: a cancellation follows its
  dispatch on the wire, and an event at work whose context has not ended is in
  `inFlight`.
* `DrainLosesNothing`: `ClosedWithEverythingAnswered`. `DrainInv`: no dispatch follows a
  drain, none is left once the drain is read, and the sender stops only when `out` is
  closed and empty.
* `AcksMatchSends`, `AcksAreNotLost`: `AckMatchesSend`, `AckNotLost`.
  `OwnCorrelation`, `SentOnce` and `VerdictInv`: a correlation belongs to one send, its
  frame leaves once, and whatever is on the wire or in a channel is the runtime's verdict.

### The invoker

For every set of environments and messages, every sequence of registrations,
every deployment and every bound on faults (the `ASSUME`s of `ServerlessInvoker`):
`InvokerTypeCorrect`, `QueueNeverDrainsSilently`, `EverySuccessIsEarned`,
`EnvironmentsResolveAlike` and `ReceiptsComeFirst`, each a consequence of
`InvokerInvariant`. None of the five is inductive alone, because the answer an
invocation ends with was fixed several steps before the platform acts on it. The
invariant `IInv` therefore says of each environment what its stage implies:
`KindInv`, the kind is the one the deployment states, and a batch has the kind of a
consumer; `StageInv`, past routing there is a handler, past the guards all of them
have allowed the event, and the handler runs only on a source it serves;
`DrainInv`, what an answer will delete is in `handled`; `ResolvedInv`, a resolution
that does not depend on the event is the one every environment has; `EarnedInv` and
`ReceiptInv`, the two properties of a single environment. `EarnedInv` has to say of an
answer of nothing where it came from: a handler's own result, or `noHandler` for a custom
invocation, and nowhere else.
Environments share only `queue` and `handled`, so a step of
one preserves the facts about the others by one lemma.

### The registry

For every set of tags, handlers and blueprints and any number of registrations:
`RegistryTypeCorrect` and `RegistryAlwaysAgrees` (`RegistryAgrees`). Half way through a
reconciliation some registrations have moved and some have not, and the tag one moves
to may be a key another is still found under. `RegistryInv` says how far the walk has
come: it visits every registration once and in order, those behind it are at the tag the
blueprint gives them, those ahead at the tag they were made under.

### The data store

For every number of keys, handlers, writes and chunks, and for both stores:
`UpdatesAreNotLost` (`NoLostUpdate`) and `RefusalsLeaveNothing`
(`RefusedNotApplied`). A put under a revision writes back what its handler read some
time ago. `DatastoreInv` says why nothing is lost: a revision determines what an item
holds, for what handlers have read as well as for the items a batch has yet to write,
although the items of a batch get one revision at different times (`Faithful`,
`BatchTokens`). A request waiting to be sent again is one more such reading
(`PendingRequest`): a put under a revision that comes a second time finds either its own
revision, and is refused, or the one it asks for, and then writes back what that revision
stands for. An update that comes a second time is what breaks it, because its revision
then stands for two contents; from there on its key is in `rewound`, and both the
theorem and `Faithful` say nothing of it. Every kind of step is one of `WriteStep`,
`ResendStep`, `ChunkStep` and `QuietStep`, and the invariant is proved once for each.

`BatchesAreAccounted` (`BatchAccounted`): `Sorted` says of a batch under way that what was
asked for is what is settled, what is left to do and what was missed, so that a chunk
only moves operations between these; it needs that `OpsFor` returns the operations left
unprocessed and no others.

`ListsOnce` (`StableListedOnce`) has an invariant for each store. On DynamoDB
(`ListingInv`) what stayed has been yielded once if it is up to the cursor, and not at
all beyond it, whatever is written meanwhile. The double resumes at a position among the
keys that match, so it promises this only while nothing is written: `MemListingInv` says
that until then what was yielded are the first keys of the sorted matches, as many as the
position says.

### Resources and the process

For every set of callers and builds: `ServesWithEveryHandle` (`NoNilHandleServed`),
`TokensOutliveOpening` (`TokensFresh`), `DrainsBeforeCutting` (`CutOnlyWhenSpent`),
`CallersReachWhatWasRecorded` (`ReachedAsRecorded`) and `EndsWithEverythingClosed`
(`ReleasedIsClosed`). `UsageInv`: a call is of a resource
of the build that has a handle; `MissingReported`: a handle missing is an error reported
unless the application only describes itself; `OnceInv`: one caller builds what a
`sync.Once` guards, and what was built is what its key stands for, which is where two
resources that share a key without sharing an endpoint would show; `TokenInv`: a token
handed to a connection was not nearly spent; `CutInv`: only who holds a connection of
the pool whose turn it is is waited for. `HeldInv`, for the last theorem, follows a
connection from the handle to the release: `HandlesLinked`, a handle comes from a provider
that is linked; `OpenIsOwned`, what is open is among the holdings of a provider that
handed out a handle; `OpenIsReleased`, while the release goes on, what is open and not
opened since is still in the list it works through. That the list has everything that is
owned, in whichever order the packages are linked, is the lemma `ReleaseIs`.

The proof of `TokensFresh` needs the margin to be shorter than the lifetime: were they
equal, a connection that takes as long as the margin to open would outlast even a token
signed for it. The code has 1 minute and 15 (`resources/aws/cache/iam.go:42` and `38`),
and `ResourcesAssumption` says so. That a connection opens within the margin is the
assumption behind the margin itself (line 40).

### Configuration

For every finite set of readers, every deployment, interval and latency:
`NothingStaleIsServed` (`ServedFresh`), `ReadingsAreWhole` (the action property
`ReadingIsWhole`) and `ReadsAreAnsweredAsMeant` (`AnsweredByTheStoreMeant`).
`ServiceInv`: the namespaces are those of the stores described, and a reader under way is
on the namespace its call means; `Ages`: how old what is held and what is being fetched
can be; `ReadingInv`: what a reader has collected is as much of the store as it has got
to, none of it older than when its fetch began. The proof of `ServedFresh` needs the
default interval to be positive, as it is (30 s, `config/discover.go:55`): an interval of
zero stands for no refreshing at all (line 175).

### The cache

For every set of applications, handlers, names, tags and shards, any placement, any
batches and any number of writes and faults: `ClaimsAreHeld` (`ClaimHeld`),
`CommandsStayOnAShard` (`NoCrossShardCommand`), `BatchesAreWhole` (`BatchWhole`),
`WalksMissNothing` (`WalkComplete`) and `ClaimsAreSeen` (`ClaimSeen`).

* A conditional write sent twice finds its own value and is told that the key is taken
  (`ClaimStep`), so nobody holds a claim it was not told of, and whoever was told of one
  had its value in place.
* `BatchInv`: a batch has groups left, each of one shard, and these with the keys done
  are the keys it was given. It rests on `Grouped`: for a key sequence of any length,
  the groups `BySlot` makes are each of one shard and together the whole batch; that
  positions can be put in order at all is an induction over their number
  (`OrderExists`).
* `WalkInv`: a key that was there all along and was not yielded is on a shard yet to
  be visited, or further on in the one the walk is on.
* `ClaimInv`: under a claim there is the claimant's text and nothing else, so that what
  each reading operation makes of the reply (`ReadOfClaim`, over the verbs of
  `ReadVerbs`) is known, and a conditional write of another finds its condition false
  both times it is sent.

### The bucket

For every number of keys, versions and faults, any buckets and regions, pages and
deletions of any size, and both stores: `ReferencesAreAccounted` (`RefsAccounted`),
`EveryReadTellsTruth` (`ReadsTellTruth`), `WalksListOnce` (`ListedOnce`),
`PagesAreInOrder` (`VersionsInOrder`) and `StaysWellTyped` (`TypeOK`).

* `StoreInv`: the versions of a key are in the order they were made in, with identifiers
  handed out once. From it, reads are a matter of cases: every range against every
  length, and every code S3 can give against `wrap` and `wrapRead`. The theorem says of
  each read what it is told, the failure of a range past the end on S3 included.
* `BatchInv`: a removal under way has accounted for the references before its next
  request, each as often as it was given, and one that is over for all of them. The count
  of a reference in a list, and in what stands at some of its places and at the others, is
  proved by induction over the length of the list.
* `WalkInv`: on S3 what a walk yielded has keys up to the cursor, and every object that
  stayed with a key up to the cursor was yielded; in the double, until something is
  written, what was yielded is the beginning of the listing up to the offset. S3's listing
  resumes after a key, and this is what makes `ListedOnce` true of objects and false of
  versions (`find_versions`).
* The merge of `versionsOf` is an induction over how much of the two lists is left: what
  is merged has what the two have left, and is in order if each of the two is; the order
  (`ListedBefore`) is total, ties between a marker and a version included.

### What is only model-checked

* Liveness (`RefinesFairWindow`, `DrainBounded`, `LoadsReturn`, `QueueDrains`,
  `ShutdownEnds`): it needs fairness and `ENABLED`, which the proof system does not
  handle.
* `EveryEntryAccounted`, `AnswersMatched` and `AcceptedInOrder` of `Messaging`. The
  invariants they need are known in outline (an entry of a request under way has not been
  reported yet, and what the service took of a batch is in the order sent), and the lemmas
  about places and counts in `Bucket_proofs` are what their proofs would rest on; they are
  not written.

`TypeOK` of the stream, the invoker, the registry and the bucket, `CreditConserved`,
`WorkersWithinWindow` and `EnvironmentsAgree` are proved and no run repeats them.

## Not modelled

* Wire conversion and generated code: field by field translation without state.
* The mapping of Lambda payloads and of HTTP requests to structs, payload validation:
  data conversion. `ServerlessInvoker` keeps which shapes are accepted and what a
  refusal becomes.
* The fan-out of a handler's own WebSocket sends on Lambda (`sender.Send`): each post
  is independent of the others and of the invocation.
* Traced wrappers, logging, spans and export. The flush at shutdown is in `Resources`.
* The manifest tool: static analysis and file output, without an order of events.
* The cache stub, which answers from a script, and the helpers of `celeritytest` that
  build events and requests; `config.LoadScope`, which nothing calls.
* A handler that calls `runtime.Goexit`, a goroutine that outlives its handler and
  still sends, and a runtime that reuses the identifier of an event in flight.
* Locks that are never contended: the registry changes only before the receive loop
  starts.
* A request whose first copy arrives after its second: the model's resend follows the
  first one's effect. Eventually consistent reads, which DynamoDB gives where, as
  here, consistent ones are not asked for, and the indexes of a table: reads are of the
  table as it is. An answer of S3 that is cut short and names nothing, on which
  `resources/aws/bucket/bucket.go:379` would end a listing. A deduplication window that
  ends between two sendings of a message.
* A bucket notification that carries several records, of which the code reads the
  first: what S3 puts in one message is outside the repository.

## Plan

1. `EveryEntryAccounted`, `AnswersMatched` and `AcceptedInOrder` of the queues and topics
   as theorems.
2. An abstract data store, and an abstract bucket, that both implementations of each are
   shown to implement.
