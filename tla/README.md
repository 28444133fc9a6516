# Verification of cb-eventing

cb-eventing runs JavaScript handlers for the mutations of a Couchbase bucket. A
Go process (`go_eventing/`) deploys applications, streams mutations over DCP and
calls into a C++ binding (`worker/binding/`) that hosts one V8 isolate per
deployment. This directory holds TLA+ models of that system, the TLC
configurations that check them, and TLAPS proofs about them. `PROJECT.json`
gives, for every definition, the lines it models, and lists runs, findings,
hazards and theorems in full.

## 1. Inventory

| Part | Source | State | Operations | What makes it hard |
|---|---|---|---|---|
| start-up | `eventing.go` | `appSetup`, `./apps` | two passes over `./apps`, the main loop | the HTTP server is up before `appSetup` exists; `appSetup` is filled by its only reader |
| deployment | `http_handlers.go` (`storeAppSetup`), `app_setup.go`, `v8_worker.go` | `workerTable`, `workerHTTPReferrerTable` and its back index, `appDoneChans`, `tableLock`, `handle.Quit` | store, set up, load, publish, quit | tables keyed by application name while two deployments of it are alive; sends on bounded channels with the lock held |
| DCP feed | `dcp_client.go` | the feed, `rch`, `dcpStreamClose` | open, forward, stop | a full `rch`; a closed `rch` read by a worker; streams from sequence number 0 |
| mutation filter | `v8_worker.go` (`handleDcpEvent`), `bucket.cc`, `worker.cc` | markers in the metadata bucket, the isolate's Locker | look up, call, store, mark, drop | two stores that are not atomic; ignored failures; HTTP and timer threads in the isolate; restarts |
| timers | `proccess_timer_callbacks.go`, `worker.cc` (`RegisterCallback`, `SendTimerCallback`) | markers per second, blobs per document | register, fetch, call, purge | registration races with the purge; late and dropped ticks |
| assets | `http_handlers.go` (`storeAppSetup`) | `app.Assets`, `assetList`, the bucket, the file | add, delete, write | aliased slices |
| worker construction, script loading | `worker.cc`, `parse_deployment.cc`, `v8_worker.go` | `./apps/<name>`, `cb_cluster_bucket`, the handles, the aliases | write, parse, construct, rewrite, load, publish | three reads of a file that may be rewritten; globals assigned by every constructor; early returns that nobody looks at |
| queue, N1QL | `queue.cc`, `n1ql.cc` | Redis lists, rows of a query | delete, push; rows, final response | an old worker that still pushes; a stream of rows that fails |
| HTTP front end | `app_setup.go`, `http_server.go`, `http_handlers.go` | `appHTTPservers`, `uriPrefixAppMap`, listeners | listen, register, serve, close | one map replaced for all applications; unlocked reads |
| HTTP responses | `http_response.cc`, `worker.cc` | one `http_body` per worker | clear, set, convert | shared by all calls of a worker |
| mail | `mail_handler.go`, `http_handlers.go`, `worker.cc` | `appMailChanMapping`, its channels | set up, post, send, process | a channel closed between look-up and send; a wait with the Locker held |
| debugger | `http_handlers.go`, `worker.cc` | a listener, a condition variable, strings and flags | start, stop, nine requests | global state shared by workers, requests, sessions and redeploys |
| Go binding | `worker/worker.go` | a table of workers | create, dispose | the finalizer |
| local TCP | `local_tcp_server.go`, `tcp/`, `communication_protocol.go` | `appLocalPortMapping` | choose a port, accept | concurrent choices |

`node_eventing/`, `ui/`, `tests/`, `bench/` and `test_scripts/` are outside the
running system.

What each part should guarantee:

* **deployment**: a stored configuration ends in one running worker on that
  code; the earlier worker, stream and timer are stopped and no others; nobody
  blocks for ever with `tableLock` held.
* **mutation filter**: a mutation reaches the handlers at most once; a handler
  is not called for its own application's stores; nothing else is withheld.
* **timers**: every callback due in the future is called, from its own blob, not
  more often than registered.
* **assets**: a request does to the bucket and the file what it asks for.
* **worker set-up**: a worker runs its own application's script, rewritten as
  meant, with aliases that lead to its own buckets, queue and queries; the
  process survives.
* **HTTP, mail**: a redeploy closes the listener and the channel of its
  application; a call returns, with its own response; an accepted mail is sent.
* **debugger**: a request returns with its own answer; sessions clean up.

## 2. Order of the models

`Deployment` is the core. Around it are the path of a mutation
(`MutationFilter`), timers (`TimerCallbacks`), assets (`AssetStore`), what
happens inside a set-up (`WorkerSetup`, `ScriptPreprocess`), what an application
offers besides event handlers (`AppServices`) and the debugger (`DebugSession` on
top of `DebugRequests`). `EventDelivery` and `HttpReply` are abstract
specifications that `MutationFilter` and `AppServices` implement. Modules whose
names end in `Proofs` hold theorems, and modules that begin with `MC` instantiate
for TLC.

What would extend the models most: timers of two applications with one metadata
bucket; `AppServices` and `Deployment` in one composition, with the blocking
sends of `storeAppSetup`; an inductive invariant for `FiresBounded`.

## 3. Modules

Every action is one step between two points where another goroutine, thread or
machine can act. A critical section of `tableLock` that cannot block is one
action, enabled when the lock is free; the two that send on a channel while they
hold the lock are split at each send. Each definition named "Mutant of ..." is a
deliberately wrong variant of the definition after it, used to show that the
properties can fail.

### Deployment

A *deployment* is one pass through `setUpEventingApp`, with its handle, channels
and goroutines. `appOf` says whose it is; the name-keyed Go maps are functions
from applications to deployments. `store`, `setup`, `worker`, `feed`, `timer` and
`main` are program counters.

| Code | Actions |
|---|---|
| `main` | `BootApp`, `StartServers`, `MakeAppSetup`, `FillAppSetup`, `EnterLoop`, `TakeAppSetup`, `FinishAppSetup` (with `setUpMailServer`'s lock) |
| `storeAppSetup` | `StoreConfig`, `StoreLock`, `StoreSendQuit`, `StoreSendAppSetup`, `StoreSendNil` |
| `setUpEventingApp`, `setUpLocalTcpServer`, `loadApp` | `SetupChans`, `SetupLocalTcp`, `SetupLoad`, `SetupPublish`, `SetupReferrer`, `SetupRun` |
| `startBucket`, `startDcp` | `FeedOpen`, `FeedRecv`, `FeedPush`, `DcpStop`, `FeedEnd` |
| `startTimerProcessing`, `processTimerEvent` | `TimerStart`, `TimerStop` |
| `runWorker` | `WorkerLoop`, `WorkerEvent`, `WorkerCrash`, `WorkerQuit`, `WorkerQuitLock`, `WorkerStopDcp`, `WorkerStopTimer` |

Three constants choose the environment. `EarlyRequests`: requests may arrive
between the start of the HTTP server and the creation of `appSetup`. `Patient`:
the operator sends the next configuration of an application only when the last
one has settled (`Settled`). `SlowConnect`: connecting to the buckets outlasts the
handler call in progress. The last two are assumptions, not code; runs that make
them say so.

Abstractions: an event is counted, not described; a version number stands for a
file; each application has one `http` entry. The ticker that prints statistics
is left out, as its case changes nothing.

### MutationFilter and EventDelivery

`log` is the source bucket as the sequence of its mutations; the position of a
mutation is its CAS value. `BucketSet` and `StoreMarker` are the two stores of
`Bucket::BucketSet`, with `result.cas` in `cas` between them (0 after a failure).
`CheckCas` is the look-up of `handleDcpEvent`, `SkipDelete` its drop,
`CallHandler` the entry of `SendUpdate` or `SendDelete` into the isolate,
`OtherCall` that of an HTTP request or a timer callback, `HandlerReturn` the
return of either. `FeedPush` is the stream: ordered per key, unordered between
keys (vbuckets), and free to merge mutations of a key. `Restart` loses everything
but the buckets. `KvFails` lets bucket operations fail.

`handled` and `ignored` are history variables. `EventDelivery` is the promise in
their terms: `Write`, `Handle` (a mutation not seen before and not the
application's own store) and `Ignore` (the application's own store).

### TimerCallbacks

`slot[t]` is the marker of second `t` (absent, or the keys appended to it) and
`blob[d]` the due second in the blob of document `d`. `RegisterCallback` and the
four `Reg...` actions are the C++ function's bucket operations; `TakeTick` to
`PurgeBlobs` are the steps of `processTimerEvent` and `SendTimerCallback`. The
Locker (`holder`) serialises handler code and callbacks, but not the fetch and the
purge. The variable `env` holds what the environment is like throughout: `prompt` if
every tick is taken in the second it fires and done with before the next, `fresh`
if no document is registered twice.
These and `RegLag`, the seconds a registration may take, are the assumptions under
which the two-second delay suffices. `Second` (the clock) and `Fire` (the
ticker, at its own phase) alternate; the code reads the clock when it takes a tick,
so a slow goroutine may skip a second or process one twice. The timeout case of the
inner `select` is absent: its first case evaluates `bucketGet` before `time.After` is called, so the
fetch is waited for without limit and the first case is always ready. Times are UTC
seconds; `processTimerEvent`'s short use of `tableLock` for a trace is left out here.

### AssetStore

`arr` is the array that `assetList` and `app.Assets` share, `len` the length of
`app.Assets`, `index` the loop's position. `ShiftDown` is what
`append(s[:i], s[i+1:]...)` does to the shared array; `DeletePanics` is its slice
out of range, `NoInfo` the nil `info`.

### WorkerSetup and ScriptPreprocess

A *set-up* is one pass from `storeAppSetup` through `loadApp` to a worker; `w[d]`
holds the members of its C++ `Worker`.

| Code | Actions |
|---|---|
| `ioutil.WriteFile` and the end of `storeAppSetup` | `StoreTruncate`, `StoreWrite`, `StoreStart` |
| `getSource`, `loadApp`, `ParseDeployment` | `GetSource`, `LoadApp`, `ParseDeployment`: the three reads of the file |
| `Worker::Worker` | `AssignStart`, `AssignEnd` (the global `cb_cluster_bucket`), `CreateBuckets`, `CreateN1QL`, `CreateQueue`, `QueueUnreachable`, `FinishConstructor` |
| `WorkerLoad` | `LoadFails`, `LoadNoHandlers`, `LoadCrashes`, `LoadSucceeds` |
| the rest of `loadApp`, `runWorker` | `Publish`, `Stop`, `CallUnloaded` |
| `queue.cc`, `n1ql.cc` | `QueueGetCall`; `StartQuery`, `QueryRow`, `QueryFinal` |

What the code does and one might not expect, all of it in the model: the
constructor visits its two kinds of component in turn and makes an `N1QL` object
in both rounds; of several bucket aliases or queue providers only the last is kept;
the handles are not initialised, so a configuration without a bucket or a queue
may crash the load; the script's top level runs before any alias exists; a failed
load is published like any other, and the first call into it ends the process;
`UnwrapQueueName` reads the bytes of a `std::string` in libc++'s short form, which
names of more than 22 bytes do not have. Two threads in the same
`std::string::assign` may leave `Torn`.

In `ScriptPreprocess` a script is a sequence of tokens: the pieces that the regular
expressions look for, the ends of lines, and words of any `Vocabulary`. `Enqueue` and
`N1ql` are the two loops of `WorkerLoad` with their greedy stars, written from the
position that a loop has reached to the end (`EnqueueRest`, `N1qlRest`). `Meant` is
the reference: every call rewritten on its own; `Plain` are the scripts for which both
agree. `Words` is what remains of a script without the delimiters of calls.

A scene (`Scenes`) fixes what is stored for which application, whether each store
waits until the last set-up is running (`waits`), whether a set-up is slower than
the worker it replaces (`slow`), and whether Redis is unreachable (`refuses`).

### AppServices and HttpReply

A deployment has a listener, a worker and a mail channel. `Store` is
`storeAppSetup` under its lock, `MainTake` and `MainMail` are main's loop,
`HttpListen` to `HttpServe` `performAppHTTPSetup`, `Publish` and `Quits` what the
services see of the worker. A call (`HandleJsRequests`, `HandleStaticAssets`,
`Event`) takes the worker's Locker (`SendHTTPGet`, `SendHTTPPost`, `SendUpdate`),
may set a field (`HTTPBodySet`) and send a mail (`SendMail`, `SendMailSends`), and
ends (`ConvertMapToJson`, `UpdateReturns`). `ProcessMails` and `ProcessMail` are
the goroutine that reads the channel. `PostMail` and `FormMail` write and take apart
the form in which a mail travels; nothing is quoted, so what
`AcceptedMailIsSent` says of a mail's texts is about those without `&` and `=`.

`Store` is one action here, as if its sends did not block; that they can is what
`Deployment` is about. `ConvertMapToJson` returns a pointer into a buffer that is
freed on return (`http_response.cc`), before `C.GoString` reads it: `built` is
what was written to the buffer. With two applications `HttpRegister` forgets the
listeners of the other one (`app_setup.go:70`), so `ListenersKnown` is stated for
one; the listener that a redeploy does not close keeps serving its port, and
`ServiceReturns` shows that requests then still reach the new worker.

### DebugRequests and DebugSession

`DebugRequests` follows a request from `v8DebugHandler` through the mutex
(`Lock`), the installation of a message handler, the command, and `cv.wait`
(`Check`, `Block`, `SpuriousWakeup`, `Relock`) to the copy of the global string
(`Copy`); and an isolate that executes commands, stops at breakpoints, and stores
messages through whatever handler is installed (`Execute`, `Stop`, `Store`). The
five result functions are reduced to when they set `data_ready`; which member a
message has is V8's part and marked external. Most responses do not set it: the
request is woken by the end of the next `SendUpdate`. `early` records requests that
were woken so before their own response.

`DebugSession` adds `startV8Debugger` (`StartListen`, `StartV8Debugger`), its
goroutine (`Serve`, `ServeReturns`), `stopV8Debugger` (`StopListen`) and
redeploys. The goroutine's parameters have no names, so it serves what the global
holds when it runs; a second start while the port is open sets the global to nil.

## 4. Runs

Passing runs:

| Run | Shows | Distinct states |
|---|---|---|
| `deployment_safe` | `QuitNeverReusesChans`, `QuitSendsSucceed`, `StopStaysInApp`, `PortsDistinct`: however impatient the operators of two applications are, a quit never signals channels another quit has signalled, nor another application's | 3.3 M |
| `deployment_live` | `SettledIsClean`: what a settled redeploy leaves behind; `RedeployCompletes`, `QuitCompletes`; under `Patient` and `SlowConnect`, with two deployments | 16 k |
| `filter_alone` | `NoSelfTrigger`, `DeliveryKept`, `UserMutationHandled`: when the worker is alone the filter implements `EventDelivery`, and a user's mutation is handled or replaced | 303 k |
| `filter_faults` | `WithheldOnlyHandlerWrites` with every fault and a shared bucket | 4.4 M |
| `timers_all` | `FiresBounded` at any pace; `RightCallback` and `PurgedOnceProcessed` if documents are fresh; `NoMissedCallback` if the goroutine is prompt too | 2.5 M |
| `assets_all` | `BucketOnlyAsAsked`, `OneDeletionWorks` | 944 |
| `setup` | `ProcessSurvives`, `N1QLOwnBucket`, `AliasesInstalled` and `QueueIsOwn` if set-ups do not overlap (`QueueIsOwn` if they are slow and share no list too); `QueryAllOrNothing`, `RewrittenAsMeant`, `WordsKept` always | 602 k |
| `services` | `RepliesKept` (the refinement of `HttpReply`), `ListenersKnown` always; `CallReturns`, `AcceptedMailIsSent`, `ServiceReturns` if the operator waits | 50 k |
| `debug` | `FlagHasSession` always; `OwnAnswer` for requests one at a time; `SessionInCharge` for sessions one at a time; `RequestReturns` while mutations arrive | 167 k |

Runs that TLC refutes, each against a comment in the source (`findings` in
`PROJECT.json` quotes them):

| Run | The trace |
|---|---|
| `deployment_overtake` | one redeploy whose set-up is faster than the handler call in progress: the old worker's quit stops the new deployment's stream, and the new worker ends on its closed `rch` |
| `filter_shared` | two applications with one metadata bucket, as the shipped `test_app` and `credit_score` have: one uses up the other's marker |
| `assets_loop` | the asset after a deleted one is skipped |

What the conditions of the passing runs leave out, each of which TLC shows when
the condition is dropped:

* `Patient`: of two redeploys in a row the second waits to send on a full `Quit`
  with `tableLock` held, and the worker that would empty it waits for `tableLock`.
* `Alone` in the filter: `filter_shared` drops one part of it. With
  `Callers = {"http"}` the worker looks a CAS value up between the two stores of a
  handler that an HTTP request runs; with `MaxRestarts = 1` a mutation whose marker
  is gone is streamed again.
* `env.fresh` in the timers: a document registered for two seconds loses its blob to
  the first, and its second callback is purged without a call.
* `scene.waits` in the set-up: a set-up meets the empty file of the next store and
  the process ends; two constructors at once exchange their buckets.
* `scene.slow`: an old worker pushes to the list after the new one has deleted it.
* A mail channel in `CallReturns`: without mail settings `sendMail` sends on a nil
  channel, and the handler never gives up its Locker.
* Mutations in `RequestReturns`: without them no script runs that would execute the
  command, and nothing wakes a request whose response does not set `data_ready`.

### Bounds

Two deployments are a redeploy, three are a redeploy during a redeploy; every
look-up by name can then find an older, its own or a newer deployment. Two are
enough for a patient operator, whose every redeploy starts from a settled state. Channel
capacities of 10000 and 100 become 0, 1 or 2: empty, partly full and full all
occur (0 makes `startBucket` block at once, as it does behind a full channel).
`Quit` and the stop channels keep their capacity of 1. In the filter two or three
mutations give a user's write, a handler's store for it and a write that replaces
either; one restart replays all of them. In the timers, five seconds pass
the two of delay twice, and three registrations give two in one marker and one
document in two markers. Four assets give a deletion, one skipped, one visited
twice and one out of range.

`setup` has two set-ups, of one application or two, with lists of their own or a
shared one, over six combinations of the scenes' conditions; fourteen configurations and scripts that are not like the
first (no component, repeated aliases and providers, a long name, every way a load
can end); and as scripts all sequences of up to four of the seven tokens and all
combinations of up to three of eleven lines. Two documents per worker and two rows
per query give an empty, a partial and a complete list and result. `services` has
two calls (a GET with a POST, with an event or with a static asset), up to three
deployments of one or two applications, and mail channels with room for one.
`debug` has two requests of every kind that waits (pairs whose responses end the
wait and pairs whose responses do not), two workers and two sessions; what happens together is one of eight scenes.

Symmetry is declared over documents and assets in runs that check
safety only, and over applications where they share one metadata bucket. Deadlock
checking is off: writes, requests and seconds are bounded and every model comes to
rest when they are used up.

### Fairness

`Deployment`: weak fairness for every goroutine (the Go scheduler runs what can
run; connection attempts are repeated until they succeed; handlers return) and
strong fairness for `WorkerQuit`, since `select` picks at random among ready
cases, so a ready `Quit` is not passed over for ever. Requests and mutations are
not forced. `MutationFilter`: weak fairness for the stream, the worker, the second
store and the return of handlers; handlers need not write. `AppServices`: weak
fairness for goroutines and for the end of a handler; strong fairness for taking
the Locker and for sending on a channel with room, which others may take in
between (threads that wait get their turn), and for the worker's own goroutine.
`DebugSession`: weak fairness for threads that do not wait, strong fairness for the
mutex, and strong fairness for events of deployed applications, the assumption
that mutations go on arriving. Stops at breakpoints and new requests are not forced.

## 5. Proofs

All proofs hold for any constants that satisfy the named assumptions of the
modules: any sets of applications, deployments, keys, documents, calls, workers and
sessions, and any bounds and capacities. The assumptions say that bounds are
numbers, that "nothing" is none of the things it stands beside, and that what is
stored is a complete configuration (`StoredAssumption`).

**`DeploymentProofs`** (`DeploymentAssumption`) proves `TypeOK`, `QuitNeverReusesChans`,
`QuitSendsSucceed`, `StopStaysInApp` and `PortsDistinct`. None but the first and
the last is inductive. That two workers never look up the same channels rests on
where channels are known: `RegisteredInv` (channels in `appDoneChans` are known to
no worker except one still inside its critical section), `LookedUpInv` (inside it
`appDoneChans` still leads to what was looked up), `LockInv` (at most one is
inside) and `SignalInv` (a signal has a sender that got that far). `IInv` conjoins
them; each family of conjuncts has a lemma with one step per action that can
disturb it (`TypeStep`, `ControlStep`, `ChansStep`, `SignalStep`, `PortsStep`).

It also proves `SettledIsClean` under `Patient` and `SlowConnect`, the two
conditions of the run. `CleanInv` says whose turn it is: while a deployment has no
worker yet all others of its application are done or on their way out (`TurnInv`);
until its worker returns, the tables lead to a deployment that has set them
(`LeadInv`); a quitting worker finds its own channels and has used both when it
returns (`StoppedInv`); only a worker with a successor is told to quit (`QuitInv`);
and one deployment of an application is never over (`GoneInv`). `TimerInv`,
`TableInv`, `StoreInv`, `NotifyInv` and `BootInv` are what these need of the
dispatcher, `workerTable`, a request under way, its lock and `main`.

**`MutationFilterProofs`** (`FilterAssumption`) proves `TypeOK` and
`WithheldOnlyHandlerWrites` with no further assumption. The strengthening is
`MarkInv`: a marker, a `result.cas` and an event about to be dropped are each 0 or
the CAS value of a store by an application with that metadata bucket. Under `Alone`
(private metadata buckets, only the worker in the isolate, no failures, no restart)
it proves `NoSelfTrigger` and that the specification implements `EventDelivery`
(`DeliveryTheorem`). That needs `OnceInv` (a mutation is at one place only: not yet
sent, in `rch`, in the worker, handled or dropped) and `OwnInv` (an application's
own store that has not been dropped has a marker, or its CAS value is in `cas`).

**`TimerCallbacksProofs`** (`TimerAssumption`, `NoSlotAssumption`) proves `TypeOK`
and the four properties of the run. `TInv` adds to the types where the loop over the
keys may be; `FInv` says, for documents registered once, that whatever is in a
marker, among the fetched keys or in a blob was registered, the blob perhaps by the
call still under way (`RightCallback`). `PInv` adds that a key in a marker has a
blob and that the keys before the loop's position were called
(`PurgedOnceProcessed`). `MInv` relates the clock, the tick and the second being
processed: a callback that is still to be called is in a marker that no tick has
passed (`NoMissedCallback`, with `RegLag` at most 2, the delay that the code
allows). `CInv` counts: the calls made and the keys that could still be called are
together no more than the registrations (`FiresBounded`).

**`AssetStoreProofs`** (`AssetAssumption`) proves `TypeOK`, `BucketOnlyAsAsked` and
`OneDeletionWorks` for lists of any length: shifting the shared array moves what the
request names and adds nothing, and after the one deletion (`OInv`, `Shifted`) the
array is the request without it, with its last entry twice.

**`WorkerSetupProofs`** (`SetupAssumption`, `StoredAssumption`) proves
`QueryAllOrNothing` (with the shapes of the variables and of a query under way),
`N1QLOwnBucket`, `ProcessSurvives` and `AliasesInstalled`. `CarriedInv` follows
the name of the bucket along its way, from the file to `config`, the global and
the handle, with at most one set-up under way. `WorkerInv` says that each of the three
reads found what was stored for that set-up (`Read`), and that the handles and aliases
of a sound application are those of its configuration (`Ready`).

The same module proves `QueueIsOwn` and `TypeOK`. For the first, `ListsInv` says that
of the workers of an application only the one in `workerTable` is not told to quit, and
that whoever has a list shares it with nobody that runs (`Sole`). `TypeOK` holds for
overlapping set-ups too: `FormedInv` says that a process that is alive has parsed a
whole configuration, whose entries its handles are; `PushedInv` that no document is in
a list twice, from which the bound on the lists follows by counting (hence the
assumption that `Setups` is finite).

**`WorkerScriptsProofs`** proves `WordsKept` and `RewrittenAsMeant`, for scripts of any
length over any vocabulary, also where set-ups overlap. `ScriptInv` says that a set-up
past `loadApp` has read a stored application or a half-written file, and that what V8
was given is `Preprocess` of the script in it. What `Preprocess` does is two theorems
about sequences of tokens. `PreprocessKeepsWords`: each pass writes pieces of its input
in their order and delimiters between them (`EnqueueKeepsWords`, `N1qlKeepsWords`).
`PreprocessAsMeant`: on a line with a single call the last place where a star can end is
also the first (`MeantEnqueue`, `MeantN1ql`); the first pass shifts an n1ql call and
leaves the rest of its line as it was, so that the second finds the end of the call
where it would have found it in the original (`LineEnds`, `N1qlShift`, `Agree`).
Both are inductions from the end of the script. They are set inclusions: a set of
positions that holds a position whenever it holds all later ones holds every position
(`Downward`), because a set of naturals that is not empty has a least element
(`NatLeast`, from the library's well-founded minimum). The same argument shows that
the functions by which the passes are defined exist and take scripts as values
(`ChainExists`, `ChainTyped`).

**`AppServicesProofs`** (`ServicesAssumption`) proves that `AppServices` implements
`HttpReply` (`RepliesTheorem`), `ListenersKnown` and `TypeOK`. The invariant of the
first says that only the holder of the Locker runs, and that `http_body` holds nothing
but what the holder itself set, once it has cleared it (`RInv`). For the second
(`LInv`) a deployment waits in `appSetup` once and before its HTTP set-up. The types
need where handles and channels come from (`Known`).

**`DebugSessionProofs`** (`RequestAssumption`, `SessionAssumption`,
`NothingAssumption`) proves `TypeOK`, `FlagHasSession`, `SessionInCharge` and
`OwnAnswer`. `CalmInv` says that without overlaps at most one session is active and
that it is the one of the open port. `AnswerInv` says, for requests one at a time,
that at most one is under way or still to be answered, that its response is on its
way or already in the string of its kind, and that no handler of another kind is
installed meanwhile.

Only model-checked: the liveness properties (`RedeployCompletes`, `QuitCompletes`,
`UserMutationHandled`, `CallReturns`, `AcceptedMailIsSent`, `ServiceReturns`,
`RequestReturns`), since TLAPS does not prove liveness under fairness. Every invariant
and every action property of a passing run, and both refinements, are proved; the
bounds of the runs matter for liveness only.

Two conventions of the proofs. The larger modules begin with a `USE` of provers: Zenon first,
then Z3 with more time than by default, then Zenon with more time, since most leaves are
first-order; a leaf that names a prover overrides this. A lemma whose conclusion is an
equation between sequences states it as an operator (`SamePiece`, `EnqueueWrites`),
which a step that cites the lemma expands afterwards: the provers instantiate a named
predicate more readily than an equation.

## 6. Not modelled

* **Go binding** (`worker/worker.go`, the `worker_` functions): it passes strings
  on. Its `Dispose` runs from the finalizer of a handle that no goroutine holds.
* **TCP client and protocol** (`tcp/`, `communication_protocol.go`): a prototype
  whose messages nothing reads. The server side appears as the choice of a port.
* **Request routing** (`regex_http_handler.go`): the first expression that matches a
  path decides, and nothing changes after the set-up.
* **Small handlers**: `fetchAppSetup` only reads, `storeBlob` stores one fixed
  document, `forwardDebugCommand` passes a request on.
* **Conversions and memory** in the binding: `BucketGet`, the wrapping and
  unwrapping of V8 objects, destructors, the sizes of fixed buffers. Texts of
  debugger commands and messages, documents, and log lines.
* **V8, libcouchbase, libcurl, hiredis**: only what the code makes of their answers.
  Handlers are arbitrary code that stores and deletes documents, registers timers,
  sets fields of responses, and uses mail, queues and queries.
* `node_eventing/`, `ui/`, `tests/`, `bench/` and `test_scripts/`.
