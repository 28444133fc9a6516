----------------------------- MODULE Deployment -----------------------------
(***************************************************************************)
(* Deployment, redeployment and shutdown of eventing applications inside   *)
(* one go_eventing process.                                                *)
(*                                                                         *)
(* Every pass through setUpEventingApp is a deployment: it owns one V8     *)
(* handle, one handleChans record (dcpStreamClose, timerEventClose, rch),  *)
(* and the goroutines startBucket, startDcp, processTimerEvent and         *)
(* runWorker.  A deployment is started by main for each file of ./apps, or *)
(* by storeAppSetup for each POST to /set_application/.  Deployments of    *)
(* the same application find one another only through tables keyed by      *)
(* application name (workerTable, appDoneChans) under the global mutex     *)
(* tableLock; this module is about what those look-ups find.               *)
(*                                                                         *)
(* A critical section that cannot block is one step, enabled when the lock *)
(* is free.  The two that send on a channel while they hold the lock (in   *)
(* storeAppSetup and in runWorker) are split at each send.                 *)
(***************************************************************************)
EXTENDS Naturals, Sequences

CONSTANTS
    Apps,          \* application names
    BootApps,      \* the applications with a file in ./apps when main starts
    MailApps,      \* the applications that configure mail_settings
    Deploys,       \* identities of deployments; a bound on their number
    NoApp, NoDep,  \* "none" of each kind
    AppSetupCap,   \* capacity of appSetup, 100 in the code
    TimerChanCap,  \* capacity of timerEventWorkerChannel, 100 in the code
    RchCap,        \* capacity of rch, 10000 in the code
    InitTcpPort,   \* initTcpPort, 6065 in the code
    EarlyRequests, \* may a request arrive before main has made appSetup?
    Patient,       \* does the operator wait for a redeploy to settle?
    SlowConnect    \* does connecting to the buckets outlast a handler call?

ASSUME DeploymentAssumption ==
    /\ BootApps \subseteq Apps /\ MailApps \subseteq Apps
    /\ NoApp \notin Apps
    /\ NoDep \notin Deploys
    /\ AppSetupCap \in Nat /\ TimerChanCap \in Nat /\ RchCap \in Nat
    /\ InitTcpPort \in Nat \ {0}
    /\ {EarlyRequests, Patient, SlowConnect} \subseteq BOOLEAN

VARIABLES
    main,        \* where main() is
    todo,        \* the applications main is still to work on
    appSetup,    \* the channel appSetup
    tableLock,   \* who holds tableLock
    disk,        \* version of ./apps/<app>; 0: no such file
    appOf,       \* the application a deployment belongs to
    store,       \* where storeAppSetup is, for the deployment it will start
    setup,       \* where setUpEventingApp is
    code,        \* the version of the file loadApp read
    localPort,   \* the key of appLocalPortMapping taken; 0: none
    workerTable, \* application name -> handle
    referrer,    \* workerHTTPReferrerTable, at the port of an application
    backIndex,   \* handles that have an entry in ...ReferrerTableBackIndex
    appDone,     \* appDoneChans: application name -> whose handleChans
    quit,        \* messages buffered in handle.Quit (capacity 1)
    dcpClose,    \* dcpStreamClose: "empty", "full" (capacity 1) or "closed"
    timerClose,  \* messages buffered in timerEventClose (capacity 1)
    rch,         \* events buffered in rch
    feed,        \* where startBucket is
    timerChan,   \* the channel timerEventWorkerChannel
    timer,       \* where processTimerEvent is
    worker,      \* where runWorker is
    hChans       \* the handleChans a quitting worker looked up

mainVars  == <<main, todo, appSetup>>
setupVars == <<appOf, setup, code, localPort>>
tables    == <<workerTable, referrer, backIndex, appDone>>
chans     == <<quit, dcpClose, timerClose, rch>>
gorout    == <<feed, timerChan, timer, worker, hChans>>
vars == <<mainVars, tableLock, disk, store, setupVars, tables, chans, gorout>>

Free           == <<"free", NoDep>>
StoreHolds(d)  == <<"store", d>>
WorkerHolds(d) == <<"worker", d>>

DepsOf(a)  == {d \in Deploys : appOf[d] = a}

Init ==
    /\ main = "boot"
    /\ todo = BootApps
    /\ appSetup = <<>>
    /\ tableLock = Free
    /\ disk = [a \in Apps |-> IF a \in BootApps THEN 1 ELSE 0]
    /\ appOf = [d \in Deploys |-> NoApp]
    /\ store = [d \in Deploys |-> "none"]
    /\ setup = [d \in Deploys |-> "none"]
    /\ code = [d \in Deploys |-> 0]
    /\ localPort = [d \in Deploys |-> 0]
    /\ workerTable = [a \in Apps |-> NoDep]
    /\ referrer = [a \in Apps |-> NoDep]
    /\ backIndex = {}
    /\ appDone = [a \in Apps |-> NoDep]
    /\ quit = [d \in Deploys |-> 0]
    /\ dcpClose = [d \in Deploys |-> "empty"]
    /\ timerClose = [d \in Deploys |-> 0]
    /\ rch = [d \in Deploys |-> 0]
    /\ feed = [d \in Deploys |-> "none"]
    /\ timerChan = <<>>
    /\ timer = [d \in Deploys |-> "none"]
    /\ worker = [d \in Deploys |-> "none"]
    /\ hChans = [d \in Deploys |-> NoDep]

\* Which name a deployment has tells nothing: the names are used in a fixed order.
NextName == CHOOSE d \in Deploys : appOf[d] = NoApp

-----------------------------------------------------------------------------
(***************************************************************************)
(* main                                                                    *)
(***************************************************************************)

\* main calls setUpEventingApp for one file after the other, synchronously.
BootApp(a, d) ==
    /\ main = "boot"
    /\ a \in todo
    /\ \A e \in Deploys : setup[e] \in {"none", "done"}
    /\ appOf[d] = NoApp /\ d = NextName
    /\ todo' = todo \ {a}
    /\ appOf' = [appOf EXCEPT ![d] = a]
    /\ setup' = [setup EXCEPT ![d] = "connect"]
    /\ UNCHANGED <<main, appSetup, tableLock, disk, store, code, localPort,
                   tables, chans, gorout>>

\* The timer dispatcher and the HTTP server start; appSetup is still nil.
StartServers ==
    /\ main = "boot"
    /\ todo = {}
    /\ \A e \in Deploys : setup[e] \in {"none", "done"}
    /\ main' = "up"
    /\ UNCHANGED <<todo, appSetup, tableLock, disk, store, setupVars,
                   tables, chans, gorout>>

\* main lists ./apps a second time and makes appSetup.
MakeAppSetup ==
    /\ main = "up"
    /\ main' = "fill"
    /\ todo' = {a \in Apps : disk[a] # 0}
    /\ UNCHANGED <<appSetup, tableLock, disk, store, setupVars,
                   tables, chans, gorout>>

\* main sends every file name to appSetup before it reads from it.
FillAppSetup(a) ==
    /\ main = "fill"
    /\ a \in todo
    /\ Len(appSetup) < AppSetupCap
    /\ appSetup' = Append(appSetup, a)
    /\ todo' = todo \ {a}
    /\ UNCHANGED <<main, tableLock, disk, store, setupVars,
                   tables, chans, gorout>>

EnterLoop ==
    /\ main = "fill"
    /\ todo = {}
    /\ main' = "loop"
    /\ UNCHANGED <<todo, appSetup, tableLock, disk, store, setupVars,
                   tables, chans, gorout>>

\* One message is taken from appSetup; performAppHTTPSetup runs on its own.
TakeAppSetup ==
    /\ main = "loop"
    /\ appSetup # <<>>
    /\ appSetup' = Tail(appSetup)
    /\ todo' = {Head(appSetup)}
    /\ main' = "mail"
    /\ UNCHANGED <<tableLock, disk, store, setupVars, tables, chans, gorout>>

\* setUpMailServer returns at once if the application configures no mail, and
\* needs tableLock otherwise; main then reads appSetup again.
FinishAppSetup ==
    /\ main = "mail"
    /\ tableLock = Free \/ todo \cap MailApps = {}
    /\ main' = "loop"
    /\ todo' = {}
    /\ UNCHANGED <<appSetup, tableLock, disk, store, setupVars,
                   tables, chans, gorout>>

-----------------------------------------------------------------------------
(***************************************************************************)
(* storeAppSetup: a POST to /set_application/.  Its work on the HTTP       *)
(* listeners and on the mail channel of the application touches none of    *)
(* the state below.                                                        *)
(***************************************************************************)

\* Everything that deploying a has started, or has asked to stop, is done.
Settled(a) ==
    \A d \in DepsOf(a) :
        /\ store[d] \in {"none", "done"}
        /\ setup[d] = "done"
        /\ quit[d] = 0
        /\ worker[d] \in {"busy", "select", "exited", "crashed"}

\* The handler looks the application up under the lock, decodes the payload
\* and writes the file.  The operator's patience is an assumption, not code.
StoreConfig(a, d) ==
    /\ main \in (IF EarlyRequests THEN {"up", "fill", "loop", "mail"}
                                  ELSE {"fill", "loop", "mail"})
    /\ Patient => Settled(a)
    /\ appOf[d] = NoApp /\ d = NextName
    /\ tableLock = Free
    /\ appOf' = [appOf EXCEPT ![d] = a]
    /\ disk' = [disk EXCEPT ![a] = @ + 1]
    /\ store' = [store EXCEPT ![d] = "stored"]
    /\ UNCHANGED <<mainVars, tableLock, setup, code, localPort,
                   tables, chans, gorout>>

\* The second critical section is entered.  If the application has a handle
\* in workerTable the handler will send on its Quit; if it has none,
\* setUpEventingApp is started before appSetup is sent to.
StoreLock(d) ==
    /\ store[d] = "stored"
    /\ tableLock = Free
    /\ tableLock' = StoreHolds(d)
    /\ IF workerTable[appOf[d]] # NoDep
         THEN /\ store' = [store EXCEPT ![d] = "quit"]
              /\ UNCHANGED setup
         ELSE /\ store' = [store EXCEPT ![d] = "notify"]
              /\ setup' = [setup EXCEPT ![d] = "connect"]
    /\ UNCHANGED <<mainVars, disk, appOf, code, localPort,
                   tables, chans, gorout>>

\* handle.Quit <- appName: blocks, with tableLock held, while Quit is full.
StoreSendQuit(d) ==
    LET h == workerTable[appOf[d]] IN
    /\ store[d] = "quit"
    /\ quit[h] = 0
    /\ quit' = [quit EXCEPT ![h] = 1]
    /\ store' = [store EXCEPT ![d] = "notify"]
    /\ UNCHANGED <<mainVars, tableLock, disk, setupVars, tables,
                   dcpClose, timerClose, rch, gorout>>

\* Mutant of StoreSendAppSetup: setUpEventingApp is not started.
StoreSendAppSetupOnly(d) ==
    /\ store[d] = "notify"
    /\ main \in {"fill", "loop", "mail"}
    /\ Len(appSetup) < AppSetupCap
    /\ appSetup' = Append(appSetup, appOf[d])
    /\ UNCHANGED setup
    /\ store' = [store EXCEPT ![d] = "done"]
    /\ tableLock' = Free
    /\ UNCHANGED <<main, todo, disk, appOf, code, localPort,
                   tables, chans, gorout>>

\* appSetup <- appName: blocks, with tableLock held, while appSetup is full.
\* setUpEventingApp starts, if it has not, and the deferred unlock runs.
StoreSendAppSetup(d) ==
    /\ store[d] = "notify"
    /\ main \in {"fill", "loop", "mail"}
    /\ Len(appSetup) < AppSetupCap
    /\ appSetup' = Append(appSetup, appOf[d])
    /\ setup' = [setup EXCEPT ![d] = IF @ = "none" THEN "connect" ELSE @]
    /\ store' = [store EXCEPT ![d] = "done"]
    /\ tableLock' = Free
    /\ UNCHANGED <<main, todo, disk, appOf, code, localPort,
                   tables, chans, gorout>>

\* The same send while appSetup is still nil: it blocks for ever.
StoreSendNil(d) ==
    /\ store[d] = "notify"
    /\ main = "up"
    /\ store' = [store EXCEPT ![d] = "stuck"]
    /\ UNCHANGED <<mainVars, tableLock, disk, setupVars,
                   tables, chans, gorout>>

-----------------------------------------------------------------------------
(***************************************************************************)
(* setUpEventingApp                                                        *)
(***************************************************************************)

\* Mutant of SetupChans: appDoneChans is not set.
SetupChansUnregistered(d) ==
    LET a == appOf[d] IN
    /\ setup[d] = "connect"
    /\ SlowConnect => \A e \in DepsOf(a) \ {d} :
                          worker[e] \in {"none", "exited", "crashed"}
    /\ tableLock = Free
    /\ UNCHANGED appDone
    /\ setup' = [setup EXCEPT ![d] = "tcp"]
    /\ UNCHANGED <<mainVars, tableLock, disk, store, appOf, code, localPort,
                   workerTable, referrer, backIndex, chans, gorout>>

\* The buckets are connected, with retries for as long as it takes, and the
\* channels of this deployment replace whatever appDoneChans holds.
SetupChans(d) ==
    LET a == appOf[d] IN
    /\ setup[d] = "connect"
    /\ SlowConnect => \A e \in DepsOf(a) \ {d} :
                          worker[e] \in {"none", "exited", "crashed"}
    /\ tableLock = Free
    /\ appDone' = [appDone EXCEPT ![a] = d]
    /\ setup' = [setup EXCEPT ![d] = "tcp"]
    /\ UNCHANGED <<mainVars, tableLock, disk, store, appOf, code, localPort,
                   workerTable, referrer, backIndex, chans, gorout>>

\* Mutant of NextAvailablePort: the highest port in use is taken again.
NextAvailablePortOff ==
    {p \in {InitTcpPort} \cup {localPort[e] + 1 : e \in Deploys} :
        p >= InitTcpPort /\ \A e \in Deploys : localPort[e] <= p}

\* The loop over appLocalPortMapping ends with initTcpPort, or with one more
\* than a port of the mapping, and above every port of the mapping.
NextAvailablePort ==
    {p \in {InitTcpPort} \cup {localPort[e] + 1 : e \in Deploys} :
        p >= InitTcpPort /\ \A e \in Deploys : localPort[e] < p}

SetupLocalTcp(d) ==
    /\ setup[d] = "tcp"
    /\ tableLock = Free
    /\ \E p \in NextAvailablePort :
           localPort' = [localPort EXCEPT ![d] = p]
    /\ setup' = [setup EXCEPT ![d] = "load"]
    /\ UNCHANGED <<mainVars, tableLock, disk, store, appOf, code,
                   tables, chans, gorout>>

\* startBucket starts; loadApp reads ./apps/<app> and creates the handle.
SetupLoad(d) ==
    /\ setup[d] = "load"
    /\ feed' = [feed EXCEPT ![d] = "connect"]
    /\ code' = [code EXCEPT ![d] = disk[appOf[d]]]
    /\ setup' = [setup EXCEPT ![d] = "publish"]
    /\ UNCHANGED <<mainVars, tableLock, disk, store, appOf, localPort,
                   tables, chans, timerChan, timer, worker, hChans>>

SetupPublish(d) ==
    /\ setup[d] = "publish"
    /\ tableLock = Free
    /\ workerTable' = [workerTable EXCEPT ![appOf[d]] = d]
    /\ setup' = [setup EXCEPT ![d] = "refer"]
    /\ UNCHANGED <<mainVars, tableLock, disk, store, appOf, code, localPort,
                   referrer, backIndex, appDone, chans, gorout>>

\* The one http entry of the configuration is routed to the new handle.
SetupReferrer(d) ==
    /\ setup[d] = "refer"
    /\ tableLock = Free
    /\ referrer' = [referrer EXCEPT ![appOf[d]] = d]
    /\ backIndex' = backIndex \cup {d}
    /\ setup' = [setup EXCEPT ![d] = "run"]
    /\ UNCHANGED <<mainVars, tableLock, disk, store, appOf, code, localPort,
                   workerTable, appDone, chans, gorout>>

\* The configuration goes to the timer dispatcher and runWorker starts.
SetupRun(d) ==
    /\ setup[d] = "run"
    /\ Len(timerChan) < TimerChanCap
    /\ timerChan' = Append(timerChan, d)
    /\ worker' = [worker EXCEPT ![d] = "busy"]
    /\ setup' = [setup EXCEPT ![d] = "done"]
    /\ UNCHANGED <<mainVars, tableLock, disk, store, appOf, code, localPort,
                   tables, chans, feed, timer, hChans>>

-----------------------------------------------------------------------------
(***************************************************************************)
(* startBucket and startDcp                                                *)
(***************************************************************************)

\* The feed is opened, with retries for as long as it takes.
FeedOpen(d) ==
    /\ feed[d] = "connect"
    /\ feed' = [feed EXCEPT ![d] = "open"]
    /\ UNCHANGED <<mainVars, tableLock, disk, store, setupVars, tables, chans,
                   timerChan, timer, worker, hChans>>

\* An event arrives on the feed's own channel, which still drains after Close.
FeedRecv(d) ==
    /\ feed[d] = "open"
    /\ feed' = [feed EXCEPT ![d] = "push"]
    /\ UNCHANGED <<mainVars, tableLock, disk, store, setupVars, tables, chans,
                   timerChan, timer, worker, hChans>>

\* Mutant of FeedPush: the send does not wait for room in rch.
FeedPushUnbounded(d) ==
    /\ feed[d] = "push"
    /\ rch' = [rch EXCEPT ![d] = @ + 1]
    /\ feed' = [feed EXCEPT ![d] = "open"]
    /\ UNCHANGED <<mainVars, tableLock, disk, store, setupVars, tables,
                   quit, dcpClose, timerClose, timerChan, timer, worker,
                   hChans>>

FeedPush(d) ==
    /\ feed[d] = "push"
    /\ rch[d] < RchCap
    /\ rch' = [rch EXCEPT ![d] = @ + 1]
    /\ feed' = [feed EXCEPT ![d] = "open"]
    /\ UNCHANGED <<mainVars, tableLock, disk, store, setupVars, tables,
                   quit, dcpClose, timerClose, timerChan, timer, worker,
                   hChans>>

\* startDcp takes the message, closes the channel it came on and the feed.
DcpStop(d) ==
    /\ feed[d] \in {"open", "push"}
    /\ dcpClose[d] = "full"
    /\ dcpClose' = [dcpClose EXCEPT ![d] = "closed"]
    /\ UNCHANGED <<mainVars, tableLock, disk, store, setupVars, tables,
                   quit, timerClose, rch, gorout>>

\* startBucket finds its feed closed, closes rch and returns.
FeedEnd(d) ==
    /\ feed[d] = "open"
    /\ dcpClose[d] = "closed"
    /\ feed' = [feed EXCEPT ![d] = "closed"]
    /\ UNCHANGED <<mainVars, tableLock, disk, store, setupVars, tables, chans,
                   timerChan, timer, worker, hChans>>

-----------------------------------------------------------------------------
(***************************************************************************)
(* startTimerProcessing and the life of processTimerEvent                  *)
(***************************************************************************)

TimerStart ==
    /\ main # "boot"
    /\ timerChan # <<>>
    /\ timerChan' = Tail(timerChan)
    /\ timer' = [timer EXCEPT ![Head(timerChan)] = "run"]
    /\ UNCHANGED <<mainVars, tableLock, disk, store, setupVars, tables, chans,
                   feed, worker, hChans>>

TimerStop(d) ==
    /\ timer[d] = "run"
    /\ timerClose[d] = 1
    /\ timerClose' = [timerClose EXCEPT ![d] = 0]
    /\ timer' = [timer EXCEPT ![d] = "stopped"]
    /\ UNCHANGED <<mainVars, tableLock, disk, store, setupVars, tables,
                   quit, dcpClose, rch, feed, timerChan, worker, hChans>>

-----------------------------------------------------------------------------
(***************************************************************************)
(* runWorker                                                               *)
(***************************************************************************)

\* handleDcpEvent returns, and the top of the loop needs the lock for a trace.
WorkerLoop(d) ==
    /\ worker[d] = "busy"
    /\ tableLock = Free
    /\ worker' = [worker EXCEPT ![d] = "select"]
    /\ UNCHANGED <<mainVars, tableLock, disk, store, setupVars, tables, chans,
                   feed, timerChan, timer, hChans>>

WorkerEvent(d) ==
    /\ worker[d] = "select"
    /\ rch[d] > 0
    /\ rch' = [rch EXCEPT ![d] = @ - 1]
    /\ worker' = [worker EXCEPT ![d] = "busy"]
    /\ UNCHANGED <<mainVars, tableLock, disk, store, setupVars, tables,
                   quit, dcpClose, timerClose, feed, timerChan, timer, hChans>>

\* A receive from the closed rch yields a nil message: handleDcpEvent panics
\* and the deferred recover ends runWorker.
WorkerCrash(d) ==
    /\ worker[d] = "select"
    /\ rch[d] = 0
    /\ feed[d] = "closed"
    /\ worker' = [worker EXCEPT ![d] = "crashed"]
    /\ UNCHANGED <<mainVars, tableLock, disk, store, setupVars, tables, chans,
                   feed, timerChan, timer, hChans>>

WorkerQuit(d) ==
    /\ worker[d] = "select"
    /\ quit[d] = 1
    /\ quit' = [quit EXCEPT ![d] = 0]
    /\ worker' = [worker EXCEPT ![d] = "quitting"]
    /\ UNCHANGED <<mainVars, tableLock, disk, store, setupVars, tables,
                   dcpClose, timerClose, rch, feed, timerChan, timer, hChans>>

\* Mutant of WorkerQuitLock: the channels of some application are taken.
WorkerQuitLockAnyApp(d) ==
    LET a == appOf[d] IN
    /\ worker[d] = "quitting"
    /\ tableLock = Free
    /\ tableLock' = WorkerHolds(d)
    /\ referrer' = IF d \in backIndex
                     THEN [referrer EXCEPT ![a] = NoDep] ELSE referrer
    /\ backIndex' = backIndex \ {d}
    /\ \E b \in Apps : hChans' = [hChans EXCEPT ![d] = appDone[b]]
    /\ worker' = [worker EXCEPT ![d] = "sigdcp"]
    /\ UNCHANGED <<mainVars, disk, store, setupVars, workerTable, appDone,
                   chans, feed, timerChan, timer>>

\* With the lock, the referrer of this handle is deleted whatever handle it
\* now leads to, and the channels to close are looked up by name.
WorkerQuitLock(d) ==
    LET a == appOf[d] IN
    /\ worker[d] = "quitting"
    /\ tableLock = Free
    /\ tableLock' = WorkerHolds(d)
    /\ referrer' = IF d \in backIndex
                     THEN [referrer EXCEPT ![a] = NoDep] ELSE referrer
    /\ backIndex' = backIndex \ {d}
    /\ hChans' = [hChans EXCEPT ![d] = appDone[a]]
    /\ worker' = [worker EXCEPT ![d] = "sigdcp"]
    /\ UNCHANGED <<mainVars, disk, store, setupVars, workerTable, appDone,
                   chans, feed, timerChan, timer>>

\* hChans.dcpStreamClose <- appName.  A missing entry is a nil channel, on
\* which the send blocks for ever with the lock held.
WorkerStopDcp(d) ==
    LET h == hChans[d] IN
    /\ worker[d] = "sigdcp"
    /\ h # NoDep
    /\ dcpClose[h] = "empty"
    /\ dcpClose' = [dcpClose EXCEPT ![h] = "full"]
    /\ worker' = [worker EXCEPT ![d] = "sigtimer"]
    /\ UNCHANGED <<mainVars, tableLock, disk, store, setupVars, tables,
                   quit, timerClose, rch, feed, timerChan, timer, hChans>>

\* Mutant of WorkerStopTimer: the appDoneChans entry is not deleted.
WorkerStopTimerKeepsEntry(d) ==
    LET h == hChans[d] IN
    /\ worker[d] = "sigtimer"
    /\ timerClose[h] = 0
    /\ timerClose' = [timerClose EXCEPT ![h] = 1]
    /\ UNCHANGED appDone
    /\ worker' = [worker EXCEPT ![d] = "exited"]
    /\ tableLock' = Free
    /\ UNCHANGED <<mainVars, disk, store, setupVars, workerTable, referrer,
                   backIndex, quit, dcpClose, rch, feed, timerChan, timer,
                   hChans>>

\* Mutant of WorkerStopTimer: timerEventClose is not sent to.
WorkerStopTimerUnsignalled(d) ==
    LET h == hChans[d] IN
    /\ worker[d] = "sigtimer"
    /\ timerClose[h] = 0
    /\ UNCHANGED timerClose
    /\ appDone' = [appDone EXCEPT ![appOf[d]] = NoDep]
    /\ worker' = [worker EXCEPT ![d] = "exited"]
    /\ tableLock' = Free
    /\ UNCHANGED <<mainVars, disk, store, setupVars, workerTable, referrer,
                   backIndex, quit, dcpClose, rch, feed, timerChan, timer,
                   hChans>>

\* hChans.timerEventClose <- true; the entry is deleted, the ticker and the
\* isolate are stopped, the lock is released and runWorker returns.
WorkerStopTimer(d) ==
    LET h == hChans[d] IN
    /\ worker[d] = "sigtimer"
    /\ timerClose[h] = 0
    /\ timerClose' = [timerClose EXCEPT ![h] = 1]
    /\ appDone' = [appDone EXCEPT ![appOf[d]] = NoDep]
    /\ worker' = [worker EXCEPT ![d] = "exited"]
    /\ tableLock' = Free
    /\ UNCHANGED <<mainVars, disk, store, setupVars, workerTable, referrer,
                   backIndex, quit, dcpClose, rch, feed, timerChan, timer,
                   hChans>>

-----------------------------------------------------------------------------
MainStep ==
    \/ \E a \in Apps, d \in Deploys : BootApp(a, d)
    \/ StartServers
    \/ MakeAppSetup
    \/ \E a \in Apps : FillAppSetup(a)
    \/ EnterLoop
    \/ TakeAppSetup
    \/ FinishAppSetup

StoreStep(d) ==
    \/ StoreLock(d)
    \/ StoreSendQuit(d)
    \/ StoreSendAppSetup(d)
    \/ StoreSendNil(d)

SetupStep(d) ==
    \/ SetupChans(d)
    \/ SetupLocalTcp(d)
    \/ SetupLoad(d)
    \/ SetupPublish(d)
    \/ SetupReferrer(d)
    \/ SetupRun(d)

FeedStep(d) ==
    \/ FeedOpen(d)
    \/ FeedRecv(d)
    \/ FeedPush(d)
    \/ DcpStop(d)
    \/ FeedEnd(d)

WorkerStep(d) ==
    \/ WorkerLoop(d)
    \/ WorkerEvent(d)
    \/ WorkerCrash(d)
    \/ WorkerQuit(d)
    \/ WorkerQuitLock(d)
    \/ WorkerStopDcp(d)
    \/ WorkerStopTimer(d)

Next ==
    \/ MainStep
    \/ \E a \in Apps, d \in Deploys : StoreConfig(a, d)
    \/ TimerStart
    \/ \E d \in Deploys :
          \/ StoreStep(d)
          \/ SetupStep(d)
          \/ FeedStep(d)
          \/ TimerStop(d)
          \/ WorkerStep(d)

Spec == Init /\ [][Next]_vars

\* Runnable goroutines run (WF), handlers return, connection attempts succeed
\* in the end, and a select whose Quit case stays ready picks it some day (SF:
\* Go chooses among the ready cases at random).  Requests are never forced.
Fairness ==
    /\ WF_vars(MainStep)
    /\ WF_vars(TimerStart)
    /\ \A d \in Deploys :
          /\ WF_vars(StoreStep(d))
          /\ WF_vars(SetupStep(d))
          /\ WF_vars(FeedOpen(d))
          /\ WF_vars(DcpStop(d))
          /\ WF_vars(TimerStop(d))
          /\ WF_vars(WorkerStep(d))
          /\ SF_vars(WorkerQuit(d))

FairSpec == Spec /\ Fairness

-----------------------------------------------------------------------------
(***************************************************************************)
(* Properties                                                              *)
(***************************************************************************)

\* Every variable has the type its declaration describes.
TypeOK ==
    /\ main \in {"boot", "up", "fill", "loop", "mail"}
    /\ todo \subseteq Apps
    /\ appSetup \in Seq(Apps)
    /\ tableLock \in {"free", "store", "worker"} \X (Deploys \cup {NoDep})
    /\ disk \in [Apps -> Nat]
    /\ appOf \in [Deploys -> Apps \cup {NoApp}]
    /\ store \in [Deploys ->
                    {"none", "stored", "quit", "notify", "stuck", "done"}]
    /\ setup \in [Deploys -> {"none", "connect", "tcp", "load", "publish",
                              "refer", "run", "done"}]
    /\ code \in [Deploys -> Nat]
    /\ localPort \in [Deploys -> Nat]
    /\ workerTable \in [Apps -> Deploys \cup {NoDep}]
    /\ referrer \in [Apps -> Deploys \cup {NoDep}]
    /\ backIndex \subseteq Deploys
    /\ appDone \in [Apps -> Deploys \cup {NoDep}]
    /\ quit \in [Deploys -> 0 .. 1]
    /\ dcpClose \in [Deploys -> {"empty", "full", "closed"}]
    /\ timerClose \in [Deploys -> 0 .. 1]
    /\ rch \in [Deploys -> 0 .. RchCap]
    /\ feed \in [Deploys -> {"none", "connect", "open", "push", "closed"}]
    /\ timerChan \in Seq(Deploys)
    /\ timer \in [Deploys -> {"none", "run", "stopped"}]
    /\ worker \in [Deploys -> {"none", "busy", "select", "quitting", "sigdcp",
                               "sigtimer", "exited", "crashed"}]
    /\ hChans \in [Deploys -> Deploys \cup {NoDep}]

\* Whatever the order of redeploys and quits, no two quitting workers ever
\* look up the same handleChans: runWorker deletes the appDoneChans entry in
\* the critical section in which it used it.
QuitNeverReusesChans ==
    \A d, e \in Deploys :
        d # e /\ hChans[d] # NoDep => hChans[d] # hChans[e]

\* A quitting worker that found channels in appDoneChans is never blocked by
\* them and never panics: dcpStreamClose has not been used or closed, and
\* timerEventClose has room.
QuitSendsSucceed ==
    \A d \in Deploys :
        /\ worker[d] = "sigdcp" /\ hChans[d] # NoDep
             => dcpClose[hChans[d]] = "empty" /\ timerClose[hChans[d]] = 0
        /\ worker[d] = "sigtimer" => timerClose[hChans[d]] = 0

\* A DCP stream or a timer goroutine is only ever stopped by a quitting worker
\* of its own application: redeploying one never stops another's.
StopStaysInApp ==
    \A d \in Deploys :
        dcpClose[d] # "empty" \/ timer[d] = "stopped" \/ timerClose[d] = 1
            => \E e \in DepsOf(appOf[d]) : hChans[e] = d

\* Concurrent set-ups never take the same local TCP port.
PortsDistinct ==
    \A d, e \in Deploys :
        d # e /\ localPort[d] # 0 => localPort[d] # localPort[e]

\* What a settled redeploy leaves: one running worker, on the newest file, that
\* every table leads to, with a feed and a timer nobody has told to stop; and
\* everything of the earlier deployments told to stop.
SettledIsClean ==
    \A a \in Apps :
        Settled(a) /\ DepsOf(a) # {} =>
            LET d == workerTable[a] IN
            /\ d # NoDep
            /\ appDone[a] = d /\ referrer[a] = d
            /\ worker[d] \in {"busy", "select"}
            /\ code[d] = disk[a]
            /\ dcpClose[d] = "empty"
            /\ timerClose[d] = 0 /\ timer[d] # "stopped"
            /\ \A e \in DepsOf(a) \ {d} :
                  /\ worker[e] = "exited"
                  /\ dcpClose[e] # "empty"
                  /\ timerClose[e] = 1 \/ timer[e] = "stopped"

\* A stored configuration reaches a worker of its own.
RedeployCompletes ==
    \A d \in Deploys :
        store[d] = "stored" ~> worker[d] \in {"busy", "select"}

\* A worker told to quit stops.
QuitCompletes ==
    \A d \in Deploys : quit[d] = 1 ~> worker[d] = "exited"

\* Once a redeploy has settled, the handle in workerTable is the handle of a
\* worker that is running.
ReloadedHandlerRuns ==
    \A a \in Apps :
        Settled(a) /\ DepsOf(a) # {}
            => worker[workerTable[a]] \in {"busy", "select"}
=============================================================================
