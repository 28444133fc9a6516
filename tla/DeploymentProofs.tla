-------------------------- MODULE DeploymentProofs --------------------------
(***************************************************************************)
(* Proofs about Deployment, for any sets of applications and deployments   *)
(* and any capacities: types and ports, the channels that quitting workers *)
(* use, and what a settled redeploy leaves behind.                         *)
(***************************************************************************)
EXTENDS Deployment, TLAPS

\* Most leaves are first-order and need no arithmetic: Zenon goes first.
USE ZenonT(4), SMTT(30), ZenonT(20)

\* The elements of a channel, and of what is left when the first is received.
LEMMA Received ==
    ASSUME NEW S, NEW q \in Seq(S)
    PROVE  /\ \A i \in 1 .. Len(q) : q[i] \in S
           /\ q # <<>> =>
                 /\ 1 \in 1 .. Len(q) /\ Head(q) = q[1] /\ Head(q) \in S
                 /\ \A i \in 1 .. Len(Tail(q)) :
                       i + 1 \in 1 .. Len(q) /\ i + 1 # 1 /\ Tail(q)[i] = q[i + 1]
BY SMTT(30)

\* The elements of a channel after one is sent.
LEMMA Sent ==
    ASSUME NEW S, NEW q \in Seq(S), NEW d \in S
    PROVE  /\ Len(Append(q, d)) = Len(q) + 1
           /\ \A i \in 1 .. Len(Append(q, d)) :
                 \/ i \in 1 .. Len(q) /\ Append(q, d)[i] = q[i]
                 \/ i = Len(q) + 1 /\ Append(q, d)[i] = d
BY SMTT(30)

\* A deployment has an application as soon as any goroutine runs for it.
OwnedInv ==
    \A d \in Deploys :
        appOf[d] = NoApp =>
            /\ store[d] = "none"
            /\ setup[d] = "none"
            /\ worker[d] = "none"

\* The holder of tableLock is the goroutine inside its critical section.
LockInv ==
    \A d \in Deploys :
        /\ store[d] \in {"quit", "notify", "stuck"}
             => tableLock = StoreHolds(d)
        /\ worker[d] \in {"sigdcp", "sigtimer"}
             => tableLock = WorkerHolds(d)

\* storeAppSetup starts the set-up at its end, runWorker starts after the
\* set-up, and a worker looks channels up once.
WorkerInv ==
    \A d \in Deploys :
        /\ store[d] \in {"stored", "quit"} => setup[d] = "none"
        /\ worker[d] # "none" => setup[d] = "done"
        /\ hChans[d] # NoDep => worker[d] \in {"sigdcp", "sigtimer", "exited"}
        /\ worker[d] = "sigtimer" => hChans[d] # NoDep

\* Channels that appDoneChans leads to belong to the application, were made,
\* and are known to no worker but one that still holds the lock.
RegisteredInv ==
    \A a \in Apps : appDone[a] # NoDep =>
        /\ appOf[appDone[a]] = a
        /\ setup[appDone[a]] \notin {"none", "connect"}
        /\ \A e \in Deploys : hChans[e] = appDone[a] =>
               worker[e] \in {"sigdcp", "sigtimer"}

\* Channels a worker looked up belong to its application, were made, and,
\* while the worker holds the lock, are those appDoneChans leads to.
LookedUpInv ==
    \A e \in Deploys : hChans[e] # NoDep =>
        /\ appOf[hChans[e]] = appOf[e]
        /\ setup[hChans[e]] \notin {"none", "connect"}
        /\ worker[e] \in {"sigdcp", "sigtimer"}
             => appDone[appOf[e]] = hChans[e]

\* A stop signal was sent by a worker that has got that far.
SignalInv ==
    \A d \in Deploys :
        /\ dcpClose[d] # "empty" =>
             \E e \in Deploys : hChans[e] = d
                                /\ worker[e] \in {"sigtimer", "exited"}
        /\ timerClose[d] = 1 \/ timer[d] = "stopped" =>
             \E e \in Deploys : hChans[e] = d /\ worker[e] = "exited"

\* What the steps below need of TypeOK.
Shapes ==
    /\ DOMAIN store = Deploys /\ DOMAIN setup = Deploys
    /\ DOMAIN worker = Deploys
    /\ DOMAIN dcpClose = Deploys /\ DOMAIN timer = Deploys
    /\ timerClose \in [Deploys -> 0 .. 1]
    /\ appOf \in [Deploys -> Apps \cup {NoApp}]
    /\ hChans \in [Deploys -> Deploys \cup {NoDep}]
    /\ appDone \in [Apps -> Deploys \cup {NoDep}]
    /\ localPort \in [Deploys -> Nat]

ControlInv == OwnedInv /\ LockInv /\ WorkerInv
ChansInv   == RegisteredInv /\ LookedUpInv /\ QuitNeverReusesChans

IInv == TypeOK /\ ControlInv /\ ChansInv /\ SignalInv /\ PortsDistinct

-----------------------------------------------------------------------------
\* An update keeps the type of a function wherever it is made.
LEMMA ExceptType ==
    ASSUME NEW S, NEW T, NEW f \in [S -> T], NEW x, NEW v \in T
    PROVE  [f EXCEPT ![x] = v] \in [S -> T]
OBVIOUS

\* Every action keeps the types.
LEMMA TypeStep ==
    ASSUME TypeOK, OwnedInv, [Next]_vars
    PROVE  TypeOK'
<1> USE DeploymentAssumption DEF TypeOK, OwnedInv, mainVars, setupVars, tables, chans, gorout, Free, StoreHolds, WorkerHolds
<1>1. ASSUME NEW a \in Apps, NEW d \in Deploys, BootApp(a, d)
      PROVE  TypeOK'
  BY <1>1 DEF BootApp
<1>2. CASE StartServers
  BY <1>2 DEF StartServers
<1>3. CASE MakeAppSetup
  BY <1>3 DEF MakeAppSetup
<1>4. ASSUME NEW a \in Apps, FillAppSetup(a)
      PROVE  TypeOK'
  <2>1. appSetup' \in Seq(Apps)
    BY <1>4 DEF FillAppSetup
  <2>2. todo' \subseteq Apps
    BY <1>4 DEF FillAppSetup
  <2> QED
    BY <1>4, <2>1, <2>2 DEF FillAppSetup
<1>5. CASE EnterLoop
  BY <1>5 DEF EnterLoop
<1>6. CASE TakeAppSetup
  <2>1. Head(appSetup) \in Apps /\ Tail(appSetup) \in Seq(Apps)
    BY <1>6 DEF TakeAppSetup
  <2>2. appSetup' \in Seq(Apps) /\ todo' \subseteq Apps /\ main' = "mail"
    BY <1>6, <2>1 DEF TakeAppSetup
  <2>3. UNCHANGED <<tableLock, disk, store, setupVars, tables, chans, gorout>>
    BY <1>6 DEF TakeAppSetup
  <2> QED
    BY <2>2, <2>3
<1>7. CASE FinishAppSetup
  BY <1>7 DEF FinishAppSetup
<1>8. ASSUME NEW a \in Apps, NEW d \in Deploys, StoreConfig(a, d)
      PROVE  TypeOK'
  <2>1. disk' \in [Apps -> Nat] /\ appOf' \in [Deploys -> Apps \cup {NoApp}]
    BY <1>8 DEF StoreConfig
  <2>2. store' \in [Deploys ->
                     {"none", "stored", "quit", "notify", "stuck", "done"}]
    BY <1>8 DEF StoreConfig
  <2>3. UNCHANGED <<mainVars, tableLock, setup, code, localPort,
                    tables, chans, gorout>>
    BY <1>8 DEF StoreConfig
  <2> QED
    BY <2>1, <2>2, <2>3
<1>9. CASE TimerStart
  <2>1. Head(timerChan) \in Deploys /\ Tail(timerChan) \in Seq(Deploys)
    BY <1>9 DEF TimerStart
  <2>2. timer' \in [Deploys -> {"none", "run", "stopped"}]
    BY <1>9, <2>1 DEF TimerStart
  <2> QED
    BY <1>9, <2>1, <2>2 DEF TimerStart
<1>10. ASSUME NEW d \in Deploys, StoreLock(d)
      PROVE  TypeOK'
  <2>1. /\ tableLock' = <<"store", d>>
        /\ UNCHANGED <<mainVars, disk, appOf, code, localPort,
                       tables, chans, gorout>>
    BY <1>10 DEF StoreLock
  <2>2. CASE /\ store' = [store EXCEPT ![d] = "quit"]
             /\ setup' = setup
    BY <2>1, <2>2
  <2>3. CASE /\ store' = [store EXCEPT ![d] = "notify"]
             /\ setup' = [setup EXCEPT ![d] = "connect"]
    BY <2>1, <2>3
  <2> QED
    BY <1>10, <2>2, <2>3 DEF StoreLock
<1>11. ASSUME NEW d \in Deploys, StoreSendQuit(d)
      PROVE  TypeOK'
  <2>1. quit' \in [Deploys -> 0 .. 1]
    BY <1>11, ExceptType, 1 \in 0 .. 1 DEF StoreSendQuit
  <2> QED
    BY <1>11, <2>1 DEF StoreSendQuit
<1>12. ASSUME NEW d \in Deploys, StoreSendAppSetup(d)
      PROVE  TypeOK'
  <2>1. appOf[d] \in Apps
    BY <1>12 DEF StoreSendAppSetup
  <2>2. appSetup' \in Seq(Apps)
    BY <1>12, <2>1 DEF StoreSendAppSetup
  <2>3. setup' \in [Deploys -> {"none", "connect", "tcp", "load",
                          "publish", "refer", "run", "done"}]
    BY <1>12 DEF StoreSendAppSetup
  <2>4. /\ tableLock' = <<"free", NoDep>>
        /\ UNCHANGED <<main, todo, disk, appOf, code, localPort,
                       tables, chans, gorout>>
    BY <1>12 DEF StoreSendAppSetup
  <2>5. store' \in [Deploys ->
                     {"none", "stored", "quit", "notify", "stuck", "done"}]
    BY <1>12 DEF StoreSendAppSetup
  <2> QED
    BY <2>2, <2>3, <2>4, <2>5
<1>13. ASSUME NEW d \in Deploys, StoreSendNil(d)
      PROVE  TypeOK'
  BY <1>13 DEF StoreSendNil
<1>14. ASSUME NEW d \in Deploys, SetupChans(d)
      PROVE  TypeOK'
  BY <1>14 DEF SetupChans
<1>15. ASSUME NEW d \in Deploys, SetupLocalTcp(d)
      PROVE  TypeOK'
  BY <1>15 DEF SetupLocalTcp, NextAvailablePort
<1>16. ASSUME NEW d \in Deploys, SetupLoad(d)
      PROVE  TypeOK'
  <2>1. appOf[d] \in Apps
    BY <1>16 DEF SetupLoad
  <2>2. code' \in [Deploys -> Nat]
    BY <1>16, <2>1 DEF SetupLoad
  <2> QED
    BY <1>16, <2>1, <2>2 DEF SetupLoad
<1>17. ASSUME NEW d \in Deploys, SetupPublish(d)
      PROVE  TypeOK'
  BY <1>17 DEF SetupPublish
<1>18. ASSUME NEW d \in Deploys, SetupReferrer(d)
      PROVE  TypeOK'
  BY <1>18, SMTT(30) DEF SetupReferrer
<1>19. ASSUME NEW d \in Deploys, SetupRun(d)
      PROVE  TypeOK'
  <2>1. timerChan' \in Seq(Deploys)
    BY <1>19 DEF SetupRun
  <2>2. worker' \in [Deploys -> {"none", "busy", "select", "quitting", "sigdcp",
                                "sigtimer", "exited", "crashed"}]
    BY <1>19 DEF SetupRun
  <2>3. setup' \in [Deploys -> {"none", "connect", "tcp", "load", "publish",
                               "refer", "run", "done"}]
    BY <1>19 DEF SetupRun
  <2>4. UNCHANGED <<mainVars, tableLock, disk, store, appOf, code, localPort,
                    tables, chans, feed, timer, hChans>>
    BY <1>19 DEF SetupRun
  <2> QED
    BY <2>1, <2>2, <2>3, <2>4
<1>20. ASSUME NEW d \in Deploys, FeedOpen(d)
      PROVE  TypeOK'
  BY <1>20 DEF FeedOpen
<1>21. ASSUME NEW d \in Deploys, FeedRecv(d)
      PROVE  TypeOK'
  BY <1>21 DEF FeedRecv
<1>22. ASSUME NEW d \in Deploys, FeedPush(d)
      PROVE  TypeOK'
  <2>1. rch' \in [Deploys -> 0 .. RchCap]
    BY <1>22 DEF FeedPush
  <2> QED
    BY <1>22, <2>1 DEF FeedPush
<1>23. ASSUME NEW d \in Deploys, DcpStop(d)
      PROVE  TypeOK'
  BY <1>23 DEF DcpStop
<1>24. ASSUME NEW d \in Deploys, FeedEnd(d)
      PROVE  TypeOK'
  BY <1>24 DEF FeedEnd
<1>25. ASSUME NEW d \in Deploys, TimerStop(d)
      PROVE  TypeOK'
  <2>1. timerClose' \in [Deploys -> 0 .. 1]
    BY <1>25, ExceptType, 0 \in 0 .. 1 DEF TimerStop
  <2> QED
    BY <1>25, <2>1 DEF TimerStop
<1>26. ASSUME NEW d \in Deploys, WorkerLoop(d)
      PROVE  TypeOK'
  BY <1>26 DEF WorkerLoop
<1>27. ASSUME NEW d \in Deploys, WorkerEvent(d)
      PROVE  TypeOK'
  <2>1. rch' \in [Deploys -> 0 .. RchCap]
    BY <1>27 DEF WorkerEvent
  <2> QED
    BY <1>27, <2>1 DEF WorkerEvent
<1>28. ASSUME NEW d \in Deploys, WorkerCrash(d)
      PROVE  TypeOK'
  BY <1>28 DEF WorkerCrash
<1>29. ASSUME NEW d \in Deploys, WorkerQuit(d)
      PROVE  TypeOK'
  <2>1. quit' \in [Deploys -> 0 .. 1]
    BY <1>29, ExceptType, 0 \in 0 .. 1 DEF WorkerQuit
  <2> QED
    BY <1>29, <2>1 DEF WorkerQuit
<1>30. ASSUME NEW d \in Deploys, WorkerQuitLock(d)
      PROVE  TypeOK'
  <2>1. appOf[d] \in Apps
    BY <1>30 DEF WorkerQuitLock
  <2>2. hChans' \in [Deploys -> Deploys \cup {NoDep}]
    BY <1>30, <2>1 DEF WorkerQuitLock
  <2>3. referrer' \in [Apps -> Deploys \cup {NoDep}]
    BY <1>30 DEF WorkerQuitLock
  <2>4. backIndex' \subseteq Deploys
    BY <1>30 DEF WorkerQuitLock
  <2> QED
    BY <1>30, <2>1, <2>2, <2>3, <2>4 DEF WorkerQuitLock
<1>31. ASSUME NEW d \in Deploys, WorkerStopDcp(d)
      PROVE  TypeOK'
  BY <1>31 DEF WorkerStopDcp
<1>32. ASSUME NEW d \in Deploys, WorkerStopTimer(d)
      PROVE  TypeOK'
  <2>1. timerClose' \in [Deploys -> 0 .. 1]
    BY <1>32, ExceptType, 1 \in 0 .. 1 DEF WorkerStopTimer
  <2>2. appDone' \in [Apps -> Deploys \cup {NoDep}]
    BY <1>32 DEF WorkerStopTimer
  <2> QED
    BY <1>32, <2>1, <2>2 DEF WorkerStopTimer
<1>33. CASE UNCHANGED vars
  BY <1>33 DEF vars
<1> QED
  BY <1>1, <1>2, <1>3, <1>4, <1>5, <1>6, <1>7, <1>8,
     <1>9, <1>10, <1>11, <1>12, <1>13, <1>14, <1>15, <1>16,
     <1>17, <1>18, <1>19, <1>20, <1>21, <1>22, <1>23, <1>24,
     <1>25, <1>26, <1>27, <1>28, <1>29, <1>30, <1>31, <1>32,
     <1>33
     DEF Next, MainStep, StoreStep, SetupStep, FeedStep, WorkerStep

\* The part of TypeOK that the later lemmas need: the domains of the functions
\* the actions update.
LEMMA TypeShapes == TypeOK => Shapes
BY DEF TypeOK, Shapes

\* Every action keeps the control invariants.
LEMMA ControlStep ==
    ASSUME TypeOK, ControlInv, [Next]_vars
    PROVE  ControlInv'
<1> USE DeploymentAssumption DEF Shapes, ControlInv, OwnedInv, LockInv, WorkerInv, Free, StoreHolds,
      WorkerHolds, mainVars, setupVars, tables, chans, gorout
<1>types. Shapes
  BY TypeShapes
<1>1. ASSUME NEW a \in Apps, NEW d \in Deploys, BootApp(a, d)
      PROVE  ControlInv'
  BY <1>types, <1>1 DEF BootApp
<1>2. ASSUME NEW a \in Apps, NEW d \in Deploys, StoreConfig(a, d)
      PROVE  ControlInv'
  BY <1>types, <1>2 DEF StoreConfig
<1>3. ASSUME NEW d \in Deploys, StoreLock(d)
      PROVE  ControlInv'
  <2>1. /\ store[d] = "stored" /\ tableLock = <<"free", NoDep>>
        /\ tableLock' = <<"store", d>>
        /\ UNCHANGED <<appOf, tables, chans, gorout>>
    BY <1>types, <1>3 DEF StoreLock, Free, StoreHolds
  <2>2. CASE /\ store' = [store EXCEPT ![d] = "quit"]
             /\ setup' = setup
    BY <1>types, <2>1, <2>2
  <2>3. CASE /\ store' = [store EXCEPT ![d] = "notify"]
             /\ setup' = [setup EXCEPT ![d] = "connect"]
    BY <1>types, <2>1, <2>3
  <2> QED
    BY <1>types, <1>3, <2>2, <2>3 DEF StoreLock
<1>4. ASSUME NEW d \in Deploys, StoreSendQuit(d)
      PROVE  ControlInv'
  BY <1>types, <1>4 DEF StoreSendQuit
<1>5. ASSUME NEW d \in Deploys, StoreSendAppSetup(d)
      PROVE  ControlInv'
  BY <1>types, <1>5 DEF StoreSendAppSetup
<1>6. ASSUME NEW d \in Deploys, StoreSendNil(d)
      PROVE  ControlInv'
  BY <1>types, <1>6 DEF StoreSendNil
<1>7. ASSUME NEW d \in Deploys, SetupChans(d)
      PROVE  ControlInv'
  BY <1>types, <1>7 DEF SetupChans
<1>8. ASSUME NEW d \in Deploys, SetupLocalTcp(d)
      PROVE  ControlInv'
  BY <1>types, <1>8 DEF SetupLocalTcp
<1>9. ASSUME NEW d \in Deploys, SetupLoad(d)
      PROVE  ControlInv'
  BY <1>types, <1>9 DEF SetupLoad
<1>10. ASSUME NEW d \in Deploys, SetupPublish(d)
      PROVE  ControlInv'
  BY <1>types, <1>10 DEF SetupPublish
<1>11. ASSUME NEW d \in Deploys, SetupReferrer(d)
      PROVE  ControlInv'
  BY <1>types, <1>11 DEF SetupReferrer
<1>12. ASSUME NEW d \in Deploys, SetupRun(d)
      PROVE  ControlInv'
  BY <1>types, <1>12 DEF SetupRun
<1>13. ASSUME NEW d \in Deploys, WorkerLoop(d)
      PROVE  ControlInv'
  BY <1>types, <1>13 DEF WorkerLoop
<1>14. ASSUME NEW d \in Deploys, WorkerEvent(d)
      PROVE  ControlInv'
  BY <1>types, <1>14 DEF WorkerEvent
<1>15. ASSUME NEW d \in Deploys, WorkerCrash(d)
      PROVE  ControlInv'
  BY <1>types, <1>15 DEF WorkerCrash
<1>16. ASSUME NEW d \in Deploys, WorkerQuit(d)
      PROVE  ControlInv'
  BY <1>types, <1>16 DEF WorkerQuit
<1>17. ASSUME NEW d \in Deploys, WorkerQuitLock(d)
      PROVE  ControlInv'
  BY <1>types, <1>17 DEF WorkerQuitLock
<1>18. ASSUME NEW d \in Deploys, WorkerStopDcp(d)
      PROVE  ControlInv'
  BY <1>types, <1>18 DEF WorkerStopDcp
<1>19. ASSUME NEW d \in Deploys, WorkerStopTimer(d)
      PROVE  ControlInv'
  BY <1>types, <1>19 DEF WorkerStopTimer
<1>20. CASE UNCHANGED <<appOf, store, setup, tableLock, worker, hChans>>
  BY <1>20
<1> QED
  BY <1>1, <1>2, <1>3, <1>4, <1>5, <1>6, <1>7, <1>8, <1>9, <1>10, <1>11,
     <1>12, <1>13, <1>14, <1>15, <1>16, <1>17, <1>18, <1>19, <1>20
  DEF Next, MainStep, StoreStep, SetupStep, FeedStep, WorkerStep, vars,
      StartServers, MakeAppSetup, FillAppSetup, EnterLoop, TakeAppSetup,
      FinishAppSetup, TimerStart, FeedOpen, FeedRecv, FeedPush, DcpStop,
      FeedEnd, TimerStop

\* The invariants about handleChans stay when no table entry or look-up changes,
\* nobody changes hands or loses channels, and no worker that looked channels
\* up enters or leaves its critical section.
LEMMA ChansKept ==
    ASSUME Shapes, OwnedInv, WorkerInv, ChansInv,
           UNCHANGED <<appDone, hChans>>,
           \A d \in Deploys : appOf[d] # NoApp => appOf'[d] = appOf[d],
           \A d \in Deploys : setup[d] \notin {"none", "connect"}
                                => setup'[d] \notin {"none", "connect"},
           \A d \in Deploys : hChans[d] # NoDep =>
               (worker'[d] \in {"sigdcp", "sigtimer"}
                  <=> worker[d] \in {"sigdcp", "sigtimer"})
    PROVE  ChansInv'
<1> USE DeploymentAssumption DEF Shapes, ChansInv
<1>1. RegisteredInv'
  BY DEF RegisteredInv
<1>2. LookedUpInv'
  <2>1. ASSUME NEW e \in Deploys, hChans[e] # NoDep
        PROVE  /\ appOf[e] \in Apps /\ appOf'[e] = appOf[e]
               /\ appOf'[hChans[e]] = appOf[hChans[e]]
    BY <2>1 DEF OwnedInv, WorkerInv, LookedUpInv
  <2> QED
    BY <2>1 DEF LookedUpInv
<1>3. QuitNeverReusesChans'
  BY DEF QuitNeverReusesChans
<1> QED
  BY <1>1, <1>2, <1>3

\* Every action keeps the invariants about handleChans.
LEMMA ChansStep ==
    ASSUME TypeOK, ControlInv, ChansInv, [Next]_vars
    PROVE  ChansInv'
<1> USE DeploymentAssumption DEF ControlInv, setupVars, tables, chans, gorout
<1>types. Shapes
  BY TypeShapes
<1>early. \A d \in Deploys :
              worker[d] \notin {"sigdcp", "sigtimer", "exited"} => hChans[d] = NoDep
  BY DEF WorkerInv
<1>1. ASSUME NEW a \in Apps, NEW d \in Deploys, BootApp(a, d)
      PROVE  ChansInv'
  <2>1. /\ \A e \in Deploys : appOf[e] # NoApp => appOf'[e] = appOf[e]
        /\ UNCHANGED <<appDone, hChans, worker>>
    BY <1>types, <1>1 DEF BootApp, Shapes
  <2>2. \A e \in Deploys : setup[e] \notin {"none", "connect"}
                            => setup'[e] \notin {"none", "connect"}
    BY <1>types, <1>1 DEF BootApp, Shapes, OwnedInv
  <2> QED
    BY <1>types, <2>1, <2>2, ChansKept
<1>2. ASSUME NEW a \in Apps, NEW d \in Deploys, StoreConfig(a, d)
      PROVE  ChansInv'
  BY <1>types, <1>2, ChansKept DEF StoreConfig, Shapes
<1>3. ASSUME NEW d \in Deploys, StoreLock(d)
      PROVE  ChansInv'
  <2>1. UNCHANGED <<appOf, appDone, hChans, worker>>
    BY <1>3 DEF StoreLock
  <2>2. \A e \in Deploys : setup[e] \notin {"none", "connect"}
                            => setup'[e] \notin {"none", "connect"}
    BY <1>types, <1>3 DEF StoreLock, Shapes, WorkerInv
  <2> QED
    BY <1>types, <2>1, <2>2, ChansKept
<1>4. ASSUME NEW d \in Deploys, StoreSendAppSetup(d)
      PROVE  ChansInv'
  BY <1>types, <1>4, ChansKept DEF StoreSendAppSetup, Shapes
<1>5. ASSUME NEW d \in Deploys, SetupLocalTcp(d)
      PROVE  ChansInv'
  BY <1>types, <1>5, ChansKept DEF SetupLocalTcp, Shapes
<1>6. ASSUME NEW d \in Deploys, SetupLoad(d)
      PROVE  ChansInv'
  BY <1>types, <1>6, ChansKept DEF SetupLoad, Shapes
<1>7. ASSUME NEW d \in Deploys, SetupPublish(d)
      PROVE  ChansInv'
  BY <1>types, <1>7, ChansKept DEF SetupPublish, Shapes
<1>8. ASSUME NEW d \in Deploys, SetupReferrer(d)
      PROVE  ChansInv'
  BY <1>types, <1>8, ChansKept DEF SetupReferrer, Shapes
<1>9. ASSUME NEW d \in Deploys, SetupRun(d)
      PROVE  ChansInv'
  BY <1>types, <1>early, <1>9, ChansKept DEF SetupRun, Shapes, WorkerInv
<1>10. ASSUME NEW d \in Deploys, WorkerLoop(d)
      PROVE  ChansInv'
  BY <1>types, <1>early, <1>10, ChansKept DEF WorkerLoop, Shapes
<1>11. ASSUME NEW d \in Deploys, WorkerEvent(d)
      PROVE  ChansInv'
  BY <1>types, <1>early, <1>11, ChansKept DEF WorkerEvent, Shapes
<1>12. ASSUME NEW d \in Deploys, WorkerCrash(d)
      PROVE  ChansInv'
  BY <1>types, <1>early, <1>12, ChansKept DEF WorkerCrash, Shapes
<1>13. ASSUME NEW d \in Deploys, WorkerQuit(d)
      PROVE  ChansInv'
  BY <1>types, <1>early, <1>13, ChansKept DEF WorkerQuit, Shapes
<1>14. ASSUME NEW d \in Deploys, WorkerStopDcp(d)
      PROVE  ChansInv'
  BY <1>types, <1>early, <1>14, ChansKept DEF WorkerStopDcp, Shapes
<1>15. ASSUME NEW d \in Deploys, SetupChans(d)
      PROVE  ChansInv'
  <2>1. /\ appDone' = [appDone EXCEPT ![appOf[d]] = d]
        /\ setup[d] = "connect" /\ setup' = [setup EXCEPT ![d] = "tcp"]
        /\ UNCHANGED <<appOf, worker, hChans>>
        /\ \A e \in Deploys : worker[e] \notin {"sigdcp", "sigtimer"}
    BY <1>types, <1>15 DEF SetupChans, LockInv, Free, WorkerHolds, Shapes
  <2>2. \A e \in Deploys : hChans[e] # d
    BY <2>1 DEF ChansInv, LookedUpInv
  <2>3. RegisteredInv'
    BY <1>types, <2>1, <2>2 DEF ChansInv, RegisteredInv, Shapes
  <2>4. LookedUpInv'
    BY <1>types, <2>1 DEF ChansInv, LookedUpInv, Shapes
  <2>5. QuitNeverReusesChans'
    BY <2>1 DEF ChansInv, QuitNeverReusesChans
  <2> QED
    BY <2>3, <2>4, <2>5 DEF ChansInv
<1>16. ASSUME NEW d \in Deploys, WorkerQuitLock(d)
      PROVE  ChansInv'
  <2>1. /\ appOf[d] \in Apps /\ hChans[d] = NoDep
        /\ \A e \in Deploys : worker[e] \notin {"sigdcp", "sigtimer"}
        /\ \A a \in Apps, e \in Deploys :
               appDone[a] # NoDep => hChans[e] # appDone[a]
    BY <1>types, <1>16 DEF WorkerQuitLock, Shapes, OwnedInv, LockInv,
       WorkerInv, Free, WorkerHolds, ChansInv, RegisteredInv
  <2>2. /\ worker' = [worker EXCEPT ![d] = "sigdcp"]
        /\ hChans' = [hChans EXCEPT ![d] = appDone[appOf[d]]]
        /\ UNCHANGED <<appOf, setup, appDone>>
    BY <1>types, <1>16 DEF WorkerQuitLock
  <2>3. RegisteredInv'
    BY <1>types, <2>1, <2>2 DEF Shapes, ChansInv, RegisteredInv
  <2>4. LookedUpInv'
    BY <1>types, <2>1, <2>2 DEF Shapes, ChansInv, LookedUpInv, RegisteredInv
  <2>5. QuitNeverReusesChans'
    BY <1>types, <2>1, <2>2 DEF Shapes, ChansInv, QuitNeverReusesChans
  <2> QED
    BY <2>3, <2>4, <2>5 DEF ChansInv
<1>17. ASSUME NEW d \in Deploys, WorkerStopTimer(d)
      PROVE  ChansInv'
  <2>1. /\ worker' = [worker EXCEPT ![d] = "exited"]
        /\ appDone' = [appDone EXCEPT ![appOf[d]] = NoDep]
        /\ UNCHANGED <<appOf, setup, hChans>>
    BY <1>17 DEF WorkerStopTimer
  <2>2. /\ hChans[d] # NoDep /\ appOf[hChans[d]] = appOf[d]
        /\ \A e \in Deploys \ {d} : worker[e] \notin {"sigdcp", "sigtimer"}
    BY <1>types, <1>17 DEF WorkerStopTimer, LockInv, WorkerInv, WorkerHolds,
       ChansInv, LookedUpInv, Shapes
  <2>3. RegisteredInv'
    BY <1>types, <2>1, <2>2 DEF ChansInv, RegisteredInv, Shapes
  <2>4. LookedUpInv'
    BY <1>types, <2>1, <2>2 DEF ChansInv, LookedUpInv, Shapes
  <2>5. QuitNeverReusesChans'
    BY <2>1 DEF ChansInv, QuitNeverReusesChans
  <2> QED
    BY <2>3, <2>4, <2>5 DEF ChansInv
<1>18. CASE UNCHANGED <<appOf, setup, appDone, worker, hChans>>
  BY <1>types, <1>18, ChansKept
<1> QED
  BY <1>1, <1>2, <1>3, <1>4, <1>5, <1>6, <1>7, <1>8, <1>9, <1>10, <1>11,
     <1>12, <1>13, <1>14, <1>15, <1>16, <1>17, <1>18
  DEF Next, MainStep, StoreStep, SetupStep, FeedStep, WorkerStep, vars,
      mainVars, StartServers, MakeAppSetup, FillAppSetup, EnterLoop,
      TakeAppSetup, FinishAppSetup, TimerStart, StoreSendQuit, StoreSendNil,
      FeedOpen, FeedRecv, FeedPush, DcpStop, FeedEnd, TimerStop

\* A signal stays accounted for when no worker forgets what it looked up, no
\* worker leaves the end of its critical section, and no new signal is sent.
LEMMA SignalKept ==
    ASSUME hChans \in [Deploys -> Deploys \cup {NoDep}], SignalInv,
           \A d \in Deploys :
               /\ dcpClose[d] = "empty" => dcpClose'[d] = "empty"
               /\ timerClose'[d] = 1 \/ timer'[d] = "stopped"
                    => timerClose[d] = 1 \/ timer[d] = "stopped",
           \A e \in Deploys : hChans[e] # NoDep => hChans'[e] = hChans[e],
           \A e \in Deploys :
               worker[e] \in {"sigtimer", "exited"} => worker'[e] = worker[e]
    PROVE  SignalInv'
<1> USE DeploymentAssumption
<1> SUFFICES ASSUME NEW d \in Deploys
             PROVE  /\ dcpClose'[d] # "empty" =>
                         \E e \in Deploys : hChans'[e] = d
                                /\ worker'[e] \in {"sigtimer", "exited"}
                    /\ timerClose'[d] = 1 \/ timer'[d] = "stopped" =>
                         \E e \in Deploys : hChans'[e] = d /\ worker'[e] = "exited"
  BY DEF SignalInv
<1>1. ASSUME dcpClose'[d] # "empty"
      PROVE  \E e \in Deploys : hChans'[e] = d
                                /\ worker'[e] \in {"sigtimer", "exited"}
  BY <1>1 DEF SignalInv
<1>2. ASSUME timerClose'[d] = 1 \/ timer'[d] = "stopped"
      PROVE  \E e \in Deploys : hChans'[e] = d /\ worker'[e] = "exited"
  BY <1>2 DEF SignalInv
<1> QED
  BY <1>1, <1>2

\* Every action keeps the invariant about stop signals.
LEMMA SignalStep ==
    ASSUME TypeOK, ControlInv, SignalInv, [Next]_vars
    PROVE  SignalInv'
<1> USE DeploymentAssumption DEF Shapes, ControlInv, WorkerInv, mainVars, setupVars, tables, chans,
      gorout
<1>types. Shapes
  BY TypeShapes
<1>1. CASE TimerStart
  BY <1>types, <1>1, SignalKept DEF TimerStart
<1>2. ASSUME NEW d \in Deploys, SetupRun(d)
      PROVE  SignalInv'
  BY <1>types, <1>2, SignalKept DEF SetupRun
<1>3. ASSUME NEW d \in Deploys, DcpStop(d)
      PROVE  SignalInv'
  BY <1>types, <1>3, SignalKept DEF DcpStop
<1>4. ASSUME NEW d \in Deploys, TimerStop(d)
      PROVE  SignalInv'
  BY <1>types, <1>4, SignalKept DEF TimerStop
<1>5. ASSUME NEW d \in Deploys, WorkerLoop(d)
      PROVE  SignalInv'
  BY <1>types, <1>5, SignalKept DEF WorkerLoop
<1>6. ASSUME NEW d \in Deploys, WorkerEvent(d)
      PROVE  SignalInv'
  BY <1>types, <1>6, SignalKept DEF WorkerEvent
<1>7. ASSUME NEW d \in Deploys, WorkerCrash(d)
      PROVE  SignalInv'
  BY <1>types, <1>7, SignalKept DEF WorkerCrash
<1>8. ASSUME NEW d \in Deploys, WorkerQuit(d)
      PROVE  SignalInv'
  BY <1>types, <1>8, SignalKept DEF WorkerQuit
<1>9. ASSUME NEW d \in Deploys, WorkerQuitLock(d)
      PROVE  SignalInv'
  BY <1>types, <1>9, SignalKept DEF WorkerQuitLock
<1>10. ASSUME NEW d \in Deploys, WorkerStopDcp(d)
      PROVE  SignalInv'
  <2>1. /\ worker[d] = "sigdcp" /\ worker' = [worker EXCEPT ![d] = "sigtimer"]
        /\ hChans[d] \in Deploys
        /\ dcpClose' = [dcpClose EXCEPT ![hChans[d]] = "full"]
        /\ UNCHANGED <<timerClose, timer, hChans>>
    BY <1>types, <1>10 DEF WorkerStopDcp
  <2> SUFFICES ASSUME NEW c \in Deploys
               PROVE  /\ dcpClose'[c] # "empty" =>
                           \E e \in Deploys : hChans'[e] = c
                                  /\ worker'[e] \in {"sigtimer", "exited"}
                      /\ timerClose'[c] = 1 \/ timer'[c] = "stopped" =>
                           \E e \in Deploys : hChans'[e] = c /\ worker'[e] = "exited"
    BY DEF SignalInv
  <2>2. ASSUME dcpClose'[c] # "empty"
        PROVE  \E e \in Deploys : hChans'[e] = c
                                  /\ worker'[e] \in {"sigtimer", "exited"}
    BY <1>types, <2>1, <2>2 DEF SignalInv
  <2>3. ASSUME timerClose'[c] = 1 \/ timer'[c] = "stopped"
        PROVE  \E e \in Deploys : hChans'[e] = c /\ worker'[e] = "exited"
    BY <1>types, <2>1, <2>3 DEF SignalInv
  <2> QED
    BY <2>2, <2>3
<1>11. ASSUME NEW d \in Deploys, WorkerStopTimer(d)
      PROVE  SignalInv'
  <2>1. /\ worker[d] = "sigtimer" /\ worker' = [worker EXCEPT ![d] = "exited"]
        /\ hChans[d] \in Deploys
        /\ timerClose' = [timerClose EXCEPT ![hChans[d]] = 1]
        /\ UNCHANGED <<dcpClose, timer, hChans>>
    BY <1>types, <1>11 DEF WorkerStopTimer
  <2> SUFFICES ASSUME NEW c \in Deploys
               PROVE  /\ dcpClose'[c] # "empty" =>
                           \E e \in Deploys : hChans'[e] = c
                                  /\ worker'[e] \in {"sigtimer", "exited"}
                      /\ timerClose'[c] = 1 \/ timer'[c] = "stopped" =>
                           \E e \in Deploys : hChans'[e] = c /\ worker'[e] = "exited"
    BY DEF SignalInv
  <2>2. ASSUME dcpClose'[c] # "empty"
        PROVE  \E e \in Deploys : hChans'[e] = c
                                  /\ worker'[e] \in {"sigtimer", "exited"}
    BY <1>types, <2>1, <2>2 DEF SignalInv
  <2>3. ASSUME timerClose'[c] = 1 \/ timer'[c] = "stopped"
        PROVE  \E e \in Deploys : hChans'[e] = c /\ worker'[e] = "exited"
    BY <1>types, <2>1, <2>3 DEF SignalInv
  <2> QED
    BY <2>2, <2>3
<1>12. CASE UNCHANGED <<dcpClose, timerClose, timer, worker, hChans>>
  BY <1>types, <1>12, SignalKept
<1> QED
  BY <1>1, <1>2, <1>3, <1>4, <1>5, <1>6, <1>7, <1>8, <1>9, <1>10, <1>11,
     <1>12
  DEF Next, MainStep, StoreStep, SetupStep, FeedStep, WorkerStep, vars,
      BootApp, StartServers, MakeAppSetup, FillAppSetup, EnterLoop,
      TakeAppSetup, FinishAppSetup, StoreConfig, StoreLock, StoreSendQuit,
      StoreSendAppSetup, StoreSendNil, SetupChans, SetupLocalTcp,
      SetupLoad, SetupPublish, SetupReferrer, FeedOpen, FeedRecv, FeedPush,
      FeedEnd

\* Every action keeps the local ports distinct.
LEMMA PortsStep ==
    ASSUME TypeOK, PortsDistinct, [Next]_vars
    PROVE  PortsDistinct'
<1> USE DeploymentAssumption DEF Shapes, PortsDistinct, mainVars, setupVars, tables, chans, gorout
<1>types. Shapes
  BY TypeShapes
<1>1. ASSUME NEW d \in Deploys, SetupLocalTcp(d)
      PROVE  PortsDistinct'
  BY <1>types, <1>1 DEF SetupLocalTcp, NextAvailablePort
<1>2. CASE UNCHANGED <<localPort>>
  BY <1>2
<1>3. MainStep \/ TimerStart \/ (\E a \in Apps, d \in Deploys : StoreConfig(a, d))
        => UNCHANGED localPort
  BY DEF MainStep, TimerStart, StoreConfig, BootApp, StartServers,
         MakeAppSetup, FillAppSetup, EnterLoop, TakeAppSetup, FinishAppSetup
<1>4. \A d \in Deploys : StoreStep(d) => UNCHANGED localPort
  BY DEF StoreStep, StoreLock, StoreSendQuit, StoreSendAppSetup, StoreSendNil
<1>5. \A d \in Deploys : SetupStep(d) => SetupLocalTcp(d) \/ UNCHANGED localPort
  BY DEF SetupStep, SetupChans, SetupLoad, SetupPublish, SetupReferrer, SetupRun
<1>6. \A d \in Deploys : FeedStep(d) \/ TimerStop(d) => UNCHANGED localPort
  BY DEF FeedStep, TimerStop, FeedOpen, FeedRecv, FeedPush, DcpStop, FeedEnd
<1>7. \A d \in Deploys : WorkerStep(d) => UNCHANGED localPort
  BY DEF WorkerStep, WorkerLoop, WorkerEvent, WorkerCrash, WorkerQuit,
         WorkerQuitLock, WorkerStopDcp, WorkerStopTimer
<1>8. UNCHANGED vars => UNCHANGED localPort
  BY DEF vars
<1>9. (\E d \in Deploys : SetupLocalTcp(d)) \/ UNCHANGED localPort
  BY <1>3, <1>4, <1>5, <1>6, <1>7, <1>8 DEF Next
<1> QED
  BY <1>1, <1>2, <1>9

-----------------------------------------------------------------------------
\* The initial states satisfy the inductive invariant.
LEMMA IInvInit == Init => IInv
<1> SUFFICES ASSUME Init
             PROVE  IInv
  OBVIOUS
<1> USE DeploymentAssumption
<1>1. TypeOK
  BY DEF Init, TypeOK, Free
<1>2. ControlInv
  BY DEF Init, ControlInv, OwnedInv, LockInv, WorkerInv
<1>3. ChansInv
  BY DEF Init, ChansInv, RegisteredInv, LookedUpInv, QuitNeverReusesChans
<1>4. SignalInv /\ PortsDistinct
  BY DEF Init, SignalInv, PortsDistinct
<1> QED
  BY <1>1, <1>2, <1>3, <1>4 DEF IInv

\* IInv is an inductive invariant of the deployment protocol.
THEOREM DeploymentInvariant == Spec => []IInv
<1>1. IInv /\ [Next]_vars => IInv'
  BY TypeStep, ControlStep, ChansStep, SignalStep, PortsStep
  DEF IInv, ControlInv
<1> QED
  BY <1>1, IInvInit, PTL DEF Spec

\* Every variable keeps its type, whatever the number of applications,
\* deployments and the capacities of the channels.
THEOREM DeploymentTypeCorrect == Spec => []TypeOK
<1>1. IInv => TypeOK
  BY DEF IInv
<1> QED
  BY <1>1, DeploymentInvariant, PTL

\* No two quitting workers ever look up the same handleChans, however many
\* redeploys overlap.
THEOREM QuitNeverReusesChansTheorem == Spec => []QuitNeverReusesChans
<1>1. IInv => QuitNeverReusesChans
  BY DEF IInv, ChansInv
<1> QED
  BY <1>1, DeploymentInvariant, PTL

\* The two sends of a quitting worker that found channels never block and
\* never meet a closed channel.
THEOREM QuitSendsSucceedTheorem == Spec => []QuitSendsSucceed
<1>1. ASSUME IInv, NEW d \in Deploys, hChans[d] # NoDep
      PROVE  /\ worker[d] = "sigdcp" => dcpClose[hChans[d]] = "empty"
             /\ worker[d] \in {"sigdcp", "sigtimer"}
                  => timerClose[hChans[d]] = 0
  <2>1. /\ hChans[d] \in Deploys
        /\ \A e \in Deploys : hChans[e] = hChans[d] => e = d
    BY <1>1 DEF IInv, TypeOK, ChansInv, QuitNeverReusesChans
  <2>2. /\ dcpClose[hChans[d]] # "empty"
             => worker[d] \in {"sigtimer", "exited"}
        /\ timerClose[hChans[d]] = 1 => worker[d] = "exited"
    BY <1>1, <2>1 DEF IInv, SignalInv
  <2>3. timerClose[hChans[d]] = 0 \/ timerClose[hChans[d]] = 1
    BY <1>1, <2>1 DEF IInv, TypeOK
  <2>4. worker[d] = "sigdcp" => dcpClose[hChans[d]] = "empty"
    BY <2>2
  <2>5. worker[d] \in {"sigdcp", "sigtimer"} => worker[d] # "exited"
    OBVIOUS
  <2> QED
    BY <2>2, <2>3, <2>4, <2>5
<1>2. IInv => QuitSendsSucceed
  BY <1>1 DEF IInv, ControlInv, WorkerInv, QuitSendsSucceed
<1> QED
  BY <1>2, DeploymentInvariant, PTL

\* Only a quitting worker of the same application stops a stream or a timer.
THEOREM StopStaysInAppTheorem == Spec => []StopStaysInApp
<1>1. ASSUME IInv, NEW d \in Deploys,
             dcpClose[d] # "empty" \/ timer[d] = "stopped" \/ timerClose[d] = 1
      PROVE  \E e \in DepsOf(appOf[d]) : hChans[e] = d
  <2>1. PICK e \in Deploys : hChans[e] = d
    BY <1>1 DEF IInv, SignalInv
  <2>2. appOf[e] = appOf[d]
    BY <1>1, <2>1, DeploymentAssumption DEF IInv, ChansInv, LookedUpInv
  <2> QED
    BY <2>1, <2>2 DEF DepsOf
<1>2. IInv => StopStaysInApp
  BY <1>1 DEF StopStaysInApp
<1> QED
  BY <1>2, DeploymentInvariant, PTL

\* Local TCP ports are never shared, however many set-ups run at once.
THEOREM PortsDistinctTheorem == Spec => []PortsDistinct
<1>1. IInv => PortsDistinct
  BY DEF IInv
<1> QED
  BY <1>1, DeploymentInvariant, PTL
-----------------------------------------------------------------------------
(***************************************************************************)
(* What a redeploy leaves, for an operator who waits for each to settle,   *)
(* and set-ups that outlast the handler call of the old worker.            *)
(***************************************************************************)

\* The other deployments of the application of d.
Siblings(d) == DepsOf(appOf[d]) \ {d}

\* A deployment that has no worker yet.
Rising(d) == appOf[d] # NoApp /\ worker[d] = "none"

\* An application has one such deployment at a time, and the workers of the others
\* have returned before appDoneChans gets its channels.
TurnInv ==
    \A d \in Deploys : Rising(d) => \A e \in Siblings(d) :
        /\ worker[e] # "none"
        /\ setup[d] \notin {"none", "connect"} => worker[e] = "exited"

\* Until its worker returns, the tables lead to a deployment that has set them,
\* and the file that it read is the newest, unless a newer one is on its way.
LeadInv ==
    \A d \in Deploys : appOf[d] # NoApp /\ worker[d] # "exited" =>
        /\ worker[d] # "crashed"
        /\ setup[d] \notin {"none", "connect"} => appDone[appOf[d]] = d
        /\ setup[d] \in {"refer", "run", "done"} => workerTable[appOf[d]] = d
        /\ setup[d] \in {"run", "done"} /\ worker[d] \in {"none", "busy", "select", "quitting"}
             => referrer[appOf[d]] = d
        /\ setup[d] \in {"publish", "refer", "run", "done"}
           /\ (\A e \in Siblings(d) : worker[e] # "none")
             => code[d] = disk[appOf[d]]

\* A quitting worker finds the channels of its own deployment, and has used
\* both when it returns.
StoppedInv ==
    \A d \in Deploys :
        /\ hChans[d] \in {NoDep, d}
        /\ worker[d] \in {"sigdcp", "sigtimer", "exited"} => hChans[d] = d
        /\ worker[d] \in {"sigtimer", "exited"} => dcpClose[d] # "empty"
        /\ worker[d] = "exited" => timerClose[d] = 1 \/ timer[d] = "stopped"
        /\ feed[d] = "closed" => dcpClose[d] = "closed"

\* The dispatcher starts processTimerEvent once for each deployment.
TimerInv ==
    /\ \A i \in 1 .. Len(timerChan) :
          timer[timerChan[i]] = "none" /\ setup[timerChan[i]] = "done"
    /\ \A i, j \in 1 .. Len(timerChan) : i # j => timerChan[i] # timerChan[j]
    /\ \A d \in Deploys : timer[d] # "none" => setup[d] = "done"

\* A worker is told to quit while it runs, for a newer deployment that has no
\* worker yet.
QuitInv ==
    \A d \in Deploys :
        /\ quit[d] = 1 => worker[d] \in {"busy", "select"}
        /\ quit[d] = 1 \/ worker[d] \in {"quitting", "sigdcp", "sigtimer"}
             => \E e \in DepsOf(appOf[d]) : worker[e] = "none"

\* Of the deployments of an application one is not over.
GoneInv ==
    \A a \in Apps : DepsOf(a) # {} => \E d \in DepsOf(a) : worker[d] # "exited"

\* workerTable leads to a deployment of the application that has set it.
TableInv ==
    \A a \in Apps : workerTable[a] # NoDep =>
        /\ appOf[workerTable[a]] = a
        /\ setup[workerTable[a]] \in {"refer", "run", "done"}

\* A request finds the earlier deployments settled, and they stay so until it
\* sends on Quit.
StoreInv ==
    \A n \in Deploys : store[n] \in {"stored", "quit"} =>
        /\ \A e \in Siblings(n) : worker[e] \in {"busy", "select", "exited"} /\ quit[e] = 0
        /\ workerTable[appOf[n]] # NoDep => worker[workerTable[appOf[n]]] \in {"busy", "select"}
        /\ store[n] = "quit" => workerTable[appOf[n]] # NoDep

\* A set-up goes no further while its request still holds tableLock.
NotifyInv ==
    \A d \in Deploys : store[d] \in {"notify", "stuck"} => setup[d] \in {"none", "connect"}

\* main sets each application of ./apps up once.
BootInv == main = "boot" => \A a \in todo : DepsOf(a) = {}

CleanInv ==
    /\ TurnInv /\ LeadInv /\ StoppedInv /\ TimerInv /\ QuitInv /\ GoneInv
    /\ TableInv /\ StoreInv /\ NotifyInv /\ BootInv

\* What the steps below need of IInv.
Base ==
    /\ OwnedInv /\ LockInv /\ WorkerInv /\ SignalInv
    /\ DOMAIN store = Deploys /\ DOMAIN code = Deploys
    /\ DOMAIN worker = Deploys /\ DOMAIN feed = Deploys
    /\ DOMAIN dcpClose = Deploys /\ DOMAIN timer = Deploys
    /\ DOMAIN disk = Apps /\ DOMAIN referrer = Apps
    /\ setup \in [Deploys -> {"none", "connect", "tcp", "load", "publish",
                              "refer", "run", "done"}]
    /\ timerClose \in [Deploys -> 0 .. 1] /\ quit \in [Deploys -> 0 .. 1]
    /\ appOf \in [Deploys -> Apps \cup {NoApp}]
    /\ hChans \in [Deploys -> Deploys \cup {NoDep}]
    /\ appDone \in [Apps -> Deploys \cup {NoDep}]
    /\ workerTable \in [Apps -> Deploys \cup {NoDep}]
    /\ timerChan \in Seq(Deploys)
    /\ todo \subseteq Apps

\* The part of the first invariant that this one rests on.
LEMMA BaseHolds == IInv => Base
BY DEF IInv, Base, TypeOK, ControlInv

\* Nobody has stopped anything of a deployment whose worker has not signalled.
LEMMA Unhurt ==
    ASSUME Base, StoppedInv, NEW d \in Deploys, worker[d] \notin {"sigtimer", "exited"}
    PROVE  /\ feed[d] # "closed" /\ dcpClose[d] = "empty"
           /\ timerClose[d] = 0 /\ timer[d] # "stopped"
<1>1. \A e \in Deploys : hChans[e] = d => e = d
  BY DeploymentAssumption DEF StoppedInv
<1>2. dcpClose[d] = "empty" /\ timerClose[d] # 1 /\ timer[d] # "stopped"
  BY <1>1 DEF Base, SignalInv
<1> QED
  BY <1>2 DEF Base, StoppedInv

\* runWorker never meets a closed rch.
LEMMA NoCrash ==
    ASSUME Base, StoppedInv, NEW d \in Deploys
    PROVE  ~ WorkerCrash(d)
BY Unhurt DEF WorkerCrash

\* While a worker runs, any other deployment of the application is over, or has
\* not registered its channels.
LEMMA Alone ==
    ASSUME Base, TurnInv, LeadInv, NEW d \in Deploys, NEW e \in Siblings(d),
           worker[d] \notin {"none", "exited"}, worker[e] # "exited"
    PROVE  worker[e] = "none" /\ setup[e] \in {"none", "connect"}
<1>1. appOf[d] # NoApp /\ appOf[e] = appOf[d] /\ e # d /\ e \in Deploys /\ d \in Siblings(e)
  BY DEF Base, OwnedInv, Siblings, DepsOf
<1>2. setup[d] = "done" /\ workerTable[appOf[d]] = d
  BY <1>1 DEF Base, WorkerInv, LeadInv
<1>3. worker[e] = "none"
  BY <1>1, <1>2 DEF Base, WorkerInv, LeadInv
<1> QED
  BY <1>1, <1>3 DEF TurnInv, Rising

\* What is settled is clean.
LEMMA CleanSettled ==
    ASSUME Base, CleanInv
    PROVE  SettledIsClean
<1> SUFFICES ASSUME NEW a \in Apps, Settled(a), DepsOf(a) # {}
             PROVE  /\ workerTable[a] # NoDep
                    /\ appDone[a] = workerTable[a] /\ referrer[a] = workerTable[a]
                    /\ worker[workerTable[a]] \in {"busy", "select"}
                    /\ code[workerTable[a]] = disk[a]
                    /\ dcpClose[workerTable[a]] = "empty"
                    /\ timerClose[workerTable[a]] = 0 /\ timer[workerTable[a]] # "stopped"
                    /\ \A e \in DepsOf(a) \ {workerTable[a]} :
                          /\ worker[e] = "exited"
                          /\ dcpClose[e] # "empty"
                          /\ timerClose[e] = 1 \/ timer[e] = "stopped"
  BY DEF SettledIsClean
<1>1. PICK d \in DepsOf(a) : worker[d] # "exited"
  BY DEF CleanInv, GoneInv
<1>2. d \in Deploys /\ appOf[d] = a /\ a # NoApp
  BY DeploymentAssumption DEF DepsOf
<1>3. \A e \in DepsOf(a) : /\ e \in Deploys /\ appOf[e] = a /\ setup[e] = "done"
                           /\ worker[e] \in {"busy", "select", "exited"}
  BY <1>2 DEF Settled, DepsOf, CleanInv, LeadInv
<1>4. worker[d] \in {"busy", "select"} /\ setup[d] = "done"
  BY <1>1, <1>3
<1>5. workerTable[a] = d /\ appDone[a] = d /\ referrer[a] = d
  BY <1>2, <1>4 DEF CleanInv, LeadInv
<1>6. code[d] = disk[a]
  BY <1>2, <1>3, <1>4 DEF CleanInv, LeadInv, Siblings
<1>7. dcpClose[d] = "empty" /\ timerClose[d] = 0 /\ timer[d] # "stopped"
  BY <1>2, <1>4, Unhurt DEF CleanInv
<1>8. \A e \in DepsOf(a) \ {d} : worker[e] = "exited"
  BY <1>2, <1>3, <1>5 DEF CleanInv, LeadInv
<1>9. \A e \in DepsOf(a) \ {d} : dcpClose[e] # "empty" /\ (timerClose[e] = 1 \/ timer[e] = "stopped")
  BY <1>3, <1>8 DEF CleanInv, StoppedInv
<1> QED
  BY <1>2, <1>4, <1>5, <1>6, <1>7, <1>8, <1>9, DeploymentAssumption

\* The invariant holds before main starts.
LEMMA CleanInit == Init => CleanInv
<1> SUFFICES ASSUME Init
             PROVE  CleanInv
  OBVIOUS
<1>1. \A a \in Apps : DepsOf(a) = {}
  BY DeploymentAssumption DEF Init, DepsOf
<1>2. TurnInv /\ LeadInv /\ StoppedInv /\ QuitInv
  BY DEF Init, TurnInv, LeadInv, StoppedInv, QuitInv, Rising
<1>3. TimerInv /\ TableInv /\ StoreInv /\ NotifyInv
  BY DEF Init, TimerInv, TableInv, StoreInv, NotifyInv
<1>4. GoneInv /\ BootInv
  BY <1>1, DeploymentAssumption DEF Init, GoneInv, BootInv
<1> QED
  BY <1>2, <1>3, <1>4 DEF CleanInv

\* The application of a new deployment has no other in boot, and only settled
\* ones when a request arrives.
LEMMA NewName ==
    ASSUME Base, CleanInv, Patient, NEW a \in Apps, NEW d \in Deploys,
           BootApp(a, d) \/ StoreConfig(a, d)
    PROVE  /\ appOf[d] = NoApp /\ worker[d] = "none" /\ store[d] = "none" /\ setup[d] = "none"
           /\ setup'[d] \in {"none", "connect"}
           /\ \A e \in Deploys : appOf'[e] = IF e = d THEN a ELSE appOf[e]
           /\ \A e \in Deploys \ {d} : setup'[e] = setup[e]
           /\ DepsOf(a)' = DepsOf(a) \cup {d} /\ d \notin DepsOf(a)
           /\ \A b \in Apps \ {a} : DepsOf(b)' = DepsOf(b)
           /\ \A e \in DepsOf(a) : /\ worker[e] \in {"busy", "select", "exited"}
                                   /\ store[e] \in {"none", "done"} /\ quit[e] = 0
           /\ UNCHANGED <<worker, quit, tables, code, feed, timer, timerChan, hChans, dcpClose,
                          timerClose>>
<1>1. /\ appOf[d] = NoApp
      /\ appOf' = [appOf EXCEPT ![d] = a]
      /\ setup' = setup \/ setup' = [setup EXCEPT ![d] = "connect"]
      /\ UNCHANGED <<worker, quit, tables, code, feed, timer, timerChan, hChans, dcpClose,
                     timerClose>>
  BY DEF BootApp, StoreConfig, chans, gorout
<1>2. worker[d] = "none" /\ store[d] = "none" /\ setup[d] = "none"
  BY <1>1 DEF Base, OwnedInv
<1>3. \A e \in DepsOf(a) : /\ worker[e] \in {"busy", "select", "exited"}
                           /\ store[e] \in {"none", "done"} /\ quit[e] = 0
  <2>1. CASE BootApp(a, d)
    BY <2>1 DEF BootApp, CleanInv, BootInv
  <2>2. CASE StoreConfig(a, d)
    BY <2>2, DeploymentAssumption DEF StoreConfig, Settled, CleanInv, LeadInv, DepsOf
  <2> QED
    BY <2>1, <2>2
<1>4. \A e \in Deploys : appOf'[e] = IF e = d THEN a ELSE appOf[e]
  BY <1>1 DEF Base
<1>5. /\ DepsOf(a)' = DepsOf(a) \cup {d} /\ d \notin DepsOf(a)
      /\ \A b \in Apps \ {a} : DepsOf(b)' = DepsOf(b)
  BY <1>1, <1>4, DeploymentAssumption DEF DepsOf
<1>6. setup'[d] \in {"none", "connect"} /\ \A e \in Deploys \ {d} : setup'[e] = setup[e]
  BY <1>1, <1>2 DEF Base
<1> QED
  BY <1>1, <1>2, <1>3, <1>4, <1>5, <1>6

\* It changes which deployments its application has, and those of no other application.
LEMMA NewOwner ==
    ASSUME Base, CleanInv, Patient, NEW a \in Apps, NEW d \in Deploys,
           BootApp(a, d) \/ StoreConfig(a, d)
    PROVE  /\ \A e \in Deploys : appOf'[e] = IF e = d THEN a ELSE appOf[e]
           /\ \A b \in Apps \ {a} : DepsOf(b)' = DepsOf(b)
  BY NewName

\* A set-up that ends leaves one deployment less without a worker: the workers
\* of the others have returned, and no request is on its way.
LEMMA SetupEnds ==
    ASSUME Base, CleanInv, NEW d \in Deploys, SetupRun(d)
    PROVE  /\ appOf[d] \in Apps /\ worker[d] = "none" /\ setup[d] = "run" /\ quit[d] = 0
           /\ \A e \in Siblings(d) : worker[e] = "exited" /\ quit[e] = 0
           /\ \A n \in DepsOf(appOf[d]) : store[n] \notin {"stored", "quit"}
           /\ \A e \in Deploys : worker'[e] = IF e = d THEN "busy" ELSE worker[e]
           /\ \A e \in Deploys : setup'[e] = IF e = d THEN "done" ELSE setup[e]
           /\ timerChan' = Append(timerChan, d)
           /\ UNCHANGED <<appOf, store, code, disk, tables, chans, feed, timer, hChans>>
<1> USE DEF setupVars
<1>1. /\ setup[d] = "run"
      /\ worker' = [worker EXCEPT ![d] = "busy"]
      /\ setup' = [setup EXCEPT ![d] = "done"]
      /\ timerChan' = Append(timerChan, d)
      /\ UNCHANGED <<appOf, store, code, disk, tables, chans, feed, timer, hChans>>
  BY DEF SetupRun
<1>2. appOf[d] \in Apps /\ worker[d] = "none"
  BY <1>1 DEF Base, OwnedInv, WorkerInv
<1>3. \A e \in Siblings(d) : worker[e] = "exited"
  BY <1>1, <1>2, DeploymentAssumption DEF CleanInv, TurnInv, Rising
<1>4. \A e \in Deploys : worker[e] \in {"none", "exited"} => quit[e] = 0
  <2>1. \A e \in Deploys : quit[e] \in 0 .. 1
    BY DEF Base
  <2>2. \A x \in 0 .. 1 : x = 0 \/ x = 1
    OBVIOUS
  <2> QED
    BY <2>1, <2>2 DEF CleanInv, QuitInv
<1>5. ASSUME NEW n \in DepsOf(appOf[d])
      PROVE  store[n] \notin {"stored", "quit"}
  <2>1. n \in Deploys /\ (n = d \/ n \in Siblings(d))
    BY DEF DepsOf, Siblings
  <2> QED
    BY <1>1, <1>3, <2>1 DEF Base, WorkerInv
<1>6. \A e \in Siblings(d) : quit[e] = 0
  BY <1>3, <1>4 DEF Siblings, DepsOf
<1>7. /\ \A e \in Deploys : worker'[e] = IF e = d THEN "busy" ELSE worker[e]
      /\ \A e \in Deploys : setup'[e] = IF e = d THEN "done" ELSE setup[e]
  BY <1>1 DEF Base
<1> QED
  BY <1>1, <1>2, <1>3, <1>4, <1>5, <1>6, <1>7

\* The steps of a worker, but for WorkerCrash, which does not happen: it had
\* not returned, and its deployment does not begin again.
LEMMA WorkerMoves ==
    ASSUME Base, CleanInv, NEW d \in Deploys, WorkerStep(d)
    PROVE  /\ worker[d] \notin {"none", "exited", "crashed"} /\ setup[d] = "done"
           /\ appOf[d] \in Apps
           /\ worker'[d] \notin {"none", "crashed"}
           /\ \A e \in Deploys \ {d} : worker'[e] = worker[e]
           /\ \/ worker[d] \in {"busy", "select"} /\ worker'[d] \in {"busy", "select"}
              \/ quit[d] = 1 /\ worker'[d] = "quitting" /\ quit'[d] = 0
              \/ worker[d] = "quitting" /\ worker'[d] = "sigdcp"
              \/ worker[d] = "sigdcp" /\ worker'[d] = "sigtimer"
              \/ worker[d] = "sigtimer" /\ worker'[d] = "exited"
           /\ \A e \in Deploys : quit'[e] = quit[e] \/ (e = d /\ worker'[d] = "quitting" /\ quit'[e] = 0)
           /\ UNCHANGED <<mainVars, disk, store, setupVars, workerTable, feed, timerChan, timer>>
<1> USE DEF tables, chans, gorout
<1>1. worker[d] \notin {"none", "exited", "crashed"} /\ setup[d] = "done" /\ appOf[d] \in Apps
  <2>1. worker[d] \notin {"none", "exited", "crashed"}
    BY DEF WorkerStep, WorkerLoop, WorkerEvent, WorkerCrash, WorkerQuit, WorkerQuitLock,
       WorkerStopDcp, WorkerStopTimer
  <2> QED
    BY <2>1 DEF Base, WorkerInv, OwnedInv
<1>2. UNCHANGED <<mainVars, disk, store, setupVars, workerTable, feed, timerChan, timer>>
  BY DEF WorkerStep, WorkerLoop, WorkerEvent, WorkerCrash, WorkerQuit, WorkerQuitLock,
     WorkerStopDcp, WorkerStopTimer
<1>3. CASE WorkerLoop(d) \/ WorkerEvent(d)
  BY <1>1, <1>2, <1>3 DEF WorkerLoop, WorkerEvent, Base
<1>4. CASE WorkerQuit(d)
  BY <1>1, <1>2, <1>4 DEF WorkerQuit, Base
<1>5. CASE WorkerQuitLock(d)
  <2>1. worker[d] = "quitting" /\ worker' = [worker EXCEPT ![d] = "sigdcp"] /\ quit' = quit
    BY <1>5 DEF WorkerQuitLock
  <2> QED
    BY <1>1, <1>2, <2>1 DEF Base
<1>6. CASE WorkerStopDcp(d) \/ WorkerStopTimer(d)
  BY <1>1, <1>2, <1>6 DEF WorkerStopDcp, WorkerStopTimer, Base
<1> QED
  BY <1>3, <1>4, <1>5, <1>6, NoCrash DEF WorkerStep, CleanInv

\* The steps of a set-up before its last, with the ones of storeAppSetup that
\* start it, change only its own deployment's progress.
SetupMoves(d) ==
    \/ StoreLock(d) \/ StoreSendAppSetup(d) \/ SetupChans(d) \/ SetupLocalTcp(d)
    \/ SetupLoad(d) \/ SetupPublish(d) \/ SetupReferrer(d)

\* The steps that touch no deployment's progress.
OtherStep ==
    \/ StartServers \/ MakeAppSetup \/ (\E a \in Apps : FillAppSetup(a))
    \/ EnterLoop \/ TakeAppSetup \/ FinishAppSetup \/ TimerStart
    \/ \E d \in Deploys : \/ StoreSendNil(d) \/ FeedOpen(d) \/ FeedRecv(d) \/ FeedPush(d)
                          \/ DcpStop(d) \/ FeedEnd(d) \/ TimerStop(d)

\* The kinds of steps.
LEMMA StepKinds ==
    ASSUME Next
    PROVE  \/ \E a \in Apps, d \in Deploys : BootApp(a, d) \/ StoreConfig(a, d)
           \/ \E d \in Deploys : SetupRun(d) \/ WorkerStep(d) \/ SetupMoves(d) \/ StoreSendQuit(d)
           \/ OtherStep
BY DEF Next, MainStep, StoreStep, SetupStep, FeedStep, SetupMoves, OtherStep

\* What the other steps leave alone.
LEMMA OtherFrame ==
    ASSUME OtherStep
    PROVE  UNCHANGED <<disk, setupVars, tables, quit, worker, hChans>>
BY DEF OtherStep, StartServers, MakeAppSetup, FillAppSetup, EnterLoop, TakeAppSetup,
   FinishAppSetup, TimerStart, StoreSendNil, FeedOpen, FeedRecv, FeedPush, DcpStop, FeedEnd,
   TimerStop, chans, gorout

\* How a set-up goes on.
LEMMA SetupFrame ==
    ASSUME Base, CleanInv, SlowConnect, NEW d \in Deploys, SetupMoves(d)
    PROVE  /\ appOf[d] \in Apps /\ worker[d] = "none" /\ setup[d] \notin {"run", "done"}
           /\ \A e \in Deploys \ {d} : setup'[e] = setup[e]
           /\ setup'[d] # "done"
           /\ setup[d] = "refer" => setup'[d] \in {"refer", "run"}
           /\ setup'[d] \in {"none", "connect"} \/ \A e \in Siblings(d) : worker[e] = "exited"
           /\ UNCHANGED <<main, todo, disk, appOf, quit, dcpClose, timerClose, timerChan, timer,
                          worker, hChans>>
<1> USE DEF mainVars, chans, gorout
<1>1. /\ appOf[d] \in Apps /\ worker[d] = "none"
      /\ setup[d] \notin {"run", "done"}
  <2>1. store[d] = "stored" \/ store[d] = "notify"
        \/ setup[d] \in {"connect", "tcp", "load", "publish", "refer"}
    BY DEF SetupMoves, StoreLock, StoreSendAppSetup, SetupChans, SetupLocalTcp, SetupLoad,
       SetupPublish, SetupReferrer
  <2>2. setup[d] \notin {"run", "done"}
    BY <2>1 DEF Base, WorkerInv, CleanInv, NotifyInv
  <2> QED
    BY <2>1, <2>2 DEF Base, OwnedInv, WorkerInv
<1>2. /\ \/ setup' = setup
         \/ setup[d] = "none" /\ setup' = [setup EXCEPT ![d] = "connect"]
         \/ /\ setup[d] = "connect" /\ setup' = [setup EXCEPT ![d] = "tcp"]
            /\ \A e \in Siblings(d) : worker[e] \in {"none", "exited", "crashed"}
         \/ setup[d] = "tcp" /\ setup' = [setup EXCEPT ![d] = "load"]
         \/ setup[d] = "load" /\ setup' = [setup EXCEPT ![d] = "publish"]
         \/ setup[d] = "publish" /\ setup' = [setup EXCEPT ![d] = "refer"]
         \/ setup[d] = "refer" /\ setup' = [setup EXCEPT ![d] = "run"]
      /\ UNCHANGED <<main, todo, disk, appOf, quit, dcpClose, timerClose, timerChan, timer, worker,
                     hChans>>
  <2>1. CASE StoreLock(d)
    <3>1. setup[d] = "none"
      BY <2>1 DEF StoreLock, Base, WorkerInv
    <3> QED
      BY <2>1, <3>1 DEF StoreLock
  <2>2. CASE StoreSendAppSetup(d)
    <3>1. CASE setup[d] = "none"
      BY <2>2, <3>1 DEF StoreSendAppSetup
    <3>2. CASE setup[d] # "none"
      <4>1. setup' = [setup EXCEPT ![d] = setup[d]]
        BY <2>2, <3>2 DEF StoreSendAppSetup
      <4>2. setup' = setup
        BY <4>1 DEF Base
      <4> QED
        BY <2>2, <4>2 DEF StoreSendAppSetup
    <3> QED
      BY <3>1, <3>2
  <2>3. CASE SetupChans(d)
    BY <2>3 DEF SetupChans, Siblings
  <2>4. CASE SetupLocalTcp(d) \/ SetupLoad(d) \/ SetupPublish(d) \/ SetupReferrer(d)
    BY <2>4 DEF SetupLocalTcp, SetupLoad, SetupPublish, SetupReferrer
  <2> QED
    BY <2>1, <2>2, <2>3, <2>4 DEF SetupMoves
<1>3. \A e \in Siblings(d) : /\ worker[e] \notin {"none", "crashed"}
                             /\ setup[d] \notin {"none", "connect"} => worker[e] = "exited"
  <2> SUFFICES ASSUME NEW e \in Siblings(d)
               PROVE  /\ worker[e] \notin {"none", "crashed"}
                      /\ setup[d] \notin {"none", "connect"} => worker[e] = "exited"
    OBVIOUS
  <2>1. e \in Deploys /\ appOf[e] # NoApp /\ Rising(d)
    BY <1>1, DeploymentAssumption DEF Siblings, DepsOf, Rising
  <2> QED
    BY <2>1 DEF CleanInv, TurnInv, LeadInv
<1>4. setup'[d] \in {"none", "connect"} \/ \A e \in Siblings(d) : worker[e] = "exited"
  BY <1>2, <1>3 DEF Base
<1>5. /\ \A e \in Deploys \ {d} : setup'[e] = setup[e]
      /\ setup'[d] # "done"
      /\ setup[d] = "refer" => setup'[d] \in {"refer", "run"}
  BY <1>1, <1>2 DEF Base
<1> QED
  BY <1>1, <1>2, <1>4, <1>5

\* An application keeps one deployment without a worker at most.
LEMMA TurnStep ==
    ASSUME Base, CleanInv, Patient, SlowConnect, Next
    PROVE  TurnInv'
<1>1. ASSUME NEW a \in Apps, NEW d \in Deploys, BootApp(a, d) \/ StoreConfig(a, d)
      PROVE  TurnInv'
  <2> SUFFICES ASSUME NEW x \in Deploys, Rising(x)', NEW e \in Siblings(x)'
               PROVE  /\ worker'[e] # "none"
                      /\ setup'[x] \notin {"none", "connect"} => worker'[e] = "exited"
    BY DEF TurnInv
  <2>1. x \in DepsOf(a)' \/ (x \notin DepsOf(a)' /\ Rising(x) /\ e \in Siblings(x) /\ x # d)
    <3>1. /\ setup[d] = "none" /\ UNCHANGED worker
          /\ \A y \in Deploys : appOf'[y] = IF y = d THEN a ELSE appOf[y]
          /\ \A y \in Deploys \ {d} : setup'[y] = setup[y]
      BY <1>1, NewName
    <3>2. CASE appOf'[x] = a
      BY <3>2 DEF DepsOf
    <3>3. CASE appOf'[x] # a
      <4>1. x # d /\ appOf'[x] = appOf[x] /\ x \notin DepsOf(a)'
        BY <3>1, <3>3 DEF DepsOf
      <4>2. Rising(x)
        BY <3>1, <4>1 DEF Rising
      <4>3. e \in Deploys /\ appOf'[e] = appOf[x] /\ e # x
        BY <4>1 DEF Siblings, DepsOf
      <4>4. e # d
        BY <3>1, <3>3, <4>1, <4>3
      <4> QED
        BY <3>1, <4>1, <4>2, <4>3, <4>4 DEF Siblings, DepsOf
    <3> QED
      BY <3>2, <3>3
  <2>2. CASE x \in DepsOf(a)'
    <3>1. x = d
      BY <1>1, <2>2, NewName DEF Rising
    <3>2. e \in DepsOf(a)
      BY <1>1, <3>1, NewName DEF Siblings
    <3> QED
      BY <1>1, <3>1, <3>2, NewName
  <2>3. CASE Rising(x) /\ e \in Siblings(x) /\ x # d
    BY <1>1, <2>3, NewName DEF CleanInv, TurnInv
  <2> QED
    BY <2>1, <2>2, <2>3
<1>2. ASSUME NEW d \in Deploys, SetupRun(d)
      PROVE  TurnInv'
  <2>1. /\ worker[d] = "none" /\ UNCHANGED appOf
        /\ \A e \in Deploys : worker'[e] = IF e = d THEN "busy" ELSE worker[e]
        /\ \A e \in Deploys : setup'[e] = IF e = d THEN "done" ELSE setup[e]
        /\ \A e \in Siblings(d) : worker[e] = "exited"
    BY <1>2, SetupEnds
  <2>2. \A x \in Deploys : Siblings(x)' = Siblings(x) /\ (Rising(x)' => x # d /\ Rising(x))
    BY <2>1 DEF Siblings, Rising, DepsOf
  <2>3. \A x \in Deploys : Rising(x) => d \notin Siblings(x)
    BY <2>1 DEF CleanInv, TurnInv
  <2>4. TurnInv /\ \A x \in Deploys : Siblings(x) \subseteq Deploys
    BY DEF CleanInv, Siblings, DepsOf
  <2> QED
    BY <2>1, <2>2, <2>3, <2>4 DEF TurnInv
<1>3. ASSUME NEW d \in Deploys, WorkerStep(d)
      PROVE  TurnInv'
  <2>1. /\ worker[d] \notin {"none", "exited"} /\ worker'[d] # "none"
        /\ \A e \in Deploys \ {d} : worker'[e] = worker[e]
        /\ UNCHANGED <<appOf, setup>>
    BY <1>3, WorkerMoves DEF setupVars
  <2>2. /\ \A x \in Deploys : Siblings(x)' = Siblings(x) /\ Siblings(x) \subseteq Deploys
        /\ \A x \in Deploys : Rising(x)' => Rising(x)
    BY <2>1 DEF Siblings, Rising, DepsOf
  <2>3. TurnInv
    BY DEF CleanInv
  <2> QED
    BY <2>1, <2>2, <2>3 DEF TurnInv
<1>4. ASSUME NEW d \in Deploys, SetupMoves(d)
      PROVE  TurnInv'
  <2>1. /\ \A e \in Deploys \ {d} : setup'[e] = setup[e]
        /\ setup'[d] \in {"none", "connect"} \/ \A e \in Siblings(d) : worker[e] = "exited"
        /\ UNCHANGED <<appOf, worker>>
    BY <1>4, SetupFrame
  <2>2. \A x \in Deploys : Siblings(x)' = Siblings(x) /\ Rising(x)' = Rising(x)
    BY <2>1 DEF Siblings, Rising, DepsOf
  <2>3. TurnInv
    BY DEF CleanInv
  <2> QED
    BY <2>1, <2>2, <2>3 DEF TurnInv
<1>5. CASE OtherStep \/ \E d \in Deploys : StoreSendQuit(d)
  <2>1. UNCHANGED <<appOf, worker, setup>>
    BY <1>5, OtherFrame DEF StoreSendQuit, setupVars, gorout
  <2> QED
    BY <2>1 DEF CleanInv, TurnInv, Rising, Siblings, DepsOf
<1> QED
  BY <1>1, <1>2, <1>3, <1>4, <1>5, StepKinds

\* Until its worker returns, the tables lead to a deployment that has set them.
LEMMA LeadStep ==
    ASSUME Base, CleanInv, Patient, SlowConnect, Next
    PROVE  LeadInv'
<1>1. ASSUME NEW a \in Apps, NEW d \in Deploys, BootApp(a, d) \/ StoreConfig(a, d)
      PROVE  LeadInv'
  <2>1. \A b \in Apps \ {a} : disk'[b] = disk[b]
    BY <1>1 DEF BootApp, StoreConfig, Base
  <2>2. ASSUME NEW x \in Deploys, appOf'[x] \in Apps \ {a}
        PROVE  x # d /\ appOf'[x] = appOf[x] /\ Siblings(x)' = Siblings(x) /\ setup'[x] = setup[x]
    BY <1>1, <2>2, NewName DEF Siblings
  <2>3. ASSUME NEW x \in Deploys, appOf'[x] = a
        PROVE  \/ x = d
               \/ /\ x # d /\ appOf[x] = a /\ d \in Siblings(x)' /\ setup'[x] = setup[x]
                  /\ worker'[d] = "none"
    BY <1>1, <2>3, NewName DEF Siblings, DepsOf
  <2>4. \A x \in Deploys : appOf'[x] \in Apps \cup {NoApp}
    BY <1>1, NewName DEF Base
  <2>5. UNCHANGED <<worker, tables, code>>
    BY <1>1, NewName
  <2>6. setup'[d] \in {"none", "connect"} /\ worker'[d] = "none"
    BY <1>1, NewName
  <2> QED
    BY <2>1, <2>2, <2>3, <2>4, <2>5, <2>6 DEF CleanInv, LeadInv, tables
<1>2. ASSUME NEW d \in Deploys, SetupRun(d)
      PROVE  LeadInv'
  <2>1. \A x \in Deploys : Siblings(x)' = Siblings(x)
    BY <1>2, SetupEnds DEF Siblings, DepsOf
  <2>2. ASSUME NEW x \in Deploys, appOf[x] # appOf[d]
        PROVE  \A e \in Siblings(x) : worker'[e] = worker[e]
    BY <1>2, <2>2, SetupEnds DEF Siblings, DepsOf
  <2>3. ASSUME NEW x \in Deploys, appOf[x] = appOf[d], x # d
        PROVE  worker'[x] = "exited"
    BY <1>2, <2>3, SetupEnds DEF Siblings, DepsOf
  <2>4. /\ worker[d] = "none" /\ setup[d] = "run" /\ worker'[d] = "busy"
        /\ \A e \in Siblings(d) : worker[e] # "none" /\ worker'[e] = worker[e]
    BY <1>2, SetupEnds DEF Siblings, DepsOf
  <2>5. /\ \A e \in Deploys \ {d} : worker'[e] = worker[e] /\ setup'[e] = setup[e]
        /\ UNCHANGED <<appOf, code, disk, tables>>
    BY <1>2, SetupEnds
  <2> SUFFICES ASSUME NEW x \in Deploys, appOf'[x] # NoApp, worker'[x] # "exited"
               PROVE
        /\ worker'[x] # "crashed"
        /\ setup'[x] \notin {"none", "connect"} => appDone'[appOf'[x]] = x
        /\ setup'[x] \in {"refer", "run", "done"} => workerTable'[appOf'[x]] = x
        /\ setup'[x] \in {"run", "done"} /\ worker'[x] \in {"none", "busy", "select", "quitting"}
             => referrer'[appOf'[x]] = x
        /\ setup'[x] \in {"publish", "refer", "run", "done"}
           /\ (\A e \in Siblings(x)' : worker'[e] # "none")
             => code'[x] = disk'[appOf'[x]]
    BY DEF LeadInv
  <2>6. CASE x = d
    BY <2>1, <2>4, <2>5, <2>6 DEF CleanInv, LeadInv, tables
  <2>7. CASE appOf[x] # appOf[d]
    <3>1. x # d /\ worker'[x] = worker[x] /\ setup'[x] = setup[x]
      BY <2>5, <2>7
    <3>2. /\ Siblings(x)' = Siblings(x)
          /\ \A e \in Siblings(x) : worker'[e] = worker[e]
      BY <2>1, <2>2, <2>7
    <3>3. UNCHANGED <<appOf, code, disk, workerTable, referrer, appDone>>
      BY <2>5 DEF tables
    <3>4. LeadInv /\ appOf[x] # NoApp /\ worker[x] # "exited"
      BY <3>1, <3>3 DEF CleanInv
    <3>5. /\ worker[x] # "crashed"
          /\ setup[x] \notin {"none", "connect"} => appDone[appOf[x]] = x
          /\ setup[x] \in {"refer", "run", "done"} => workerTable[appOf[x]] = x
          /\ setup[x] \in {"run", "done"} /\ worker[x] \in {"none", "busy", "select", "quitting"}
               => referrer[appOf[x]] = x
      BY <3>4 DEF LeadInv
    <3>6. setup[x] \in {"publish", "refer", "run", "done"}
          /\ (\A e \in Siblings(x) : worker[e] # "none")
            => code[x] = disk[appOf[x]]
      BY <3>4 DEF LeadInv
    <3>7. setup'[x] \in {"publish", "refer", "run", "done"}
          /\ (\A e \in Siblings(x)' : worker'[e] # "none")
            => code'[x] = disk'[appOf'[x]]
      BY <3>1, <3>2, <3>3, <3>6
    <3> QED
      BY <3>1, <3>3, <3>5, <3>7
  <2> QED
    BY <2>3, <2>5, <2>6, <2>7
<1>3. ASSUME NEW d \in Deploys, WorkerStep(d)
      PROVE  LeadInv'
  <2>1. /\ \A a \in Apps \ {appOf[d]} : appDone'[a] = appDone[a] /\ referrer'[a] = referrer[a]
        /\ worker'[d] # "exited" => appDone' = appDone
        /\ worker'[d] \in {"busy", "select", "quitting"} => referrer' = referrer
    <3>1. CASE WorkerLoop(d) \/ WorkerEvent(d) \/ WorkerQuit(d) \/ WorkerStopDcp(d)
      BY <3>1 DEF WorkerLoop, WorkerEvent, WorkerQuit, WorkerStopDcp, tables
    <3>2. CASE WorkerQuitLock(d)
      BY <3>2 DEF WorkerQuitLock, Base
    <3>3. CASE WorkerStopTimer(d)
      BY <3>3 DEF WorkerStopTimer, Base
    <3> QED
      BY <1>3, <3>1, <3>2, <3>3, NoCrash DEF WorkerStep, CleanInv
  <2>2. \A x \in Deploys : /\ Siblings(x)' = Siblings(x)
                           /\ \A e \in Siblings(x) : worker[e] # "none" <=> worker'[e] # "none"
    BY <1>3, WorkerMoves DEF Siblings, DepsOf, setupVars
  <2>3. /\ worker[d] \notin {"none", "exited"} /\ worker'[d] \notin {"none", "crashed"}
        /\ setup[d] = "done" /\ appOf[d] # NoApp
        /\ worker'[d] = "quitting" => worker[d] \in {"busy", "select"}
        /\ \A e \in Deploys \ {d} : worker'[e] = worker[e]
        /\ UNCHANGED <<appOf, setup, code, disk, workerTable>>
    <3>1. quit[d] = 1 => worker[d] \in {"busy", "select"}
      BY DEF CleanInv, QuitInv
    <3> QED
      BY <1>3, <3>1, WorkerMoves, DeploymentAssumption DEF setupVars
  <2> SUFFICES ASSUME NEW x \in Deploys, appOf[x] # NoApp, worker'[x] # "exited"
               PROVE
        /\ worker'[x] # "crashed"
        /\ setup[x] \notin {"none", "connect"} => appDone'[appOf[x]] = x
        /\ setup[x] \in {"refer", "run", "done"} => workerTable[appOf[x]] = x
        /\ setup[x] \in {"run", "done"} /\ worker'[x] \in {"none", "busy", "select", "quitting"}
             => referrer'[appOf[x]] = x
        /\ setup[x] \in {"publish", "refer", "run", "done"}
           /\ (\A e \in Siblings(x) : worker[e] # "none")
             => code[x] = disk[appOf[x]]
    BY <2>2, <2>3 DEF LeadInv
  <2>4. CASE x = d
    <3>1. worker'[d] \in {"busy", "select", "quitting"} => worker[d] \in {"busy", "select", "quitting"}
      BY <1>3, <2>3, WorkerMoves
    <3> QED
      BY <2>1, <2>3, <2>4, <3>1 DEF CleanInv, LeadInv
  <2>5. CASE appOf[x] # appOf[d]
    <3>1. appOf[x] \in Apps \ {appOf[d]} /\ worker'[x] = worker[x]
      BY <2>3, <2>5 DEF Base
    <3> QED
      BY <2>1, <3>1 DEF CleanInv, LeadInv
  <2>6. CASE x # d /\ appOf[x] = appOf[d]
    <3>1. x \in Siblings(d) /\ worker'[x] = worker[x]
      BY <2>3, <2>6 DEF Siblings, DepsOf
    <3>2. worker[x] = "none" /\ setup[x] \in {"none", "connect"}
      BY <2>3, <3>1, Alone DEF CleanInv
    <3> QED
      BY <3>1, <3>2
  <2> QED
    BY <2>4, <2>5, <2>6
<1>4. ASSUME NEW d \in Deploys, SetupMoves(d)
      PROVE  LeadInv'
  <2>1. /\ \A a \in Apps \ {appOf[d]} : /\ appDone'[a] = appDone[a] /\ referrer'[a] = referrer[a]
                                        /\ workerTable'[a] = workerTable[a]
        /\ \A e \in Deploys \ {d} : code'[e] = code[e] /\ setup'[e] = setup[e]
        /\ UNCHANGED <<appOf, worker, disk>>
    <3>1. \A e \in Deploys \ {d} : code'[e] = code[e]
      BY <1>4 DEF SetupMoves, StoreLock, StoreSendAppSetup, SetupChans, SetupLocalTcp, SetupLoad,
         SetupPublish, SetupReferrer, Base
    <3>2. \A a \in Apps \ {appOf[d]} : /\ appDone'[a] = appDone[a] /\ referrer'[a] = referrer[a]
                                       /\ workerTable'[a] = workerTable[a]
      BY <1>4 DEF SetupMoves, StoreLock, StoreSendAppSetup, SetupChans, SetupLocalTcp, SetupLoad,
         SetupPublish, SetupReferrer, Base, tables
    <3> QED
      BY <1>4, <3>1, <3>2, SetupFrame
  <2>2. \A x \in Deploys : Siblings(x)' = Siblings(x)
    BY <2>1 DEF Siblings, DepsOf
  <2> SUFFICES ASSUME NEW x \in Deploys, appOf[x] # NoApp, worker[x] # "exited"
               PROVE
        /\ worker[x] # "crashed"
        /\ setup'[x] \notin {"none", "connect"} => appDone'[appOf[x]] = x
        /\ setup'[x] \in {"refer", "run", "done"} => workerTable'[appOf[x]] = x
        /\ setup'[x] \in {"run", "done"} /\ worker[x] \in {"none", "busy", "select", "quitting"}
             => referrer'[appOf[x]] = x
        /\ setup'[x] \in {"publish", "refer", "run", "done"}
           /\ (\A e \in Siblings(x) : worker[e] # "none")
             => code'[x] = disk[appOf[x]]
    <3>1. /\ UNCHANGED <<appOf, worker, disk>>
          /\ \A x \in Deploys : Siblings(x)' = Siblings(x)
      BY <2>1, <2>2
    <3> QED
      BY <3>1 DEF LeadInv
  <2>3. CASE x = d
    <3>0. worker[d] = "none" /\ appOf[d] \in Apps
      BY <1>4, SetupFrame
    <3>1. CASE StoreLock(d) \/ StoreSendAppSetup(d)
      <4>1. setup'[d] \in {"none", "connect"}
        BY <3>1 DEF StoreLock, StoreSendAppSetup, CleanInv, NotifyInv, Base, WorkerInv
      <4> QED
        BY <2>3, <3>0, <4>1
    <3>2. CASE SetupChans(d)
      BY <2>3, <3>0, <3>2 DEF SetupChans, Base
    <3>3. CASE SetupLocalTcp(d)
      BY <2>3, <3>0, <3>3 DEF SetupLocalTcp, Base, CleanInv, LeadInv, tables
    <3>4. CASE SetupLoad(d)
      BY <2>3, <3>0, <3>4 DEF SetupLoad, Base, CleanInv, LeadInv, tables
    <3>5. CASE SetupPublish(d)
      BY <2>3, <3>0, <3>5 DEF SetupPublish, Base, CleanInv, LeadInv
    <3>6. CASE SetupReferrer(d)
      BY <2>3, <3>0, <3>6 DEF SetupReferrer, Base, CleanInv, LeadInv
    <3> QED
      BY <1>4, <3>1, <3>2, <3>3, <3>4, <3>5, <3>6 DEF SetupMoves
  <2>4. CASE appOf[x] # appOf[d]
    <3>1. appOf[x] \in Apps \ {appOf[d]} /\ x # d
      BY <2>4 DEF Base
    <3> QED
      BY <2>1, <3>1 DEF CleanInv, LeadInv
  <2>5. CASE x # d /\ appOf[x] = appOf[d]
    <3>1. x \in Siblings(d)
      BY <2>5 DEF Siblings, DepsOf
    <3>2. setup'[d] \in {"none", "connect"}
      BY <1>4, <3>1, SetupFrame
    <3>3. UNCHANGED <<appDone, workerTable, referrer>>
      BY <1>4, <3>2 DEF SetupMoves, StoreLock, StoreSendAppSetup, SetupChans, SetupLocalTcp,
         SetupLoad, SetupPublish, SetupReferrer, Base, tables
    <3> QED
      BY <2>1, <2>5, <3>3 DEF CleanInv, LeadInv
  <2> QED
    BY <2>3, <2>4, <2>5
<1>5. CASE OtherStep \/ \E d \in Deploys : StoreSendQuit(d)
  <2>1. UNCHANGED <<appOf, worker, setup, tables, code, disk>>
    BY <1>5, OtherFrame DEF StoreSendQuit, setupVars, gorout
  <2> QED
    BY <2>1 DEF CleanInv, LeadInv, Siblings, DepsOf, tables
<1> QED
  BY <1>1, <1>2, <1>3, <1>4, <1>5, StepKinds

\* A quitting worker finds and uses the channels of its own deployment.
LEMMA StoppedStep ==
    ASSUME Base, CleanInv, Patient, SlowConnect, Next
    PROVE  StoppedInv'
<1> USE DEF gorout, chans
<1>1. ASSUME NEW a \in Apps, NEW d \in Deploys, BootApp(a, d) \/ StoreConfig(a, d)
      PROVE  StoppedInv'
  <2>1. UNCHANGED <<worker, feed, timer, hChans, dcpClose, timerClose>>
    BY <1>1, NewName
  <2>2. StoppedInv
    BY DEF CleanInv
  <2> QED
    BY <2>1, <2>2 DEF StoppedInv
<1>2. ASSUME NEW d \in Deploys, SetupRun(d)
      PROVE  StoppedInv'
  <2>1. StoppedInv
    BY DEF CleanInv
  <2>2. /\ \A e \in Deploys : worker'[e] = IF e = d THEN "busy" ELSE worker[e]
        /\ UNCHANGED <<feed, timer, hChans, dcpClose, timerClose>>
    BY <1>2, SetupEnds
  <2> QED
    BY <2>1, <2>2 DEF StoppedInv
<1>3. ASSUME NEW d \in Deploys, WorkerLoop(d) \/ WorkerEvent(d) \/ WorkerQuit(d)
      PROVE  StoppedInv'
  <2>1. /\ worker[d] \in {"busy", "select"}
        /\ \E w \in {"busy", "select", "quitting"} : worker' = [worker EXCEPT ![d] = w]
        /\ UNCHANGED <<hChans, dcpClose, timerClose, timer, feed>>
    BY <1>3 DEF WorkerLoop, WorkerEvent, WorkerQuit
  <2>2. StoppedInv /\ DOMAIN worker = Deploys
    BY DEF CleanInv, Base
  <2>3. \A x \in Deploys : worker'[x] \in {"sigdcp", "sigtimer", "exited"} => worker'[x] = worker[x]
    BY <2>1, <2>2
  <2> QED
    BY <2>1, <2>2, <2>3 DEF StoppedInv
<1>4. ASSUME NEW d \in Deploys, WorkerQuitLock(d)
      PROVE  StoppedInv'
  <2>1. /\ worker[d] = "quitting"
        /\ hChans' = [hChans EXCEPT ![d] = appDone[appOf[d]]]
        /\ worker' = [worker EXCEPT ![d] = "sigdcp"]
        /\ UNCHANGED <<dcpClose, timerClose, timer, feed>>
    BY <1>4 DEF WorkerQuitLock
  <2>2. appDone[appOf[d]] = d
    BY <2>1 DEF Base, OwnedInv, WorkerInv, CleanInv, LeadInv
  <2> QED
    BY <2>1, <2>2 DEF CleanInv, StoppedInv, Base
<1>5. ASSUME NEW d \in Deploys, WorkerStopDcp(d)
      PROVE  StoppedInv'
  <2>1. hChans[d] = d /\ worker[d] = "sigdcp"
    BY <1>5 DEF WorkerStopDcp, CleanInv, StoppedInv
  <2>2. /\ dcpClose[d] = "empty"
        /\ dcpClose' = [dcpClose EXCEPT ![d] = "full"]
        /\ worker' = [worker EXCEPT ![d] = "sigtimer"]
        /\ UNCHANGED <<hChans, timerClose, timer, feed>>
    BY <1>5, <2>1 DEF WorkerStopDcp
  <2> QED
    BY <2>1, <2>2 DEF CleanInv, StoppedInv, Base
<1>6. ASSUME NEW d \in Deploys, WorkerStopTimer(d)
      PROVE  StoppedInv'
  <2>1. hChans[d] = d /\ worker[d] = "sigtimer"
    BY <1>6 DEF WorkerStopTimer, CleanInv, StoppedInv
  <2>2. /\ timerClose' = [timerClose EXCEPT ![d] = 1]
        /\ worker' = [worker EXCEPT ![d] = "exited"]
        /\ UNCHANGED <<hChans, dcpClose, timer, feed>>
    BY <1>6, <2>1 DEF WorkerStopTimer
  <2> QED
    BY <2>1, <2>2 DEF CleanInv, StoppedInv, Base
<1>7. ASSUME NEW d \in Deploys, DcpStop(d) \/ FeedEnd(d) \/ TimerStop(d) \/ SetupLoad(d)
                                \/ FeedOpen(d) \/ FeedRecv(d) \/ FeedPush(d)
      PROVE  StoppedInv'
  <2>1. /\ StoppedInv /\ DOMAIN feed = Deploys /\ DOMAIN dcpClose = Deploys
        /\ DOMAIN timer = Deploys
    BY DEF CleanInv, Base
  <2>2. CASE DcpStop(d)
    <3>1. /\ dcpClose' = [dcpClose EXCEPT ![d] = "closed"]
          /\ UNCHANGED <<hChans, worker, timerClose, timer, feed>>
      BY <2>2 DEF DcpStop
    <3> QED
      BY <2>1, <3>1 DEF StoppedInv
  <2>3. CASE FeedEnd(d) \/ SetupLoad(d) \/ FeedOpen(d) \/ FeedRecv(d) \/ FeedPush(d)
    <3>1. /\ \E f \in {"connect", "open", "push", "closed"} :
                feed' = [feed EXCEPT ![d] = f] /\ (f = "closed" => dcpClose[d] = "closed")
          /\ UNCHANGED <<hChans, worker, dcpClose, timerClose, timer>>
      BY <2>3 DEF FeedEnd, SetupLoad, FeedOpen, FeedRecv, FeedPush
    <3>2. \A x \in Deploys : feed'[x] = "closed" => feed[x] = "closed" \/ dcpClose[x] = "closed"
      BY <2>1, <3>1
    <3> QED
      BY <2>1, <3>1, <3>2 DEF StoppedInv
  <2>4. CASE TimerStop(d)
    <3>1. /\ timerClose' = [timerClose EXCEPT ![d] = 0]
          /\ timer' = [timer EXCEPT ![d] = "stopped"]
          /\ UNCHANGED <<hChans, worker, dcpClose, feed>>
      BY <2>4 DEF TimerStop
    <3>2. \A x \in Deploys : timerClose[x] = 1 \/ timer[x] = "stopped"
                             => timerClose'[x] = 1 \/ timer'[x] = "stopped"
      BY <2>1, <3>1
    <3> QED
      BY <2>1, <3>1, <3>2 DEF StoppedInv
  <2> QED
    BY <1>7, <2>2, <2>3, <2>4
<1>8. CASE TimerStart
  <2>1. 1 \in 1 .. Len(timerChan) /\ Head(timerChan) = timerChan[1] /\ Head(timerChan) \in Deploys
    <3>1. timerChan \in Seq(Deploys) /\ timerChan # <<>>
      BY <1>8 DEF TimerStart, Base
    <3> QED
      BY <3>1, Received
  <2>2. timer[Head(timerChan)] = "none"
    BY <2>1 DEF CleanInv, TimerInv
  <2>3. /\ timer' = [timer EXCEPT ![Head(timerChan)] = "run"]
        /\ UNCHANGED <<hChans, worker, dcpClose, timerClose, feed>>
    BY <1>8 DEF TimerStart
  <2>4. \A d \in Deploys : timer[d] = "stopped" => timer'[d] = "stopped"
    BY <2>2, <2>3 DEF Base
  <2> QED
    BY <2>3, <2>4 DEF CleanInv, StoppedInv
<1>9. CASE UNCHANGED <<hChans, worker, dcpClose, timerClose, timer, feed>>
  BY <1>9 DEF CleanInv, StoppedInv
<1> QED
  BY <1>1, <1>2, <1>3, <1>4, <1>5, <1>6, <1>7, <1>8, <1>9, NoCrash
  DEF Next, MainStep, StoreStep, SetupStep, FeedStep, WorkerStep, CleanInv,
      StartServers, MakeAppSetup, FillAppSetup, EnterLoop, TakeAppSetup,
      FinishAppSetup, StoreLock, StoreSendQuit, StoreSendAppSetup, StoreSendNil, SetupChans,
      SetupLocalTcp, SetupPublish, SetupReferrer

\* The dispatcher starts processTimerEvent once for each deployment.
LEMMA TimerInvStep ==
    ASSUME Base, CleanInv, Patient, SlowConnect, Next
    PROVE  TimerInv'
<1> USE DEF gorout, chans
<1>s. timerChan \in Seq(Deploys)
  BY DEF Base
<1>0. \A i \in 1 .. Len(timerChan) : timerChan[i] \in Deploys
  BY <1>s, Received
<1>1. ASSUME UNCHANGED <<timerChan, timer>>, \A d \in Deploys : setup[d] = "done" => setup'[d] = "done"
      PROVE  TimerInv'
  BY <1>0, <1>1 DEF CleanInv, TimerInv
<1>2. ASSUME NEW a \in Apps, NEW d \in Deploys, BootApp(a, d) \/ StoreConfig(a, d)
      PROVE  TimerInv'
  <2>1. \A e \in Deploys : setup[e] = "done" => setup'[e] = "done"
    BY <1>2, NewName
  <2> QED
    BY <1>1, <1>2, <2>1, NewName
<1>3. ASSUME NEW d \in Deploys, SetupRun(d)
      PROVE  TimerInv'
  <2>1. /\ timerChan' = Append(timerChan, d) /\ timer' = timer
        /\ setup[d] = "run"
        /\ \A e \in Deploys : setup'[e] = IF e = d THEN "done" ELSE setup[e]
    BY <1>3, SetupEnds
  <2>2. /\ Len(timerChan') = Len(timerChan) + 1
        /\ \A i \in 1 .. Len(timerChan') :
              \/ i \in 1 .. Len(timerChan) /\ timerChan'[i] = timerChan[i]
              \/ i = Len(timerChan) + 1 /\ timerChan'[i] = d
    BY <1>s, <2>1, Sent
  <2>3. timer[d] = "none" /\ \A i \in 1 .. Len(timerChan) : timerChan[i] # d
    BY <2>1 DEF CleanInv, TimerInv
  <2>4. \A i \in 1 .. Len(timerChan') :
            timer'[timerChan'[i]] = "none" /\ setup'[timerChan'[i]] = "done"
    BY <1>0, <2>1, <2>2, <2>3 DEF CleanInv, TimerInv
  <2>5. \A i, j \in 1 .. Len(timerChan') : i # j => timerChan'[i] # timerChan'[j]
    BY <2>2, <2>3 DEF CleanInv, TimerInv
  <2>6. \A e \in Deploys : timer'[e] # "none" => setup'[e] = "done"
    BY <2>1 DEF CleanInv, TimerInv
  <2> QED
    BY <2>4, <2>5, <2>6 DEF TimerInv
<1>4. CASE TimerStart
  <2>1. /\ timerChan # <<>> /\ timerChan' = Tail(timerChan) /\ setup' = setup
        /\ timer' = [timer EXCEPT ![Head(timerChan)] = "run"]
    BY <1>4 DEF TimerStart, setupVars
  <2>2. /\ 1 \in 1 .. Len(timerChan) /\ Head(timerChan) = timerChan[1] /\ Head(timerChan) \in Deploys
        /\ \A i \in 1 .. Len(timerChan') :
              i + 1 \in 1 .. Len(timerChan) /\ i + 1 # 1 /\ timerChan'[i] = timerChan[i + 1]
    BY <1>s, <2>1, Received
  <2>3. \A i \in 1 .. Len(timerChan') : timerChan'[i] # Head(timerChan)
    BY <2>2 DEF CleanInv, TimerInv
  <2>4. \A i \in 1 .. Len(timerChan') :
            timer'[timerChan'[i]] = "none" /\ setup'[timerChan'[i]] = "done"
    BY <1>0, <2>1, <2>2, <2>3 DEF CleanInv, TimerInv, Base
  <2>5. ASSUME NEW i \in 1 .. Len(timerChan'), NEW j \in 1 .. Len(timerChan'), i # j
        PROVE  timerChan'[i] # timerChan'[j]
    <3>1. i + 1 # j + 1
      BY <2>5
    <3> QED
      BY <2>2, <3>1 DEF CleanInv, TimerInv
  <2>6. \A e \in Deploys : timer'[e] # "none" => setup'[e] = "done"
    BY <2>1, <2>2 DEF CleanInv, TimerInv, Base
  <2> QED
    BY <2>4, <2>5, <2>6 DEF TimerInv
<1>5. ASSUME NEW d \in Deploys, TimerStop(d)
      PROVE  TimerInv'
  <2>1. /\ timer[d] = "run" /\ timer' = [timer EXCEPT ![d] = "stopped"]
        /\ UNCHANGED <<timerChan, setup>>
    BY <1>5 DEF TimerStop, setupVars
  <2>2. \A i \in 1 .. Len(timerChan) : timer'[timerChan[i]] = timer[timerChan[i]]
    BY <1>0, <2>1 DEF CleanInv, TimerInv, Base
  <2> QED
    BY <2>1, <2>2 DEF CleanInv, TimerInv, Base
<1>6. ASSUME NEW d \in Deploys, SetupMoves(d)
      PROVE  TimerInv'
  BY <1>1, <1>6, SetupFrame
<1>7. ASSUME NEW d \in Deploys, WorkerStep(d)
      PROVE  TimerInv'
  BY <1>1, <1>7, WorkerMoves DEF setupVars
<1>8. CASE UNCHANGED <<timerChan, timer, setup>>
  BY <1>1, <1>8
<1> QED
  BY <1>2, <1>3, <1>4, <1>5, <1>6, <1>7, <1>8, StepKinds
  DEF OtherStep, StartServers, MakeAppSetup, FillAppSetup, EnterLoop, TakeAppSetup,
      FinishAppSetup, StoreSendQuit, StoreSendNil, FeedOpen, FeedRecv, FeedPush, DcpStop, FeedEnd,
      setupVars

\* workerTable leads to a deployment of the application that has set it.
LEMMA TableStep ==
    ASSUME Base, CleanInv, Patient, SlowConnect, Next
    PROVE  TableInv'
<1>0. \A a \in Apps : workerTable[a] \in Deploys \cup {NoDep}
  BY DEF Base
<1>1. ASSUME NEW a \in Apps, NEW d \in Deploys, BootApp(a, d) \/ StoreConfig(a, d)
      PROVE  TableInv'
  <2>1. \A e \in Deploys : appOf[e] # NoApp => e # d /\ appOf'[e] = appOf[e] /\ setup'[e] = setup[e]
    BY <1>1, NewName
  <2>2. workerTable' = workerTable
    BY <1>1, NewName DEF tables
  <2> QED
    BY <1>0, <2>1, <2>2, DeploymentAssumption DEF CleanInv, TableInv
<1>2. ASSUME UNCHANGED <<workerTable, appOf>>,
             \A d \in Deploys : setup[d] \in {"refer", "run", "done"}
                                  => setup'[d] \in {"refer", "run", "done"}
      PROVE  TableInv'
  BY <1>0, <1>2 DEF CleanInv, TableInv
<1>3. ASSUME NEW d \in Deploys, SetupRun(d)
      PROVE  TableInv'
  BY <1>2, <1>3, SetupEnds DEF tables
<1>4. ASSUME NEW d \in Deploys, WorkerStep(d)
      PROVE  TableInv'
  BY <1>2, <1>4, WorkerMoves DEF setupVars
<1>5. ASSUME NEW d \in Deploys, SetupMoves(d)
      PROVE  TableInv'
  <2>1. \A e \in Deploys : setup[e] \in {"refer", "run", "done"}
                             => setup'[e] \in {"refer", "run", "done"}
    BY <1>5, SetupFrame
  <2>2. CASE SetupPublish(d)
    <3>1. /\ workerTable' = [workerTable EXCEPT ![appOf[d]] = d] /\ setup'[d] = "refer"
          /\ appOf' = appOf
      BY <2>2 DEF SetupPublish, Base
    <3>2. \A a \in Apps : workerTable'[a] = IF a = appOf[d] THEN d ELSE workerTable[a]
      BY <3>1 DEF Base
    <3> QED
      BY <1>0, <2>1, <3>1, <3>2 DEF CleanInv, TableInv
  <2>3. CASE UNCHANGED <<workerTable, appOf>>
    BY <1>2, <2>1, <2>3
  <2> QED
    BY <1>5, <2>2, <2>3 DEF SetupMoves, StoreLock, StoreSendAppSetup, SetupChans, SetupLocalTcp,
       SetupLoad, SetupReferrer, tables
<1>6. CASE OtherStep \/ \E d \in Deploys : StoreSendQuit(d)
  BY <1>2, <1>6, OtherFrame DEF StoreSendQuit, setupVars, tables
<1> QED
  BY <1>1, <1>3, <1>4, <1>5, <1>6, StepKinds

\* Whom a request tells to quit: a deployment of its application whose worker
\* runs, and not its own.
LEMMA QuitTarget ==
    ASSUME Base, CleanInv, NEW n \in Deploys, store[n] \in {"stored", "quit"},
           workerTable[appOf[n]] # NoDep
    PROVE  /\ workerTable[appOf[n]] \in Siblings(n) /\ appOf[n] \in Apps
           /\ worker[n] = "none" /\ setup[n] = "none"
           /\ worker[workerTable[appOf[n]]] \in {"busy", "select"}
<1>1. appOf[n] \in Apps /\ worker[n] = "none" /\ setup[n] = "none"
  BY DEF Base, OwnedInv, WorkerInv
<1>2. /\ workerTable[appOf[n]] \in Deploys
      /\ appOf[workerTable[appOf[n]]] = appOf[n]
      /\ setup[workerTable[appOf[n]]] # "none"
  BY <1>1 DEF Base, CleanInv, TableInv
<1> QED
  BY <1>1, <1>2 DEF Siblings, DepsOf, CleanInv, StoreInv

\* A worker is told to quit for a newer deployment, which has no worker yet.
LEMMA QuitStep ==
    ASSUME Base, CleanInv, Patient, SlowConnect, Next
    PROVE  QuitInv'
<1>1. ASSUME NEW a \in Apps, NEW d \in Deploys, BootApp(a, d) \/ StoreConfig(a, d)
      PROVE  QuitInv'
  <2>1. \A x \in Deploys : quit[x] = 1 \/ worker[x] \in {"quitting", "sigdcp", "sigtimer"} =>
            x # d /\ appOf'[x] = appOf[x] /\ appOf[x] \in Apps /\ worker[x] # "none"
    <3>1. QuitInv /\ OwnedInv /\ \A x \in Deploys : appOf[x] \in Apps \cup {NoApp}
      BY DEF Base, CleanInv
    <3>2. worker[d] = "none" /\ \A e \in Deploys : appOf'[e] = IF e = d THEN a ELSE appOf[e]
      BY <1>1, NewName
    <3>3. \A x \in Deploys : quit[x] = 1 \/ worker[x] \in {"quitting", "sigdcp", "sigtimer"} =>
              worker[x] # "none"
      BY <3>1 DEF QuitInv
    <3> QED
      BY <3>1, <3>2, <3>3 DEF OwnedInv
  <2>2. \A b \in Apps : DepsOf(b) \subseteq DepsOf(b)'
    BY <1>1, NewName
  <2>3. UNCHANGED <<worker, quit>>
    BY <1>1, NewName
  <2> QED
    BY <2>1, <2>2, <2>3 DEF CleanInv, QuitInv
<1>2. ASSUME NEW d \in Deploys, SetupRun(d)
      PROVE  QuitInv'
  <2>1. /\ UNCHANGED <<quit, appOf>> /\ quit[d] = 0
        /\ \A e \in Deploys : worker'[e] = IF e = d THEN "busy" ELSE worker[e]
        /\ \A e \in Siblings(d) : worker[e] = "exited" /\ quit[e] = 0
    BY <1>2, SetupEnds DEF chans
  <2>2. ASSUME NEW x \in Deploys, quit[x] = 1 \/ worker'[x] \in {"quitting", "sigdcp", "sigtimer"}
        PROVE  x # d /\ appOf[x] # appOf[d]
    BY <2>1, <2>2 DEF Siblings, DepsOf
  <2> QED
    BY <2>1, <2>2 DEF CleanInv, QuitInv, DepsOf
<1>3. ASSUME NEW d \in Deploys, WorkerStep(d)
      PROVE  QuitInv'
  <2>1. \A x \in Deploys : quit'[x] = 1 \/ worker'[x] \in {"quitting", "sigdcp", "sigtimer"} =>
            quit[x] = 1 \/ worker[x] \in {"quitting", "sigdcp", "sigtimer"}
    BY <1>3, WorkerMoves
  <2>2. \A x \in Deploys : quit'[x] = 1 => worker'[x] \in {"busy", "select"}
    BY <1>3, WorkerMoves DEF CleanInv, QuitInv
  <2>3. \A e \in Deploys : worker[e] = "none" => worker'[e] = "none"
    BY <1>3, WorkerMoves
  <2>4. appOf' = appOf
    BY <1>3, WorkerMoves DEF setupVars
  <2> QED
    BY <2>1, <2>2, <2>3, <2>4 DEF CleanInv, QuitInv, DepsOf
<1>4. ASSUME NEW d \in Deploys, StoreSendQuit(d)
      PROVE  QuitInv'
  <2>1. PICK h : h = workerTable[appOf[d]]
    OBVIOUS
  <2>2. /\ store[d] = "quit" /\ quit' = [quit EXCEPT ![h] = 1]
        /\ UNCHANGED <<appOf, worker>>
    BY <1>4, <2>1 DEF StoreSendQuit, setupVars, gorout
  <2>3. h # NoDep
    BY <2>1, <2>2 DEF CleanInv, StoreInv
  <2>4. /\ h \in Deploys /\ appOf[h] = appOf[d] /\ worker[h] \in {"busy", "select"}
        /\ d \in DepsOf(appOf[h]) /\ worker[d] = "none"
    BY <2>1, <2>2, <2>3, QuitTarget DEF Siblings, DepsOf
  <2>5. \A x \in Deploys \ {h} : quit'[x] = quit[x]
    BY <2>2 DEF Base
  <2> QED
    BY <2>2, <2>4, <2>5 DEF CleanInv, QuitInv, DepsOf
<1>5. CASE OtherStep \/ \E d \in Deploys : SetupMoves(d)
  <2>1. UNCHANGED <<appOf, worker, quit>>
    BY <1>5, OtherFrame, SetupFrame DEF setupVars
  <2> QED
    BY <2>1 DEF CleanInv, QuitInv, DepsOf
<1> QED
  BY <1>1, <1>2, <1>3, <1>4, <1>5, StepKinds

\* The last worker of an application returns only for a newer deployment.
LEMMA GoneStep ==
    ASSUME Base, CleanInv, Patient, SlowConnect, Next
    PROVE  GoneInv'
<1>1. ASSUME NEW a \in Apps, NEW d \in Deploys, BootApp(a, d) \/ StoreConfig(a, d)
      PROVE  GoneInv'
  BY <1>1, NewName DEF CleanInv, GoneInv
<1>2. ASSUME NEW d \in Deploys, SetupRun(d)
      PROVE  GoneInv'
  BY <1>2, SetupEnds DEF CleanInv, GoneInv, DepsOf
<1>3. ASSUME NEW d \in Deploys, WorkerStep(d)
      PROVE  GoneInv'
  <2>1. /\ appOf' = appOf /\ appOf[d] \in Apps
        /\ \A e \in Deploys \ {d} : worker'[e] = worker[e]
        /\ worker'[d] = "exited" => worker[d] = "sigtimer"
    BY <1>3, WorkerMoves DEF setupVars
  <2> SUFFICES ASSUME NEW a \in Apps, DepsOf(a) # {}
               PROVE  \E e \in DepsOf(a) : worker'[e] # "exited"
    BY <2>1 DEF GoneInv, DepsOf
  <2>2. PICK x \in DepsOf(a) : worker[x] # "exited"
    BY DEF CleanInv, GoneInv
  <2>3. CASE x # d \/ worker'[d] # "exited"
    BY <2>1, <2>2, <2>3 DEF DepsOf
  <2>4. CASE x = d /\ worker'[d] = "exited"
    <3>1. worker[d] = "sigtimer" /\ appOf[d] = a
      BY <2>1, <2>4 DEF DepsOf
    <3>2. PICK e \in DepsOf(a) : worker[e] = "none"
      BY <3>1 DEF CleanInv, QuitInv
    <3>3. e # d /\ e \in Deploys
      BY <3>1, <3>2 DEF DepsOf
    <3> QED
      BY <2>1, <3>2, <3>3
  <2> QED
    BY <2>3, <2>4
<1>4. CASE OtherStep \/ \E d \in Deploys : SetupMoves(d) \/ StoreSendQuit(d)
  <2>1. UNCHANGED <<appOf, worker>>
    BY <1>4, OtherFrame, SetupFrame DEF StoreSendQuit, setupVars, gorout
  <2> QED
    BY <2>1 DEF CleanInv, GoneInv, DepsOf
<1> QED
  BY <1>1, <1>2, <1>3, <1>4, StepKinds

\* The earlier deployments stay settled until the request sends on Quit.
LEMMA StoreInvStep ==
    ASSUME Base, CleanInv, Patient, SlowConnect, Next
    PROVE  StoreInv'
<1>1. ASSUME NEW a \in Apps, NEW d \in Deploys, BootApp(a, d) \/ StoreConfig(a, d)
      PROVE  StoreInv'
  <2>1. UNCHANGED <<worker, quit, workerTable>>
    BY <1>1, NewName DEF tables
  <2> SUFFICES ASSUME NEW n \in Deploys, store'[n] \in {"stored", "quit"}
               PROVE  /\ \A e \in Siblings(n)' : worker[e] \in {"busy", "select", "exited"}
                                                 /\ quit[e] = 0
                      /\ workerTable[appOf'[n]] # NoDep
                           => worker[workerTable[appOf'[n]]] \in {"busy", "select"}
                      /\ store'[n] = "quit" => workerTable[appOf'[n]] # NoDep
    BY <2>1 DEF StoreInv
  <2>2. CASE n = d
    <3>1. StoreConfig(a, d) /\ store'[d] = "stored"
      <4>1. ~ BootApp(a, d)
        BY <1>1, <2>2, NewName DEF BootApp
      <4> QED
        BY <1>1, <4>1 DEF StoreConfig, Base
    <3>2. appOf'[d] = a /\ Siblings(d)' = DepsOf(a)
      BY <1>1, NewName DEF Siblings
    <3>3. ASSUME workerTable[a] # NoDep
          PROVE  worker[workerTable[a]] \in {"busy", "select"}
      <4>1. DepsOf(a) # {}
        BY <3>3 DEF Base, CleanInv, TableInv, DepsOf
      <4>2. Settled(a)
        BY <3>1 DEF StoreConfig
      <4> QED
        BY <4>1, <4>2, CleanSettled DEF SettledIsClean
    <3> QED
      BY <1>1, <2>2, <3>1, <3>2, <3>3, NewName
  <2>3. CASE n # d
    <3>1. store[n] = store'[n]
      BY <1>1, <2>3 DEF BootApp, StoreConfig, Base
    <3>2. appOf[n] \in Apps /\ appOf[n] # a
      <4>1. OwnedInv /\ appOf[n] \in Apps \cup {NoApp}
        BY DEF Base
      <4>2. store[n] \in {"stored", "quit"}
        BY <3>1
      <4>3. \A e \in DepsOf(a) : store[e] \in {"none", "done"}
        BY <1>1, NewName
      <4> QED
        BY <4>1, <4>2, <4>3 DEF OwnedInv, DepsOf
    <3>a. /\ \A e \in Deploys : appOf'[e] = IF e = d THEN a ELSE appOf[e]
          /\ \A b \in Apps \ {a} : DepsOf(b)' = DepsOf(b)
      BY <1>1, NewOwner
    <3>3. /\ appOf'[n] = appOf[n]
          /\ \A b \in Apps \ {a} : DepsOf(b)' = DepsOf(b)
      BY <2>3, <3>a
    <3>4. Siblings(n)' = Siblings(n)
      BY <3>2, <3>3 DEF Siblings
    <3> QED
      BY <3>1, <3>3, <3>4 DEF CleanInv, StoreInv
  <2> QED
    BY <2>2, <2>3
<1>2. ASSUME UNCHANGED appOf,
             \A n \in Deploys : store'[n] \in {"stored", "quit"} =>
                /\ store[n] \in {"stored", "quit"}
                /\ workerTable'[appOf[n]] = workerTable[appOf[n]]
                /\ store'[n] = "quit" => workerTable[appOf[n]] # NoDep
                /\ \A e \in Siblings(n) : /\ quit'[e] = quit[e]
                                          /\ \/ worker'[e] = worker[e]
                                             \/ {worker[e], worker'[e]} \subseteq {"busy", "select"}
      PROVE  StoreInv'
  <2> SUFFICES ASSUME NEW n \in Deploys, store'[n] \in {"stored", "quit"}
               PROVE  /\ \A e \in Siblings(n) : worker'[e] \in {"busy", "select", "exited"}
                                                /\ quit'[e] = 0
                      /\ workerTable'[appOf[n]] # NoDep
                           => worker'[workerTable'[appOf[n]]] \in {"busy", "select"}
                      /\ store'[n] = "quit" => workerTable'[appOf[n]] # NoDep
    BY <1>2 DEF StoreInv, Siblings, DepsOf
  <2>1. store[n] \in {"stored", "quit"} /\ workerTable'[appOf[n]] = workerTable[appOf[n]]
    BY <1>2
  <2>2. \A e \in Siblings(n) : worker'[e] \in {"busy", "select", "exited"} /\ quit'[e] = 0
    BY <1>2, <2>1 DEF CleanInv, StoreInv
  <2>3. PICK h : h = workerTable[appOf[n]]
    OBVIOUS
  <2>4. h # NoDep => worker'[h] \in {"busy", "select"}
    BY <1>2, <2>1, <2>3, QuitTarget
  <2> QED
    BY <1>2, <2>1, <2>2, <2>3, <2>4
<1>3. \A n \in Deploys : store[n] = "quit" => workerTable[appOf[n]] # NoDep
  BY DEF CleanInv, StoreInv
<1>4. ASSUME NEW d \in Deploys, SetupRun(d)
      PROVE  StoreInv'
  <2>1. \A n \in Deploys : store[n] \in {"stored", "quit"} => d \notin Siblings(n)
    BY <1>4, SetupEnds DEF Siblings, DepsOf
  <2>2. \A n \in Deploys : \A e \in Siblings(n) : e \in Deploys
    BY DEF Siblings, DepsOf
  <2>3. /\ UNCHANGED <<appOf, store, workerTable, quit>>
        /\ \A e \in Deploys : worker'[e] = IF e = d THEN "busy" ELSE worker[e]
    BY <1>4, SetupEnds DEF tables, chans
  <2> QED
    BY <1>2, <1>3, <2>1, <2>2, <2>3
<1>5. ASSUME NEW d \in Deploys, WorkerStep(d)
      PROVE  StoreInv'
  <2>1. UNCHANGED <<appOf, store, workerTable>>
    BY <1>5, WorkerMoves DEF setupVars
  <2>2. ASSUME NEW n \in Deploys, store[n] \in {"stored", "quit"}, NEW e \in Siblings(n)
        PROVE  /\ quit'[e] = quit[e]
               /\ worker'[e] = worker[e] \/ {worker[e], worker'[e]} \subseteq {"busy", "select"}
    <3>1. e \in Deploys /\ worker[e] \in {"busy", "select", "exited"} /\ quit[e] = 0
      BY <2>2 DEF CleanInv, StoreInv, Siblings, DepsOf
    <3>2. /\ \A f \in Deploys \ {d} : worker'[f] = worker[f]
          /\ \A f \in Deploys : quit'[f] = quit[f] \/ (f = d /\ worker'[d] = "quitting")
          /\ \/ worker[d] \in {"busy", "select"} /\ worker'[d] \in {"busy", "select"}
             \/ quit[d] = 1
             \/ worker[d] \in {"quitting", "sigdcp", "sigtimer"}
      BY <1>5, WorkerMoves
    <3>3. CASE e # d
      BY <3>1, <3>2, <3>3
    <3>4. CASE e = d
      <4>1. worker[d] \in {"busy", "select"} /\ worker'[d] \in {"busy", "select"}
        BY <3>1, <3>2, <3>4
      <4> QED
        BY <3>2, <3>4, <4>1
    <3> QED
      BY <3>3, <3>4
  <2> QED
    BY <1>2, <1>3, <2>1, <2>2
<1>6. ASSUME NEW d \in Deploys, StoreSendQuit(d)
      PROVE  StoreInv'
  <2>1. PICK h : h = workerTable[appOf[d]]
    OBVIOUS
  <2>2. /\ store[d] = "quit" /\ quit' = [quit EXCEPT ![h] = 1]
        /\ store' = [store EXCEPT ![d] = "notify"]
        /\ UNCHANGED <<appOf, worker, workerTable>>
    BY <1>6, <2>1 DEF StoreSendQuit, setupVars, gorout, tables
  <2>3. /\ appOf[h] = appOf[d] /\ Rising(d)
    <3>1. h # NoDep
      BY <1>3, <2>1, <2>2
    <3>2. h \in Siblings(d) /\ appOf[d] \in Apps /\ worker[d] = "none"
      BY <2>1, <2>2, <3>1, QuitTarget
    <3>3. Rising(d)
      BY <3>2, DeploymentAssumption DEF Rising
    <3> QED
      BY <3>2, <3>3 DEF Siblings, DepsOf
  <2>4. ASSUME NEW n \in Deploys, store'[n] \in {"stored", "quit"}
        PROVE  store[n] = store'[n] /\ h \notin Siblings(n)
    <3>1. n # d /\ store[n] = store'[n]
      BY <2>2, <2>4 DEF Base
    <3>2. worker[n] = "none"
      BY <2>4, <3>1 DEF Base, WorkerInv
    <3>3. n \notin Siblings(d)
      BY <2>3, <3>2 DEF CleanInv, TurnInv
    <3> QED
      BY <2>3, <3>1, <3>3 DEF Siblings, DepsOf
  <2>5. \A n \in Deploys : \A e \in Siblings(n) : e \in Deploys
    BY DEF Siblings, DepsOf
  <2>6. \A e \in Deploys \ {h} : quit'[e] = quit[e]
    BY <2>2 DEF Base
  <2> QED
    BY <1>2, <1>3, <2>2, <2>4, <2>5, <2>6
<1>7. ASSUME NEW d \in Deploys, SetupMoves(d)
      PROVE  StoreInv'
  <2>1. UNCHANGED <<appOf, worker, quit>>
    BY <1>7, SetupFrame
  <2>2. CASE SetupPublish(d)
    <3>1. /\ store' = store /\ setup[d] = "publish"
          /\ workerTable' = [workerTable EXCEPT ![appOf[d]] = d]
      BY <2>2 DEF SetupPublish
    <3>2. Rising(d)
      BY <1>7, SetupFrame, DeploymentAssumption DEF Rising
    <3>3. ASSUME NEW n \in Deploys, store[n] \in {"stored", "quit"}
          PROVE  appOf[n] # appOf[d] /\ appOf[n] \in Apps
      <4>1. worker[n] = "none" /\ setup[n] = "none" /\ appOf[n] \in Apps
        BY <3>3 DEF Base, WorkerInv, OwnedInv
      <4>2. n \notin Siblings(d) /\ n # d
        BY <3>1, <3>2, <4>1 DEF CleanInv, TurnInv
      <4> QED
        BY <4>1, <4>2 DEF Siblings, DepsOf
    <3>4. \A n \in Deploys : store[n] \in {"stored", "quit"} =>
              workerTable'[appOf[n]] = workerTable[appOf[n]]
      BY <3>1, <3>3 DEF Base
    <3> QED
      BY <1>2, <1>3, <2>1, <3>1, <3>4
  <2>3. CASE StoreLock(d)
    <3>1. /\ workerTable' = workerTable
          /\ \A n \in Deploys \ {d} : store'[n] = store[n]
          /\ store[d] = "stored"
          /\ store'[d] = "quit" => workerTable[appOf[d]] # NoDep
      BY <2>3 DEF StoreLock, tables, Base
    <3> QED
      BY <1>2, <1>3, <2>1, <3>1
  <2>4. CASE StoreSendAppSetup(d)
    <3>1. workerTable' = workerTable /\ store' = [store EXCEPT ![d] = "done"]
      BY <2>4 DEF StoreSendAppSetup, tables
    <3>2. \A n \in Deploys : store'[n] \in {"stored", "quit"} => store'[n] = store[n]
      BY <3>1 DEF Base
    <3> QED
      BY <1>2, <1>3, <2>1, <3>1, <3>2
  <2>5. CASE UNCHANGED <<store, workerTable>>
    BY <1>2, <1>3, <2>1, <2>5
  <2> QED
    BY <1>7, <2>2, <2>3, <2>4, <2>5 DEF SetupMoves, SetupChans, SetupLocalTcp, SetupLoad,
       SetupReferrer, tables
<1>8. CASE OtherStep
  <2>1. UNCHANGED <<appOf, workerTable, quit, worker>>
    BY <1>8, OtherFrame DEF setupVars, tables
  <2>2. \A n \in Deploys : store'[n] \in {"stored", "quit"} => store'[n] = store[n]
    BY <1>8 DEF OtherStep, StartServers, MakeAppSetup, FillAppSetup, EnterLoop, TakeAppSetup,
       FinishAppSetup, TimerStart, StoreSendNil, FeedOpen, FeedRecv, FeedPush, DcpStop, FeedEnd,
       TimerStop, Base
  <2> QED
    BY <1>2, <1>3, <2>1, <2>2
<1> QED
  BY <1>1, <1>4, <1>5, <1>6, <1>7, <1>8, StepKinds

\* A set-up goes no further while its request holds tableLock, and main sets
\* each application of ./apps up once.
LEMMA StartStep ==
    ASSUME Base, CleanInv, Patient, SlowConnect, Next
    PROVE  NotifyInv' /\ BootInv'
<1>1. ASSUME NEW a \in Apps, NEW d \in Deploys, BootApp(a, d) \/ StoreConfig(a, d)
      PROVE  NotifyInv' /\ BootInv'
  <2>1. NotifyInv'
    <3>1. store'[d] \in {"none", "stored"} /\ \A e \in Deploys \ {d} : store'[e] = store[e]
      <4>1. store[d] = "none" /\ DOMAIN store = Deploys
        BY <1>1, NewName DEF Base
      <4>2. store' = store \/ store' = [store EXCEPT ![d] = "stored"]
        BY <1>1 DEF BootApp, StoreConfig
      <4> QED
        BY <4>1, <4>2
    <3>2. \A e \in Deploys \ {d} : setup'[e] = setup[e]
      BY <1>1, NewName
    <3>3. NotifyInv
      BY DEF CleanInv
    <3> QED
      BY <3>1, <3>2, <3>3 DEF NotifyInv
  <2>2. BootInv'
    <3>1. CASE BootApp(a, d)
      <4>1. main = "boot" /\ todo' = todo \ {a} /\ todo \subseteq Apps
        BY <3>1 DEF BootApp, Base
      <4>2. BootInv /\ \A b \in Apps \ {a} : DepsOf(b)' = DepsOf(b)
        BY <1>1, NewName DEF CleanInv
      <4> QED
        BY <4>1, <4>2 DEF BootInv
    <3>2. CASE StoreConfig(a, d)
      BY <3>2 DEF StoreConfig, mainVars, BootInv
    <3> QED
      BY <1>1, <3>1, <3>2
  <2> QED
    BY <2>1, <2>2
<1>2. ASSUME UNCHANGED appOf, main' = "boot" => main = "boot" /\ todo' = todo
      PROVE  BootInv'
  BY <1>2 DEF CleanInv, BootInv, DepsOf
<1>3. ASSUME NEW d \in Deploys, SetupRun(d) \/ WorkerStep(d) \/ StoreSendQuit(d)
      PROVE  NotifyInv' /\ BootInv'
  <2>1. CASE SetupRun(d)
    <3>1. store' = store /\ \A e \in Deploys \ {d} : setup'[e] = setup[e]
      BY <2>1, SetupEnds
    <3>2. store[d] \notin {"notify", "stuck"}
      BY <2>1, SetupEnds DEF CleanInv, NotifyInv
    <3>3. NotifyInv'
      BY <3>1, <3>2 DEF CleanInv, NotifyInv
    <3> QED
      BY <1>2, <2>1, <3>3 DEF SetupRun, mainVars
  <2>2. CASE WorkerStep(d)
    BY <1>2, <2>2, WorkerMoves DEF CleanInv, NotifyInv, setupVars, mainVars
  <2>3. CASE StoreSendQuit(d)
    <3>1. setup[d] = "none"
      BY <2>3 DEF StoreSendQuit, Base, WorkerInv
    <3> QED
      BY <1>2, <2>3, <3>1 DEF StoreSendQuit, CleanInv, NotifyInv, setupVars, mainVars, Base
  <2> QED
    BY <1>3, <2>1, <2>2, <2>3
<1>4. ASSUME NEW d \in Deploys, SetupMoves(d)
      PROVE  NotifyInv' /\ BootInv'
  <2>1. BootInv'
    BY <1>2, <1>4, SetupFrame
  <2>2. /\ \A e \in Deploys \ {d} : setup'[e] = setup[e]
        /\ \A e \in Deploys \ {d} : store'[e] = store[e]
    <3>1. \A e \in Deploys \ {d} : store'[e] = store[e]
      BY <1>4 DEF SetupMoves, StoreLock, StoreSendAppSetup, SetupChans, SetupLocalTcp, SetupLoad,
         SetupPublish, SetupReferrer, Base
    <3> QED
      BY <1>4, <3>1, SetupFrame
  <2>3. ASSUME store'[d] \in {"notify", "stuck"}
        PROVE  setup'[d] \in {"none", "connect"}
    <3>1. CASE StoreLock(d)
      BY <3>1 DEF StoreLock, Base, WorkerInv
    <3>2. CASE StoreSendAppSetup(d)
      BY <2>3, <3>2 DEF StoreSendAppSetup, Base
    <3>3. CASE SetupChans(d)
      <4>1. tableLock = StoreHolds(d) /\ tableLock = Free
        BY <2>3, <3>3 DEF SetupChans, Base, LockInv
      <4> QED
        BY <4>1 DEF StoreHolds, Free
    <3>4. CASE SetupLocalTcp(d) \/ SetupLoad(d) \/ SetupPublish(d) \/ SetupReferrer(d)
      <4>1. store[d] \in {"notify", "stuck"} /\ setup[d] \notin {"none", "connect"}
        BY <2>3, <3>4 DEF SetupLocalTcp, SetupLoad, SetupPublish, SetupReferrer
      <4> QED
        BY <4>1 DEF CleanInv, NotifyInv
    <3> QED
      BY <1>4, <3>1, <3>2, <3>3, <3>4 DEF SetupMoves
  <2> QED
    BY <2>1, <2>2, <2>3 DEF CleanInv, NotifyInv
<1>5. CASE OtherStep
  <2>1. UNCHANGED <<appOf, setup>>
    BY <1>5, OtherFrame DEF setupVars
  <2>2. main' = "boot" => main = "boot" /\ todo' = todo
    BY <1>5 DEF OtherStep, StartServers, MakeAppSetup, FillAppSetup, EnterLoop, TakeAppSetup,
       FinishAppSetup, TimerStart, StoreSendNil, FeedOpen, FeedRecv, FeedPush, DcpStop, FeedEnd,
       TimerStop, mainVars
  <2>3. \A d \in Deploys : store'[d] = store[d] \/ store[d] = "notify"
    BY <1>5 DEF OtherStep, StartServers, MakeAppSetup, FillAppSetup, EnterLoop, TakeAppSetup,
       FinishAppSetup, TimerStart, StoreSendNil, FeedOpen, FeedRecv, FeedPush, DcpStop, FeedEnd,
       TimerStop, Base
  <2> QED
    BY <1>2, <2>1, <2>2, <2>3 DEF CleanInv, NotifyInv
<1> QED
  BY <1>1, <1>3, <1>4, <1>5, StepKinds

\* Every step keeps the invariant of the settled redeploys.
LEMMA CleanStep ==
    ASSUME IInv, CleanInv, Patient, SlowConnect, [Next]_vars
    PROVE  CleanInv'
<1>1. CASE Next
  <2>1. Base
    BY BaseHolds
  <2>2. TurnInv' /\ LeadInv' /\ StoppedInv'
    BY <1>1, <2>1, TurnStep, LeadStep, StoppedStep
  <2>3. TimerInv' /\ QuitInv' /\ GoneInv'
    BY <1>1, <2>1, TimerInvStep, QuitStep, GoneStep
  <2>4. TableInv' /\ StoreInv' /\ NotifyInv' /\ BootInv'
    BY <1>1, <2>1, TableStep, StoreInvStep, StartStep
  <2> QED
    BY <2>2, <2>3, <2>4 DEF CleanInv
<1>2. CASE UNCHANGED vars
  <2>1. /\ UNCHANGED <<main, todo, disk, store, appOf, setup, code>>
        /\ UNCHANGED <<workerTable, referrer, backIndex, appDone>>
        /\ UNCHANGED <<quit, dcpClose, timerClose, feed, timerChan, timer, worker, hChans>>
    BY <1>2 DEF vars, mainVars, setupVars, tables, chans, gorout
  <2>2. /\ \A a \in Apps : DepsOf(a)' = DepsOf(a)
        /\ \A d \in Deploys : Siblings(d)' = Siblings(d) /\ Rising(d)' = Rising(d)
    BY <2>1 DEF Siblings, Rising, DepsOf
  <2>3. TurnInv' /\ LeadInv'
    BY <2>1, <2>2 DEF CleanInv, TurnInv, LeadInv
  <2>4. StoppedInv' /\ TimerInv'
    <3>1. StoppedInv /\ TimerInv
      BY DEF CleanInv
    <3>2. StoppedInv'
      BY <2>1, <3>1 DEF StoppedInv
    <3>3. UNCHANGED <<timerChan, timer, setup>>
      BY <2>1
    <3>4. TimerInv'
      BY <3>1, <3>3 DEF TimerInv
    <3> QED
      BY <3>2, <3>4
  <2>5. QuitInv' /\ GoneInv'
    <3>1. QuitInv /\ GoneInv /\ UNCHANGED <<appOf, worker, quit>>
      BY <2>1 DEF CleanInv
    <3> QED
      BY <3>1 DEF QuitInv, GoneInv, DepsOf
  <2>6. TableInv' /\ StoreInv'
    BY <2>1, <2>2 DEF CleanInv, TableInv, StoreInv
  <2>7. NotifyInv' /\ BootInv'
    BY <2>1 DEF CleanInv, NotifyInv, BootInv, DepsOf
  <2> QED
    BY <2>3, <2>4, <2>5, <2>6, <2>7 DEF CleanInv
<1> QED
  BY <1>1, <1>2

\* With an operator who waits until a redeploy has settled, and set-ups slower
\* than a handler call, a settled application is clean after any number of
\* redeploys: storeAppSetup and runWorker leave one running worker, on the
\* newest file, that every table leads to, and have told everything of the
\* earlier deployments to stop.
THEOREM SettledIsCleanTheorem ==
    ASSUME Patient, SlowConnect
    PROVE  Spec => []SettledIsClean
<1>1. IInv /\ CleanInv /\ [Next]_vars => CleanInv'
  BY CleanStep
<1>2. IInv /\ CleanInv => SettledIsClean
  BY BaseHolds, CleanSettled
<1> QED
  BY <1>1, <1>2, CleanInit, DeploymentInvariant, PTL DEF Spec
=============================================================================
