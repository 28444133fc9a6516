------------------------- MODULE WorkerSetupProofs -------------------------
(***************************************************************************)
(* Proofs about WorkerSetup, for any number of applications, set-ups, rows *)
(* and documents: no query gives a handler part of a result; with set-ups  *)
(* that do not overlap the n1ql object of a worker is connected to its own *)
(* application's bucket, the process survives, and a script finds what it  *)
(* names under the aliases of its own configuration; the list of a worker  *)
(* that is current holds what that worker enqueued; and, however set-ups   *)
(* overlap, every variable keeps its type.                                 *)
(***************************************************************************)
EXTENDS WorkerSetup, FiniteSetTheorems, WellFoundedInduction, TLAPS

\* Most leaves are first-order and need no arithmetic: Zenon goes first.
USE ZenonT(4), SMTT(30), ZenonT(20)

Fields == {"seen", "config", "bucket", "n1ql", "queue", "left", "script", "rc", "exception",
           "globals", "pushed", "query", "answer"}

\* What the invariants need of the shapes of the variables.
Shapes ==
    /\ scene \in Scenes
    /\ DOMAIN file = Apps
    /\ DOMAIN store = Setups
    /\ DOMAIN pc = Setups
    /\ DOMAIN w = Setups
    /\ \A d \in Setups : DOMAIN w[d] = Fields

\* The shapes hold at the start.
LEMMA ShapesInit == Init => Shapes
<1> SUFFICES ASSUME Init
             PROVE  Shapes
  OBVIOUS
<1>1. DOMAIN NewWorker = Fields
  BY DEF NewWorker, Fields
<1>2. /\ scene \in Scenes
      /\ DOMAIN file = Apps /\ DOMAIN store = Setups /\ DOMAIN pc = Setups
      /\ DOMAIN w = Setups /\ \A d \in Setups : w[d] = NewWorker
  BY DEF Init
<1> QED
  BY <1>1, <1>2 DEF Shapes

\* Every step keeps the shapes.
LEMMA ShapesNext == Shapes /\ [Next]_vars => Shapes'
<1> SUFFICES ASSUME Shapes, [Next]_vars
             PROVE  Shapes'
  OBVIOUS
<1> USE DEF Shapes
<1>1. CASE UNCHANGED vars
  BY <1>1 DEF vars
<1>2. ASSUME NEW d \in Setups,
             StoreTruncate(d) \/ StoreWrite(d) \/ StoreStart(d) \/ GetSource(d)
      PROVE  Shapes'
  BY <1>2 DEF StoreTruncate, StoreWrite, StoreStart, GetSource
<1>3. ASSUME NEW d \in Setups, LoadApp(d) \/ ParseDeployment(d)
      PROVE  Shapes'
  BY <1>3 DEF LoadApp, ParseDeployment
<1>4. ASSUME NEW d \in Setups,
             AssignStart(d) \/ AssignEnd(d) \/ QueueUnreachable(d) \/ FinishConstructor(d)
      PROVE  Shapes'
  BY <1>4 DEF AssignStart, AssignEnd, QueueUnreachable, FinishConstructor
<1>5. ASSUME NEW d \in Setups, CreateBuckets(d)
      PROVE  Shapes'
  BY <1>5 DEF CreateBuckets
<1>6. ASSUME NEW d \in Setups, CreateN1QL(d)
      PROVE  Shapes'
  BY <1>6 DEF CreateN1QL
<1>7. ASSUME NEW d \in Setups, CreateQueue(d)
      PROVE  Shapes'
  BY <1>7 DEF CreateQueue
<1>8. ASSUME NEW d \in Setups, LoadFails(d) \/ LoadNoHandlers(d)
      PROVE  Shapes'
  BY <1>8 DEF LoadFails, LoadNoHandlers
<1>9. ASSUME NEW d \in Setups, LoadSucceeds(d)
      PROVE  Shapes'
  BY <1>9 DEF LoadSucceeds
<1>10. ASSUME NEW d \in Setups,
              LoadCrashes(d) \/ Publish(d) \/ CallUnloaded(d) \/ Stop(d)
       PROVE  Shapes'
  BY <1>10 DEF LoadCrashes, Publish, CallUnloaded, Stop
<1>11. ASSUME NEW d \in Setups, StartQuery(d) \/ QueryRow(d)
       PROVE  Shapes'
  BY <1>11 DEF StartQuery, QueryRow
<1>12. ASSUME NEW d \in Setups, NEW alias, QueueGetCall(d, alias)
       PROVE  Shapes'
  BY <1>12 DEF QueueGetCall
<1>13. ASSUME NEW d \in Setups, NEW ok \in BOOLEAN, QueryFinal(d, ok)
       PROVE  Shapes'
  BY <1>13 DEF QueryFinal
<1> QED
  BY <1>1, <1>2, <1>3, <1>4, <1>5, <1>6, <1>7, <1>8, <1>9, <1>10, <1>11, <1>12, <1>13
  DEF Next

-----------------------------------------------------------------------------
(* Queries.                                                                *)

\* A query under way has its number of rows, and QueryAllOrNothing.
QueryInv ==
    /\ \A d \in Setups : w[d].query # Nothing =>
          /\ DOMAIN w[d].query = {"total", "rows"}
          /\ w[d].query.total \in Nat /\ w[d].query.rows \in Nat
    /\ QueryAllOrNothing

\* Only the three actions of a query touch what QueryInv is about.
LEMMA QueryKept ==
  ASSUME QueryInv,
         \A e \in Setups : w'[e].query = w[e].query /\ w'[e].answer = w[e].answer
  PROVE  QueryInv'
  BY DEF QueryInv, QueryAllOrNothing

\* Every step keeps QueryInv.
LEMMA QueryNext == Shapes /\ QueryInv /\ [Next]_vars => QueryInv'
<1> SUFFICES ASSUME Shapes, QueryInv, [Next]_vars
             PROVE  QueryInv'
  OBVIOUS
<1> USE DEF Shapes, Fields
<1>1. CASE UNCHANGED w
  BY <1>1, QueryKept
<1>2. ASSUME NEW d \in Setups, LoadApp(d) \/ ParseDeployment(d)
      PROVE  QueryInv'
  BY <1>2, QueryKept DEF LoadApp, ParseDeployment
<1>3. ASSUME NEW d \in Setups, CreateBuckets(d)
      PROVE  QueryInv'
  BY <1>3, QueryKept DEF CreateBuckets
<1>4. ASSUME NEW d \in Setups, CreateN1QL(d)
      PROVE  QueryInv'
  <2>1. PICK b, l : w' = [w EXCEPT ![d].n1ql = b, ![d].left = l]
    BY <1>4 DEF CreateN1QL
  <2> QED
    BY <2>1, QueryKept
<1>5. ASSUME NEW d \in Setups, CreateQueue(d)
      PROVE  QueryInv'
  BY <1>5, QueryKept DEF CreateQueue
<1>6. ASSUME NEW d \in Setups, LoadFails(d) \/ LoadNoHandlers(d)
      PROVE  QueryInv'
  BY <1>6, QueryKept DEF LoadFails, LoadNoHandlers
<1>7. ASSUME NEW d \in Setups, LoadSucceeds(d)
      PROVE  QueryInv'
  BY <1>7, QueryKept DEF LoadSucceeds
<1>8. ASSUME NEW d \in Setups, NEW alias, QueueGetCall(d, alias)
      PROVE  QueryInv'
  BY <1>8, QueryKept DEF QueueGetCall
<1>9. ASSUME NEW d \in Setups, StartQuery(d)
      PROVE  QueryInv'
  <2>1. PICK n \in 0..MaxRows : w' = [w EXCEPT ![d].query = [total |-> n, rows |-> 0]]
    BY <1>9 DEF StartQuery
  <2>2. n \in Nat
    BY SetupAssumption
  <2>3. /\ w'[d].query = [total |-> n, rows |-> 0] /\ w'[d].answer = w[d].answer
        /\ \A e \in Setups : e # d => w'[e] = w[e]
    BY <2>1
  <2> QED
    BY <2>2, <2>3 DEF QueryInv, QueryAllOrNothing
<1>10. ASSUME NEW d \in Setups, QueryRow(d)
       PROVE  QueryInv'
  <2>1. /\ w[d].query # Nothing
        /\ w' = [w EXCEPT ![d].query.rows = @ + 1]
    BY <1>10 DEF QueryRow
  <2>2. /\ DOMAIN w[d].query = {"total", "rows"}
        /\ w[d].query.total \in Nat /\ w[d].query.rows \in Nat
    BY <2>1 DEF QueryInv
  <2>3. /\ w'[d].query = [w[d].query EXCEPT !.rows = @ + 1] /\ w'[d].answer = w[d].answer
        /\ \A e \in Setups : e # d => w'[e] = w[e]
    BY <2>1
  <2>4. /\ DOMAIN w'[d].query = {"total", "rows"}
        /\ w'[d].query.total \in Nat /\ w'[d].query.rows \in Nat
    BY <2>2, <2>3
  <2> QED
    BY <2>3, <2>4 DEF QueryInv, QueryAllOrNothing
<1>11. ASSUME NEW d \in Setups, NEW ok \in BOOLEAN, QueryFinal(d, ok)
       PROVE  QueryInv'
  <2> DEFINE answer == [array |-> ResultArray(w[d].query.rows, ok), total |-> w[d].query.total]
  <2>1. /\ ok => w[d].query.rows = w[d].query.total
        /\ w' = [w EXCEPT ![d].query = Nothing, ![d].answer = answer]
    BY <1>11 DEF QueryFinal
  <2>2. answer.array.elements \in {{}, 1..answer.total}
    BY <2>1 DEF ResultArray
  <2> HIDE DEF answer
  <2>3. /\ w'[d].query = Nothing /\ w'[d].answer = answer
        /\ \A e \in Setups : e # d => w'[e] = w[e]
    BY <2>1
  <2> QED
    BY <2>2, <2>3 DEF QueryInv, QueryAllOrNothing
<1> QED
  BY <1>1, <1>2, <1>3, <1>4, <1>5, <1>6, <1>7, <1>8, <1>9, <1>10, <1>11
  DEF Next, vars, StoreTruncate, StoreWrite, StoreStart, GetSource, AssignStart, AssignEnd,
      QueueUnreachable, FinishConstructor, LoadCrashes, Publish, CallUnloaded, Stop

\* However many rows come and wherever the stream of rows fails, an array that
\* N1QLEnumGetCall fills holds the whole result.
THEOREM QueryTheorem == Spec => []QueryAllOrNothing
<1>1. Init => QueryInv
  <2> SUFFICES ASSUME Init
               PROVE  QueryInv
    OBVIOUS
  <2>1. \A d \in Setups : w[d].query = Nothing /\ w[d].answer = Nothing
    BY DEF Init, NewWorker
  <2> QED
    BY <2>1 DEF QueryInv, QueryAllOrNothing
<1>2. QueryInv => QueryAllOrNothing
  BY DEF QueryInv
<1> QED
  BY <1>1, <1>2, ShapesInit, ShapesNext, QueryNext, PTL DEF Spec

-----------------------------------------------------------------------------
(* The bucket of the n1ql object.                                          *)

\* From the file to the handle, the name of the source bucket of the set-up e is
\* in one place after the other.
Carried(e) ==
    /\ store[e] \in {"new", "truncated", "written"} => pc[e] = "idle"
    /\ store[e] = "written" => file[App(e)] = scene.stored[e]
    /\ pc[e] \in {"start", "load", "construct"} => file[App(e)] = scene.stored[e]
    /\ pc[e] \in {"assign", "assigning"} => w[e].config = scene.stored[e]
    /\ pc[e] \in {"buckets", "n1ql", "n1ql again"} => clusterBucket = scene.stored[e].source
    /\ pc[e] \in {"queues", "built", "loaded", "running", "stopped"} =>
           w[e].n1ql = scene.stored[e].source

\* If set-ups do not overlap, one at a time is on its way.
CarriedInv ==
    scene.waits =>
        /\ \A d, e \in Setups : ~ Settled(d) /\ ~ Settled(e) => d = e
        /\ \A e \in Setups : Carried(e)

\* The set-up d, the only one on its way or the first to be, takes a step: the
\* others stay as they are, and are settled.
LEMMA CarriedStep ==
  ASSUME Shapes, CarriedInv, NEW d \in Setups, scene' = scene,
         scene.waits => ~ Settled(d) \/ \A e \in Setups : Settled(e),
         \A e \in Setups \ {d} : /\ store'[e] = store[e] /\ pc'[e] = pc[e]
                                 /\ w'[e].config = w[e].config /\ w'[e].n1ql = w[e].n1ql,
         scene.waits => Carried(d)'
  PROVE  CarriedInv'
<1> SUFFICES ASSUME scene.waits
             PROVE  /\ \A c, e \in Setups : ~ Settled(c)' /\ ~ Settled(e)' => c = e
                    /\ \A e \in Setups : Carried(e)'
  BY DEF CarriedInv
<1>1. \A e \in Setups \ {d} : Settled(e) /\ Carried(e)
  BY DEF CarriedInv
<1>2. \A e \in Setups \ {d} : Settled(e)'
  BY <1>1 DEF Settled
<1>3. ASSUME NEW e \in Setups \ {d}
      PROVE  Carried(e)'
  <2>1. /\ pc[e] \in {"idle", "running", "stopped"} /\ store[e] \in {"new", "done"}
        /\ store'[e] = store[e] /\ pc'[e] = pc[e] /\ w'[e].n1ql = w[e].n1ql
    BY <1>1 DEF Settled
  <2> QED
    BY <1>1, <2>1 DEF Carried
<1> QED
  BY <1>2, <1>3

\* Storing the application, and reading its file.
LEMMA CarriedStore ==
  ASSUME Shapes, CarriedInv, NEW d \in Setups,
         \/ StoreTruncate(d) \/ StoreWrite(d) \/ StoreStart(d)
         \/ GetSource(d) \/ LoadApp(d) \/ ParseDeployment(d)
  PROVE  CarriedInv'
<1> USE DEF Shapes, Fields
<1>0. App(d) \in Apps /\ App(d) = scene.app[d]
  BY SetupAssumption DEF App
<1>c. scene.waits => Carried(d)
  BY DEF CarriedInv
<1>1. CASE StoreTruncate(d)
  <2>1. /\ store[d] = "new"
        /\ scene.waits => \A e \in Setups : Settled(e)
        /\ store' = [store EXCEPT ![d] = "truncated"] /\ UNCHANGED <<scene, pc, w>>
    BY <1>1 DEF StoreTruncate
  <2>2. scene.waits => Carried(d)'
    BY <1>1, <1>c DEF StoreTruncate, Carried
  <2> QED
    BY <2>1, <2>2, CarriedStep
<1>2. CASE StoreWrite(d)
  <2>1. /\ store[d] = "truncated" /\ file'[App(d)] = scene.stored[d]
        /\ store' = [store EXCEPT ![d] = "written"] /\ UNCHANGED <<scene, pc, w>>
    BY <1>0, <1>2 DEF StoreWrite
  <2>2. scene.waits => Carried(d)'
    BY <2>1, <1>c DEF Carried, App
  <2>3. ~ Settled(d)
    BY <2>1 DEF Settled
  <2> QED
    BY <2>1, <2>2, <2>3, CarriedStep
<1>3. CASE StoreStart(d)
  <2>1. /\ store[d] = "written" /\ pc' = [pc EXCEPT ![d] = "start"]
        /\ store' = [store EXCEPT ![d] = "done"] /\ UNCHANGED <<scene, file, w>>
    BY <1>3 DEF StoreStart
  <2>2. scene.waits => Carried(d)'
    BY <2>1, <1>c DEF Carried, App
  <2>3. ~ Settled(d)
    BY <2>1 DEF Settled
  <2> QED
    BY <2>1, <2>2, <2>3, CarriedStep
<1>4. CASE GetSource(d)
  <2>1. /\ pc[d] = "start" /\ pc' = [pc EXCEPT ![d] = "load"]
        /\ UNCHANGED <<scene, store, file, w>>
    BY <1>4 DEF GetSource
  <2>2. scene.waits => Carried(d)'
    BY <2>1, <1>c DEF Carried, App
  <2>3. ~ Settled(d)
    BY <2>1 DEF Settled
  <2> QED
    BY <2>1, <2>2, <2>3, CarriedStep
<1>5. CASE LoadApp(d)
  <2>1. /\ pc[d] = "load" /\ pc' = [pc EXCEPT ![d] = "construct"]
        /\ UNCHANGED <<scene, store, file>>
        /\ \A e \in Setups : w'[e].config = w[e].config /\ w'[e].n1ql = w[e].n1ql
    BY <1>5 DEF LoadApp
  <2>2. scene.waits => Carried(d)'
    BY <2>1, <1>c DEF Carried, App
  <2>3. ~ Settled(d)
    BY <2>1 DEF Settled
  <2> QED
    BY <2>1, <2>2, <2>3, CarriedStep
<1>6. CASE ParseDeployment(d)
  <2>1. /\ pc[d] = "construct" /\ pc' = [pc EXCEPT ![d] = "assign"]
        /\ UNCHANGED <<scene, store, file>>
        /\ w'[d].config = file[App(d)]
        /\ \A e \in Setups \ {d} : w'[e] = w[e]
    BY <1>6 DEF ParseDeployment
  <2>2. scene.waits => Carried(d)'
    BY <2>1, <1>c DEF Carried, App
  <2>3. ~ Settled(d)
    BY <2>1 DEF Settled
  <2> QED
    BY <2>1, <2>2, <2>3, CarriedStep
<1> QED
  BY <1>1, <1>2, <1>3, <1>4, <1>5, <1>6

\* The constructor, from the assignment of the global to the handles.
LEMMA CarriedConstruct ==
  ASSUME Shapes, CarriedInv, NEW d \in Setups,
         \/ AssignStart(d) \/ AssignEnd(d) \/ CreateBuckets(d) \/ CreateN1QL(d)
         \/ CreateQueue(d) \/ FinishConstructor(d)
  PROVE  CarriedInv'
<1> USE DEF Shapes, Fields
<1>c. scene.waits => Carried(d)
  BY DEF CarriedInv
<1>a. scene.waits /\ ~ Settled(d) => ~ Assigning(d)
  <2>1. \A e \in Setups : pc[e] = "assigning" => ~ Settled(e)
    BY DEF Settled
  <2> QED
    BY <2>1 DEF Assigning, CarriedInv
<1>1. CASE AssignStart(d)
  <2>1. /\ pc[d] = "assign" /\ pc' = [pc EXCEPT ![d] = "assigning"]
        /\ UNCHANGED <<scene, store, w>>
    BY <1>1 DEF AssignStart
  <2>2. scene.waits => Carried(d)'
    BY <2>1, <1>c DEF Carried
  <2>3. ~ Settled(d)
    BY <2>1 DEF Settled
  <2> QED
    BY <2>1, <2>2, <2>3, CarriedStep
<1>2. CASE AssignEnd(d)
  <2>1. /\ pc[d] = "assigning" /\ pc' = [pc EXCEPT ![d] = "buckets"]
        /\ UNCHANGED <<scene, store, w>>
        /\ ~ Assigning(d) => clusterBucket' = w[d].config.source
    BY <1>2 DEF AssignEnd
  <2>3. ~ Settled(d)
    BY <2>1 DEF Settled
  <2>2. scene.waits => Carried(d)'
    BY <2>1, <2>3, <1>c, <1>a DEF Carried
  <2> QED
    BY <2>1, <2>2, <2>3, CarriedStep
<1>3. CASE CreateBuckets(d)
  <2>1. /\ pc[d] = "buckets" /\ pc' = [pc EXCEPT ![d] = "n1ql"]
        /\ UNCHANGED <<scene, store, clusterBucket>>
        /\ \A e \in Setups : w'[e].config = w[e].config /\ w'[e].n1ql = w[e].n1ql
    BY <1>3 DEF CreateBuckets
  <2>2. scene.waits => Carried(d)'
    BY <2>1, <1>c DEF Carried
  <2>3. ~ Settled(d)
    BY <2>1 DEF Settled
  <2> QED
    BY <2>1, <2>2, <2>3, CarriedStep
<1>4. CASE CreateN1QL(d)
  <2>1. /\ pc[d] \in {"n1ql", "n1ql again"}
        /\ pc' = [pc EXCEPT ![d] = IF @ = "n1ql" THEN "n1ql again" ELSE "queues"]
        /\ UNCHANGED <<scene, store, clusterBucket>>
    BY <1>4 DEF CreateN1QL
  <2>2. PICK b \in {clusterBucket} \cup (IF Assigning(d) THEN {Torn} ELSE {}) :
            w' = [w EXCEPT ![d].n1ql = b, ![d].left = DOMAIN QueuesInfo(w[d].config)]
    BY <1>4 DEF CreateN1QL
  <2>3. /\ ~ Assigning(d) => b = clusterBucket
        /\ \A e \in Setups \ {d} : w'[e] = w[e]
    BY <2>2
  <2>4. w'[d].n1ql = b
    BY <2>2
  <2>5. ~ Settled(d)
    BY <2>1 DEF Settled
  <2>6. scene.waits => Carried(d)'
    BY <2>1, <2>3, <2>4, <2>5, <1>c, <1>a DEF Carried
  <2> QED
    BY <2>1, <2>3, <2>5, <2>6, CarriedStep
<1>5. CASE CreateQueue(d)
  <2>1. /\ pc[d] = "queues"
        /\ UNCHANGED <<scene, store, pc>>
        /\ \A e \in Setups : w'[e].config = w[e].config /\ w'[e].n1ql = w[e].n1ql
    BY <1>5 DEF CreateQueue
  <2>2. scene.waits => Carried(d)'
    BY <2>1, <1>c DEF Carried
  <2>3. ~ Settled(d)
    BY <2>1 DEF Settled
  <2> QED
    BY <2>1, <2>2, <2>3, CarriedStep
<1>6. CASE FinishConstructor(d)
  <2>1. /\ pc[d] = "queues" /\ pc' = [pc EXCEPT ![d] = "built"]
        /\ UNCHANGED <<scene, store, w>>
    BY <1>6 DEF FinishConstructor
  <2>2. scene.waits => Carried(d)'
    BY <2>1, <1>c DEF Carried
  <2>3. ~ Settled(d)
    BY <2>1 DEF Settled
  <2> QED
    BY <2>1, <2>2, <2>3, CarriedStep
<1> QED
  BY <1>1, <1>2, <1>3, <1>4, <1>5, <1>6

\* The load of the script, and the worker at work: the handle stays.
LEMMA CarriedRun ==
  ASSUME Shapes, CarriedInv, NEW d \in Setups,
         UNCHANGED <<scene, file, store, clusterBucket>>,
         pc[d] \in {"built", "loaded", "running"},
         \E q \in {"loaded", "running", "stopped"} : pc' = [pc EXCEPT ![d] = q],
         pc[d] = "running" => pc'[d] # "loaded",
         \A e \in Setups : w'[e].config = w[e].config /\ w'[e].n1ql = w[e].n1ql
  PROVE  CarriedInv'
<1> USE DEF Shapes
<1>1. CASE pc[d] # "running"
  <2>1. ~ Settled(d)
    BY <1>1 DEF Settled
  <2>2. scene.waits => Carried(d)
    BY DEF CarriedInv
  <2>3. scene.waits => Carried(d)'
    BY <2>2 DEF Carried
  <2> QED
    BY <2>1, <2>3, CarriedStep
<1>2. CASE pc[d] = "running"
  <2> SUFFICES ASSUME scene.waits
               PROVE  /\ \A c, e \in Setups : ~ Settled(c)' /\ ~ Settled(e)' => c = e
                      /\ \A e \in Setups : Carried(e)'
    BY DEF CarriedInv
  <2>1. Carried(d)
    BY DEF CarriedInv
  <2>2. pc'[d] \in {"running", "stopped"} /\ store[d] \notin {"new", "truncated", "written"}
    BY <1>2, <2>1 DEF Carried
  <2>3. Carried(d)'
    BY <1>2, <2>1, <2>2 DEF Carried
  <2>4. \A e \in Setups : Settled(e) => Settled(e)'
    BY <1>2, <2>2 DEF Settled
  <2>5. ASSUME NEW e \in Setups, e # d
        PROVE  Carried(e)'
    <3>1. Carried(e) /\ pc'[e] = pc[e]
      BY <2>5 DEF CarriedInv
    <3> QED
      BY <3>1 DEF Carried, App
  <2> QED
    BY <2>3, <2>4, <2>5 DEF CarriedInv
<1> QED
  BY <1>1, <1>2

\* What else a worker does is no matter of CarriedInv.
LEMMA CarriedKept ==
  ASSUME CarriedInv, UNCHANGED <<scene, file, store, pc, clusterBucket>>,
         \A e \in Setups : w'[e].config = w[e].config /\ w'[e].n1ql = w[e].n1ql
  PROVE  CarriedInv'
<1>1. \A e \in Setups : Settled(e)' = Settled(e)
  BY DEF Settled
<1>2. ASSUME NEW e \in Setups, Carried(e)
      PROVE  Carried(e)'
  BY <1>2 DEF Carried, App
<1> QED
  BY <1>1, <1>2 DEF CarriedInv

\* Every step keeps CarriedInv.
LEMMA CarriedNext == Shapes /\ CarriedInv /\ [Next]_vars => CarriedInv'
<1> SUFFICES ASSUME Shapes, CarriedInv, [Next]_vars
             PROVE  CarriedInv'
  OBVIOUS
<1> USE DEF Shapes, Fields
<1>1. CASE UNCHANGED <<scene, file, store, pc, w, clusterBucket>>
  BY <1>1, CarriedKept
<1>2. ASSUME NEW d \in Setups, LoadFails(d) \/ LoadNoHandlers(d)
      PROVE  CarriedInv'
  <2>1. /\ pc[d] = "built" /\ pc' = [pc EXCEPT ![d] = "loaded"]
        /\ UNCHANGED <<scene, file, store, clusterBucket>>
        /\ \A e \in Setups : w'[e].config = w[e].config /\ w'[e].n1ql = w[e].n1ql
    BY <1>2 DEF LoadFails, LoadNoHandlers
  <2> QED
    BY <2>1, CarriedRun
<1>3. ASSUME NEW d \in Setups, LoadSucceeds(d)
      PROVE  CarriedInv'
  <2>1. /\ pc[d] = "built" /\ pc' = [pc EXCEPT ![d] = "loaded"]
        /\ UNCHANGED <<scene, file, store, clusterBucket>>
        /\ \A e \in Setups : w'[e].config = w[e].config /\ w'[e].n1ql = w[e].n1ql
    BY <1>3 DEF LoadSucceeds
  <2> QED
    BY <2>1, CarriedRun
<1>4. ASSUME NEW d \in Setups, Publish(d) \/ Stop(d)
      PROVE  CarriedInv'
  <2>1. /\ pc[d] \in {"loaded", "running"}
        /\ \E q \in {"running", "stopped"} : pc' = [pc EXCEPT ![d] = q]
        /\ UNCHANGED <<scene, file, store, clusterBucket, w>>
    BY <1>4 DEF Publish, Stop, Handles
  <2>2. pc'[d] # "loaded"
    BY <2>1
  <2> QED
    BY <2>1, <2>2, CarriedRun
<1>5. ASSUME NEW d \in Setups, StartQuery(d)
      PROVE  CarriedInv'
  <2>1. /\ UNCHANGED <<scene, file, store, pc, clusterBucket>>
        /\ \E q : w' = [w EXCEPT ![d].query = q]
    BY <1>5 DEF StartQuery
  <2>2. \A e \in Setups : w'[e].config = w[e].config /\ w'[e].n1ql = w[e].n1ql
    BY <2>1
  <2> QED
    BY <2>1, <2>2, CarriedKept
<1>6. ASSUME NEW d \in Setups, QueryRow(d)
      PROVE  CarriedInv'
  <2>1. /\ UNCHANGED <<scene, file, store, pc, clusterBucket>>
        /\ \A e \in Setups : w'[e].config = w[e].config /\ w'[e].n1ql = w[e].n1ql
    BY <1>6 DEF QueryRow
  <2> QED
    BY <2>1, CarriedKept
<1>7. ASSUME NEW d \in Setups, NEW ok \in BOOLEAN, QueryFinal(d, ok)
      PROVE  CarriedInv'
  <2>1. /\ UNCHANGED <<scene, file, store, pc, clusterBucket>>
        /\ \A e \in Setups : w'[e].config = w[e].config /\ w'[e].n1ql = w[e].n1ql
    BY <1>7 DEF QueryFinal
  <2> QED
    BY <2>1, CarriedKept
<1>8. ASSUME NEW d \in Setups, NEW alias, QueueGetCall(d, alias)
      PROVE  CarriedInv'
  <2>1. /\ UNCHANGED <<scene, file, store, pc, clusterBucket>>
        /\ \A e \in Setups : w'[e].config = w[e].config /\ w'[e].n1ql = w[e].n1ql
    BY <1>8 DEF QueueGetCall
  <2> QED
    BY <2>1, CarriedKept
<1>9. ASSUME NEW d \in Setups, QueueUnreachable(d) \/ LoadCrashes(d) \/ CallUnloaded(d)
      PROVE  CarriedInv'
  BY <1>1, <1>9 DEF QueueUnreachable, LoadCrashes, CallUnloaded
<1> QED
  BY <1>1, <1>2, <1>3, <1>4, <1>5, <1>6, <1>7, <1>8, <1>9, CarriedStore, CarriedConstruct
  DEF Next, vars

\* If set-ups do not overlap, the n1ql object of every worker is connected to the
\* source bucket that the file of its own application names, although every
\* constructor passes the name on through the global cb_cluster_bucket.
THEOREM N1QLTheorem == Spec => []N1QLOwnBucket
<1>1. Init => CarriedInv
  BY DEF Init, CarriedInv, Carried, Settled
<1>2. CarriedInv => N1QLOwnBucket
  BY DEF CarriedInv, Carried, N1QLOwnBucket, Loaded
<1> QED
  BY <1>1, <1>2, ShapesInit, ShapesNext, CarriedNext, PTL DEF Spec

-----------------------------------------------------------------------------
(* What a set-up reads is what was stored for it, and what it builds is what *)
(* its configuration asks for.                                             *)

Step(d) ==
    \/ StoreTruncate(d) \/ StoreWrite(d) \/ StoreStart(d)
    \/ GetSource(d) \/ LoadApp(d) \/ ParseDeployment(d)
    \/ AssignStart(d) \/ AssignEnd(d)
    \/ CreateBuckets(d) \/ CreateN1QL(d) \/ CreateQueue(d) \/ QueueUnreachable(d)
    \/ FinishConstructor(d)
    \/ LoadFails(d) \/ LoadNoHandlers(d) \/ LoadCrashes(d) \/ LoadSucceeds(d)
    \/ Publish(d)
    \/ CallUnloaded(d) \/ StartQuery(d) \/ QueryRow(d) \/ Stop(d)
    \/ \E alias \in DOMAIN w[d].globals : QueueGetCall(d, alias)
    \/ \E ok \in BOOLEAN : QueryFinal(d, ok)

\* A step is a step of one set-up, which leaves those of the others alone.
LEMMA Others ==
  ASSUME Shapes, NEW d \in Setups, Step(d)
  PROVE  /\ scene' = scene
         /\ \A e \in Setups \ {d} : w'[e] = w[e] /\ pc'[e] = pc[e] /\ store'[e] = store[e]
<1> USE DEF Shapes
<1>1. CASE StoreTruncate(d) \/ StoreWrite(d) \/ StoreStart(d) \/ GetSource(d)
  BY <1>1 DEF StoreTruncate, StoreWrite, StoreStart, GetSource
<1>2. CASE LoadApp(d) \/ ParseDeployment(d)
  BY <1>2 DEF LoadApp, ParseDeployment
<1>3. CASE AssignStart(d) \/ AssignEnd(d) \/ QueueUnreachable(d) \/ FinishConstructor(d)
  BY <1>3 DEF AssignStart, AssignEnd, QueueUnreachable, FinishConstructor
<1>4. CASE CreateBuckets(d)
  BY <1>4 DEF CreateBuckets
<1>5. CASE CreateN1QL(d)
  BY <1>5 DEF CreateN1QL
<1>6. CASE CreateQueue(d)
  BY <1>6 DEF CreateQueue
<1>7. CASE LoadFails(d) \/ LoadNoHandlers(d)
  BY <1>7 DEF LoadFails, LoadNoHandlers
<1>8. CASE LoadSucceeds(d)
  BY <1>8 DEF LoadSucceeds
<1>9. CASE LoadCrashes(d) \/ Publish(d) \/ CallUnloaded(d) \/ Stop(d)
  BY <1>9 DEF LoadCrashes, Publish, CallUnloaded, Stop
<1>10. CASE StartQuery(d) \/ QueryRow(d)
  BY <1>10 DEF StartQuery, QueryRow
<1>11. ASSUME NEW alias, QueueGetCall(d, alias)
       PROVE  /\ scene' = scene
              /\ \A e \in Setups \ {d} : w'[e] = w[e] /\ pc'[e] = pc[e] /\ store'[e] = store[e]
  BY <1>11 DEF QueueGetCall
<1>12. ASSUME NEW ok \in BOOLEAN, QueryFinal(d, ok)
       PROVE  /\ scene' = scene
              /\ \A e \in Setups \ {d} : w'[e] = w[e] /\ pc'[e] = pc[e] /\ store'[e] = store[e]
  BY <1>12 DEF QueryFinal
<1> QED
  BY <1>1, <1>2, <1>3, <1>4, <1>5, <1>6, <1>7, <1>8, <1>9, <1>10, <1>11, <1>12 DEF Step

\* Where a set-up is when it has executed the script, built the worker, made the
\* buckets, parsed the configuration, read the application.
Executed == {"loaded", "running", "stopped"}
Built == {"built"} \cup Executed
Bucketed == {"n1ql", "n1ql again", "queues"} \cup Built
Parsed == {"assign", "assigning", "buckets"} \cup Bucketed
Seen == {"construct"} \cup Parsed

Config(e) == scene.stored[e]

\* What a set-up has read is what was stored for it.
Read(e) ==
    /\ store[e] # "new" => e \in scene.setups
    /\ pc[e] # "idle" => store[e] # "new"
    /\ pc[e] \in Seen => w[e].seen = Config(e)
    /\ pc[e] \in Parsed => w[e].config = Config(e)

Installed(e) == InstallQueue(e, InstallN1QL(e, InstallBucket(e, <<>>)))

\* With one bucket, one queue and a script that loads, the handles are set when
\* the aliases are installed.
Ready(e) ==
    /\ w[e].rc = SUCCESS => pc[e] \in Executed /\ w[e].globals = Installed(e)
    /\ w[e].rc # SUCCESS => w[e].globals = <<>>
    /\ Sound(Config(e)) =>
          /\ pc[e] \in Bucketed => w[e].bucket = Config(e).buckets[1]
          /\ pc[e] = "queues" => \/ w[e].left = {Config(e).queues[1].provider}
                                 \/ w[e].left = {} /\ w[e].queue = Config(e).queues[1]
          /\ pc[e] \in Built => w[e].queue = Config(e).queues[1]
          /\ pc[e] \in Executed => w[e].rc = SUCCESS

WorkerInv == scene.waits => \A e \in Setups : Read(e) /\ Ready(e)

\* The maps of ParseDeployment for a configuration with one bucket and one queue.
Singles(c) ==
    /\ c.buckets[1] # Uninit /\ c.queues[1] # Uninit
    /\ DOMAIN BucketsInfo(c) = {c.buckets[1].alias}
    /\ BucketsInfo(c)[Max(DOMAIN BucketsInfo(c))] = c.buckets[1]
    /\ DOMAIN QueuesInfo(c) = {c.queues[1].provider}
    /\ Min({c.queues[1].provider}) = c.queues[1].provider
    /\ QueuesInfo(c)[c.queues[1].provider] = c.queues[1]

\* The maps hold the one bucket and the one queue.
LEMMA SoundInfo ==
  ASSUME NEW c, Complete(c), Sound(c)
  PROVE  Singles(c)
<1>0. \A n \in Int : Max({n}) = n /\ Min({n}) = n
  BY DEF Max, Min
<1>1. DOMAIN c.buckets = {1} /\ DOMAIN c.queues = {1}
  <2>1. c.buckets \in Seq({c.buckets[i] : i \in DOMAIN c.buckets}) /\ Len(c.buckets) = 1
    BY DEF Sound, Complete
  <2>2. c.queues \in Seq({c.queues[i] : i \in DOMAIN c.queues}) /\ Len(c.queues) = 1
    BY DEF Sound, Complete
  <2>3. DOMAIN c.buckets = 1..1 /\ DOMAIN c.queues = 1..1
    BY <2>1, <2>2
  <2> QED
    BY <2>3
<1>2. /\ c.buckets[1] # Uninit /\ c.buckets[1].alias \in Int
      /\ c.queues[1] # Uninit /\ c.queues[1].provider \in Int
  BY <1>1 DEF Complete
<1>3. {c.buckets[i].alias : i \in DOMAIN c.buckets} = {c.buckets[1].alias}
  BY <1>1
<1>4. {c.queues[i].provider : i \in DOMAIN c.queues} = {c.queues[1].provider}
  BY <1>1
<1>5. {i \in DOMAIN c.buckets : c.buckets[i].alias = c.buckets[1].alias} = {1}
  BY <1>1
<1>6. {i \in DOMAIN c.queues : c.queues[i].provider = c.queues[1].provider} = {1}
  BY <1>1
<1>7. Max({1}) = 1
  BY <1>0
<1>8. /\ DOMAIN BucketsInfo(c) = {c.buckets[1].alias}
      /\ BucketsInfo(c)[c.buckets[1].alias] = c.buckets[1]
  BY <1>3, <1>5, <1>7 DEF BucketsInfo, LastAt
<1>9. /\ DOMAIN QueuesInfo(c) = {c.queues[1].provider}
      /\ QueuesInfo(c)[c.queues[1].provider] = c.queues[1]
  BY <1>4, <1>6, <1>7 DEF QueuesInfo, LastAt
<1> QED
  BY <1>0, <1>2, <1>8, <1>9 DEF Singles

\* After ParseDeployment a set-up, and its worker, keeps what was read.
LEMMA ReadKept ==
  ASSUME Shapes, NEW d \in Setups, Step(d),
         ~ (StoreTruncate(d) \/ StoreWrite(d) \/ StoreStart(d)),
         ~ (GetSource(d) \/ LoadApp(d) \/ ParseDeployment(d))
  PROVE  /\ w'[d].seen = w[d].seen /\ w'[d].config = w[d].config /\ store' = store
         /\ pc' = pc \/ pc[d] \in Parsed
<1> USE DEF Shapes, Fields, Parsed, Bucketed, Built, Executed
<1>1. CASE AssignStart(d) \/ AssignEnd(d) \/ QueueUnreachable(d) \/ FinishConstructor(d)
  BY <1>1 DEF AssignStart, AssignEnd, QueueUnreachable, FinishConstructor
<1>2. CASE CreateBuckets(d)
  BY <1>2 DEF CreateBuckets
<1>3. CASE CreateN1QL(d)
  <2>1. PICK b, l : w' = [w EXCEPT ![d].n1ql = b, ![d].left = l]
    BY <1>3 DEF CreateN1QL
  <2> QED
    BY <1>3, <2>1 DEF CreateN1QL
<1>4. CASE CreateQueue(d)
  BY <1>4 DEF CreateQueue
<1>5. CASE LoadFails(d) \/ LoadNoHandlers(d)
  <2>1. CASE LoadFails(d)
    BY <2>1 DEF LoadFails
  <2>2. CASE LoadNoHandlers(d)
    BY <2>2 DEF LoadNoHandlers
  <2> QED
    BY <1>5, <2>1, <2>2
<1>6. CASE LoadSucceeds(d)
  BY <1>6 DEF LoadSucceeds
<1>7. CASE LoadCrashes(d) \/ Publish(d) \/ CallUnloaded(d) \/ Stop(d)
  BY <1>7 DEF LoadCrashes, Publish, CallUnloaded, Stop, Handles
<1>8. CASE StartQuery(d) \/ QueryRow(d)
  BY <1>8 DEF StartQuery, QueryRow
<1>9. ASSUME NEW alias, QueueGetCall(d, alias)
      PROVE  /\ w'[d].seen = w[d].seen /\ w'[d].config = w[d].config /\ store' = store
             /\ pc' = pc
  BY <1>9 DEF QueueGetCall
<1>10. ASSUME NEW ok \in BOOLEAN, QueryFinal(d, ok)
       PROVE  /\ w'[d].seen = w[d].seen /\ w'[d].config = w[d].config /\ store' = store
              /\ pc' = pc
  BY <1>10 DEF QueryFinal
<1> QED
  BY <1>1, <1>2, <1>3, <1>4, <1>5, <1>6, <1>7, <1>8, <1>9, <1>10 DEF Step

\* A set-up reads what was stored for it: nothing else is written to its file
\* while it is on its way.
LEMMA ReadStep ==
  ASSUME Shapes, CarriedInv, scene.waits, NEW d \in Setups, Read(d), Step(d)
  PROVE  Read(d)'
<1> USE DEF Shapes, Fields
<1>0. Carried(d) /\ App(d) \in Apps
  BY SetupAssumption DEF CarriedInv, App
<1>1. CASE StoreTruncate(d) \/ StoreWrite(d)
  <2>1. /\ UNCHANGED <<scene, pc, w>> /\ d \in scene.setups /\ store'[d] # "new"
    BY <1>1 DEF StoreTruncate, StoreWrite, Read
  <2> QED
    BY <2>1 DEF Read, Config
<1>2. CASE StoreStart(d)
  <2>1. /\ UNCHANGED <<scene, w>> /\ d \in scene.setups /\ store'[d] # "new" /\ pc'[d] = "start"
    BY <1>2 DEF StoreStart, Read
  <2> QED
    BY <2>1 DEF Read, Config, Seen, Parsed, Bucketed, Built, Executed
<1>3. CASE GetSource(d)
  <2>1. UNCHANGED <<scene, store, w>> /\ pc[d] = "start" /\ pc'[d] = "load"
    BY <1>3 DEF GetSource
  <2> QED
    BY <2>1 DEF Read, Config, Seen, Parsed, Bucketed, Built, Executed
<1>4. CASE LoadApp(d)
  <2>1. /\ UNCHANGED <<scene, store>> /\ pc[d] = "load" /\ pc'[d] = "construct"
        /\ w'[d].seen = Config(d)
    BY <1>0, <1>4 DEF LoadApp, Carried, Config
  <2> QED
    BY <2>1 DEF Read, Config, Seen, Parsed, Bucketed, Built, Executed
<1>5. CASE ParseDeployment(d)
  <2>1. /\ UNCHANGED <<scene, store>> /\ pc[d] = "construct" /\ pc'[d] = "assign"
        /\ w'[d].config = Config(d) /\ w'[d].seen = w[d].seen
    BY <1>0, <1>5 DEF ParseDeployment, Carried, Config
  <2> QED
    BY <2>1 DEF Read, Config, Seen, Parsed, Bucketed, Built, Executed
<1>6. CASE /\ ~ (StoreTruncate(d) \/ StoreWrite(d) \/ StoreStart(d))
           /\ ~ (GetSource(d) \/ LoadApp(d) \/ ParseDeployment(d))
  <2>1. /\ w'[d].seen = w[d].seen /\ w'[d].config = w[d].config /\ store' = store /\ scene' = scene
        /\ pc' = pc \/ pc[d] \in Parsed
    BY <1>6, ReadKept, Others
  <2>2. pc[d] \in Parsed => pc[d] \in Seen /\ pc[d] # "idle"
    BY DEF Seen, Parsed, Bucketed, Built, Executed
  <2> QED
    BY <2>1, <2>2 DEF Read, Config
<1> QED
  BY <1>1, <1>2, <1>3, <1>4, <1>5, <1>6

\* The construction of a worker whose configuration has one bucket and one queue,
\* and the load of a script, set the handles and the aliases.
LEMMA ReadyStep ==
  ASSUME Shapes, CarriedInv, scene.waits, NEW d \in Setups, Read(d), Ready(d), Step(d)
  PROVE  Ready(d)'
<1> USE DEF Shapes, Fields
<1>0. PICK c : c = Config(d) /\ c = Config(d)'
  BY Others DEF Config
<1>c. Carried(d)
  BY DEF CarriedInv
<1>s. c \notin {Nothing, Partial} /\ (Sound(c) => Singles(c))
  BY <1>0, StoredAssumption, SoundInfo DEF Config, Complete
<1>t. w[d].seen = c => Code(d) = c.code
  BY <1>s DEF Code
<1>u. ASSUME w'[d].bucket = w[d].bucket, w'[d].n1ql = w[d].n1ql, w'[d].queue = w[d].queue
      PROVE  Installed(d)' = Installed(d)
  BY <1>u DEF Installed, InstallQueue, InstallN1QL, InstallBucket, SetGlobal
<1>1. CASE /\ w'[d].rc = w[d].rc /\ w'[d].globals = w[d].globals /\ w[d].rc # SUCCESS
           /\ pc'[d] \in {"start", "load", "construct", "assign", "assigning", "buckets"}
  BY <1>1 DEF Ready, Executed, Built, Bucketed
<1>2. CASE /\ w'[d].rc = w[d].rc /\ w'[d].globals = w[d].globals /\ w'[d].bucket = w[d].bucket
           /\ w'[d].n1ql = w[d].n1ql /\ w'[d].queue = w[d].queue /\ w'[d].left = w[d].left
           /\ pc'[d] = pc[d] \/ (pc[d] \in Executed /\ pc'[d] \in Executed)
  <2>1. Installed(d)' = Installed(d)
    BY <1>2, <1>u
  <2> QED
    BY <1>0, <1>2, <2>1 DEF Ready, Executed, Built, Bucketed
<1>3. CASE StoreTruncate(d) \/ StoreWrite(d)
  BY <1>2, <1>3 DEF StoreTruncate, StoreWrite
<1>4. CASE StoreStart(d) \/ GetSource(d)
  <2>1. pc[d] \notin Executed /\ w' = w /\ pc'[d] \in {"start", "load"}
    BY <1>4, <1>c DEF StoreStart, GetSource, Executed, Carried
  <2> QED
    BY <1>1, <2>1 DEF Ready
<1>5. CASE LoadApp(d) \/ ParseDeployment(d)
  <2>1. /\ pc[d] \notin Executed /\ pc'[d] \in {"construct", "assign"}
        /\ w'[d].rc = w[d].rc /\ w'[d].globals = w[d].globals
    BY <1>5 DEF LoadApp, ParseDeployment, Executed
  <2> QED
    BY <1>1, <2>1 DEF Ready
<1>6. CASE AssignStart(d) \/ AssignEnd(d)
  <2>1. pc[d] \notin Executed /\ w' = w /\ pc'[d] \in {"assigning", "buckets"}
    BY <1>6 DEF AssignStart, AssignEnd, Executed
  <2> QED
    BY <1>1, <2>1 DEF Ready
<1>7. CASE CreateBuckets(d)
  <2>1. /\ pc[d] = "buckets" /\ pc'[d] = "n1ql" /\ w'[d].bucket = LastBucket(d)
        /\ w'[d].rc = w[d].rc /\ w'[d].globals = w[d].globals
    BY <1>7 DEF CreateBuckets
  <2>2. w[d].config = c /\ w[d].rc # SUCCESS
    BY <2>1, <1>0 DEF Read, Ready, Parsed, Executed
  <2>3. Sound(c) => LastBucket(d) = c.buckets[1]
    BY <2>2, <1>s DEF LastBucket, Singles
  <2> QED
    BY <1>0, <2>1, <2>2, <2>3 DEF Ready, Executed, Built, Bucketed
<1>8. CASE CreateN1QL(d)
  <2>1. PICK b, l : w' = [w EXCEPT ![d].n1ql = b, ![d].left = l] /\ l = DOMAIN QueuesInfo(w[d].config)
    BY <1>8 DEF CreateN1QL
  <2>2. /\ pc[d] \in {"n1ql", "n1ql again"} /\ pc'[d] \in {"n1ql again", "queues"}
        /\ w'[d].rc = w[d].rc /\ w'[d].globals = w[d].globals /\ w'[d].left = l
        /\ w'[d].bucket = w[d].bucket
    BY <1>8, <2>1 DEF CreateN1QL
  <2>3. w[d].config = c /\ w[d].rc # SUCCESS
    BY <2>2, <1>0 DEF Read, Ready, Parsed, Bucketed, Executed
  <2>4. Sound(c) => l = {c.queues[1].provider}
    BY <2>1, <2>3, <1>s DEF Singles
  <2>5. Sound(c) => w[d].bucket = c.buckets[1]
    BY <2>2, <1>0 DEF Ready, Bucketed
  <2> QED
    BY <1>0, <2>2, <2>3, <2>4, <2>5 DEF Ready, Executed, Built, Bucketed
<1>9. CASE CreateQueue(d)
  <2>1. /\ pc[d] = "queues" /\ pc'[d] = "queues" /\ w[d].left # {}
        /\ w'[d].left = w[d].left \ {Min(w[d].left)} /\ w'[d].queue = NextQueue(d)
        /\ w'[d].rc = w[d].rc /\ w'[d].globals = w[d].globals /\ w'[d].bucket = w[d].bucket
    BY <1>9 DEF CreateQueue
  <2>2. w[d].config = c /\ w[d].rc # SUCCESS
    BY <2>1, <1>0 DEF Read, Ready, Parsed, Bucketed, Executed
  <2>3. ASSUME Sound(c)
        PROVE  w'[d].left = {} /\ w'[d].queue = c.queues[1] /\ w[d].bucket = c.buckets[1]
    <3>1. w[d].left = {c.queues[1].provider} /\ w[d].bucket = c.buckets[1]
      BY <2>1, <2>3, <1>0 DEF Ready, Bucketed
    <3>2. Min(w[d].left) = c.queues[1].provider
      BY <3>1, <2>3, <1>s DEF Singles
    <3> QED
      BY <3>1, <3>2, <2>1, <2>2, <2>3, <1>s DEF Singles, NextQueue
  <2> QED
    BY <1>0, <2>1, <2>2, <2>3 DEF Ready, Executed, Built, Bucketed
<1>10. CASE FinishConstructor(d)
  <2>1. pc[d] = "queues" /\ pc'[d] = "built" /\ w' = w /\ w[d].left = {}
    BY <1>10 DEF FinishConstructor
  <2>2. w[d].rc # SUCCESS
    BY <2>1 DEF Ready, Executed
  <2>3. Sound(c) => w[d].queue = c.queues[1] /\ w[d].bucket = c.buckets[1]
    BY <2>1, <1>0 DEF Ready, Bucketed
  <2> QED
    BY <1>0, <2>1, <2>2, <2>3 DEF Ready, Executed, Built, Bucketed
<1>11. CASE QueueUnreachable(d) \/ LoadCrashes(d) \/ CallUnloaded(d)
  BY <1>2, <1>11 DEF QueueUnreachable, LoadCrashes, CallUnloaded
<1>12. CASE Publish(d) \/ Stop(d)
  BY <1>2, <1>12 DEF Publish, Stop, Handles, Executed
<1>13. CASE StartQuery(d) \/ QueryRow(d)
  <2>1. PICK q : w' = [w EXCEPT ![d].query = q] /\ pc' = pc
    BY <1>13 DEF StartQuery, QueryRow
  <2> QED
    BY <2>1, <1>2
<1>14. ASSUME NEW alias, QueueGetCall(d, alias)
       PROVE  Ready(d)'
  <2>1. PICK q : w' = [w EXCEPT ![d].pushed = q] /\ pc' = pc
    BY <1>14 DEF QueueGetCall
  <2> QED
    BY <2>1, <1>2
<1>15. ASSUME NEW ok \in BOOLEAN, QueryFinal(d, ok)
       PROVE  Ready(d)'
  <2>1. PICK q : w' = [w EXCEPT ![d].query = Nothing, ![d].answer = q] /\ pc' = pc
    BY <1>15 DEF QueryFinal
  <2> QED
    BY <2>1, <1>2
<1>16. ASSUME pc[d] = "built"
       PROVE  /\ w[d].rc # SUCCESS /\ w[d].seen = c /\ w[d].globals = <<>>
              /\ Sound(c) => /\ w[d].bucket = c.buckets[1] /\ w[d].queue = c.queues[1]
                             /\ Code(d).top = "fine" /\ Code(d).handlers
  <2>1. w[d].rc # SUCCESS /\ w[d].seen = c /\ w[d].globals = <<>>
    BY <1>16, <1>0 DEF Read, Ready, Seen, Parsed, Bucketed, Built, Executed
  <2>2. Sound(c) => w[d].bucket = c.buckets[1] /\ w[d].queue = c.queues[1]
    BY <1>16, <1>0 DEF Ready, Bucketed, Built
  <2> QED
    BY <2>1, <2>2, <1>t DEF Sound
<1>17. CASE LoadFails(d)
  <2>1. /\ pc[d] = "built" /\ pc'[d] = "loaded" /\ w'[d].rc = FAILED_TO_COMPILE_JS
        /\ w'[d].globals = w[d].globals /\ ExecuteFails(d)
    BY <1>17 DEF LoadFails
  <2>2. ~ Sound(c)
    BY <2>1, <1>16 DEF ExecuteFails
  <2> QED
    BY <1>0, <2>1, <2>2, <1>16 DEF Ready, FAILED_TO_COMPILE_JS, SUCCESS
<1>18. CASE LoadNoHandlers(d)
  <2>1. /\ pc[d] = "built" /\ pc'[d] = "loaded" /\ w'[d].rc = NO_HANDLERS_DEFINED
        /\ w'[d].globals = w[d].globals /\ ~ HandlersDefined(d)
    BY <1>18 DEF LoadNoHandlers
  <2>2. ~ Sound(c)
    BY <2>1, <1>16 DEF HandlersDefined
  <2> QED
    BY <1>0, <2>1, <2>2, <1>16 DEF Ready, NO_HANDLERS_DEFINED, SUCCESS
<1>19. CASE LoadSucceeds(d)
  <2>1. /\ pc[d] = "built" /\ pc'[d] = "loaded" /\ w'[d].rc = SUCCESS
        /\ w'[d].globals = Installed(d)
        /\ w'[d].bucket = w[d].bucket /\ w'[d].n1ql = w[d].n1ql /\ w'[d].queue = w[d].queue
    BY <1>19 DEF LoadSucceeds, Installed
  <2>2. Installed(d)' = Installed(d)
    BY <2>1, <1>u
  <2> QED
    BY <1>0, <2>1, <2>2, <1>16 DEF Ready, Executed, Built, Bucketed
<1> QED
  BY <1>3, <1>4, <1>5, <1>6, <1>7, <1>8, <1>9, <1>10, <1>11, <1>12, <1>13, <1>14, <1>15,
     <1>17, <1>18, <1>19 DEF Step

\* A set-up that did not take the step is as it was.
LEMMA WorkerKept ==
  ASSUME NEW e \in Setups, scene' = scene, w'[e] = w[e], pc'[e] = pc[e], store'[e] = store[e],
         Read(e), Ready(e)
  PROVE  Read(e)' /\ Ready(e)'
<1>1. Installed(e)' = Installed(e)
  BY DEF Installed, InstallQueue, InstallN1QL, InstallBucket, SetGlobal
<1>2. Config(e)' = Config(e)
  BY DEF Config
<1> QED
  BY <1>1, <1>2 DEF Read, Ready

\* Every step keeps WorkerInv.
LEMMA WorkerNext == Shapes /\ CarriedInv /\ WorkerInv /\ [Next]_vars => WorkerInv'
<1> SUFFICES ASSUME Shapes, CarriedInv, WorkerInv, [Next]_vars
             PROVE  WorkerInv'
  OBVIOUS
<1>1. CASE UNCHANGED vars
  BY <1>1, WorkerKept DEF WorkerInv, vars
<1>2. ASSUME NEW d \in Setups, Step(d)
      PROVE  WorkerInv'
  <2> SUFFICES ASSUME scene'.waits, NEW e \in Setups
               PROVE  Read(e)' /\ Ready(e)'
    BY DEF WorkerInv
  <2>1. scene.waits /\ Read(e) /\ Ready(e)
    BY <1>2, Others DEF WorkerInv
  <2>2. CASE e = d
    BY <1>2, <2>1, <2>2, ReadStep, ReadyStep
  <2>3. CASE e # d
    BY <1>2, <2>1, <2>3, Others, WorkerKept
  <2> QED
    BY <2>2, <2>3
<1> QED
  BY <1>1, <1>2 DEF Next, Step

\* WorkerInv holds at the start.
LEMMA WorkerInit == Init => WorkerInv
<1> SUFFICES ASSUME Init, NEW e \in Setups
             PROVE  Read(e) /\ Ready(e)
  BY DEF WorkerInv
<1>1. pc[e] = "idle" /\ store[e] = "new" /\ w[e].rc = Nothing /\ w[e].globals = <<>>
  BY DEF Init, NewWorker
<1>2. Nothing # SUCCESS
  BY StoredAssumption
<1> QED
  BY <1>1, <1>2 DEF Read, Ready, Seen, Parsed, Bucketed, Built, Executed

\* ProcessSurvives for any number of applications, set-ups and queries: with
\* set-ups that do not overlap and applications that have a bucket, a queue and a
\* script that loads, no read of ./apps finds half a file, no handle that is
\* followed is unset, and no call finds a worker without its script.
THEOREM SurvivesTheorem == Spec => []ProcessSurvives
<1>1. Init => ProcessSurvives
  BY DEF Init, ProcessSurvives
<1>2. Shapes /\ CarriedInv /\ WorkerInv /\ ProcessSurvives /\ [Next]_vars => ProcessSurvives'
  <2> SUFFICES ASSUME Shapes, CarriedInv, WorkerInv, ProcessSurvives, [Next]_vars
               PROVE  ProcessSurvives'
    OBVIOUS
  <2>1. CASE UNCHANGED vars
    BY <2>1 DEF ProcessSurvives, vars
  <2>2. ASSUME NEW d \in Setups, Step(d)
        PROVE  ProcessSurvives'
    <3>1. scene' = scene
      BY <2>2, Others
    <3> SUFFICES ASSUME scene.waits, ~ scene.refuses, \A e \in scene.setups : Sound(scene.stored[e]),
                        ~ dead, dead'
                 PROVE  FALSE
      BY <3>1 DEF ProcessSurvives
    <3>2. Read(d) /\ Ready(d) /\ Carried(d)
      BY DEF WorkerInv, CarriedInv
    <3>3. Complete(Config(d))
      BY StoredAssumption DEF Shapes, Config
    <3>4. Config(d) # Partial
      BY <3>3 DEF Complete
    <3>5. pc[d] # "idle" => Sound(Config(d)) /\ Singles(Config(d))
      BY <3>2, <3>3, SoundInfo DEF Read, Config
    <3>6. CASE GetSource(d) \/ ParseDeployment(d)
      BY <3>2, <3>4, <3>6 DEF GetSource, ParseDeployment, Carried, Config
    <3>7. CASE LoadCrashes(d)
      <4>1. /\ pc[d] = "built"
            /\ ExecuteCrashes(d) \/ Uninit \in {w[d].bucket, w[d].queue}
        BY <3>7 DEF LoadCrashes
      <4>2. w[d].seen = Config(d) /\ Sound(Config(d))
        BY <3>2, <3>5, <4>1 DEF Read, Seen, Parsed, Bucketed, Built
      <4>3. ~ ExecuteCrashes(d)
        BY <3>4, <4>2 DEF ExecuteCrashes, Code, Sound
      <4>4. w[d].bucket = Config(d).buckets[1] /\ w[d].queue = Config(d).queues[1]
        BY <3>2, <4>1, <4>2 DEF Ready, Bucketed, Built
      <4> QED
        BY <3>5, <4>1, <4>3, <4>4 DEF Singles
    <3>8. CASE Publish(d)
      <4>1. pc[d] = "loaded" /\ w[d].seen = Partial
        BY <3>8 DEF Publish
      <4> QED
        BY <3>2, <3>4, <4>1 DEF Read, Seen, Parsed, Bucketed, Built, Executed
    <3>9. CASE CallUnloaded(d)
      <4>1. pc[d] = "running" /\ w[d].rc # SUCCESS
        BY <3>9 DEF CallUnloaded, Handles
      <4> QED
        BY <3>2, <3>5, <4>1 DEF Ready, Executed
    <3>10. CASE QueueUnreachable(d)
      BY <3>10 DEF QueueUnreachable
    <3> QED
      BY <2>2, <3>6, <3>7, <3>8, <3>9, <3>10
      DEF Step, StoreTruncate, StoreWrite, StoreStart, LoadApp, AssignStart, AssignEnd,
          CreateBuckets, CreateN1QL, CreateQueue, FinishConstructor, LoadFails, LoadNoHandlers,
          LoadSucceeds, StartQuery, QueryRow, Stop, QueueGetCall, QueryFinal
  <2> QED
    BY <2>1, <2>2 DEF Next, Step
<1>3. Init => CarriedInv
  BY DEF Init, CarriedInv, Carried, Settled
<1> QED
  BY <1>1, <1>2, <1>3, ShapesInit, ShapesNext, CarriedNext, WorkerInit, WorkerNext, PTL DEF Spec

\* AliasesInstalled for any number of applications and set-ups: from the stored
\* configuration through the maps of ParseDeployment, the handles of the worker and
\* the three InstallMaps, a script with one bucket and one queue finds them under
\* its own aliases.
THEOREM AliasesTheorem == Spec => []AliasesInstalled
<1>1. Shapes /\ WorkerInv => AliasesInstalled
  <2> SUFFICES ASSUME Shapes, WorkerInv, NEW d \in Setups, scene.waits,
                      Sound(scene.stored[d]), w[d].rc = SUCCESS
               PROVE  LET c == scene.stored[d]
                          g == w[d].globals
                      IN  /\ /\ c.queues[1].alias \in DOMAIN g
                             /\ g[c.queues[1].alias] = [kind |-> "queue", name |-> c.queues[1].name]
                          /\ \/ c.buckets[1].alias \in {c.queues[1].alias, N1qlAlias}
                             \/ /\ c.buckets[1].alias \in DOMAIN g
                                /\ g[c.buckets[1].alias] = [kind |-> "bucket", name |-> c.buckets[1].name]
    BY DEF AliasesInstalled
  <2>1. PICK c : c = Config(d)
    OBVIOUS
  <2>2. Singles(c)
    BY <2>1, StoredAssumption, SoundInfo DEF Shapes, Config
  <2>3. w[d].globals = Installed(d) /\ w[d].bucket = c.buckets[1] /\ w[d].queue = c.queues[1]
    BY <2>1 DEF WorkerInv, Ready, Config, Bucketed, Built
  <2>4. PICK gb : gb = InstallBucket(d, <<>>)
    OBVIOUS
  <2>5. c.buckets[1].alias \in DOMAIN gb
        /\ gb[c.buckets[1].alias] = [kind |-> "bucket", name |-> c.buckets[1].name]
    BY <2>2, <2>3, <2>4 DEF InstallBucket, SetGlobal, Singles
  <2>6. PICK gn : gn = InstallN1QL(d, gb)
    OBVIOUS
  <2>7. c.buckets[1].alias # N1qlAlias =>
          /\ c.buckets[1].alias \in DOMAIN gn
          /\ gn[c.buckets[1].alias] = [kind |-> "bucket", name |-> c.buckets[1].name]
    BY <2>5, <2>6 DEF InstallN1QL, SetGlobal
  <2>8. w[d].globals = SetGlobal(gn, c.queues[1].alias, [kind |-> "queue", name |-> c.queues[1].name])
    BY <2>2, <2>3, <2>4, <2>6 DEF Installed, InstallQueue, Singles
  <2>9. PICK g, qa, ba : g = w[d].globals /\ qa = c.queues[1].alias /\ ba = c.buckets[1].alias
    OBVIOUS
  <2>10. /\ qa \in DOMAIN g
         /\ g[qa] = [kind |-> "queue", name |-> c.queues[1].name]
    BY <2>8, <2>9 DEF SetGlobal
  <2>11. ba # N1qlAlias /\ ba # qa =>
           /\ ba \in DOMAIN g
           /\ g[ba] = [kind |-> "bucket", name |-> c.buckets[1].name]
    BY <2>7, <2>8, <2>9 DEF SetGlobal
  <2> QED
    BY <2>1, <2>9, <2>10, <2>11 DEF Config
<1>2. Init => CarriedInv
  BY DEF Init, CarriedInv, Carried, Settled
<1> QED
  BY <1>1, <1>2, ShapesInit, ShapesNext, CarriedNext, WorkerInit, WorkerNext, PTL DEF Spec
-----------------------------------------------------------------------------
(* Lists.                                                                  *)

\* A set of naturals has a least element.
LEMMA NatLeast ==
  ASSUME NEW T, T \subseteq Nat, T # {}
  PROVE  \E x \in T : \A y \in T : x <= y
<1> DEFINE R == {ss \in Nat \X Nat : ss[1] < ss[2]}
<1>1. IsWellFoundedOn(R, Nat)
  BY NatLessThanWellFounded DEF OpToRel
<1> HIDE DEF R
<1>2. PICK x \in T : \A y \in T : ~ (<<y, x>> \in R)
  BY <1>1, WFMin
<1>3. ASSUME NEW y \in T
      PROVE  x <= y
  <2>1. <<y, x>> \notin R
    BY <1>2
  <2>2. ~ (y < x)
    BY <2>1 DEF R
  <2> QED
    BY <2>2
<1> QED
  BY <1>3

\* A finite set of integers has a greatest element.
LEMMA FiniteMost ==
  ASSUME NEW S, S \subseteq Int, S # {}, IsFiniteSet(S)
  PROVE  \E x \in S : \A y \in S : x >= y
<1> DEFINE R == StrictSubsetOrdering(S)
           Bad == {T \in SUBSET S : T # {} /\ ~ \E x \in T : \A y \in T : x >= y}
<1>1. IsWellFoundedOn(R, SUBSET S)
  BY FS_StrictSubsetOrderingWellFounded, FS_FiniteSubsetsOfFinite
<1> SUFFICES ASSUME Bad # {}
             PROVE  FALSE
  OBVIOUS
<1>2. PICK T \in Bad : \A U \in Bad : ~ (<<U, T>> \in R)
  <2> HIDE DEF R
  <2>1. Bad \subseteq SUBSET S
    OBVIOUS
  <2> HIDE DEF Bad
  <2> QED
    BY <1>1, <2>1, WFMin
<1>3. PICK x \in T : TRUE
  BY <1>2
<1>4. T \ {x} \in SUBSET S /\ T \ {x} # T /\ T \ {x} \subseteq T
  BY <1>2, <1>3
<1>5. <<T \ {x}, T>> \in R
  BY <1>2, <1>4 DEF StrictSubsetOrdering
<1>6. T \ {x} \notin Bad
  BY <1>2, <1>5
<1>7. CASE T \ {x} = {}
  <2>1. T = {x} /\ x \in Int
    BY <1>2, <1>3, <1>7
  <2> QED
    BY <1>2, <2>1
<1>8. CASE T \ {x} # {}
  <2>1. PICK m \in T \ {x} : \A y \in T \ {x} : m >= y
    BY <1>4, <1>6, <1>8
  <2>2. m \in Int /\ x \in Int /\ m \in T /\ \A y \in T : y \in Int
    BY <1>2, <1>3, <2>1
  <2>3. CASE m >= x
    BY <1>2, <2>1, <2>2, <2>3
  <2>4. CASE x >= m
    BY <1>2, <1>3, <2>1, <2>2, <2>4
  <2> QED
    BY <2>2, <2>3, <2>4
<1> QED
  BY <1>7, <1>8

\* The first provider that the constructor has still to visit is one of them.
LEMMA LeftLeast ==
  ASSUME NEW left, left \subseteq Nat, left # {}
  PROVE  Min(left) \in left
  BY NatLeast DEF Min

\* The last of some positions in a sequence is one of them.
LEMMA LastPosition ==
  ASSUME NEW n \in Nat, NEW P, P \subseteq 1..n, P # {}
  PROVE  Max(P) \in P
<1>1. IsFiniteSet(1..n)
  BY FS_Interval
<1>2. IsFiniteSet(P)
  BY <1>1, FS_Subset
<1>3. P \subseteq Int
  OBVIOUS
<1> QED
  BY <1>2, <1>3, FiniteMost DEF Max

\* What queues_info has under a provider is an entry of the configuration.
LEMMA QueueEntry ==
  ASSUME NEW c, Complete(c), NEW k \in DOMAIN QueuesInfo(c)
  PROVE  \E i \in DOMAIN c.queues : QueuesInfo(c)[k] = c.queues[i]
<1> DEFINE P == {i \in DOMAIN c.queues : c.queues[i].provider = k}
<1>1. c.queues \in Seq({c.queues[i] : i \in DOMAIN c.queues})
  BY DEF Complete
<1>2. Len(c.queues) \in Nat /\ DOMAIN c.queues = 1..Len(c.queues)
  BY <1>1
<1>3. P # {}
  BY DEF QueuesInfo
<1>4. P \subseteq 1..Len(c.queues)
  BY <1>2
<1>5. Max(P) \in P
  <2> HIDE DEF P
  <2> QED
    BY <1>2, <1>3, <1>4, LastPosition
<1>6. QueuesInfo(c)[k] = c.queues[Max(P)]
  BY DEF QueuesInfo, LastAt
<1> QED
  BY <1>5, <1>6

\* queues_info is a map by provider.
LEMMA ProvidersOrdered ==
  ASSUME NEW c, Complete(c)
  PROVE  DOMAIN QueuesInfo(c) \subseteq Nat
  BY DEF QueuesInfo, Complete

\* What buckets_info has under an alias is an entry of the configuration.
LEMMA BucketEntry ==
  ASSUME NEW c, Complete(c), NEW k \in DOMAIN BucketsInfo(c)
  PROVE  \E i \in DOMAIN c.buckets : BucketsInfo(c)[k] = c.buckets[i]
<1> DEFINE P == {i \in DOMAIN c.buckets : c.buckets[i].alias = k}
<1>1. c.buckets \in Seq({c.buckets[i] : i \in DOMAIN c.buckets})
  BY DEF Complete
<1>2. Len(c.buckets) \in Nat /\ DOMAIN c.buckets = 1..Len(c.buckets)
  BY <1>1
<1>3. P # {}
  BY DEF BucketsInfo
<1>4. P \subseteq 1..Len(c.buckets)
  BY <1>2
<1>5. Max(P) \in P
  <2> HIDE DEF P
  <2> QED
    BY <1>2, <1>3, <1>4, LastPosition
<1>6. BucketsInfo(c)[k] = c.buckets[Max(P)]
  BY DEF BucketsInfo, LastAt
<1> QED
  BY <1>5, <1>6

\* The last alias in the order of the map is one of them.
LEMMA LastAlias ==
  ASSUME NEW c, Complete(c), DOMAIN BucketsInfo(c) # {}
  PROVE  Max(DOMAIN BucketsInfo(c)) \in DOMAIN BucketsInfo(c)
<1>1. c.buckets \in Seq({c.buckets[i] : i \in DOMAIN c.buckets})
  BY DEF Complete
<1>2. Len(c.buckets) \in Nat /\ DOMAIN c.buckets = 1..Len(c.buckets)
  BY <1>1
<1>3. PICK K : K = DOMAIN BucketsInfo(c)
  OBVIOUS
<1>4. K = {c.buckets[i].alias : i \in 1..Len(c.buckets)} /\ K \subseteq Int /\ K # {}
  <2>1. K = {c.buckets[i].alias : i \in DOMAIN c.buckets}
    BY <1>3 DEF BucketsInfo
  <2>2. \A i \in DOMAIN c.buckets : c.buckets[i].alias \in Int
    BY DEF Complete
  <2> QED
    BY <1>2, <1>3, <2>1, <2>2
<1>5. IsFiniteSet(K)
  <2> DEFINE f == [i \in 1..Len(c.buckets) |-> c.buckets[i].alias]
  <2>1. f \in Surjection(1..Len(c.buckets), K)
    <3>1. f \in [1..Len(c.buckets) -> K]
      BY <1>4
    <3>2. \A k \in K : \E i \in 1..Len(c.buckets) : f[i] = k
      BY <1>4
    <3> HIDE DEF f
    <3> QED
      BY <3>1, <3>2 DEF Surjection
  <2>2. IsFiniteSet(1..Len(c.buckets))
    BY <1>2, FS_Interval
  <2> HIDE DEF f
  <2> QED
    BY <2>1, <2>2, FS_Surjection
<1> QED
  BY <1>3, <1>4, <1>5, FiniteMost DEF Max

-----------------------------------------------------------------------------
(* Who uses a list.                                                        *)

\* The set-up is under way.
Busy == {"start", "load", "construct", "assign", "assigning", "buckets", "n1ql", "n1ql again",
         "queues", "built", "loaded"}

\* The other set-ups of the same application.
Rivals(d) == {e \in Setups \ {d} : App(e) = App(d)}

\* The set-up or worker has a list and was not told to quit.
Current(d) == w[d].queue # Uninit /\ pc[d] # "stopped" /\ (pc[d] = "running" => d \notin quit)

\* Whoever runs and was not told to quit is in workerTable; storeAppSetup told the
\* others; a queue handle comes from the configuration; nothing is enqueued before
\* the worker runs.
Queued(e) ==
    /\ pc[e] = "running" /\ e \notin quit => table[App(e)] = e
    /\ pc[e] \in Busy => \A r \in Rivals(e) : pc[r] = "running" => r \in quit
    /\ pc[e] \notin {"running", "stopped"} => w[e].pushed = <<>>
    /\ w[e].queue # Uninit => /\ pc[e] \in {"queues"} \cup Built
                              /\ \E i \in DOMAIN Config(e).queues : w[e].queue = Config(e).queues[i]
    /\ pc[e] = "queues" => w[e].left \subseteq DOMAIN QueuesInfo(Config(e))

\* Who has a list shares it with nobody, and it holds what they enqueued.
Sole(e) ==
    Current(e) => /\ \A r \in Rivals(e) : pc[r] \in {"idle", "stopped"}
                  /\ w[e].queue.name \in LongNames \/ lists[w[e].queue.name] = w[e].pushed

Separate == scene.waits /\ scene.slow /\ OwnLists /\ ~ scene.refuses

ListsInv ==
    /\ DOMAIN table = Apps
    /\ DOMAIN lists = Lists \cup {Garbage}
    /\ scene.waits => \A e \in Setups : Queued(e)
    /\ Separate => \A e \in Setups : Sole(e)

\* A step that touches no list, no queue handle and no table.
Quiet(d) ==
    /\ table' = table /\ quit' = quit /\ lists' = lists
    /\ w'[d].queue = w[d].queue /\ w'[d].pushed = w[d].pushed /\ w'[d].left = w[d].left
    /\ \/ pc'[d] = pc[d]
       \/ /\ pc[d] \in Busy \ {"loaded"} /\ pc'[d] \in Busy \ {"queues"}
          /\ pc[d] \in {"queues", "built"} => pc'[d] \in Built
       \/ pc[d] = "running" /\ pc'[d] = "stopped"

\* The steps that are not quiet.
LEMMA QuietSteps ==
  ASSUME Shapes, NEW d \in Setups, Step(d),
         ~ (StoreStart(d) \/ CreateN1QL(d) \/ CreateQueue(d) \/ Publish(d)),
         ~ \E alias \in DOMAIN w[d].globals : QueueGetCall(d, alias)
  PROVE  Quiet(d)
<1> USE DEF Shapes, Fields, Quiet, Busy, Built, Executed
<1>1. CASE StoreTruncate(d) \/ StoreWrite(d) \/ GetSource(d)
  BY <1>1 DEF StoreTruncate, StoreWrite, GetSource
<1>2. CASE LoadApp(d)
  BY <1>2 DEF LoadApp
<1>3. CASE ParseDeployment(d)
  BY <1>3 DEF ParseDeployment
<1>4. CASE AssignStart(d) \/ AssignEnd(d) \/ QueueUnreachable(d) \/ FinishConstructor(d)
  BY <1>4 DEF AssignStart, AssignEnd, QueueUnreachable, FinishConstructor
<1>5. CASE CreateBuckets(d)
  BY <1>5 DEF CreateBuckets
<1>6. CASE LoadFails(d)
  BY <1>6 DEF LoadFails
<1>7. CASE LoadNoHandlers(d)
  BY <1>7 DEF LoadNoHandlers
<1>8. CASE LoadSucceeds(d)
  <2>1. PICK s, r, g : w' = [w EXCEPT ![d].script = s, ![d].rc = r, ![d].globals = g]
    BY <1>8 DEF LoadSucceeds
  <2> QED
    BY <1>8, <2>1 DEF LoadSucceeds
<1>9. CASE LoadCrashes(d) \/ CallUnloaded(d) \/ Stop(d)
  BY <1>9 DEF LoadCrashes, CallUnloaded, Stop, Handles
<1>10. CASE StartQuery(d) \/ QueryRow(d)
  <2>1. PICK q : w' = [w EXCEPT ![d].query = q]
    BY <1>10 DEF StartQuery, QueryRow
  <2> QED
    BY <1>10, <2>1 DEF StartQuery, QueryRow
<1>11. ASSUME NEW ok \in BOOLEAN, QueryFinal(d, ok)
       PROVE  Quiet(d)
  <2>1. PICK q, a : w' = [w EXCEPT ![d].query = q, ![d].answer = a]
    BY <1>11 DEF QueryFinal
  <2> QED
    BY <1>11, <2>1 DEF QueryFinal
<1> QED
  BY <1>1, <1>2, <1>3, <1>4, <1>5, <1>6, <1>7, <1>8, <1>9, <1>10, <1>11 DEF Step

\* What the scene fixes.
LEMMA Fixed ==
  ASSUME scene' = scene, NEW e
  PROVE  /\ App(e)' = App(e) /\ Config(e)' = Config(e) /\ Rivals(e)' = Rivals(e)
         /\ ListNames(e)' = ListNames(e) /\ Separate' = Separate
  BY DEF App, Config, Rivals, ListNames, Separate, OwnLists

\* While a set-up is under way the others are not.
LEMMA OthersRest ==
  ASSUME CarriedInv, scene.waits, NEW d \in Setups, NEW e \in Setups, e # d, ~ Settled(d)
  PROVE  pc[e] \in {"idle", "running", "stopped"}
  BY DEF CarriedInv, Settled

\* The list of a queue handle is one that the configuration names.
LEMMA NamedList ==
  ASSUME Shapes, WorkerInv, ListsInv, scene.waits, NEW e \in Setups, w[e].queue # Uninit
  PROVE  /\ w[e].queue.name \in ListNames(e) /\ w[e].queue.name \in Lists
         /\ e \in scene.setups
<1>1. Queued(e) /\ Read(e)
  BY DEF ListsInv, WorkerInv
<1>2. PICK i \in DOMAIN Config(e).queues : w[e].queue = Config(e).queues[i]
  BY <1>1 DEF Queued
<1>3. Complete(Config(e))
  BY StoredAssumption DEF Shapes, Config
<1> QED
  BY <1>1, <1>2, <1>3 DEF Complete, ListNames, Config, Queued, Read, Built, Executed

\* A quiet step keeps ListsInv.
LEMMA QuietLists ==
  ASSUME Shapes, ListsInv, NEW d \in Setups, Step(d), Quiet(d)
  PROVE  ListsInv'
<1>1. /\ scene' = scene
      /\ \A e \in Setups \ {d} : w'[e] = w[e] /\ pc'[e] = pc[e]
  BY Others
<1>2. \A e \in Setups : /\ w'[e].queue = w[e].queue /\ w'[e].pushed = w[e].pushed
                        /\ w'[e].left = w[e].left
                        /\ \/ pc'[e] = pc[e]
                           \/ /\ pc[e] \in Busy \ {"loaded"} /\ pc'[e] \in Busy \ {"queues"}
                              /\ pc[e] \in {"queues", "built"} => pc'[e] \in Built
                           \/ pc[e] = "running" /\ pc'[e] = "stopped"
  BY <1>1 DEF Quiet
<1>3. ASSUME scene.waits, NEW e \in Setups
      PROVE  Queued(e)'
  <2>1. Queued(e)
    BY <1>3 DEF ListsInv
  <2>2. App(e)' = App(e) /\ Config(e)' = Config(e) /\ Rivals(e)' = Rivals(e)
    BY <1>1, Fixed
  <2>3. \A r \in Rivals(e) : r \in Setups
    BY DEF Rivals
  <2>4. w'[e].queue # Uninit => /\ pc'[e] \in {"queues"} \cup Built
                                /\ \E i \in DOMAIN Config(e).queues : w'[e].queue = Config(e).queues[i]
    BY <1>2, <2>1 DEF Queued, Built, Executed, Busy
  <2>5. pc'[e] = "queues" => w'[e].left \subseteq DOMAIN QueuesInfo(Config(e))
    BY <1>2, <2>1 DEF Queued, Busy
  <2>6. pc'[e] \in Busy => \A r \in Rivals(e) : pc'[r] = "running" => r \in quit'
    BY <1>2, <2>1, <2>3 DEF Queued, Quiet, Busy
  <2>7. /\ pc'[e] = "running" /\ e \notin quit' => table'[App(e)] = e
        /\ pc'[e] \notin {"running", "stopped"} => w'[e].pushed = <<>>
    BY <1>2, <2>1 DEF Queued, Quiet, Busy
  <2> QED
    BY <2>2, <2>4, <2>5, <2>6, <2>7 DEF Queued
<1>4. ASSUME Separate, NEW e \in Setups
      PROVE  Sole(e)'
  <2>1. Sole(e)
    BY <1>4 DEF ListsInv
  <2>2. Rivals(e)' = Rivals(e) /\ \A r \in Rivals(e) : r \in Setups
    BY <1>1, Fixed DEF Rivals
  <2>3. Current(e)' => Current(e)
    BY <1>2 DEF Current, Quiet, Busy
  <2> QED
    BY <1>2, <2>1, <2>2, <2>3 DEF Sole, Quiet, Busy
<1>5. Separate' = Separate
  BY <1>1, Fixed
<1> QED
  BY <1>1, <1>3, <1>4, <1>5 DEF ListsInv, Quiet

\* The table's worker is told to quit before the set-up starts.
LEMMA StartLists ==
  ASSUME Shapes, CarriedInv, ListsInv, NEW d \in Setups, StoreStart(d)
  PROVE  ListsInv'
<1>1. /\ scene' = scene /\ w' = w /\ table' = table /\ lists' = lists
      /\ store[d] = "written"
      /\ pc' = [pc EXCEPT ![d] = "start"]
      /\ quit' = quit \cup ({table[App(d)]} \ {Nothing})
  BY DEF StoreStart
<1>2. /\ pc'[d] = "start"
      /\ \A e \in Setups \ {d} : pc'[e] = pc[e]
  BY <1>1 DEF Shapes
<1>3. scene.waits => pc[d] = "idle" /\ Queued(d) /\ ~ Settled(d)
  BY <1>1 DEF CarriedInv, Carried, ListsInv, Settled
<1>4. Nothing \notin Setups
  BY StoredAssumption
<1>5. ASSUME scene.waits, NEW e \in Setups
      PROVE  Queued(e)'
  <2>1. Queued(e)
    BY <1>5 DEF ListsInv
  <2>2. App(e)' = App(e) /\ Config(e)' = Config(e) /\ Rivals(e)' = Rivals(e)
    BY <1>1, Fixed
  <2>3. \A r \in Rivals(e) : r \in Setups /\ App(r) = App(e) /\ r # e
    BY DEF Rivals
  <2>4. CASE e = d
    <3>1. ASSUME NEW r \in Rivals(d), pc'[r] = "running"
          PROVE  r \in quit'
      <4>1. r \in Setups /\ App(r) = App(d) /\ pc[r] = "running"
        BY <1>2, <2>3, <2>4, <3>1
      <4>2. Queued(r)
        BY <1>5, <4>1 DEF ListsInv
      <4> QED
        BY <1>1, <1>4, <4>1, <4>2 DEF Queued
    <3>2. w[d].queue = Uninit /\ w[d].pushed = <<>>
      BY <1>3, <1>5 DEF Queued, Built, Executed
    <3> QED
      BY <1>1, <1>2, <2>2, <2>4, <3>1, <3>2 DEF Queued
  <2>5. CASE e # d
    <3>1. pc'[e] = pc[e] /\ pc[e] \in {"idle", "running", "stopped"}
      BY <1>2, <1>3, <1>5, <2>5, OthersRest
    <3>2. pc[e] \notin Busy
      BY <3>1 DEF Busy
    <3> QED
      BY <1>1, <2>1, <2>2, <3>1, <3>2 DEF Queued
  <2> QED
    BY <2>4, <2>5
<1>6. ASSUME Separate, NEW e \in Setups
      PROVE  Sole(e)'
  <2>1. Sole(e) /\ Queued(e) /\ scene.waits
    BY <1>6 DEF ListsInv, Separate
  <2>2. Rivals(e)' = Rivals(e) /\ \A r \in Rivals(e) : r \in Setups /\ App(r) = App(e)
    BY <1>1, Fixed DEF Rivals
  <2> SUFFICES ASSUME Current(e)'
               PROVE  /\ \A r \in Rivals(e) : pc'[r] \in {"idle", "stopped"}
                      /\ w[e].queue.name \in LongNames \/ lists[w[e].queue.name] = w[e].pushed
    BY <1>1, <2>2 DEF Sole
  <2>3. e # d
    BY <1>1, <1>3, <2>1 DEF Current, Queued, Built, Executed
  <2>4. Current(e)
    BY <1>1, <1>2, <2>3 DEF Current
  <2>5. pc[e] = "running"
    BY <1>3, <2>1, <2>3, <2>4, OthersRest DEF Current, Queued, Built, Executed
  <2>6. e \notin quit'
    BY <1>2, <2>3, <2>5 DEF Current
  <2>7. d \notin Rivals(e)
    <3> SUFFICES ASSUME App(d) = App(e)
                 PROVE  FALSE
      BY <2>2
    <3>1. table[App(e)] = e
      BY <1>1, <2>1, <2>5, <2>6 DEF Queued
    <3> QED
      BY <1>1, <1>4, <2>6, <3>1
  <2> QED
    BY <1>2, <2>1, <2>2, <2>4, <2>7 DEF Sole
<1>7. Separate' = Separate
  BY <1>1, Fixed
<1> QED
  BY <1>1, <1>5, <1>6, <1>7 DEF ListsInv

\* The worker that is published is the table's, and the others were told to quit.
LEMMA PublishLists ==
  ASSUME Shapes, CarriedInv, ListsInv, NEW d \in Setups, Publish(d)
  PROVE  ListsInv'
<1>1. /\ scene' = scene /\ w' = w /\ quit' = quit /\ lists' = lists
      /\ pc[d] = "loaded"
      /\ pc' = [pc EXCEPT ![d] = "running"]
      /\ table' = [table EXCEPT ![App(d)] = d]
  BY DEF Publish
<1>2. /\ pc'[d] = "running" /\ App(d) \in Apps
      /\ \A e \in Setups \ {d} : pc'[e] = pc[e]
  BY <1>1, SetupAssumption DEF Shapes, App
<1>3. /\ table'[App(d)] = d
      /\ \A a \in Apps \ {App(d)} : table'[a] = table[a]
  BY <1>1, <1>2 DEF ListsInv
<1>4. ~ Settled(d)
  BY <1>1 DEF Settled
<1>5. ASSUME scene.waits, NEW e \in Setups
      PROVE  Queued(e)'
  <2>1. Queued(e) /\ Queued(d)
    BY <1>5 DEF ListsInv
  <2>2. /\ App(e)' = App(e) /\ Config(e)' = Config(e) /\ Rivals(e)' = Rivals(e)
        /\ App(e) \in Apps
    BY <1>1, Fixed, SetupAssumption DEF Shapes, App
  <2>3. CASE e = d
    BY <1>1, <1>2, <1>3, <2>1, <2>2, <2>3 DEF Queued, Busy, Built, Executed
  <2>4. CASE e # d
    <3>1. pc'[e] = pc[e] /\ pc[e] \in {"idle", "running", "stopped"}
      BY <1>2, <1>4, <1>5, <2>4, OthersRest
    <3>2. pc[e] \notin Busy
      BY <3>1 DEF Busy
    <3>3. pc[e] = "running" /\ e \notin quit => table'[App(e)] = e
      <4>1. CASE App(e) = App(d)
        <5>1. e \in Rivals(d)
          BY <2>4, <4>1 DEF Rivals
        <5> QED
          BY <1>1, <2>1, <5>1 DEF Queued, Busy
      <4>2. CASE App(e) # App(d)
        BY <1>3, <2>1, <2>2, <4>2 DEF Queued
      <4> QED
        BY <4>1, <4>2
    <3> QED
      BY <1>1, <2>1, <2>2, <3>1, <3>2, <3>3 DEF Queued
  <2> QED
    BY <2>3, <2>4
<1>6. ASSUME Separate, NEW e \in Setups
      PROVE  Sole(e)'
  <2>1. Sole(e)
    BY <1>6 DEF ListsInv
  <2>2. Rivals(e)' = Rivals(e) /\ \A r \in Rivals(e) : r \in Setups
    BY <1>1, Fixed DEF Rivals
  <2>3. Current(e)' => Current(e)
    BY <1>1, <1>2 DEF Current
  <2>4. Current(e) => \A r \in Rivals(e) : r # d
    BY <1>1, <2>1 DEF Sole
  <2> QED
    BY <1>1, <1>2, <2>1, <2>2, <2>3, <2>4 DEF Sole
<1>7. Separate' = Separate
  BY <1>1, Fixed
<1>8. DOMAIN table' = Apps /\ DOMAIN lists' = Lists \cup {Garbage}
  BY <1>1 DEF ListsInv
<1> QED
  BY <1>1, <1>5, <1>6, <1>7, <1>8 DEF ListsInv

\* The providers to visit are those of the configuration that was stored.
LEMMA N1QLLists ==
  ASSUME Shapes, WorkerInv, ListsInv, NEW d \in Setups, CreateN1QL(d)
  PROVE  ListsInv'
<1>1. /\ scene' = scene /\ table' = table /\ quit' = quit /\ lists' = lists
      /\ pc[d] \in {"n1ql", "n1ql again"}
      /\ pc' = [pc EXCEPT ![d] = IF @ = "n1ql" THEN "n1ql again" ELSE "queues"]
  BY DEF CreateN1QL
<1>2. PICK b : w' = [w EXCEPT ![d].n1ql = b, ![d].left = DOMAIN QueuesInfo(w[d].config)]
  BY DEF CreateN1QL
<1>3. /\ pc'[d] \in {"n1ql again", "queues"}
      /\ \A e \in Setups \ {d} : pc'[e] = pc[e] /\ w'[e] = w[e]
      /\ w'[d].queue = w[d].queue /\ w'[d].pushed = w[d].pushed
      /\ w'[d].left = DOMAIN QueuesInfo(w[d].config)
  BY <1>1, <1>2 DEF Shapes, Fields
<1>4. ASSUME scene.waits, NEW e \in Setups
      PROVE  Queued(e)'
  <2>1. Queued(e) /\ Queued(d) /\ Read(d)
    BY <1>4 DEF ListsInv, WorkerInv
  <2>2. App(e)' = App(e) /\ Config(e)' = Config(e) /\ Rivals(e)' = Rivals(e)
    BY <1>1, Fixed
  <2>3. \A r \in Rivals(e) : r \in Setups
    BY DEF Rivals
  <2>4. pc'[e] \in Busy => \A r \in Rivals(e) : pc'[r] = "running" => r \in quit'
    BY <1>1, <1>3, <2>1, <2>3 DEF Queued, Busy
  <2>5. CASE e = d
    <3>1. w[d].config = Config(d)
      BY <1>1, <2>1 DEF Read, Parsed, Bucketed
    <3>2. w[d].queue = Uninit /\ w[d].pushed = <<>>
      BY <1>1, <2>1 DEF Queued, Built, Executed
    <3> QED
      BY <1>3, <2>2, <2>4, <2>5, <3>1, <3>2 DEF Queued
  <2>6. CASE e # d
    BY <1>1, <1>3, <2>1, <2>2, <2>4, <2>6 DEF Queued
  <2> QED
    BY <2>5, <2>6
<1>5. ASSUME Separate, NEW e \in Setups
      PROVE  Sole(e)'
  <2>1. Sole(e)
    BY <1>5 DEF ListsInv
  <2>2. Rivals(e)' = Rivals(e) /\ \A r \in Rivals(e) : r \in Setups
    BY <1>1, Fixed DEF Rivals
  <2>3. Current(e)' => Current(e)
    BY <1>1, <1>3 DEF Current
  <2>4. Current(e) => \A r \in Rivals(e) : r # d
    BY <1>1, <2>1 DEF Sole
  <2>5. w'[e].queue = w[e].queue /\ w'[e].pushed = w[e].pushed
    BY <1>3
  <2> QED
    BY <1>1, <1>3, <2>1, <2>2, <2>3, <2>4, <2>5 DEF Sole
<1>6. Separate' = Separate
  BY <1>1, Fixed
<1> QED
  BY <1>1, <1>4, <1>5, <1>6 DEF ListsInv

\* The next queue is one of the configuration's.
LEMMA NextEntry ==
  ASSUME Shapes, WorkerInv, ListsInv, scene.waits, NEW d \in Setups, pc[d] = "queues", w[d].left # {}
  PROVE  /\ \E i \in DOMAIN Config(d).queues : NextQueue(d) = Config(d).queues[i]
         /\ NextQueue(d).name \in ListNames(d) /\ NextQueue(d).name \in Lists
         /\ d \in scene.setups
<1>1. Queued(d) /\ Read(d)
  BY DEF ListsInv, WorkerInv
<1>2. w[d].config = Config(d) /\ d \in scene.setups
  BY <1>1 DEF Read, Parsed, Bucketed
<1>3. Complete(Config(d))
  BY StoredAssumption DEF Shapes, Config
<1>4. w[d].left \subseteq DOMAIN QueuesInfo(Config(d))
  BY <1>1 DEF Queued
<1>5. PICK k : k = Min(w[d].left)
  OBVIOUS
<1>6. k \in DOMAIN QueuesInfo(Config(d))
  BY <1>3, <1>4, <1>5, ProvidersOrdered, LeftLeast
<1>7. PICK i \in DOMAIN Config(d).queues : QueuesInfo(Config(d))[k] = Config(d).queues[i]
  BY <1>3, <1>6, QueueEntry
<1>8. NextQueue(d) = Config(d).queues[i]
  BY <1>2, <1>5, <1>7 DEF NextQueue
<1> QED
  BY <1>2, <1>3, <1>7, <1>8 DEF ListNames, Config, Complete

\* The constructor of Queue deletes a list that nobody else uses.
LEMMA CreateLists ==
  ASSUME Shapes, CarriedInv, WorkerInv, ListsInv, NEW d \in Setups, CreateQueue(d)
  PROVE  ListsInv'
<1>1. /\ scene' = scene /\ table' = table /\ quit' = quit /\ pc' = pc
      /\ pc[d] = "queues" /\ w[d].left # {}
      /\ scene.slow => Alone(d)
      /\ lists' = [lists EXCEPT ![NextQueue(d).name] = <<>>]
  BY DEF CreateQueue
<1>2. /\ \A e \in Setups \ {d} : w'[e] = w[e]
      /\ w'[d].queue = NextQueue(d) /\ w'[d].pushed = w[d].pushed
      /\ w'[d].left \subseteq w[d].left
  <2>1. PICK m : m = Min(w[d].left)
    OBVIOUS
  <2>2. w' = [w EXCEPT ![d].left = w[d].left \ {m}, ![d].queue = NextQueue(d)]
    BY <2>1 DEF CreateQueue
  <2> QED
    BY <2>2 DEF Shapes, Fields
<1>3. ~ Settled(d)
  BY <1>1 DEF Settled
<1>4. ASSUME scene.waits, NEW e \in Setups
      PROVE  Queued(e)'
  <2>1. Queued(e) /\ Queued(d)
    BY <1>4 DEF ListsInv
  <2>2. App(e)' = App(e) /\ Config(e)' = Config(e) /\ Rivals(e)' = Rivals(e)
    BY <1>1, Fixed
  <2>3. CASE e = d
    <3>1. \E i \in DOMAIN Config(d).queues : NextQueue(d) = Config(d).queues[i]
      BY <1>1, <1>4, NextEntry
    <3> QED
      BY <1>1, <1>2, <2>1, <2>2, <2>3, <3>1 DEF Queued
  <2>4. CASE e # d
    BY <1>1, <1>2, <2>1, <2>2, <2>4 DEF Queued
  <2> QED
    BY <2>3, <2>4
<1>5. ASSUME Separate, NEW e \in Setups
      PROVE  Sole(e)'
  <2>1. Sole(e) /\ Queued(d) /\ Queued(e) /\ scene.waits /\ scene.slow /\ OwnLists
    BY <1>5 DEF ListsInv, Separate
  <2>2. Rivals(e)' = Rivals(e) /\ \A r \in Rivals(e) : r \in Setups /\ r # e
    BY <1>1, Fixed DEF Rivals
  <2>3. NextQueue(d).name \in ListNames(d) /\ NextQueue(d).name \in Lists /\ d \in scene.setups
    BY <1>1, <2>1, NextEntry
  <2>4. ASSUME NEW r \in Rivals(d)
        PROVE  pc[r] \in {"idle", "stopped"}
    <3>1. r \in Setups /\ r # d /\ App(r) = App(d)
      BY DEF Rivals
    <3>2. pc[r] \in {"idle", "running", "stopped"}
      BY <1>3, <2>1, <3>1, OthersRest
    <3>3. pc[r] = "running" => r \in quit
      BY <1>1, <2>1 DEF Queued, Busy
    <3>4. r \notin quit \/ pc[r] = "stopped"
      BY <1>1, <2>1, <3>1 DEF Alone
    <3> QED
      BY <3>2, <3>3, <3>4
  <2>5. CASE e = d
    <3>1. w[d].pushed = <<>>
      BY <1>1, <2>1 DEF Queued
    <3>2. lists'[NextQueue(d).name] = <<>>
      BY <1>1, <2>3 DEF ListsInv
    <3> QED
      BY <1>1, <1>2, <2>2, <2>4, <2>5, <3>1, <3>2 DEF Sole
  <2>6. CASE e # d
    <3> SUFFICES ASSUME Current(e)'
                 PROVE  /\ \A r \in Rivals(e) : pc[r] \in {"idle", "stopped"}
                        /\ w[e].queue.name \in LongNames \/ lists'[w[e].queue.name] = w[e].pushed
      BY <1>1, <1>2, <2>2, <2>6 DEF Sole
    <3>1. Current(e)
      BY <1>1, <1>2, <2>6 DEF Current
    <3>2. w[e].queue # Uninit /\ pc[e] # "stopped" /\ pc[e] # "idle"
      BY <2>1, <3>1 DEF Current, Queued, Built, Executed
    <3>3. App(e) # App(d)
      BY <2>4, <2>6, <3>2 DEF Rivals
    <3>4. w[e].queue.name \in ListNames(e) /\ w[e].queue.name \in Lists /\ e \in scene.setups
      BY <2>1, <3>2, NamedList
    <3>5. w[e].queue.name # NextQueue(d).name
      BY <2>1, <2>3, <3>3, <3>4 DEF OwnLists
    <3>6. lists'[w[e].queue.name] = lists[w[e].queue.name]
      BY <1>1, <3>4, <3>5 DEF ListsInv
    <3> QED
      BY <2>1, <3>1, <3>6 DEF Sole
  <2> QED
    BY <2>5, <2>6
<1>6. Separate' = Separate
  BY <1>1, Fixed
<1>7. DOMAIN table' = Apps /\ DOMAIN lists' = Lists \cup {Garbage}
  BY <1>1 DEF ListsInv
<1> QED
  BY <1>1, <1>4, <1>5, <1>6, <1>7 DEF ListsInv

\* An alias that leads to a list leads to that of the queue handle.
LEMMA QueueAlias ==
  ASSUME NEW d \in Setups, NEW alias \in DOMAIN w[d].globals, w[d].globals = Installed(d),
         w[d].globals[alias].kind = "queue"
  PROVE  w[d].queue # Uninit /\ w[d].globals[alias].name = w[d].queue.name
<1>1. PICK gb : gb = InstallBucket(d, <<>>)
  OBVIOUS
<1>2. \A a \in DOMAIN gb : gb[a].kind = "bucket"
  BY <1>1 DEF InstallBucket, SetGlobal
<1>3. PICK gn : gn = InstallN1QL(d, gb)
  OBVIOUS
<1>4. \A a \in DOMAIN gn : gn[a].kind \in {"bucket", "n1ql"}
  BY <1>2, <1>3 DEF InstallN1QL, SetGlobal
<1>5. w[d].globals = InstallQueue(d, gn)
  BY <1>1, <1>3 DEF Installed
<1>6. w[d].queue # Uninit
  BY <1>4, <1>5 DEF InstallQueue
<1>7. PICK q, x : q = w[d].queue.alias /\ x = [kind |-> "queue", name |-> w[d].queue.name]
  OBVIOUS
<1>8. w[d].globals = [a \in DOMAIN gn \cup {q} |-> IF a = q THEN x ELSE gn[a]]
  BY <1>5, <1>6, <1>7 DEF InstallQueue, SetGlobal
<1>9. alias = q
  BY <1>4, <1>8
<1>10. w[d].globals[alias] = x
  BY <1>8, <1>9
<1> QED
  BY <1>6, <1>7, <1>10

\* A document goes to the list of the worker that enqueues it.
LEMMA PushLists ==
  ASSUME Shapes, WorkerInv, ListsInv, NEW d \in Setups, NEW alias \in DOMAIN w[d].globals,
         QueueGetCall(d, alias)
  PROVE  ListsInv'
<1> DEFINE document == [by |-> d, number |-> Len(w[d].pushed) + 1]
<1>1. /\ scene' = scene /\ table' = table /\ quit' = quit /\ pc' = pc
      /\ pc[d] = "running" /\ w[d].rc = SUCCESS
      /\ w[d].globals[alias].kind = "queue"
  BY DEF QueueGetCall, Handles
<1>2. PICK doc : doc = document
  OBVIOUS
<1>3. PICK q : q = UnwrapQueueName(w[d].globals[alias].name)
  OBVIOUS
<1>4. /\ w' = [w EXCEPT ![d].pushed = <<doc>> \o @]
      /\ \/ lists' = [lists EXCEPT ![q] = <<doc>> \o @]
         \/ scene.refuses /\ lists' = lists
  BY <1>2, <1>3 DEF QueueGetCall
<1>5. /\ \A e \in Setups \ {d} : w'[e] = w[e]
      /\ w'[d].queue = w[d].queue /\ w'[d].left = w[d].left
      /\ w'[d].pushed = <<doc>> \o w[d].pushed
  BY <1>4 DEF Shapes, Fields
<1>6. ASSUME scene.waits, NEW e \in Setups
      PROVE  Queued(e)'
  <2>1. Queued(e)
    BY <1>6 DEF ListsInv
  <2>2. App(e)' = App(e) /\ Config(e)' = Config(e) /\ Rivals(e)' = Rivals(e)
    BY <1>1, Fixed
  <2> QED
    BY <1>1, <1>5, <2>1, <2>2 DEF Queued
<1>7. ASSUME Separate, NEW e \in Setups
      PROVE  Sole(e)'
  <2>1. Sole(e) /\ scene.waits /\ OwnLists /\ ~ scene.refuses
    BY <1>7 DEF ListsInv, Separate
  <2>2. Rivals(e)' = Rivals(e)
    BY <1>1, Fixed
  <2>3. w[d].queue # Uninit /\ w[d].globals[alias].name = w[d].queue.name
    BY <1>1, <2>1, QueueAlias DEF WorkerInv, Ready
  <2>4. w[d].queue.name \in ListNames(d) /\ w[d].queue.name \in Lists /\ d \in scene.setups
    BY <2>1, <2>3, NamedList
  <2>5. lists' = [lists EXCEPT ![q] = <<doc>> \o @]
    BY <1>4, <2>1
  <2> SUFFICES ASSUME Current(e)'
               PROVE  /\ \A r \in Rivals(e) : pc[r] \in {"idle", "stopped"}
                      /\ w[e].queue.name \in LongNames \/ lists'[w[e].queue.name] = w'[e].pushed
    BY <1>1, <1>5, <2>2 DEF Sole
  <2>6. Current(e)
    BY <1>1, <1>5 DEF Current
  <2>7. CASE e = d
    <3>1. w[d].queue.name \notin LongNames => q = w[d].queue.name
      BY <1>3, <2>3 DEF UnwrapQueueName
    <3>2. w[d].queue.name \notin LongNames => lists'[w[d].queue.name] = <<doc>> \o lists[w[d].queue.name]
      BY <2>4, <2>5, <3>1 DEF ListsInv
    <3> QED
      BY <1>5, <2>1, <2>6, <2>7, <3>2 DEF Sole
  <2>8. CASE e # d
    <3>1. d \notin Rivals(e)
      BY <1>1, <2>1, <2>6 DEF Sole
    <3>2. App(e) # App(d)
      BY <2>8, <3>1 DEF Rivals
    <3>3. w[e].queue.name \in ListNames(e) /\ w[e].queue.name \in Lists /\ e \in scene.setups
      BY <2>1, <2>6, NamedList DEF Current
    <3>4. w[e].queue.name # w[d].queue.name
      BY <2>1, <2>4, <3>2, <3>3 DEF OwnLists
    <3>5. q \in {Garbage, w[d].queue.name}
      BY <1>3, <2>3 DEF UnwrapQueueName
    <3>6. w[e].queue.name # q
      BY <3>3, <3>4, <3>5, SetupAssumption
    <3>7. lists'[w[e].queue.name] = lists[w[e].queue.name]
      BY <2>5, <3>3, <3>6 DEF ListsInv
    <3> QED
      BY <1>5, <2>1, <2>6, <2>8, <3>7 DEF Sole
  <2> QED
    BY <2>7, <2>8
<1>8. Separate' = Separate
  BY <1>1, Fixed
<1>9. DOMAIN table' = Apps /\ DOMAIN lists' = Lists \cup {Garbage}
  BY <1>1, <1>4 DEF ListsInv
<1> QED
  BY <1>1, <1>6, <1>7, <1>8, <1>9 DEF ListsInv

\* Every step keeps ListsInv.
LEMMA ListsNext == Shapes /\ CarriedInv /\ WorkerInv /\ ListsInv /\ [Next]_vars => ListsInv'
<1> SUFFICES ASSUME Shapes, CarriedInv, WorkerInv, ListsInv, [Next]_vars
             PROVE  ListsInv'
  OBVIOUS
<1>1. CASE UNCHANGED vars
  <2>1. scene' = scene /\ pc' = pc /\ w' = w /\ table' = table /\ quit' = quit /\ lists' = lists
    BY <1>1 DEF vars
  <2>2. /\ Separate' = Separate
        /\ \A e \in Setups : App(e)' = App(e) /\ Config(e)' = Config(e) /\ Rivals(e)' = Rivals(e)
    BY <2>1, Fixed
  <2>3. \A e \in Setups : Queued(e) => Queued(e)'
    BY <2>1, <2>2 DEF Queued
  <2>4. \A e \in Setups : Sole(e) => Sole(e)'
    BY <2>1, <2>2 DEF Sole, Current
  <2> QED
    BY <2>1, <2>2, <2>3, <2>4 DEF ListsInv
<1>2. ASSUME NEW d \in Setups, Step(d)
      PROVE  ListsInv'
  <2>1. CASE StoreStart(d) \/ CreateN1QL(d) \/ CreateQueue(d) \/ Publish(d)
    BY <2>1, StartLists, N1QLLists, CreateLists, PublishLists
  <2>2. CASE \E alias \in DOMAIN w[d].globals : QueueGetCall(d, alias)
    BY <2>2, PushLists
  <2> QED
    BY <1>2, <2>1, <2>2, QuietSteps, QuietLists
<1> QED
  BY <1>1, <1>2 DEF Next, Step

\* QueueIsOwn for any number of applications, set-ups, lists and documents: between
\* a worker that stops, the set-up that deletes the list and the worker that starts,
\* a list holds what the current worker enqueued, all of it and nothing else, if the
\* set-up takes longer than the old worker and applications share no list.
THEOREM QueueIsOwnTheorem == Spec => []QueueIsOwn
<1>1. Init => CarriedInv
  BY DEF Init, CarriedInv, Carried, Settled
<1>2. Init => ListsInv
  <2> SUFFICES ASSUME Init
               PROVE  ListsInv
    OBVIOUS
  <2>1. \A e \in Setups : pc[e] = "idle" /\ w[e].queue = Uninit /\ w[e].pushed = <<>>
    BY DEF Init, NewWorker
  <2>2. \A e \in Setups : Queued(e) /\ Sole(e)
    BY <2>1 DEF Queued, Sole, Current, Busy
  <2> QED
    BY <2>2 DEF Init, ListsInv
<1>3. ListsInv => QueueIsOwn
  BY DEF ListsInv, Separate, Sole, Current, QueueIsOwn
<1> QED
  BY <1>1, <1>2, <1>3, ShapesInit, ShapesNext, CarriedNext, WorkerInit, WorkerNext, ListsNext, PTL
  DEF Spec

-----------------------------------------------------------------------------
(* TypeOK, also for set-ups that overlap.                                  *)

Stored == {scene.stored[e] : e \in Setups}
Contents == {Nothing, Partial} \cup Stored

\* What a worker was made from is what the files held; after ParseDeployment a
\* process that is alive has a whole configuration, whose bucket and queues the
\* handles are.
Formed(d) ==
    /\ pc[d] # "idle" => store[d] # "new"
    /\ store[d] # "new" => file[App(d)] # Nothing
    /\ {w[d].seen, w[d].config} \subseteq Contents
    /\ ~ dead /\ pc[d] \in Parsed => w[d].config \in Stored
    /\ pc[d] = "queues" => w[d].left \subseteq DOMAIN QueuesInfo(w[d].config)
    /\ w[d].bucket = Uninit \/ w[d].bucket.alias \in Nat
    /\ w[d].queue = Uninit \/ w[d].queue.name \in Lists

\* What a worker reports and what its handlers use.
Working(d) ==
    /\ w[d].rc \in {Nothing, SUCCESS, FAILED_TO_COMPILE_JS, NO_HANDLERS_DEFINED}
    /\ w[d].exception \in {"", "SyntaxError", "Error"}
    /\ w[d].query = Nothing \/ /\ DOMAIN w[d].query = {"total", "rows"}
                               /\ w[d].query.total \in Nat
                               /\ w[d].query.rows \in 0..w[d].query.total
    /\ \A al \in DOMAIN w[d].globals : w[d].globals[al].kind \in {"bucket", "n1ql", "queue"}

FormedInv ==
    /\ \A a \in Apps : file[a] \in Contents
    /\ store \in [Setups -> {"new", "truncated", "written", "done"}]
    /\ pc \in [Setups -> {"idle"} \cup Busy \cup {"running", "stopped"}]
    /\ table \in [Apps -> Setups \cup {Nothing}]
    /\ quit \subseteq Setups
    /\ dead \in BOOLEAN
    /\ \A d \in Setups : Formed(d)

WorkingInv == \A d \in Setups : Working(d)

\* Documents, and how many each worker enqueued.
Documents == [by : Setups, number : Nat]
Counts == [d \in Setups |-> Len(w[d].pushed)]

\* The documents of a list are different, and each is one that its worker enqueued.
Enqueued(list, counts) ==
    /\ list \in Seq(Documents)
    /\ \A i \in 1..Len(list) : list[i].number \in 1..counts[list[i].by]
    /\ \A i, j \in 1..Len(list) : list[i] = list[j] => i = j

PushedInv ==
    /\ DOMAIN lists = Lists \cup {Garbage}
    /\ \A d \in Setups : w[d].pushed \in Seq(Documents) /\ Len(w[d].pushed) <= MaxPushes
    /\ \A q \in Lists \cup {Garbage} : Enqueued(lists[q], Counts)

\* Every step keeps what is known of the reports, the queries and the aliases.
LEMMA WorkingNext == Shapes /\ WorkingInv /\ [Next]_vars => WorkingInv'
<1> SUFFICES ASSUME Shapes, WorkingInv, [Next]_vars
             PROVE  WorkingInv'
  OBVIOUS
<1>1. CASE UNCHANGED vars
  BY <1>1 DEF vars, WorkingInv, Working
<1>2. ASSUME NEW d \in Setups, Step(d)
      PROVE  WorkingInv'
  <2>1. \A e \in Setups \ {d} : w'[e] = w[e]
    BY <1>2, Others
  <2>2. Working(d)
    BY DEF WorkingInv
  <2> SUFFICES Working(d)'
    BY <2>1 DEF WorkingInv, Working
  <2> USE DEF Shapes, Fields
  <2>3. CASE /\ w'[d].rc = w[d].rc /\ w'[d].exception = w[d].exception
             /\ w'[d].query = w[d].query /\ w'[d].globals = w[d].globals
    BY <2>2, <2>3 DEF Working
  <2>4. CASE \/ StoreTruncate(d) \/ StoreWrite(d) \/ StoreStart(d) \/ GetSource(d)
             \/ AssignStart(d) \/ AssignEnd(d) \/ QueueUnreachable(d) \/ FinishConstructor(d)
             \/ LoadCrashes(d) \/ Publish(d) \/ CallUnloaded(d) \/ Stop(d)
    BY <2>3, <2>4 DEF StoreTruncate, StoreWrite, StoreStart, GetSource, AssignStart, AssignEnd,
       QueueUnreachable, FinishConstructor, LoadCrashes, Publish, CallUnloaded, Stop
  <2>5. CASE LoadApp(d) \/ ParseDeployment(d)
    BY <2>3, <2>5 DEF LoadApp, ParseDeployment
  <2>6. CASE CreateBuckets(d)
    BY <2>3, <2>6 DEF CreateBuckets
  <2>7. CASE CreateN1QL(d)
    <3>1. PICK b, l : w' = [w EXCEPT ![d].n1ql = b, ![d].left = l]
      BY <2>7 DEF CreateN1QL
    <3> QED
      BY <2>3, <3>1
  <2>8. CASE CreateQueue(d)
    BY <2>3, <2>8 DEF CreateQueue
  <2>9. CASE LoadFails(d)
    <3>1. PICK s, x : /\ w' = [w EXCEPT ![d].script = s, ![d].rc = FAILED_TO_COMPILE_JS,
                                       ![d].exception = x]
                      /\ x \in {"SyntaxError", "Error"}
      BY <2>9 DEF LoadFails, ExceptionString
    <3> QED
      BY <2>2, <3>1 DEF Working
  <2>10. CASE LoadNoHandlers(d)
    <3>1. PICK s : w' = [w EXCEPT ![d].script = s, ![d].rc = NO_HANDLERS_DEFINED]
      BY <2>10 DEF LoadNoHandlers
    <3> QED
      BY <2>2, <3>1 DEF Working
  <2>11. CASE LoadSucceeds(d)
    <3>1. PICK gb : gb = InstallBucket(d, <<>>)
      OBVIOUS
    <3>2. \A a \in DOMAIN gb : gb[a].kind = "bucket"
      BY <3>1 DEF InstallBucket, SetGlobal
    <3>3. PICK gn : gn = InstallN1QL(d, gb)
      OBVIOUS
    <3>4. \A a \in DOMAIN gn : gn[a].kind \in {"bucket", "n1ql"}
      BY <3>2, <3>3 DEF InstallN1QL, SetGlobal
    <3>5. PICK g : g = InstallQueue(d, gn)
      OBVIOUS
    <3>6. \A a \in DOMAIN g : g[a].kind \in {"bucket", "n1ql", "queue"}
      BY <3>4, <3>5 DEF InstallQueue, SetGlobal
    <3>7. PICK s : w' = [w EXCEPT ![d].script = s, ![d].rc = SUCCESS, ![d].globals = g]
      BY <2>11, <3>1, <3>3, <3>5 DEF LoadSucceeds
    <3> QED
      BY <2>2, <3>6, <3>7 DEF Working
  <2>12. CASE StartQuery(d)
    <3>1. PICK n \in 0..MaxRows : w' = [w EXCEPT ![d].query = [total |-> n, rows |-> 0]]
      BY <2>12 DEF StartQuery
    <3>2. n \in Nat
      BY SetupAssumption
    <3>3. /\ w'[d].query = [total |-> n, rows |-> 0]
          /\ w'[d].rc = w[d].rc /\ w'[d].exception = w[d].exception
          /\ w'[d].globals = w[d].globals
      BY <3>1
    <3>4. /\ DOMAIN w'[d].query = {"total", "rows"} /\ w'[d].query.total \in Nat
          /\ w'[d].query.rows \in 0..w'[d].query.total
      BY <3>2, <3>3
    <3> QED
      BY <2>2, <3>3, <3>4 DEF Working
  <2>13. CASE QueryRow(d)
    <3>1. /\ w[d].query # Nothing /\ w[d].query.rows < w[d].query.total
          /\ w' = [w EXCEPT ![d].query.rows = @ + 1]
      BY <2>13 DEF QueryRow
    <3>2. w'[d].query = [w[d].query EXCEPT !.rows = @ + 1]
      BY <3>1
    <3>3. /\ DOMAIN w[d].query = {"total", "rows"}
          /\ w[d].query.total \in Nat /\ w[d].query.rows \in 0..w[d].query.total
      BY <2>2, <3>1 DEF Working
    <3>4. /\ DOMAIN w'[d].query = {"total", "rows"} /\ w'[d].query.total = w[d].query.total
          /\ w'[d].query.rows = w[d].query.rows + 1
      BY <3>2, <3>3
    <3>5. w'[d].query.rows \in 0..w'[d].query.total
      BY <3>1, <3>3, <3>4
    <3>6. /\ w'[d].rc = w[d].rc /\ w'[d].exception = w[d].exception
          /\ w'[d].globals = w[d].globals
      BY <3>1
    <3> QED
      BY <2>2, <3>3, <3>4, <3>5, <3>6 DEF Working
  <2>14. ASSUME NEW ok \in BOOLEAN, QueryFinal(d, ok)
         PROVE  Working(d)'
    <3>1. PICK x : w' = [w EXCEPT ![d].query = Nothing, ![d].answer = x]
      BY <2>14 DEF QueryFinal
    <3> QED
      BY <2>2, <3>1 DEF Working
  <2>15. ASSUME NEW alias, QueueGetCall(d, alias)
         PROVE  Working(d)'
    BY <2>3, <2>15 DEF QueueGetCall
  <2> QED
    BY <1>2, <2>4, <2>5, <2>6, <2>7, <2>8, <2>9, <2>10, <2>11, <2>12, <2>13, <2>14, <2>15 DEF Step
<1> QED
  BY <1>1, <1>2 DEF Next, Step

\* An empty list, and one more document.
LEMMA NoneEnqueued ==
  ASSUME NEW counts
  PROVE  Enqueued(<<>>, counts)
  BY DEF Enqueued

\* The counts only grow.
LEMMA StillEnqueued ==
  ASSUME NEW list, NEW counts \in [Setups -> Nat], NEW more \in [Setups -> Nat],
         \A d \in Setups : counts[d] <= more[d], Enqueued(list, counts)
  PROVE  Enqueued(list, more)
<1>1. ASSUME NEW i \in 1..Len(list)
      PROVE  list[i].number \in 1..more[list[i].by]
  <2>0. list[i] \in Documents
    BY DEF Enqueued
  <2>1. list[i].number \in 1..counts[list[i].by] /\ list[i].by \in Setups
    BY <2>0 DEF Enqueued, Documents
  <2>2. /\ counts[list[i].by] \in Nat /\ more[list[i].by] \in Nat
        /\ counts[list[i].by] <= more[list[i].by]
    BY <2>1
  <2> QED
    BY <2>1, <2>2
<1> QED
  BY <1>1 DEF Enqueued

\* The next document of a worker is not in the list.
LEMMA OneMoreEnqueued ==
  ASSUME NEW list, NEW counts \in [Setups -> Nat], NEW d \in Setups,
         NEW doc \in Documents, doc.by = d, doc.number = counts[d] + 1, Enqueued(list, counts)
  PROVE  Enqueued(<<doc>> \o list, [counts EXCEPT ![d] = @ + 1])
<1> DEFINE longer == <<doc>> \o list
           more == [counts EXCEPT ![d] = @ + 1]
<1>1. more \in [Setups -> Nat] /\ more[d] = counts[d] + 1 /\ \A e \in Setups : counts[e] <= more[e]
  OBVIOUS
<1>2. /\ list \in Seq(Documents) /\ Len(list) \in Nat
      /\ Enqueued(list, more)
  BY <1>1, StillEnqueued DEF Enqueued
<1>3. /\ longer \in Seq(Documents) /\ Len(longer) = Len(list) + 1
      /\ longer[1] = doc /\ \A i \in 2..Len(longer) : longer[i] = list[i - 1] /\ i - 1 \in 1..Len(list)
  BY <1>2
<1>4. ASSUME NEW i \in 1..Len(list)
      PROVE  list[i] # doc
  <2>1. list[i].number \in 1..counts[list[i].by]
    BY DEF Enqueued
  <2>2. counts[d] \in Nat
    OBVIOUS
  <2> QED
    BY <2>1, <2>2
<1> HIDE DEF longer, more
<1>5. ASSUME NEW i \in 1..Len(longer)
      PROVE  longer[i].number \in 1..more[longer[i].by]
  <2>1. CASE i = 1
    <3>1. counts[d] \in Nat
      OBVIOUS
    <3> QED
      BY <1>1, <1>3, <2>1, <3>1
  <2>2. CASE i # 1
    <3>1. longer[i] = list[i - 1] /\ i - 1 \in 1..Len(list)
      BY <1>2, <1>3, <2>2
    <3> QED
      BY <1>2, <3>1 DEF Enqueued
  <2> QED
    BY <2>1, <2>2
<1>6. ASSUME NEW i \in 1..Len(longer), NEW j \in 1..Len(longer), longer[i] = longer[j]
      PROVE  i = j
  <2>1. CASE i # 1 /\ j # 1
    <3>1. /\ i - 1 \in 1..Len(list) /\ j - 1 \in 1..Len(list) /\ list[i - 1] = list[j - 1]
      BY <1>2, <1>3, <1>6, <2>1
    <3>2. i - 1 = j - 1
      BY <3>1 DEF Enqueued
    <3> QED
      BY <1>2, <1>3, <3>2
  <2>2. CASE i = 1 /\ j # 1
    <3>1. longer[j] = list[j - 1] /\ j - 1 \in 1..Len(list)
      BY <1>2, <1>3, <2>2
    <3> QED
      BY <1>3, <1>4, <1>6, <2>2, <3>1
  <2>3. CASE j = 1 /\ i # 1
    <3>1. longer[i] = list[i - 1] /\ i - 1 \in 1..Len(list)
      BY <1>2, <1>3, <2>3
    <3> QED
      BY <1>3, <1>4, <1>6, <2>3, <3>1
  <2> QED
    BY <2>1, <2>2, <2>3
<1>7. Enqueued(longer, more)
  BY <1>3, <1>5, <1>6 DEF Enqueued
<1> QED
  BY <1>7 DEF longer, more

\* A list is no longer than what all workers together enqueued.
LEMMA EnqueuedBound ==
  ASSUME NEW list, NEW counts \in [Setups -> Nat], Enqueued(list, counts),
         \A d \in Setups : counts[d] <= MaxPushes
  PROVE  Len(list) <= MaxPushes * Cardinality(Setups)
<1> DEFINE Pairs == Setups \X (1..MaxPushes)
           place == [i \in 1..Len(list) |-> <<list[i].by, list[i].number>>]
<1>1. IsFiniteSet(Setups) /\ MaxPushes \in Nat /\ Len(list) \in Nat
  BY SetupAssumption DEF Enqueued
<1>2. IsFiniteSet(1..MaxPushes) /\ Cardinality(1..MaxPushes) = MaxPushes
  BY <1>1, FS_Interval
<1>3. /\ IsFiniteSet(Pairs)
      /\ Cardinality(Pairs) = Cardinality(Setups) * MaxPushes
  BY <1>1, <1>2, FS_Product
<1>4. ASSUME NEW i \in 1..Len(list)
      PROVE  /\ list[i] \in Documents /\ list[i].by \in Setups
             /\ list[i].number \in 1..MaxPushes
  <2>1. list[i] \in Documents /\ list[i].number \in 1..counts[list[i].by]
    BY DEF Enqueued
  <2>2. list[i].by \in Setups /\ counts[list[i].by] \in Nat /\ counts[list[i].by] <= MaxPushes
    BY <2>1 DEF Documents
  <2> QED
    BY <1>1, <2>1, <2>2
<1>5. place \in Injection(1..Len(list), Pairs)
  <2>1. place \in [1..Len(list) -> Pairs]
    BY <1>4
  <2>2. ASSUME NEW i \in 1..Len(list), NEW j \in 1..Len(list), place[i] = place[j]
        PROVE  i = j
    <3>1. list[i].by = list[j].by /\ list[i].number = list[j].number
      BY <2>2
    <3>2. PICK x \in Documents, y \in Documents : x = list[i] /\ y = list[j]
      BY <1>4
    <3>3. x = [by |-> x.by, number |-> x.number] /\ y = [by |-> y.by, number |-> y.number]
      BY DEF Documents
    <3>4. list[i] = list[j]
      BY <3>1, <3>2, <3>3
    <3> QED
      BY <3>4 DEF Enqueued
  <2> HIDE DEF place, Pairs
  <2> QED
    BY <2>1, <2>2 DEF Injection, IsInjective
<1>6. Cardinality(1..Len(list)) = Len(list)
  <2>1. PICK n \in Nat : n = Len(list)
    BY <1>1
  <2>2. Cardinality(1..n) = n
    BY FS_Interval
  <2> QED
    BY <2>1, <2>2
<1>7. Len(list) <= Cardinality(Setups) * MaxPushes
  <2> HIDE DEF Pairs, place
  <2> QED
    BY <1>3, <1>5, <1>6, FS_Injection
<1>8. Cardinality(Setups) \in Nat
  BY <1>1, FS_CardinalityType
<1>9. \A m, n \in Nat : m * n = n * m
  OBVIOUS
<1> QED
  BY <1>1, <1>7, <1>8, <1>9

\* Every step keeps PushedInv: a worker numbers what it enqueues, and nobody else
\* enqueues in its name.
LEMMA PushedNext == Shapes /\ PushedInv /\ [Next]_vars => PushedInv'
<1> SUFFICES ASSUME Shapes, PushedInv, [Next]_vars
             PROVE  PushedInv'
  OBVIOUS
<1> DEFINE Names == Lists \cup {Garbage}
<1>0. Counts \in [Setups -> Nat]
  BY DEF PushedInv, Counts
<1>1. ASSUME \A e \in Setups : w'[e].pushed = w[e].pushed,
             lists' = lists \/ \E q : lists' = [lists EXCEPT ![q] = <<>>]
      PROVE  PushedInv'
  <2>1. DOMAIN lists' = Names /\ \A q \in Names : lists'[q] = lists[q] \/ lists'[q] = <<>>
    BY <1>1 DEF PushedInv
  <2>2. Counts' = Counts
    BY <1>1 DEF Counts
  <2>3. \A q \in Names : Enqueued(lists'[q], Counts)
    BY <2>1, NoneEnqueued DEF PushedInv
  <2> QED
    BY <1>1, <2>1, <2>2, <2>3 DEF PushedInv
<1>2. ASSUME NEW d \in Setups, Step(d), ~ CreateQueue(d),
             ~ \E alias \in DOMAIN w[d].globals : QueueGetCall(d, alias)
      PROVE  PushedInv'
  <2>1. \A e \in Setups \ {d} : w'[e] = w[e]
    BY <1>2, Others
  <2>2. CASE StoreStart(d) \/ Publish(d)
    BY <1>1, <2>2 DEF StoreStart, Publish
  <2>3. CASE CreateN1QL(d)
    <3>1. PICK b, l : w' = [w EXCEPT ![d].n1ql = b, ![d].left = l]
      BY <2>3 DEF CreateN1QL
    <3>2. lists' = lists
      BY <2>3 DEF CreateN1QL
    <3>3. \A e \in Setups : w'[e].pushed = w[e].pushed
      BY <3>1 DEF Shapes, Fields
    <3> QED
      BY <1>1, <3>2, <3>3
  <2>4. CASE ~ (StoreStart(d) \/ CreateN1QL(d) \/ CreateQueue(d) \/ Publish(d))
    BY <1>1, <1>2, <2>1, <2>4, QuietSteps DEF Quiet
  <2> QED
    BY <1>2, <2>2, <2>3, <2>4
<1>3. ASSUME NEW d \in Setups, CreateQueue(d)
      PROVE  PushedInv'
  <2>1. PICK q : lists' = [lists EXCEPT ![q] = <<>>]
    BY <1>3 DEF CreateQueue
  <2>2. \A e \in Setups : w'[e].pushed = w[e].pushed
    BY <1>3 DEF CreateQueue, Shapes, Fields
  <2> QED
    BY <1>1, <2>1, <2>2
<1>4. ASSUME NEW d \in Setups, NEW alias, QueueGetCall(d, alias)
      PROVE  PushedInv'
  <2>1. PICK doc, q : /\ doc = [by |-> d, number |-> Len(w[d].pushed) + 1]
                      /\ q = UnwrapQueueName(w[d].globals[alias].name)
    OBVIOUS
  <2>2. /\ Len(w[d].pushed) < MaxPushes
        /\ w' = [w EXCEPT ![d].pushed = <<doc>> \o @]
        /\ lists' = [lists EXCEPT ![q] = <<doc>> \o @] \/ lists' = lists
    BY <1>4, <2>1 DEF QueueGetCall
  <2>3. /\ \A e \in Setups \ {d} : w'[e].pushed = w[e].pushed
        /\ w'[d].pushed = <<doc>> \o w[d].pushed
    BY <2>2 DEF Shapes, Fields
  <2>4. /\ w[d].pushed \in Seq(Documents) /\ Len(w[d].pushed) \in Nat
        /\ \A e \in Setups : w[e].pushed \in Seq(Documents) /\ Len(w[e].pushed) <= MaxPushes
        /\ MaxPushes \in Nat
    BY SetupAssumption DEF PushedInv
  <2>5. doc \in Documents /\ doc.by = d /\ doc.number = Counts[d] + 1
    BY <2>1, <2>4 DEF Documents, Counts
  <2>6. PICK longer : longer = <<doc>> \o w[d].pushed
    OBVIOUS
  <2>7. longer \in Seq(Documents) /\ Len(longer) = Len(w[d].pushed) + 1
    BY <2>4, <2>5, <2>6
  <2>8. PICK more : more = [Counts EXCEPT ![d] = @ + 1]
    OBVIOUS
  <2>9. Counts' = more
    <3>1. \A e \in Setups : Len(w'[e].pushed) = more[e]
      BY <1>0, <2>3, <2>6, <2>7, <2>8 DEF Counts
    <3>2. more = [e \in Setups |-> more[e]]
      BY <1>0, <2>8
    <3> QED
      BY <3>1, <3>2 DEF Counts
  <2>10. more \in [Setups -> Nat] /\ \A e \in Setups : Counts[e] <= more[e]
    BY <1>0, <2>8
  <2>11. DOMAIN lists' = Names /\ \A k \in Names : lists'[k] = lists[k] \/ lists'[k] = <<doc>> \o lists[k]
    BY <2>2 DEF PushedInv
  <2>12. ASSUME NEW k \in Names
         PROVE  Enqueued(lists'[k], more)
    <3>1. Enqueued(lists[k], Counts)
      BY DEF PushedInv
    <3>2. PICK list : list = lists[k]
      OBVIOUS
    <3>3. Enqueued(list, more) /\ Enqueued(<<doc>> \o list, more)
      BY <1>0, <2>5, <2>8, <2>10, <3>1, <3>2, StillEnqueued, OneMoreEnqueued
    <3> QED
      BY <2>11, <3>2, <3>3
  <2>13. \A e \in Setups : w'[e].pushed \in Seq(Documents) /\ Len(w'[e].pushed) <= MaxPushes
    <3>1. Len(longer) <= MaxPushes
      BY <2>2, <2>4, <2>7
    <3> QED
      BY <2>3, <2>4, <2>6, <2>7, <3>1
  <2> QED
    BY <2>9, <2>11, <2>12, <2>13 DEF PushedInv
<1>5. CASE UNCHANGED vars
  BY <1>1, <1>5 DEF vars
<1> QED
  BY <1>2, <1>3, <1>4, <1>5 DEF Next, Step

\* What a stored configuration gives the handles.
LEMMA StoredEntry ==
  ASSUME Shapes, NEW c \in Stored
  PROVE  /\ Complete(c)
         /\ DOMAIN QueuesInfo(c) \subseteq Nat
         /\ \A k \in DOMAIN QueuesInfo(c) : QueuesInfo(c)[k].name \in Lists
         /\ DOMAIN BucketsInfo(c) # {} => BucketsInfo(c)[Max(DOMAIN BucketsInfo(c))].alias \in Nat
<1>1. Complete(c)
  BY StoredAssumption DEF Shapes, Stored
<1>2. DOMAIN QueuesInfo(c) \subseteq Nat
  BY <1>1, ProvidersOrdered
<1>3. ASSUME NEW k \in DOMAIN QueuesInfo(c)
      PROVE  QueuesInfo(c)[k].name \in Lists
  <2>1. PICK i \in DOMAIN c.queues : QueuesInfo(c)[k] = c.queues[i]
    BY <1>1, QueueEntry
  <2> QED
    BY <1>1, <2>1 DEF Complete
<1>4. ASSUME DOMAIN BucketsInfo(c) # {}
      PROVE  BucketsInfo(c)[Max(DOMAIN BucketsInfo(c))].alias \in Nat
  <2>1. PICK k : k = Max(DOMAIN BucketsInfo(c))
    OBVIOUS
  <2>2. k \in DOMAIN BucketsInfo(c)
    BY <1>1, <1>4, <2>1, LastAlias
  <2>3. PICK i \in DOMAIN c.buckets : BucketsInfo(c)[k] = c.buckets[i]
    BY <1>1, <2>2, BucketEntry
  <2>4. BucketsInfo(c)[k].alias \in Nat
    BY <1>1, <2>3 DEF Complete
  <2> QED
    BY <2>1, <2>4
<1> QED
  BY <1>1, <1>2, <1>3, <1>4

\* A step of another set-up, or none: a file is never removed, and the process does
\* not come back to life.
LEMMA FormedKept ==
  ASSUME FormedInv, NEW e \in Setups, scene' = scene,
         w'[e] = w[e], pc'[e] = pc[e], store'[e] = store[e],
         file'[App(e)] # file[App(e)] => file'[App(e)] # Nothing, dead => dead'
  PROVE  Formed(e)'
<1>1. Formed(e)
  BY DEF FormedInv
<1>2. App(e)' = App(e) /\ Contents' = Contents /\ Stored' = Stored
  BY DEF App, Contents, Stored
<1>3. dead \in BOOLEAN
  BY DEF FormedInv
<1> QED
  BY <1>1, <1>2, <1>3 DEF Formed

\* What a step of the set-up leaves alone.
Same(d) ==
    /\ w'[d].seen = w[d].seen /\ w'[d].config = w[d].config
    /\ w'[d].bucket = w[d].bucket /\ w'[d].queue = w[d].queue

\* The steps that store the application and read it.
LEMMA FormedReads ==
  ASSUME Shapes, FormedInv, NEW d \in Setups,
         \/ StoreTruncate(d) \/ StoreWrite(d) \/ StoreStart(d)
         \/ GetSource(d) \/ LoadApp(d) \/ ParseDeployment(d)
  PROVE  Formed(d)'
<1> USE DEF Shapes, Fields
<1>1. Formed(d) /\ App(d) \in Apps /\ file[App(d)] \in Contents /\ store[d] \in {"new", "truncated", "written", "done"}
  BY SetupAssumption DEF FormedInv, App
<1>2. scene' = scene
  BY DEF StoreTruncate, StoreWrite, StoreStart, GetSource, LoadApp, ParseDeployment
<1>3. App(d)' = App(d) /\ Contents' = Contents /\ Stored' = Stored
  BY <1>2 DEF App, Contents, Stored
<1>4. Nothing # Partial /\ scene.stored[d] # Nothing
  BY StoredAssumption DEF Complete
<1>5. CASE StoreTruncate(d)
  <2>1. /\ pc' = pc /\ w' = w /\ dead' = dead /\ store'[d] = "truncated" /\ file'[App(d)] = Partial
    BY <1>1, <1>5 DEF StoreTruncate
  <2> QED
    BY <1>1, <1>3, <1>4, <2>1 DEF Formed
<1>6. CASE StoreWrite(d)
  <2>1. /\ pc' = pc /\ w' = w /\ dead' = dead /\ store'[d] = "written"
        /\ file'[App(d)] = scene.stored[d]
    BY <1>1, <1>6 DEF StoreWrite
  <2> QED
    BY <1>1, <1>3, <1>4, <2>1 DEF Formed
<1>7. CASE StoreStart(d)
  <2>1. /\ w' = w /\ file' = file /\ store[d] = "written" /\ store'[d] = "done" /\ pc'[d] = "start"
    BY <1>7 DEF StoreStart
  <2> QED
    BY <1>1, <1>3, <2>1 DEF Formed, Parsed, Bucketed, Built, Executed
<1>8. CASE GetSource(d)
  <2>1. w' = w /\ file' = file /\ store' = store /\ pc[d] = "start" /\ pc'[d] = "load"
    BY <1>8 DEF GetSource
  <2> QED
    BY <1>1, <1>3, <2>1 DEF Formed, Parsed, Bucketed, Built, Executed
<1>9. CASE LoadApp(d)
  <2>1. /\ file' = file /\ store' = store /\ pc[d] = "load" /\ pc'[d] = "construct"
        /\ w'[d].seen = file[App(d)] /\ w'[d].config = w[d].config
        /\ w'[d].bucket = w[d].bucket /\ w'[d].queue = w[d].queue
    BY <1>9 DEF LoadApp
  <2> QED
    BY <1>1, <1>3, <2>1 DEF Formed, Parsed, Bucketed, Built, Executed
<1>10. CASE ParseDeployment(d)
  <2>1. /\ file' = file /\ store' = store /\ pc[d] = "construct" /\ pc'[d] = "assign"
        /\ w'[d].config = file[App(d)] /\ w'[d].seen = w[d].seen
        /\ w'[d].bucket = w[d].bucket /\ w'[d].queue = w[d].queue
        /\ dead' = (file[App(d)] = Partial)
    BY <1>10 DEF ParseDeployment
  <2>2. file[App(d)] # Nothing
    BY <1>1, <2>1 DEF Formed
  <2>3. ~ dead' => file[App(d)] \in Stored
    BY <1>1, <2>1, <2>2 DEF Contents
  <2> QED
    BY <1>1, <1>3, <2>1, <2>3 DEF Formed
<1> QED
  BY <1>5, <1>6, <1>7, <1>8, <1>9, <1>10

\* The constructor takes its bucket and its queues from the configuration.
LEMMA FormedBuilds ==
  ASSUME Shapes, FormedInv, NEW d \in Setups, CreateBuckets(d) \/ CreateN1QL(d) \/ CreateQueue(d)
  PROVE  Formed(d)'
<1> USE DEF Shapes, Fields
<1>1. Formed(d) /\ dead \in BOOLEAN
  BY DEF FormedInv
<1>2. /\ scene' = scene /\ file' = file /\ store' = store /\ dead' = dead /\ ~ dead
      /\ pc[d] \in {"buckets", "n1ql", "n1ql again", "queues"}
      /\ pc'[d] \in {"n1ql", "n1ql again", "queues"}
  BY DEF CreateBuckets, CreateN1QL, CreateQueue
<1>3. App(d)' = App(d) /\ Contents' = Contents /\ Stored' = Stored
  BY <1>2 DEF App, Contents, Stored
<1>4. PICK c \in Stored : c = w[d].config
  BY <1>1, <1>2 DEF Formed, Parsed, Bucketed
<1>5. /\ DOMAIN QueuesInfo(c) \subseteq Nat
      /\ \A k \in DOMAIN QueuesInfo(c) : QueuesInfo(c)[k].name \in Lists
      /\ DOMAIN BucketsInfo(c) # {} => BucketsInfo(c)[Max(DOMAIN BucketsInfo(c))].alias \in Nat
  BY StoredEntry
<1>6. CASE CreateBuckets(d)
  <2>1. PICK b : b = LastBucket(d)
    OBVIOUS
  <2>2. /\ w'[d].bucket = b /\ w'[d].seen = w[d].seen /\ w'[d].config = w[d].config
        /\ w'[d].queue = w[d].queue /\ pc'[d] = "n1ql"
    BY <1>6, <2>1 DEF CreateBuckets
  <2>3. b = Uninit \/ b.alias \in Nat
    BY <1>1, <1>4, <1>5, <2>1 DEF LastBucket, Formed
  <2> QED
    BY <1>1, <1>2, <1>3, <1>4, <2>2, <2>3 DEF Formed
<1>7. CASE CreateN1QL(d)
  <2>1. PICK b : w' = [w EXCEPT ![d].n1ql = b, ![d].left = DOMAIN QueuesInfo(w[d].config)]
    BY <1>7 DEF CreateN1QL
  <2>2. /\ w'[d].left = DOMAIN QueuesInfo(w[d].config) /\ w'[d].config = w[d].config
        /\ w'[d].seen = w[d].seen /\ w'[d].bucket = w[d].bucket /\ w'[d].queue = w[d].queue
    BY <2>1
  <2> QED
    BY <1>1, <1>2, <1>3, <1>4, <2>2 DEF Formed
<1>8. CASE CreateQueue(d)
  <2>1. PICK k : k = Min(w[d].left)
    OBVIOUS
  <2>2. PICK x : x = NextQueue(d)
    OBVIOUS
  <2>3. w[d].left # {} /\ w[d].left \subseteq DOMAIN QueuesInfo(c) /\ pc[d] = "queues" /\ pc' = pc
    BY <1>1, <1>4, <1>8 DEF CreateQueue, Formed
  <2>4. k \in w[d].left
    BY <1>5, <2>1, <2>3, LeftLeast
  <2>5. x.name \in Lists
    BY <1>4, <1>5, <2>1, <2>2, <2>3, <2>4 DEF NextQueue
  <2>6. w' = [w EXCEPT ![d].left = w[d].left \ {k}, ![d].queue = x]
    BY <1>8, <2>1, <2>2 DEF CreateQueue
  <2>7. /\ w'[d].left \subseteq w[d].left /\ w'[d].config = w[d].config
        /\ w'[d].seen = w[d].seen /\ w'[d].bucket = w[d].bucket /\ w'[d].queue = x
    BY <2>6
  <2> QED
    BY <1>1, <1>2, <1>3, <1>4, <2>3, <2>5, <2>7 DEF Formed
<1> QED
  BY <1>6, <1>7, <1>8

\* The other steps touch none of it.
LEMMA FormedRest ==
  ASSUME Shapes, FormedInv, NEW d \in Setups, Step(d),
         ~ (StoreTruncate(d) \/ StoreWrite(d) \/ StoreStart(d)),
         ~ (GetSource(d) \/ LoadApp(d) \/ ParseDeployment(d)),
         ~ (CreateBuckets(d) \/ CreateN1QL(d) \/ CreateQueue(d))
  PROVE  /\ file' = file /\ store' = store
         /\ Formed(d)'
<1> USE DEF Shapes, Fields
<1>1. Formed(d) /\ dead \in BOOLEAN
  BY DEF FormedInv
<1>2. scene' = scene
  BY Others
<1>3. App(d)' = App(d) /\ Contents' = Contents /\ Stored' = Stored
  BY <1>2 DEF App, Contents, Stored
<1> DEFINE Goal == /\ file' = file /\ store' = store /\ (dead => dead')
                   /\ Same(d)
                   /\ \/ pc' = pc /\ w'[d].left = w[d].left
                      \/ pc[d] \in Parsed /\ pc'[d] \in Parsed \ {"queues"}
<1>g. Goal => Formed(d)'
  BY <1>1, <1>3 DEF Same, Formed, Parsed, Bucketed, Built, Executed
<1> SUFFICES Goal
  BY <1>g
<1>4. CASE AssignStart(d) \/ AssignEnd(d) \/ QueueUnreachable(d) \/ FinishConstructor(d)
  BY <1>1, <1>4 DEF AssignStart, AssignEnd, QueueUnreachable, FinishConstructor, Same,
     Parsed, Bucketed, Built, Executed
<1>5. CASE LoadFails(d)
  BY <1>1, <1>5 DEF LoadFails, Same, Parsed, Bucketed, Built, Executed
<1>6. CASE LoadNoHandlers(d)
  BY <1>1, <1>6 DEF LoadNoHandlers, Same, Parsed, Bucketed, Built, Executed
<1>7. CASE LoadSucceeds(d)
  <2>1. PICK s, r, g : w' = [w EXCEPT ![d].script = s, ![d].rc = r, ![d].globals = g]
    BY <1>7 DEF LoadSucceeds
  <2> QED
    BY <1>1, <1>7, <2>1 DEF LoadSucceeds, Same, Parsed, Bucketed, Built, Executed
<1>8. CASE LoadCrashes(d) \/ Publish(d) \/ CallUnloaded(d) \/ Stop(d)
  BY <1>1, <1>8 DEF LoadCrashes, Publish, CallUnloaded, Stop, Handles, Same,
     Parsed, Bucketed, Built, Executed
<1>9. CASE StartQuery(d) \/ QueryRow(d)
  <2>1. PICK q : w' = [w EXCEPT ![d].query = q]
    BY <1>9 DEF StartQuery, QueryRow
  <2> QED
    BY <1>1, <1>9, <2>1 DEF StartQuery, QueryRow, Same
<1>10. ASSUME NEW ok \in BOOLEAN, QueryFinal(d, ok)
       PROVE  Goal
  <2>1. PICK q, a : w' = [w EXCEPT ![d].query = q, ![d].answer = a]
    BY <1>10 DEF QueryFinal
  <2> QED
    BY <1>1, <1>10, <2>1 DEF QueryFinal, Same
<1>11. ASSUME NEW alias, QueueGetCall(d, alias)
       PROVE  Goal
  BY <1>1, <1>11 DEF QueueGetCall, Same
<1> QED
  BY <1>4, <1>5, <1>6, <1>7, <1>8, <1>9, <1>10, <1>11 DEF Step

\* A file is truncated or written, never removed; the process is alive.
LEMMA FileStep ==
  ASSUME Shapes, FormedInv, NEW d \in Setups, Step(d)
  PROVE  /\ \A a \in Apps : file'[a] = file[a] \/ (file'[a] \in Contents /\ file'[a] # Nothing)
         /\ dead \in BOOLEAN /\ ~ dead /\ dead' \in BOOLEAN
<1> USE DEF Shapes
<1>0. /\ dead \in BOOLEAN
      /\ Nothing # Partial /\ scene.stored[d] # Nothing
      /\ Partial \in Contents /\ scene.stored[d] \in Contents
  BY StoredAssumption DEF FormedInv, Complete, Contents, Stored
<1>1. CASE StoreTruncate(d) \/ StoreWrite(d)
  BY <1>0, <1>1 DEF StoreTruncate, StoreWrite
<1>2. CASE StoreStart(d) \/ GetSource(d) \/ LoadApp(d) \/ ParseDeployment(d)
  BY <1>0, <1>2 DEF StoreStart, GetSource, LoadApp, ParseDeployment
<1>3. CASE \/ AssignStart(d) \/ AssignEnd(d) \/ CreateBuckets(d) \/ CreateN1QL(d)
           \/ CreateQueue(d) \/ QueueUnreachable(d) \/ FinishConstructor(d)
  BY <1>0, <1>3 DEF AssignStart, AssignEnd, CreateBuckets, CreateN1QL, CreateQueue,
     QueueUnreachable, FinishConstructor
<1>4. CASE \/ LoadFails(d) \/ LoadNoHandlers(d) \/ LoadCrashes(d) \/ LoadSucceeds(d)
           \/ Publish(d) \/ CallUnloaded(d) \/ StartQuery(d) \/ QueryRow(d) \/ Stop(d)
  BY <1>0, <1>4 DEF LoadFails, LoadNoHandlers, LoadCrashes, LoadSucceeds, Publish,
     CallUnloaded, StartQuery, QueryRow, Stop, Handles
<1>5. CASE \/ \E alias \in DOMAIN w[d].globals : QueueGetCall(d, alias)
           \/ \E ok \in BOOLEAN : QueryFinal(d, ok)
  BY <1>0, <1>5 DEF QueueGetCall, QueryFinal, Handles
<1> QED
  BY <1>1, <1>2, <1>3, <1>4, <1>5 DEF Step

\* Where the set-ups are, workerTable, and who is told to quit.
LEMMA PlacesStep ==
  ASSUME Shapes, FormedInv, NEW d \in Setups, Step(d)
  PROVE  /\ store' \in [Setups -> {"new", "truncated", "written", "done"}]
         /\ pc' \in [Setups -> {"idle"} \cup Busy \cup {"running", "stopped"}]
         /\ table' \in [Apps -> Setups \cup {Nothing}] /\ quit' \subseteq Setups
<1>0. /\ store \in [Setups -> {"new", "truncated", "written", "done"}]
      /\ pc \in [Setups -> {"idle"} \cup Busy \cup {"running", "stopped"}]
      /\ table \in [Apps -> Setups \cup {Nothing}] /\ quit \subseteq Setups
      /\ App(d) \in Apps
  BY SetupAssumption DEF FormedInv, Shapes, App
<1> USE DEF Busy
<1>1. CASE StoreTruncate(d) \/ StoreWrite(d)
  BY <1>0, <1>1 DEF StoreTruncate, StoreWrite
<1>7. CASE StoreStart(d)
  <2>1. quit' = quit \cup ({table[App(d)]} \ {Nothing}) /\ table' = table
    BY <1>7 DEF StoreStart
  <2>2. quit' \subseteq Setups
    BY <1>0, <2>1
  <2> QED
    BY <1>0, <1>7, <2>1, <2>2 DEF StoreStart
<1>2. CASE GetSource(d) \/ LoadApp(d) \/ ParseDeployment(d) \/ AssignStart(d) \/ AssignEnd(d)
  BY <1>0, <1>2 DEF GetSource, LoadApp, ParseDeployment, AssignStart, AssignEnd
<1>3. CASE \/ CreateBuckets(d) \/ CreateN1QL(d)
           \/ CreateQueue(d) \/ QueueUnreachable(d) \/ FinishConstructor(d)
  BY <1>0, <1>3 DEF CreateBuckets, CreateN1QL, CreateQueue, QueueUnreachable, FinishConstructor
<1>4. CASE LoadFails(d) \/ LoadNoHandlers(d) \/ LoadCrashes(d) \/ LoadSucceeds(d) \/ Publish(d)
  BY <1>0, <1>4 DEF LoadFails, LoadNoHandlers, LoadCrashes, LoadSucceeds, Publish
<1>5. CASE CallUnloaded(d) \/ StartQuery(d) \/ QueryRow(d) \/ Stop(d)
  BY <1>0, <1>5 DEF CallUnloaded, StartQuery, QueryRow, Stop
<1>6. CASE \/ \E alias \in DOMAIN w[d].globals : QueueGetCall(d, alias)
           \/ \E ok \in BOOLEAN : QueryFinal(d, ok)
  BY <1>0, <1>6 DEF QueueGetCall, QueryFinal
<1> QED
  BY <1>1, <1>2, <1>3, <1>4, <1>5, <1>6, <1>7 DEF Step

\* Every step keeps FormedInv.
LEMMA FormedNext == Shapes /\ FormedInv /\ [Next]_vars => FormedInv'
<1> SUFFICES ASSUME Shapes, FormedInv, [Next]_vars
             PROVE  FormedInv'
  OBVIOUS
<1>1. CASE UNCHANGED vars
  <2>1. Contents' = Contents
    BY <1>1 DEF vars, Contents, Stored
  <2>2. \A e \in Setups : Formed(e)'
    BY <1>1, FormedKept DEF vars
  <2> QED
    BY <1>1, <2>1, <2>2 DEF vars, FormedInv
<1>2. ASSUME NEW d \in Setups, Step(d)
      PROVE  FormedInv'
  <2>1. /\ scene' = scene
        /\ \A e \in Setups \ {d} : w'[e] = w[e] /\ pc'[e] = pc[e] /\ store'[e] = store[e]
    BY <1>2, Others
  <2>2. Contents' = Contents /\ \A e \in Setups : App(e) \in Apps
    BY <2>1, SetupAssumption DEF Contents, Stored, Shapes, App
  <2>3. /\ \A a \in Apps : file'[a] = file[a] \/ (file'[a] \in Contents /\ file'[a] # Nothing)
        /\ dead \in BOOLEAN /\ ~ dead /\ dead' \in BOOLEAN
    BY <1>2, FileStep
  <2>4. \A a \in Apps : file'[a] \in Contents
    BY <2>3 DEF FormedInv
  <2>5. \A e \in Setups \ {d} : Formed(e)'
    BY <2>1, <2>2, <2>3, FormedKept
  <2>6. Formed(d)'
    BY <1>2, FormedReads, FormedBuilds, FormedRest
  <2>7. /\ store' \in [Setups -> {"new", "truncated", "written", "done"}]
        /\ pc' \in [Setups -> {"idle"} \cup Busy \cup {"running", "stopped"}]
        /\ table' \in [Apps -> Setups \cup {Nothing}] /\ quit' \subseteq Setups
    BY <1>2, PlacesStep
  <2> QED
    BY <2>2, <2>3, <2>4, <2>5, <2>6, <2>7 DEF FormedInv
<1> QED
  BY <1>1, <1>2 DEF Next, Step

\* Every variable of WorkerSetup has its type, however set-ups overlap and wherever
\* they meet a file that is half written; and a list never holds more documents than
\* the workers enqueued, because no document is in it twice.
THEOREM WorkerTypes == Spec => []TypeOK
<1>1. Init => FormedInv /\ WorkingInv /\ PushedInv
  <2> SUFFICES ASSUME Init
               PROVE  FormedInv /\ WorkingInv /\ PushedInv
    OBVIOUS
  <2>1. \A d \in Setups :
           /\ pc[d] = "idle" /\ store[d] = "new"
           /\ w[d].seen = Nothing /\ w[d].config = Nothing
           /\ w[d].bucket = Uninit /\ w[d].queue = Uninit
           /\ w[d].rc = Nothing /\ w[d].exception = "" /\ w[d].query = Nothing
           /\ w[d].globals = <<>> /\ w[d].pushed = <<>>
    BY DEF Init, NewWorker
  <2>2. \A d \in Setups : Formed(d)
    BY <2>1 DEF Formed, Contents, Parsed, Bucketed, Built, Executed
  <2>3. WorkingInv
    <3>1. DOMAIN <<>> = {}
      OBVIOUS
    <3>2. \A d \in Setups : DOMAIN w[d].globals = {}
      BY <2>1, <3>1
    <3> QED
      BY <2>1, <3>2 DEF WorkingInv, Working
  <2>4. FormedInv
    BY <2>2 DEF Init, FormedInv, Contents
  <2>5. PushedInv
    <3>1. DOMAIN lists = Lists \cup {Garbage} /\ \A q \in Lists \cup {Garbage} : lists[q] = <<>>
      BY DEF Init
    <3>2. MaxPushes \in Nat
      BY SetupAssumption
    <3>3. <<>> \in Seq(Documents) /\ Len(<<>>) <= MaxPushes
      BY <3>2
    <3>4. \A d \in Setups : w[d].pushed \in Seq(Documents) /\ Len(w[d].pushed) <= MaxPushes
      BY <2>1, <3>3
    <3>5. \A q \in Lists \cup {Garbage} : Enqueued(lists[q], Counts)
      BY <3>1, NoneEnqueued
    <3> QED
      BY <3>1, <3>4, <3>5 DEF PushedInv
  <2> QED
    BY <2>3, <2>4, <2>5
<1>2. Shapes /\ FormedInv /\ WorkingInv /\ PushedInv => TypeOK
  <2> SUFFICES ASSUME Shapes, FormedInv, WorkingInv, PushedInv
               PROVE  TypeOK
    OBVIOUS
  <2>1. Counts \in [Setups -> Nat] /\ \A d \in Setups : Counts[d] <= MaxPushes
    BY DEF PushedInv, Counts
  <2>2. ASSUME NEW q \in Lists \cup {Garbage}
        PROVE  Len(lists[q]) <= MaxPushes * Cardinality(Setups)
    BY <2>1, EnqueuedBound DEF PushedInv
  <2>3. ASSUME NEW d \in Setups
        PROVE  /\ {w[d].seen, w[d].config, file[App(d)]} \subseteq
                     {Nothing, Partial} \cup {scene.stored[e] : e \in Setups}
               /\ w[d].bucket = Uninit \/ w[d].bucket.alias \in Nat
               /\ w[d].queue = Uninit \/ w[d].queue.name \in Lists
    <3>1. App(d) \in Apps
      BY SetupAssumption DEF Shapes, App
    <3> QED
      BY <3>1 DEF FormedInv, Formed, Contents, Stored
  <2>4. \A d \in Setups : Working(d)
    BY DEF WorkingInv
  <2> QED
    BY <2>2, <2>3, <2>4 DEF TypeOK, FormedInv, Working, Busy
<1> QED
  BY <1>1, <1>2, ShapesInit, ShapesNext, FormedNext, WorkingNext, PushedNext, PTL DEF Spec
=============================================================================
