---------------------------- MODULE WorkerSetup ----------------------------
(***************************************************************************)
(* From a stored application to a worker that handles events: storeAppSetup *)
(* writes ./apps/<name> and starts a set-up; the set-up reads the file     *)
(* three times, builds the C++ Worker with its bucket, n1ql and queue      *)
(* objects, loads the script into it and publishes it.  Set-ups run in     *)
(* goroutines and share the files, the C++ globals cb_cluster_*, and the   *)
(* lists of the Redis server with the workers that are already running.    *)
(***************************************************************************)
EXTENDS ScriptPreprocess, TLC

CONSTANTS
    Apps,       \* application names
    Setups,     \* set-ups; each names the worker it makes too
    Lists,      \* names of Redis lists
    LongNames,  \* the names of more than 22 bytes among them
    Scenes,     \* what is stored, in which order, and what the surroundings are
    MaxPushes,  \* bound: documents a worker enqueues
    MaxRows,    \* bound: rows of a query's result
    Nothing,    \* no file, no handle, no call
    Partial,    \* a file that WriteFile has truncated and not yet written
    Uninit      \* a pointer member that the constructor does not set

N1qlAlias == 0        \* "_n1ql"; the other aliases are numbers, in their order
Torn == "torn"        \* a bucket name read or written by two threads at once
Garbage == "garbage"  \* the list that a name read from the wrong bytes leads to

SUCCESS == "SUCCESS"
FAILED_TO_COMPILE_JS == "FAILED_TO_COMPILE_JS"
NO_HANDLERS_DEFINED == "NO_HANDLERS_DEFINED"

ASSUME SetupAssumption ==
    /\ LongNames \subseteq Lists
    /\ Garbage \notin Lists
    /\ IsFiniteSet(Setups)
    /\ MaxPushes \in Nat /\ MaxRows \in Nat
    /\ \A s \in Scenes : \A d \in Setups : s.app[d] \in Apps

\* A complete configuration: sequences of buckets and of queues, whose aliases and
\* providers are numbered in the order of their names, and a script.
Complete(c) ==
    /\ c \notin {Nothing, Partial}
    /\ c.buckets \in Seq({c.buckets[i] : i \in DOMAIN c.buckets})
    /\ c.queues \in Seq({c.queues[i] : i \in DOMAIN c.queues})
    /\ \A i \in DOMAIN c.buckets : c.buckets[i] # Uninit /\ c.buckets[i].alias \in Nat
    /\ \A i \in DOMAIN c.queues : /\ c.queues[i] # Uninit /\ c.queues[i].provider \in Nat
                                  /\ c.queues[i].name \in Lists
    /\ c.code.text \in Seq(Tokens)

ASSUME StoredAssumption ==
    /\ Nothing \notin Setups \cup {SUCCESS, Partial}
    /\ \A s \in Scenes : \A d \in Setups : Complete(s.stored[d])

VARIABLES
    scene,           \* one of Scenes
    file,            \* per application, the content of ./apps/<name>
    store,           \* where the storeAppSetup call of each set-up is
    pc,              \* where each set-up, and then its worker, is
    w,               \* the worker of each set-up
    clusterBucket,   \* the global cb_cluster_bucket
    table,           \* workerTable
    quit,            \* the workers with a message in their Quit channel
    lists,           \* the lists of the Redis server
    dead             \* the process has exited or crashed

vars == <<scene, file, store, pc, w, clusterBucket, table, quit, lists, dead>>

\* A worker before its construction: the application that loadApp reads, the
\* deployment_config that ParseDeployment reads, the handles, the queue providers
\* that the constructor has still to visit, script_to_execute_, what WorkerLoad
\* returned, last_exception, and the aliases in the context and what they lead to;
\* then what the worker does: the documents it enqueued, the query it waits for,
\* and the array that its last query returned.
NewWorker ==
    [seen |-> Nothing, config |-> Nothing,
     bucket |-> Uninit, n1ql |-> Uninit, queue |-> Uninit, left |-> {},
     script |-> <<>>, rc |-> Nothing, exception |-> "", globals |-> <<>>,
     pushed |-> <<>>, query |-> Nothing, answer |-> Nothing]

App(d) == scene.app[d]

Init ==
    /\ scene \in Scenes
    /\ file = [a \in Apps |-> Nothing]
    /\ store = [d \in Setups |-> "new"]
    /\ pc = [d \in Setups |-> "idle"]
    /\ w = [d \in Setups |-> NewWorker]
    /\ clusterBucket = Nothing
    /\ table = [a \in Apps |-> Nothing]
    /\ quit = {}
    /\ lists = [q \in Lists \cup {Garbage} |-> <<>>]
    /\ dead = FALSE

-----------------------------------------------------------------------------
(* storeAppSetup: WriteFile truncates the file and then writes it; the     *)
(* worker that the table holds is told to quit and the set-up is started.  *)

Settled(d) == pc[d] \in {"idle", "running", "stopped"} /\ store[d] \in {"new", "done"}

StoreTruncate(d) ==
    /\ ~ dead
    /\ store[d] = "new"
    /\ d \in scene.setups
    /\ scene.waits => \A e \in Setups : Settled(e)
    /\ file' = [file EXCEPT ![App(d)] = Partial]
    /\ store' = [store EXCEPT ![d] = "truncated"]
    /\ UNCHANGED <<scene, pc, w, clusterBucket, table, quit, lists, dead>>

\* Mutant of StoreWrite: the set-up is started before the file is written.
StoreStartsFirst(d) ==
    /\ ~ dead
    /\ store[d] = "truncated" /\ pc[d] = "idle"
    /\ pc' = [pc EXCEPT ![d] = "start"]
    /\ store' = [store EXCEPT ![d] = "done"]
    /\ UNCHANGED <<scene, file, w, clusterBucket, table, quit, lists, dead>>

StoreWrite(d) ==
    /\ ~ dead
    /\ store[d] = "truncated"
    /\ file' = [file EXCEPT ![App(d)] = scene.stored[d]]
    /\ store' = [store EXCEPT ![d] = "written"]
    /\ UNCHANGED <<scene, pc, w, clusterBucket, table, quit, lists, dead>>

StoreStart(d) ==
    /\ ~ dead
    /\ store[d] = "written"
    /\ quit' = quit \cup ({table[App(d)]} \ {Nothing})
    /\ pc' = [pc EXCEPT ![d] = "start"]
    /\ store' = [store EXCEPT ![d] = "done"]
    /\ UNCHANGED <<scene, file, w, clusterBucket, table, lists, dead>>

-----------------------------------------------------------------------------
(* The set-up up to the constructor.                                       *)

\* A type assertion on the configuration of a file that could not be read panics
\* in a goroutine that nobody recovers.
GetSource(d) ==
    /\ ~ dead
    /\ pc[d] = "start"
    /\ dead' = (file[App(d)] = Partial)
    /\ pc' = [pc EXCEPT ![d] = "load"]
    /\ UNCHANGED <<scene, file, store, w, clusterBucket, table, quit, lists>>

LoadApp(d) ==
    /\ ~ dead
    /\ pc[d] = "load"
    /\ w' = [w EXCEPT ![d].seen = file[App(d)]]
    /\ pc' = [pc EXCEPT ![d] = "construct"]
    /\ UNCHANGED <<scene, file, store, clusterBucket, table, quit, lists, dead>>

\* What the constructor of Worker reads: ParseDeployment exits if it cannot parse.
ParseDeployment(d) ==
    /\ ~ dead
    /\ pc[d] = "construct"
    /\ dead' = (file[App(d)] = Partial)
    /\ w' = [w EXCEPT ![d].config = file[App(d)]]
    /\ pc' = [pc EXCEPT ![d] = "assign"]
    /\ UNCHANGED <<scene, file, store, clusterBucket, table, quit, lists>>

-----------------------------------------------------------------------------
(* The maps of deployment_config: buckets by alias, queues by provider, of *)
(* entries with the same key the last.                                     *)

LastAt(entries, positions) == entries[Max(positions)]

BucketsInfo(c) == [k \in {c.buckets[i].alias : i \in DOMAIN c.buckets} |->
                      LastAt(c.buckets, {i \in DOMAIN c.buckets : c.buckets[i].alias = k})]
QueuesInfo(c) == [k \in {c.queues[i].provider : i \in DOMAIN c.queues} |->
                      LastAt(c.queues, {i \in DOMAIN c.queues : c.queues[i].provider = k})]

\* The thread is in cb_cluster_bucket.assign.
AssignStart(d) ==
    /\ ~ dead
    /\ pc[d] = "assign"
    /\ pc' = [pc EXCEPT ![d] = "assigning"]
    /\ UNCHANGED <<scene, file, store, w, clusterBucket, table, quit, lists, dead>>

Assigning(d) == \E e \in Setups \ {d} : pc[e] = "assigning"

\* Mutant of AssignEnd: a bucket name that is set stays.
AssignOnce(d) ==
    /\ ~ dead
    /\ pc[d] = "assigning"
    /\ clusterBucket' = IF clusterBucket = Nothing THEN w[d].config.source ELSE clusterBucket
    /\ pc' = [pc EXCEPT ![d] = "buckets"]
    /\ UNCHANGED <<scene, file, store, w, table, quit, lists, dead>>

AssignEnd(d) ==
    /\ ~ dead
    /\ pc[d] = "assigning"
    /\ clusterBucket' \in {w[d].config.source} \cup (IF Assigning(d) THEN {Torn} ELSE {})
    /\ pc' = [pc EXCEPT ![d] = "buckets"]
    /\ UNCHANGED <<scene, file, store, w, table, quit, lists, dead>>

\* The loop over component_configs, first round: a Bucket for every alias, of which
\* the worker keeps the last; with no alias the handle stays as it was.
LastBucket(d) ==
    LET info == BucketsInfo(w[d].config)
    IN  IF DOMAIN info = {} THEN w[d].bucket ELSE info[Max(DOMAIN info)]

\* The constructor connects and does not look at the result.
CreateBuckets(d) ==
    /\ ~ dead
    /\ pc[d] = "buckets"
    /\ w' = [w EXCEPT ![d].bucket = LastBucket(d)]
    /\ pc' = [pc EXCEPT ![d] = "n1ql"]
    /\ UNCHANGED <<scene, file, store, clusterBucket, table, quit, lists, dead>>

\* Both rounds make an N1QL for whatever bucket the global names; the second
\* replaces the first.
CreateN1QL(d) ==
    /\ ~ dead
    /\ pc[d] \in {"n1ql", "n1ql again"}
    /\ \E b \in {clusterBucket} \cup (IF Assigning(d) THEN {Torn} ELSE {}) :
          w' = [w EXCEPT ![d].n1ql = b, ![d].left = DOMAIN QueuesInfo(w[d].config)]
    /\ pc' = [pc EXCEPT ![d] = IF @ = "n1ql" THEN "n1ql again" ELSE "queues"]
    /\ UNCHANGED <<scene, file, store, clusterBucket, table, quit, lists, dead>>

\* A set-up that is slow enough finds the worker it replaces stopped.
Alone(d) == \A e \in Setups \ {d} : App(e) = App(d) => e \notin quit \/ pc[e] = "stopped"

\* Second round: a Queue for every provider, in the order of the map; the worker
\* keeps the last.
NextQueue(d) == QueuesInfo(w[d].config)[Min(w[d].left)]

\* Mutant of CreateQueue: the list is left as it is.
CreateQueueKeepsList(d) ==
    /\ ~ dead
    /\ pc[d] = "queues" /\ w[d].left # {}
    /\ w' = [w EXCEPT ![d].left = @ \ {Min(@)}, ![d].queue = NextQueue(d)]
    /\ UNCHANGED <<scene, file, store, pc, clusterBucket, table, quit, lists, dead>>

\* The constructor connects and deletes the list.
CreateQueue(d) ==
    /\ ~ dead
    /\ pc[d] = "queues" /\ w[d].left # {}
    /\ scene.slow => Alone(d)
    /\ w' = [w EXCEPT ![d].left = @ \ {Min(@)}, ![d].queue = NextQueue(d)]
    /\ lists' = [lists EXCEPT ![NextQueue(d).name] = <<>>]
    /\ UNCHANGED <<scene, file, store, pc, clusterBucket, table, quit, dead>>

\* It exits if it cannot connect.
QueueUnreachable(d) ==
    /\ ~ dead
    /\ pc[d] = "queues" /\ w[d].left # {}
    /\ scene.refuses
    /\ dead' = TRUE
    /\ UNCHANGED <<scene, file, store, pc, w, clusterBucket, table, quit, lists>>

\* The HTTPResponse and the connection to the metadata bucket.
FinishConstructor(d) ==
    /\ ~ dead
    /\ pc[d] = "queues" /\ w[d].left = {}
    /\ pc' = [pc EXCEPT ![d] = "built"]
    /\ UNCHANGED <<scene, file, store, w, clusterBucket, table, quit, lists, dead>>

-----------------------------------------------------------------------------
(* WorkerLoad.  The script runs before any alias is installed and before   *)
(* the isolate knows the connection to the metadata bucket.                *)

\* What loadApp passes on: nothing if it could not read the file.
Code(d) == IF w[d].seen = Partial THEN [text |-> <<>>, top |-> "fine", handlers |-> FALSE]
           ELSE w[d].seen.code

\* ExecuteScript returns false: the script does not compile, or its top level
\* throws, for which the use of an alias is enough.
ExecuteFails(d) == Code(d).top \in {"syntax", "throws", "alias"}

\* registerCallback at the top level follows a null pointer.
ExecuteCrashes(d) == Code(d).top = "timer"

HandlersDefined(d) == Code(d).handlers

ExceptionString(top) == IF top = "syntax" THEN "SyntaxError" ELSE "Error"

LoadFails(d) ==
    /\ ~ dead
    /\ pc[d] = "built"
    /\ ExecuteFails(d)
    /\ w' = [w EXCEPT ![d].script = Preprocess(Code(d).text),
                      ![d].rc = FAILED_TO_COMPILE_JS,
                      ![d].exception = ExceptionString(Code(d).top)]
    /\ pc' = [pc EXCEPT ![d] = "loaded"]
    /\ UNCHANGED <<scene, file, store, clusterBucket, table, quit, lists, dead>>

LoadNoHandlers(d) ==
    /\ ~ dead
    /\ pc[d] = "built"
    /\ ~ ExecuteFails(d) /\ ~ ExecuteCrashes(d)
    /\ ~ HandlersDefined(d)
    /\ w' = [w EXCEPT ![d].script = Preprocess(Code(d).text),
                      ![d].rc = NO_HANDLERS_DEFINED]
    /\ pc' = [pc EXCEPT ![d] = "loaded"]
    /\ UNCHANGED <<scene, file, store, clusterBucket, table, quit, lists, dead>>

\* A handle that was never set may hold anything; if it is not null it is followed.
LoadCrashes(d) ==
    /\ ~ dead
    /\ pc[d] = "built"
    /\ ~ ExecuteFails(d)
    /\ \/ ExecuteCrashes(d)
       \/ HandlersDefined(d) /\ Uninit \in {w[d].bucket, w[d].queue}
    /\ dead' = TRUE
    /\ UNCHANGED <<scene, file, store, pc, w, clusterBucket, table, quit, lists>>

\* global->Set in the script's context: what was under that name is replaced.
SetGlobal(globals, alias, object) ==
    [a \in DOMAIN globals \cup {alias} |-> IF a = alias THEN object ELSE globals[a]]

\* InstallMaps of Bucket, N1QL and Queue: each sets its alias in the global object.
InstallBucket(d, globals) ==
    IF w[d].bucket = Uninit THEN globals
    ELSE SetGlobal(globals, w[d].bucket.alias, [kind |-> "bucket", name |-> w[d].bucket.name])

InstallN1QL(d, globals) ==
    SetGlobal(globals, N1qlAlias, [kind |-> "n1ql", name |-> w[d].n1ql])

\* Mutant of InstallQueue: the wrong field of queue_info is taken for the alias.
InstallQueueByProvider(d, globals) ==
    IF w[d].queue = Uninit THEN globals
    ELSE SetGlobal(globals, w[d].queue.provider, [kind |-> "queue", name |-> w[d].queue.name])

InstallQueue(d, globals) ==
    IF w[d].queue = Uninit THEN globals
    ELSE SetGlobal(globals, w[d].queue.alias, [kind |-> "queue", name |-> w[d].queue.name])

LoadSucceeds(d) ==
    /\ ~ dead
    /\ pc[d] = "built"
    /\ ~ ExecuteFails(d) /\ ~ ExecuteCrashes(d)
    /\ HandlersDefined(d)
    /\ w' = [w EXCEPT ![d].script = Preprocess(Code(d).text),
                      ![d].rc = SUCCESS,
                      ![d].globals = InstallQueue(d, InstallN1QL(d, InstallBucket(d, <<>>)))]
    /\ pc' = [pc EXCEPT ![d] = "loaded"]
    /\ UNCHANGED <<scene, file, store, clusterBucket, table, quit, lists, dead>>

\* The rest of loadApp and the start of runWorker.  The error of Load is ignored.
Publish(d) ==
    /\ ~ dead
    /\ pc[d] = "loaded"
    /\ table' = [table EXCEPT ![App(d)] = d]
    /\ dead' = (w[d].seen = Partial)
    /\ pc' = [pc EXCEPT ![d] = "running"]
    /\ UNCHANGED <<scene, file, store, w, clusterBucket, quit, lists>>

-----------------------------------------------------------------------------
(* The worker runs: handler code uses the aliases, until it is told to quit. *)

Handles(d) == ~ dead /\ pc[d] = "running" /\ w[d].query = Nothing

\* A call into a worker whose load failed has no function to call.
CallUnloaded(d) ==
    /\ Handles(d)
    /\ w[d].rc # SUCCESS
    /\ dead' = TRUE
    /\ UNCHANGED <<scene, file, store, pc, w, clusterBucket, table, quit, lists>>

\* The name is read from the bytes of a std::string: in libc++ one byte of length
\* and then the characters, as long as there are at most 22 of them.
UnwrapQueueName(q) == IF q \in LongNames THEN Garbage ELSE q

\* alias[document], which enqueue(alias, document) was rewritten to.  LPUSH fails
\* unnoticed if the server is gone.
QueueGetCall(d, alias) ==
    /\ Handles(d)
    /\ w[d].rc = SUCCESS
    /\ Len(w[d].pushed) < MaxPushes
    /\ w[d].globals[alias].kind = "queue"
    /\ LET document == [by |-> d, number |-> Len(w[d].pushed) + 1]
           q == UnwrapQueueName(w[d].globals[alias].name)
       IN  /\ w' = [w EXCEPT ![d].pushed = <<document>> \o @]
           /\ \/ lists' = [lists EXCEPT ![q] = <<document>> \o @]
              \/ scene.refuses /\ UNCHANGED lists
    /\ UNCHANGED <<scene, file, store, pc, clusterBucket, table, quit, dead>>

\* The server has some number of rows for the query; query_callback is given them
\* one at a time, and then the final response.
StartQuery(d) ==
    /\ Handles(d)
    /\ w[d].rc = SUCCESS
    /\ w[d].answer = Nothing
    /\ \E n \in 0..MaxRows : w' = [w EXCEPT ![d].query = [total |-> n, rows |-> 0]]
    /\ UNCHANGED <<scene, file, store, pc, clusterBucket, table, quit, lists, dead>>

\* Mutant of QueryRow: the final response is taken for a row too.
QueryRowOrFinal(d) ==
    /\ ~ dead
    /\ w[d].query # Nothing
    /\ w[d].query.rows <= w[d].query.total
    /\ w' = [w EXCEPT ![d].query.rows = @ + 1]
    /\ UNCHANGED <<scene, file, store, pc, clusterBucket, table, quit, lists, dead>>

QueryRow(d) ==
    /\ ~ dead
    /\ w[d].query # Nothing
    /\ w[d].query.rows < w[d].query.total
    /\ w' = [w EXCEPT ![d].query.rows = @ + 1]
    /\ UNCHANGED <<scene, file, store, pc, clusterBucket, table, quit, lists, dead>>

\* Mutant of ResultArray: rows.rc is not looked at.
ResultArrayAnyway(rows, ok) == [length |-> rows, elements |-> 1..rows]

\* The array has a place for every row that came; the places are filled if rows.rc
\* is LCB_SUCCESS, which it is not until a final response says so.
ResultArray(rows, ok) == [length |-> rows, elements |-> IF ok THEN 1..rows ELSE {}]

\* The final response, which can be an error at any time, or a query that could
\* not be sent.
QueryFinal(d, ok) ==
    /\ ~ dead
    /\ w[d].query # Nothing
    /\ ok => w[d].query.rows = w[d].query.total
    /\ w' = [w EXCEPT ![d].query = Nothing,
                      ![d].answer = [array |-> ResultArray(w[d].query.rows, ok),
                                     total |-> w[d].query.total]]
    /\ UNCHANGED <<scene, file, store, pc, clusterBucket, table, quit, lists, dead>>

Stop(d) ==
    /\ Handles(d)
    /\ d \in quit
    /\ pc' = [pc EXCEPT ![d] = "stopped"]
    /\ UNCHANGED <<scene, file, store, w, clusterBucket, table, quit, lists, dead>>

-----------------------------------------------------------------------------
Next ==
    \E d \in Setups :
        \/ StoreTruncate(d) \/ StoreWrite(d) \/ StoreStart(d)
        \/ GetSource(d) \/ LoadApp(d) \/ ParseDeployment(d)
        \/ AssignStart(d) \/ AssignEnd(d)
        \/ CreateBuckets(d) \/ CreateN1QL(d) \/ CreateQueue(d) \/ QueueUnreachable(d)
        \/ FinishConstructor(d)
        \/ LoadFails(d) \/ LoadNoHandlers(d) \/ LoadCrashes(d) \/ LoadSucceeds(d)
        \/ Publish(d)
        \/ CallUnloaded(d) \/ StartQuery(d) \/ QueryRow(d) \/ Stop(d)
        \/ \E alias \in DOMAIN w[d].globals : QueueGetCall(d, alias)
        \/ \E ok \in BOOLEAN : QueryFinal(d, ok)

Spec == Init /\ [][Next]_vars

-----------------------------------------------------------------------------
Loaded(d) == pc[d] \in {"loaded", "running", "stopped"}

\* Every variable has its type; a query has no more rows than its result, and a
\* list no more documents than the workers enqueued.
TypeOK ==
    /\ store \in [Setups -> {"new", "truncated", "written", "done"}]
    /\ pc \in [Setups -> {"idle", "start", "load", "construct", "assign", "assigning",
                          "buckets", "n1ql", "n1ql again", "queues", "built", "loaded",
                          "running", "stopped"}]
    /\ \A d \in Setups :
          /\ {w[d].seen, w[d].config, file[App(d)]} \subseteq
                 {Nothing, Partial} \cup {scene.stored[e] : e \in Setups}
          /\ w[d].rc \in {Nothing, SUCCESS, FAILED_TO_COMPILE_JS, NO_HANDLERS_DEFINED}
          /\ w[d].exception \in {"", "SyntaxError", "Error"}
          /\ w[d].bucket = Uninit \/ w[d].bucket.alias \in Nat
          /\ w[d].queue = Uninit \/ w[d].queue.name \in Lists
          /\ w[d].query = Nothing \/ w[d].query.rows \in 0..w[d].query.total
          /\ \A al \in DOMAIN w[d].globals : w[d].globals[al].kind \in {"bucket", "n1ql", "queue"}
    /\ table \in [Apps -> Setups \cup {Nothing}]
    /\ quit \subseteq Setups
    /\ \A q \in Lists \cup {Garbage} : Len(lists[q]) <= MaxPushes * Cardinality(Setups)
    /\ dead \in BOOLEAN

Sound(c) == Len(c.buckets) = 1 /\ Len(c.queues) = 1 /\ c.code.top = "fine" /\ c.code.handlers

\* The process survives the set-ups of applications that have a bucket, a queue and
\* a script that loads, if each is stored when the last one is running: every read
\* of ./apps finds a complete file, in getSource, loadApp and ParseDeployment, and
\* no call meets a worker whose script is not loaded.
ProcessSurvives ==
    scene.waits /\ ~ scene.refuses /\ (\A d \in scene.setups : Sound(scene.stored[d])) => ~ dead

\* If set-ups do not overlap, the n1ql object of a worker is connected to the source
\* bucket of its own application, though the name goes through a global.
N1QLOwnBucket ==
    \A d \in Setups : scene.waits /\ Loaded(d) => w[d].n1ql = scene.stored[d].source

\* If set-ups do not overlap, a script with one bucket and one queue that has loaded
\* finds both under the aliases its own configuration gives them, through the maps
\* of ParseDeployment and the handles of the worker; the bucket, unless its alias is
\* that of the queue or "_n1ql", which are installed after it.
AliasesInstalled ==
    \A d \in Setups :
        LET c == scene.stored[d]
            LeadsTo(alias, kind, name) ==
                alias \in DOMAIN w[d].globals /\ w[d].globals[alias] = [kind |-> kind, name |-> name]
        IN  scene.waits /\ Sound(c) /\ w[d].rc = SUCCESS =>
                /\ LeadsTo(c.queues[1].alias, "queue", c.queues[1].name)
                /\ \/ c.buckets[1].alias \in {c.queues[1].alias, N1qlAlias}
                   \/ LeadsTo(c.buckets[1].alias, "bucket", c.buckets[1].name)

ListNames(d) == {scene.stored[d].queues[i].name : i \in DOMAIN scene.stored[d].queues}

\* No two applications have a list in common.
OwnLists == \A d, e \in scene.setups : App(d) # App(e) => ListNames(d) \cap ListNames(e) = {}

\* "Delete pre-existing list": if a set-up takes longer than the worker it replaces
\* needs to stop and applications do not share lists, the list of the current worker
\* holds what that worker enqueued, all of it and nothing else.
QueueIsOwn ==
    \A d \in Setups :
        scene.waits /\ scene.slow /\ OwnLists /\ ~ scene.refuses /\ ~ dead
        /\ pc[d] = "running" /\ d \notin quit
        /\ w[d].queue # Uninit /\ w[d].rc = SUCCESS =>
            w[d].queue.name \in LongNames \/ lists[w[d].queue.name] = w[d].pushed

\* A handler never takes part of a result for the whole: an array that N1QLEnumGetCall
\* fills holds every row of the result, also if the stream of rows ends with an error.
QueryAllOrNothing ==
    \A d \in Setups : w[d].answer # Nothing =>
        w[d].answer.array.elements \in {{}, 1..w[d].answer.total}

\* "Converting n1ql("<query>") to tagged template literal": a script whose calls are
\* each alone on a line reaches V8 with every n1ql call and every enqueue rewritten
\* as meant, however many there are.
RewrittenAsMeant ==
    \A d \in Setups : w[d].rc # Nothing /\ Plain(Code(d).text) => w[d].script = Meant(Code(d).text)

\* Whatever the greedy expressions take for a call, the two passes lose, repeat and
\* reorder nothing of the script but the delimiters of calls.
WordsKept ==
    \A d \in Setups : w[d].rc # Nothing =>
        Words(w[d].script) = Words(Code(d).text)
=============================================================================
