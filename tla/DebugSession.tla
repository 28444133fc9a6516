---------------------------- MODULE DebugSession ----------------------------
(***************************************************************************)
(* Debug sessions: startV8Debugger opens port 6062, marks the worker and   *)
(* starts a goroutine that serves the port and unmarks the worker when the *)
(* listener is closed; stopV8Debugger closes whatever listener the global  *)
(* v8TCPListener holds.  Composed with the requests of DebugRequests and   *)
(* with redeploys, which put another worker into workerTable.              *)
(***************************************************************************)
EXTENDS DebugRequests

CONSTANTS
    Apps,       \* application names
    Boot,       \* workerTable at the start
    Sessions,   \* calls of startV8Debugger; each names its listener too
    Scenes      \* what may happen together: the kinds of the requests, which
                \* workers and sessions there are, whether they come one by one

ASSUME SessionAssumption ==
    /\ Boot \in [Apps -> Workers \cup {Nothing}]
    /\ Nothing \notin Sessions
    /\ Scenes \subseteq [kinds : [Requests -> Kinds], workers : SUBSET Workers,
                        sessions : SUBSET Sessions, serial : BOOLEAN, calm : BOOLEAN]

Message == Response \cup {Break, Torn}

ASSUME NothingAssumption == Nothing \notin Message \cup [to : Waiting, message : Message]

VARIABLES
    calm,           \* a session is started only when the last one has ended
    table,          \* workerTable
    deployed,       \* the workers that have been in workerTable
    fresh,          \* the workers still to be created
    port,           \* the open listener on port 6062
    v8TCPListener,  \* the global of that name
    session,        \* where each session is
    handle,         \* the worker each session found in workerTable
    serves,         \* the listener each session's goroutine serves
    crashed         \* a panic that nothing recovers ended the process

sessionVars == <<calm, table, deployed, fresh, port, v8TCPListener, session, handle, serves, crashed>>
vars == <<serial, kind, target, pc, mutex, ready, result, reply, early, handler,
          commands, writing, js, paused, flag, calm, table, deployed, fresh, port,
          v8TCPListener, session, handle, serves, crashed>>

Init ==
    /\ table = Boot
    /\ deployed = {Boot[a] : a \in Apps} \ {Nothing}
    /\ \E sc \in Scenes :
          /\ DebugInit(sc.serial, sc.kinds)
          /\ calm = sc.calm
          /\ fresh = sc.workers \ deployed
          /\ session = [s \in Sessions |-> IF s \in sc.sessions THEN "new" ELSE "ended"]
    /\ port = Nothing
    /\ v8TCPListener = Nothing
    /\ handle = [s \in Sessions |-> Nothing]
    /\ serves = [s \in Sessions |-> Nothing]
    /\ crashed = FALSE

-----------------------------------------------------------------------------
\* Mutant of StartListen: the result of net.Listen goes to a new local variable.
ListenShadows(s) ==
    /\ ~ crashed
    /\ session[s] = "new"
    /\ calm => \A t \in Sessions : session[t] \in {"new", "ended"}
    /\ IF port = Nothing
       THEN port' = s /\ session' = [session EXCEPT ![s] = "opened"]
       ELSE session' = [session EXCEPT ![s] = "ended"] /\ UNCHANGED port
    /\ UNCHANGED <<debugVars, calm, table, deployed, fresh, v8TCPListener, handle,
                   serves, crashed>>

\* net.Listen.  When the port is taken it fails and v8TCPListener is nil.
StartListen(s) ==
    /\ ~ crashed
    /\ session[s] = "new"
    /\ calm => \A t \in Sessions : session[t] \in {"new", "ended"}
    /\ IF port = Nothing
       THEN /\ port' = s
            /\ v8TCPListener' = s
            /\ session' = [session EXCEPT ![s] = "opened"]
       ELSE /\ v8TCPListener' = Nothing
            /\ session' = [session EXCEPT ![s] = "ended"]
            /\ UNCHANGED port
    /\ UNCHANGED <<debugVars, calm, table, deployed, fresh, handle, serves, crashed>>

\* The look-up in workerTable, and StartV8Debugger if the application is there.
StartV8Debugger(s, a) ==
    /\ ~ crashed
    /\ session[s] = "opened"
    /\ handle' = [handle EXCEPT ![s] = table[a]]
    /\ flag' = flag \cup ({table[a]} \ {Nothing})
    /\ session' = [session EXCEPT ![s] = "started"]
    /\ UNCHANGED <<requests, ready, result, handler, isolates, calm, table, deployed, fresh,
                   port, v8TCPListener, serves, crashed>>

\* The goroutine has no names for its parameters: it serves the listener that
\* the global holds when it runs.
Serve(s) ==
    /\ ~ crashed
    /\ session[s] = "started"
    /\ serves' = [serves EXCEPT ![s] = v8TCPListener]
    /\ session' = [session EXCEPT ![s] = "serving"]
    /\ UNCHANGED <<debugVars, calm, table, deployed, fresh, port, v8TCPListener, handle, crashed>>

\* Mutant of ServeReturns: StopV8Debugger is forgotten.
ServeOnlyReturns(s) ==
    /\ ~ crashed
    /\ session[s] = "serving"
    /\ port = Nothing \/ serves[s] # port
    /\ session' = [session EXCEPT ![s] = "ended"]
    /\ UNCHANGED <<debugVars, calm, table, deployed, fresh, port, v8TCPListener, handle,
                   serves, crashed>>

\* The listener is closed or was nil: Serve returns, and StopV8Debugger follows,
\* on no worker if the application was not found.
ServeReturns(s) ==
    /\ ~ crashed
    /\ session[s] = "serving"
    /\ port = Nothing \/ serves[s] # port
    /\ flag' = flag \ {handle[s]}
    /\ crashed' = (handle[s] = Nothing)
    /\ session' = [session EXCEPT ![s] = "ended"]
    /\ UNCHANGED <<requests, ready, result, handler, isolates, calm, table, deployed, fresh,
                   port, v8TCPListener, handle, serves>>

\* Closing a nil listener panics, which net/http recovers; closing a closed one
\* is an error that is ignored.
StopListen ==
    /\ ~ crashed
    /\ port # Nothing
    /\ v8TCPListener = port
    /\ port' = Nothing
    /\ UNCHANGED <<debugVars, calm, table, deployed, fresh, v8TCPListener, session, handle,
                   serves, crashed>>

-----------------------------------------------------------------------------
(* The rest of the process, as far as the debugger sees it.                *)

\* Mutant of Redeploy: the worker's index is given out again.
IndexReused(a, w) ==
    /\ ~ crashed
    /\ w \in fresh
    /\ table' = [table EXCEPT ![a] = w]
    /\ deployed' = deployed \cup {w}
    /\ UNCHANGED <<debugVars, calm, fresh, port, v8TCPListener, session, handle,
                   serves, crashed>>

\* A deployment loads a new worker, which takes the old one's place.
Redeploy(a, w) ==
    /\ ~ crashed
    /\ w \in fresh
    /\ fresh' = fresh \ {w}
    /\ table' = [table EXCEPT ![a] = w]
    /\ deployed' = deployed \cup {w}
    /\ UNCHANGED <<debugVars, calm, port, v8TCPListener, session, handle, serves, crashed>>

\* v8DebugHandler: the worker that the table holds for the application; a
\* request for an application that is missing returns at once.
V8DebugHandler(r, a) == table[a] # Nothing /\ Request(r, table[a])

ARequest(r) ==
    /\ ~ crashed
    /\ RequestStep(r) \/ \E a \in Apps : V8DebugHandler(r, a)
    /\ UNCHANGED sessionVars

Event(w) == w \in deployed /\ StartUpdate(w)
OtherCall(w) == w \in deployed /\ StartOther(w)

AnIsolate(w) ==
    /\ ~ crashed
    /\ IsolateStep(w) \/ Event(w) \/ OtherCall(w)
    /\ UNCHANGED sessionVars

Next ==
    \/ \E r \in Requests : ARequest(r)
    \/ \E w \in Workers : AnIsolate(w)
    \/ \E s \in Sessions : \/ StartListen(s) \/ Serve(s) \/ ServeReturns(s)
                           \/ \E a \in Apps : StartV8Debugger(s, a)
    \/ StopListen
    \/ \E a \in Apps, w \in Workers : Redeploy(a, w)

Spec == Init /\ [][Next]_vars

\* A thread that is not waiting goes on, and one that waits for the mutex gets it
\* some time.  V8 interrupts running scripts for commands, and a script ends
\* unless it is stopped.  Each application that is deployed goes on to receive
\* mutations.
WeakRequest(r) == SetMessageHandler(r) \/ SendCommand(r) \/ Check(r) \/ Block(r) \/ Copy(r)
WeakIsolate(w) == Execute(w) \/ Store(w) \/ ScriptReturns(w) \/ ProcessDebugMessages(w)
                  \/ UpdateReturns(w)

Fairness ==
    /\ \A r \in Requests :
          /\ WF_debugVars(~ crashed /\ WeakRequest(r))
          /\ SF_debugVars(~ crashed /\ (Lock(r) \/ Relock(r)))
    /\ \A w \in Workers : WF_debugVars(~ crashed /\ WeakIsolate(w))
    /\ \A a \in Apps : SF_debugVars(~ crashed /\ table[a] # Nothing /\ Event(table[a]))

FairSpec == Spec /\ Fairness

-----------------------------------------------------------------------------
\* Every variable has its type; in particular a redeploy never loads a worker
\* that was loaded before.
TypeOK ==
    /\ serial \in BOOLEAN /\ calm \in BOOLEAN /\ crashed \in BOOLEAN /\ ready \in BOOLEAN
    /\ kind \in [Requests -> Kinds]
    /\ target \in [Requests -> Workers \cup {Nothing}]
    /\ pc \in [Requests -> {"new", "lock", "install", "command", "check", "block",
                            "asleep", "woken", "return", "done"}]
    /\ mutex \in Requests \cup {Nobody}
    /\ result \in [Waiting -> Message \cup {Nothing}]
    /\ reply \in [Requests -> Message \cup {Nothing}]
    /\ early \subseteq Requests
    /\ handler \in [Workers -> Waiting \cup {Nothing}]
    /\ \A w \in Workers :
          /\ commands[w] \in Seq(Requests)
          /\ writing[w] \in [to : Waiting, message : Message] \cup {Nothing}
    /\ js \in [Workers -> {"idle", "update", "other", "process", "notify"}]
    /\ paused \subseteq Workers /\ flag \subseteq Workers /\ deployed \subseteq Workers
    /\ fresh \subseteq Workers \ deployed
    /\ table \in [Apps -> Workers \cup {Nothing}]
    /\ port \in Sessions \cup {Nothing} /\ v8TCPListener \in Sessions \cup {Nothing}
    /\ session \in [Sessions -> {"new", "opened", "started", "serving", "ended"}]
    /\ handle \in [Sessions -> Workers \cup {Nothing}]
    /\ serves \in [Sessions -> Sessions \cup {Nothing}]

\* When requests are made one at a time, the string a Send...Request returns
\* answers its own command or tells of a stop, never an earlier request,
\* unless SendUpdate of some worker ended the wait before the response was
\* there, or the copy met a handler that was storing the next message.
OwnAnswer ==
    serial => \A r \in Requests :
        pc[r] = "done" /\ kind[r] \in Waiting /\ r \notin early =>
            reply[r] \in {Break, Torn} \/ (reply[r] # Nothing /\ reply[r].re = r)

\* A worker with start_debug_flag has a debug session that will clear it: a
\* session that found this worker and whose StopV8Debugger is still to come.
FlagHasSession ==
    \A w \in flag : \E s \in Sessions :
        handle[s] = w /\ session[s] \in {"started", "serving"}

\* While sessions do not overlap, the open listener is the one stopV8Debugger
\* closes and the one that is served, and its worker is marked.
SessionInCharge ==
    calm /\ port # Nothing =>
        /\ v8TCPListener = port
        /\ session[port] = "serving" => serves[port] = port
        /\ session[port] \in {"started", "serving"} => handle[port] \in flag \cup {Nothing}

\* Every request to the debugger returns as long as mutations keep arriving and
\* no isolate stays stopped: the end of each SendUpdate sets data_ready and
\* notifies, which makes up for responses that do not, and for lost notifications.
RequestReturns ==
    \A r \in Requests : pc[r] \notin {"new", "done"}
                          ~> (pc[r] = "done" \/ paused # {} \/ crashed)
=============================================================================
