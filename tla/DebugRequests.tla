--------------------------- MODULE DebugRequests ---------------------------
(***************************************************************************)
(* Requests to the V8 debuggers of the workers.  A request installs a      *)
(* message handler in the worker's isolate, queues a command and waits on  *)
(* a condition variable until data_ready; V8 executes the command later,   *)
(* in the thread that runs JavaScript, and hands its response to whatever  *)
(* handler is installed by then, which stores it in one string per kind of *)
(* request.  The strings, data_ready, the mutex and the condition variable *)
(* are globals: all workers and all requests share them.                   *)
(***************************************************************************)
EXTENDS Naturals, Sequences, FiniteSets

CONSTANTS
    Workers,    \* the workers, each with its isolate
    Requests,   \* debug requests
    Nobody,     \* the mutex is free
    Nothing     \* no handler, no message, no reply

Waiting == {"continue", "evaluate", "setbreakpoint", "clearbreakpoint", "listbreakpoints"}
Stubs == {"lookup", "backtrace", "frame", "source"}
Kinds == Waiting \cup Stubs \cup {"none"}

ASSUME RequestAssumption ==
    /\ Nobody \notin Requests
    /\ Nothing \notin Waiting \cup Requests \cup Workers

VARIABLES
    serial,    \* requests are made one at a time, each after the last is done with
    kind,      \* the kind of each request, none if it is not made
    target,    \* the worker each request is for
    pc,        \* where each request is
    mutex,     \* debug_cv_m
    ready,     \* data_ready
    result,    \* per kind, the message in its global string
    reply,     \* what each request returned to its caller
    early,     \* history: requests that returned before their response was stored
    handler,   \* per isolate, the kind whose message handler is installed
    commands,  \* per isolate, the requests whose commands V8 has not executed
    writing,   \* per isolate, the message its handler is storing, and where
    js,        \* what each isolate does
    paused,    \* the isolates stopped at a breakpoint or a debugger statement
    flag       \* the workers with start_debug_flag

requests == <<serial, kind, target, pc, mutex, reply, early>>
isolates == <<commands, writing, js, paused>>
debugVars == <<serial, kind, target, pc, mutex, ready, result, reply, early, handler,
               commands, writing, js, paused, flag>>

\* A response to a request, or the event sent when an isolate stops.
Response == [re : Requests, command : Waiting, ok : BOOLEAN]
Break == [re |-> Nothing, command |-> "break", ok |-> TRUE]
Torn == [re |-> Nothing, command |-> "torn", ok |-> TRUE]

DebugInit(oneByOne, kinds) ==
    /\ serial = oneByOne
    /\ kind = kinds
    /\ target = [r \in Requests |-> Nothing]
    /\ pc = [r \in Requests |-> "new"]
    /\ mutex = Nobody
    /\ ready = FALSE
    /\ result = [k \in Waiting |-> Nothing]
    /\ reply = [r \in Requests |-> Nothing]
    /\ early = {}
    /\ handler = [w \in Workers |-> Nothing]
    /\ commands = [w \in Workers |-> <<>>]
    /\ writing = [w \in Workers |-> Nothing]
    /\ js = [w \in Workers |-> "idle"]
    /\ paused = {}
    /\ flag = {}

-----------------------------------------------------------------------------
(* What the five result functions make of a message.  All of them store    *)
(* it; the ones below say when they also set data_ready and notify.        *)

\* V8's texts: only a successful evaluation has a "text", every message has a
\* "type", and only a failure has an error message.
HasText(m) == m.command = "evaluate" /\ m.ok
HasType(m) == TRUE
HasError(m) == ~ m.ok

GetEvaluateResult(m) == m.command = "evaluate" /\ ~ HasText(m)
SetBreakpointResult(m) == m.command = "setbreakpoint" /\ ~ HasType(m)
ContinueResult(m) == m.command # "continue"
ClearBreakpointResult(m) == m.command = "clearbreakpoint" /\ ~ HasError(m)
ListBreakpointResult(m) == m.command = "listbreakpoints" /\ ~ HasError(m)

SetsReady(k, m) ==
    \/ k = "evaluate" /\ GetEvaluateResult(m)
    \/ k = "setbreakpoint" /\ SetBreakpointResult(m)
    \/ k = "continue" /\ ContinueResult(m)
    \/ k = "clearbreakpoint" /\ ClearBreakpointResult(m)
    \/ k = "listbreakpoints" /\ ListBreakpointResult(m)

\* cv.notify_all() wakes the requests that sleep, and nobody else.
NotifyAll == [r \in Requests |-> IF pc[r] = "asleep" THEN "woken" ELSE pc[r]]

-----------------------------------------------------------------------------
(* A request, from v8DebugHandler to the copy of the returned string.      *)

\* The response to r's command has still to be stored.
Unanswered(r) == \E w \in Workers :
    \/ \E i \in DOMAIN commands[w] : commands[w][i] = r
    \/ writing[w] # Nothing /\ writing[w].message.re = r

\* lookup, backtrace, frame and source are not implemented: they return "".
Stub(r) ==
    /\ pc[r] = "new"
    /\ kind[r] \in Stubs
    /\ pc' = [pc EXCEPT ![r] = "done"]
    /\ UNCHANGED <<serial, kind, target, mutex, ready, result, reply, early, handler,
                   isolates, flag>>

Request(r, w) ==
    /\ pc[r] = "new"
    /\ kind[r] \in Waiting
    /\ serial => \A q \in Requests : pc[q] = "new" \/ (pc[q] = "done" /\ ~ Unanswered(q))
    /\ target' = [target EXCEPT ![r] = w]
    /\ pc' = [pc EXCEPT ![r] = "lock"]
    /\ UNCHANGED <<serial, kind, mutex, ready, result, reply, early, handler, isolates, flag>>

Lock(r) ==
    /\ pc[r] = "lock"
    /\ mutex = Nobody
    /\ mutex' = r
    /\ ready' = FALSE
    /\ pc' = [pc EXCEPT ![r] = "install"]
    /\ UNCHANGED <<serial, kind, target, result, reply, early, handler, isolates, flag>>

\* Mutant of SetMessageHandler: a handler that is installed stays.
FirstHandlerStays(r) ==
    /\ pc[r] = "install"
    /\ handler' = [handler EXCEPT ![target[r]] =
                     IF @ = Nothing THEN kind[r] ELSE @]
    /\ pc' = [pc EXCEPT ![r] = "command"]
    /\ UNCHANGED <<serial, kind, target, mutex, ready, result, reply, early, isolates, flag>>

SetMessageHandler(r) ==
    /\ pc[r] = "install"
    /\ handler' = [handler EXCEPT ![target[r]] = kind[r]]
    /\ pc' = [pc EXCEPT ![r] = "command"]
    /\ UNCHANGED <<serial, kind, target, mutex, ready, result, reply, early, isolates, flag>>

SendCommand(r) ==
    /\ pc[r] = "command"
    /\ commands' = [commands EXCEPT ![target[r]] = Append(@, r)]
    /\ pc' = [pc EXCEPT ![r] = "check"]
    /\ UNCHANGED <<serial, kind, target, mutex, ready, result, reply, early, handler,
                   writing, js, paused, flag>>

\* cv.wait tests its predicate with the mutex held.  When it is false the thread
\* gives up the mutex and goes to sleep; those who notify do not take the mutex,
\* so a notification between the test and the sleep wakes nobody.
Check(r) ==
    /\ pc[r] = "check"
    /\ IF ready
       THEN /\ pc' = [pc EXCEPT ![r] = "return"]
            /\ mutex' = Nobody
            /\ early' = IF Unanswered(r) THEN early \cup {r} ELSE early
       ELSE /\ pc' = [pc EXCEPT ![r] = "block"]
            /\ UNCHANGED <<mutex, early>>
    /\ UNCHANGED <<serial, kind, target, ready, result, reply, handler, isolates, flag>>

Block(r) ==
    /\ pc[r] = "block"
    /\ pc' = [pc EXCEPT ![r] = "asleep"]
    /\ mutex' = Nobody
    /\ UNCHANGED <<serial, kind, target, ready, result, reply, early, handler, isolates, flag>>

\* A condition variable may wake a thread without a notification.
SpuriousWakeup(r) ==
    /\ pc[r] = "asleep"
    /\ pc' = [pc EXCEPT ![r] = "woken"]
    /\ UNCHANGED <<serial, kind, target, mutex, ready, result, reply, early, handler, isolates, flag>>

Relock(r) ==
    /\ pc[r] = "woken"
    /\ mutex = Nobody
    /\ mutex' = r
    /\ pc' = [pc EXCEPT ![r] = "check"]
    /\ UNCHANGED <<serial, kind, target, ready, result, reply, early, handler, isolates, flag>>

\* The caller copies the global string through the pointer it was given, without
\* the mutex: a handler that is storing a message meanwhile may be seen halfway.
Copy(r) ==
    /\ pc[r] = "return"
    /\ LET k == kind[r]
           stored == {w \in Workers : writing[w] # Nothing /\ writing[w].to = k}
       IN  \E m \in IF stored = {} THEN {result[k]} ELSE {result[k], Torn} :
              reply' = [reply EXCEPT ![r] = m]
    /\ pc' = [pc EXCEPT ![r] = "done"]
    /\ UNCHANGED <<serial, kind, target, mutex, ready, result, early, handler, isolates, flag>>

-----------------------------------------------------------------------------
(* The thread that runs an isolate.                                        *)

\* The entry of SendUpdate or SendDelete, and of SendHTTPGet, SendHTTPPost or
\* SendTimerCallback, which take the same Locker and do not notify at the end.
StartCall(w, call) ==
    /\ js[w] = "idle"
    /\ js' = [js EXCEPT ![w] = call]
    /\ UNCHANGED <<requests, ready, result, handler, commands, writing, paused, flag>>

StartUpdate(w) == StartCall(w, "update")
StartOther(w) == StartCall(w, "other")

InScript(w) == js[w] \in {"update", "other"} /\ writing[w] = Nothing

\* With a handler installed, a breakpoint or a debugger statement stops the
\* script; the handler is given the event.
Stop(w) ==
    /\ InScript(w)
    /\ w \notin paused
    /\ handler[w] # Nothing
    /\ paused' = paused \cup {w}
    /\ writing' = [writing EXCEPT ![w] = [to |-> handler[w], message |-> Break]]
    /\ UNCHANGED <<requests, ready, result, handler, commands, js, flag>>

\* V8 executes a command: in an interrupt of the running script, in the loop of a
\* stopped one, which ends with a continue command, or in ProcessDebugMessages.
Execute(w) ==
    /\ InScript(w) \/ (js[w] = "process" /\ writing[w] = Nothing)
    /\ commands[w] # <<>>
    /\ LET r == Head(commands[w])
       IN  /\ \E ok \in BOOLEAN :
                 writing' = [writing EXCEPT ![w] =
                     [to |-> handler[w],
                      message |-> [re |-> r, command |-> kind[r], ok |-> ok]]]
           /\ paused' = IF kind[r] = "continue" THEN paused \ {w} ELSE paused
    /\ commands' = [commands EXCEPT ![w] = Tail(@)]
    /\ UNCHANGED <<requests, ready, result, handler, js, flag>>

\* The message handler (DebugEvaluateHandler and the other four) is done.  Two
\* handlers that store into one string at a time can spoil it.
Store(w) ==
    /\ writing[w] # Nothing
    /\ LET k == writing[w].to
           m == writing[w].message
           race == \E v \in Workers \ {w} : writing[v] # Nothing /\ writing[v].to = k
       IN  /\ \E s \in IF race THEN {m, Torn} ELSE {m} : result' = [result EXCEPT ![k] = s]
           /\ IF SetsReady(k, m)
              THEN ready' = TRUE /\ pc' = NotifyAll
              ELSE UNCHANGED <<ready, pc>>
    /\ writing' = [writing EXCEPT ![w] = Nothing]
    /\ UNCHANGED <<serial, kind, target, mutex, reply, early, handler, commands, js, paused, flag>>

\* The script returns.  SendUpdate and SendDelete go on with
\* ProcessDebugMessages if the worker is being debugged.
ScriptReturns(w) ==
    /\ InScript(w)
    /\ w \notin paused
    /\ js' = [js EXCEPT ![w] = IF @ = "other" THEN "idle"
                               ELSE IF w \in flag THEN "process" ELSE "notify"]
    /\ UNCHANGED <<requests, ready, result, handler, commands, writing, paused, flag>>

ProcessDebugMessages(w) ==
    /\ js[w] = "process"
    /\ commands[w] = <<>> /\ writing[w] = Nothing
    /\ js' = [js EXCEPT ![w] = "notify"]
    /\ UNCHANGED <<requests, ready, result, handler, commands, writing, paused, flag>>

\* Mutant of UpdateReturns: data_ready is set and nobody is told.
SilentReturn(w) ==
    /\ js[w] = "notify"
    /\ ready' = TRUE
    /\ js' = [js EXCEPT ![w] = "idle"]
    /\ UNCHANGED <<requests, result, handler, commands, writing, paused, flag>>

\* The end of SendUpdate and SendDelete: whoever waits is told to go on.
UpdateReturns(w) ==
    /\ js[w] = "notify"
    /\ ready' = TRUE
    /\ pc' = NotifyAll
    /\ js' = [js EXCEPT ![w] = "idle"]
    /\ UNCHANGED <<serial, kind, target, mutex, result, reply, early, handler, commands,
                   writing, paused, flag>>

-----------------------------------------------------------------------------
RequestStep(r) ==
    \/ Stub(r) \/ Lock(r) \/ SetMessageHandler(r) \/ SendCommand(r)
    \/ Check(r) \/ Block(r) \/ SpuriousWakeup(r) \/ Relock(r) \/ Copy(r)

IsolateStep(w) ==
    \/ Stop(w) \/ Execute(w) \/ Store(w) \/ ScriptReturns(w)
    \/ ProcessDebugMessages(w) \/ UpdateReturns(w)
=============================================================================
