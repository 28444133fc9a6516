------------------------ MODULE DebugSessionProofs ------------------------
(***************************************************************************)
(* Proofs about debug sessions, for any number of sessions, applications,  *)
(* workers and requests.                                                   *)
(***************************************************************************)
EXTENDS DebugSession, TLAPS

\* Most leaves are first-order and need no arithmetic: Zenon goes first.
USE ZenonT(4), SMTT(30), ZenonT(20)

SessionTyped ==
    /\ table \in [Apps -> Workers \cup {Nothing}]
    /\ port \in Sessions \cup {Nothing} /\ v8TCPListener \in Sessions \cup {Nothing}
    /\ session \in [Sessions -> {"new", "opened", "started", "serving", "ended"}]
    /\ handle \in [Sessions -> Workers \cup {Nothing}]
    /\ serves \in [Sessions -> Sessions \cup {Nothing}]

Active(s) == session[s] \in {"opened", "started", "serving"}

\* Without overlaps at most one session is under way, it is the one of the open
\* port, and its worker is marked.
CalmInv ==
    /\ \A s, t \in Sessions : Active(s) /\ Active(t) => s = t
    /\ port # Nothing => Active(port)
    /\ SessionInCharge

SInv == SessionTyped /\ FlagHasSession /\ (calm => CalmInv)

\* What leaves the sessions, the table and the flags alone keeps the invariant.
LEMMA SInvIdle ==
  ASSUME SInv, UNCHANGED <<flag, sessionVars>>
  PROVE  SInv'
  BY DEF SInv, SessionTyped, FlagHasSession, CalmInv, Active, SessionInCharge, sessionVars

\* No session is under way at the start.
LEMMA SInvInit == Init => SInv
<1> SUFFICES ASSUME Init
             PROVE  SInv
  OBVIOUS
<1>1. SessionTyped
  BY SessionAssumption DEF Init, SessionTyped
<1>2. flag = {} /\ port = Nothing /\ \A s \in Sessions : ~ Active(s)
  BY DEF Init, DebugInit, Active
<1> QED
  BY <1>1, <1>2 DEF SInv, FlagHasSession, CalmInv, SessionInCharge

\* The steps of requests and isolates change no session and no flag.
LEMMA OthersIdle ==
  ASSUME \/ \E r \in Requests : ARequest(r)
         \/ \E w \in Workers : AnIsolate(w)
  PROVE  UNCHANGED <<flag, sessionVars>>
<1>1. ASSUME NEW r \in Requests, ARequest(r)
      PROVE  UNCHANGED <<flag, sessionVars>>
  <2>1. RequestStep(r) \/ \E w : Request(r, w)
    BY <1>1 DEF ARequest, V8DebugHandler
  <2>2. RequestStep(r) => UNCHANGED flag
    BY DEF RequestStep, Stub, Lock, SetMessageHandler, SendCommand, Check, Block, SpuriousWakeup,
           Relock, Copy
  <2>3. (\E w : Request(r, w)) => UNCHANGED flag
    BY DEF Request
  <2> QED
    BY <1>1, <2>1, <2>2, <2>3 DEF ARequest
<1>2. ASSUME NEW w \in Workers, AnIsolate(w)
      PROVE  UNCHANGED <<flag, sessionVars>>
  BY <1>2 DEF AnIsolate, Event, OtherCall, StartUpdate, StartOther, StartCall, IsolateStep, Stop,
              Execute, Store, ScriptReturns, ProcessDebugMessages, UpdateReturns
<1> QED
  BY <1>1, <1>2

\* Every step of a session keeps the invariant.
LEMMA SInvSession ==
  ASSUME SInv, NEW s \in Sessions,
         \/ StartListen(s) \/ Serve(s) \/ ServeReturns(s)
         \/ \E a \in Apps : StartV8Debugger(s, a)
  PROVE  SInv'
<1>1. CASE StartListen(s)
  <2>1. /\ session[s] = "new" /\ UNCHANGED <<calm, table, flag, handle, serves>>
        /\ calm => \A t \in Sessions : ~ Active(t)
        /\ \E p \in {"opened", "ended"} : session' = [session EXCEPT ![s] = p]
    BY <1>1 DEF StartListen, debugVars, Active
  <2>2. SessionTyped'
    BY <1>1, <2>1 DEF StartListen, SInv, SessionTyped
  <2>3. FlagHasSession'
    <3> SUFFICES ASSUME NEW w \in flag
                 PROVE  \E t \in Sessions : handle[t] = w /\ session'[t] \in {"started", "serving"}
      BY <2>1 DEF FlagHasSession
    <3>1. PICK t \in Sessions : handle[t] = w /\ session[t] \in {"started", "serving"}
      BY DEF SInv, FlagHasSession
    <3> QED
      BY <2>1, <3>1 DEF SInv, SessionTyped
  <2>4. ASSUME calm
        PROVE  CalmInv'
    <3>1. port = Nothing
      BY <2>1, <2>4 DEF SInv, SessionTyped, CalmInv
    <3>2. port' = s /\ v8TCPListener' = s /\ session' = [session EXCEPT ![s] = "opened"]
      BY <1>1, <3>1 DEF StartListen
    <3>3. session'[s] = "opened" /\ \A t \in Sessions : t # s => ~ Active(t)'
      BY <2>1, <2>4, <3>2 DEF SInv, SessionTyped, Active
    <3> QED
      BY <3>2, <3>3 DEF CalmInv, SessionInCharge, Active
  <2> QED
    BY <2>1, <2>2, <2>3, <2>4 DEF SInv
<1>2. ASSUME NEW a \in Apps, StartV8Debugger(s, a)
      PROVE  SInv'
  <2>1. /\ session[s] = "opened" /\ UNCHANGED <<calm, table, port, v8TCPListener, serves>>
        /\ session' = [session EXCEPT ![s] = "started"]
        /\ handle' = [handle EXCEPT ![s] = table[a]]
        /\ flag' = flag \cup ({table[a]} \ {Nothing})
    BY <1>2 DEF StartV8Debugger
  <2>2. SessionTyped'
    BY <2>1 DEF SInv, SessionTyped
  <2>3. session'[s] = "started" /\ handle'[s] = table[a]
    BY <2>1 DEF SInv, SessionTyped
  <2>4. \A t \in Sessions : t # s => session'[t] = session[t] /\ handle'[t] = handle[t]
    BY <2>1 DEF SInv, SessionTyped
  <2>5. FlagHasSession'
    BY <2>1, <2>3, <2>4 DEF SInv, FlagHasSession
  <2>6. ASSUME calm
        PROVE  CalmInv'
    BY <2>1, <2>3, <2>4, <2>6 DEF SInv, SessionTyped, CalmInv, SessionInCharge, Active
  <2> QED
    BY <2>1, <2>2, <2>5, <2>6 DEF SInv
<1>3. CASE Serve(s)
  <2>1. /\ session[s] = "started" /\ UNCHANGED <<calm, table, port, v8TCPListener, handle, flag>>
        /\ session' = [session EXCEPT ![s] = "serving"]
        /\ serves' = [serves EXCEPT ![s] = v8TCPListener]
    BY <1>3 DEF Serve, debugVars
  <2>2. session'[s] = "serving" /\ serves'[s] = v8TCPListener
    BY <2>1 DEF SInv, SessionTyped
  <2>3. \A t \in Sessions : t # s => session'[t] = session[t] /\ serves'[t] = serves[t]
    BY <2>1 DEF SInv, SessionTyped
  <2>4. FlagHasSession'
    BY <2>1, <2>2, <2>3 DEF SInv, FlagHasSession
  <2>5. ASSUME calm
        PROVE  CalmInv'
    BY <2>1, <2>2, <2>3, <2>5 DEF SInv, SessionTyped, CalmInv, SessionInCharge, Active
  <2> QED
    BY <2>1, <2>4, <2>5 DEF SInv, SessionTyped
<1>4. CASE ServeReturns(s)
  <2>1. /\ session[s] = "serving" /\ UNCHANGED <<calm, table, port, v8TCPListener, handle, serves>>
        /\ port = Nothing \/ serves[s] # port
        /\ session' = [session EXCEPT ![s] = "ended"]
        /\ flag' = flag \ {handle[s]}
    BY <1>4 DEF ServeReturns
  <2>2. session'[s] = "ended" /\ \A t \in Sessions : t # s => session'[t] = session[t]
    BY <2>1 DEF SInv, SessionTyped
  <2>3. FlagHasSession'
    <3> SUFFICES ASSUME NEW w \in flag, w # handle[s]
                 PROVE  \E t \in Sessions : handle[t] = w /\ session'[t] \in {"started", "serving"}
      BY <2>1 DEF FlagHasSession
    <3>1. PICK t \in Sessions : handle[t] = w /\ session[t] \in {"started", "serving"}
      BY DEF SInv, FlagHasSession
    <3> QED
      BY <2>2, <3>1
  <2>4. ASSUME calm
        PROVE  CalmInv'
    <3>1. port = Nothing
      BY <2>1, <2>4 DEF SInv, SessionTyped, CalmInv, SessionInCharge, Active
    <3> QED
      BY <2>1, <2>2, <2>4, <3>1 DEF SInv, CalmInv, SessionInCharge, Active
  <2>5. SessionTyped'
    BY <2>1 DEF SInv, SessionTyped
  <2> QED
    BY <2>1, <2>3, <2>4, <2>5 DEF SInv
<1> QED
  BY <1>1, <1>2, <1>3, <1>4

\* Every step keeps the invariant of the sessions.
LEMMA SInvNext ==
  ASSUME SInv, [Next]_vars
  PROVE  SInv'
<1>1. CASE StopListen
  BY <1>1 DEF StopListen, SInv, SessionTyped, FlagHasSession, CalmInv, SessionInCharge, Active,
              debugVars
<1>2. ASSUME NEW a \in Apps, NEW w \in Workers, Redeploy(a, w)
      PROVE  SInv'
  BY <1>2 DEF Redeploy, SInv, SessionTyped, FlagHasSession, CalmInv, SessionInCharge, Active,
              debugVars
<1>3. CASE UNCHANGED vars
  BY <1>3, SInvIdle DEF vars, sessionVars
<1> QED
  BY <1>1, <1>2, <1>3, SInvIdle, OthersIdle, SInvSession DEF Next

\* The invariant of the sessions.
THEOREM SessionInvariant == Spec => []SInv
  BY SInvInit, SInvNext, PTL DEF Spec

\* start_debug_flag is never left behind: a marked worker has a session whose
\* StopV8Debugger is still to come.
THEOREM FlagTheorem == Spec => []FlagHasSession
<1>1. SInv => FlagHasSession
  BY DEF SInv
<1> QED
  BY <1>1, SessionInvariant, PTL

\* While sessions do not overlap stopV8Debugger closes the listener that is open,
\* and it is the one that is served.
THEOREM InChargeTheorem == Spec => []SessionInCharge
<1>1. SInv => SessionInCharge
  BY DEF SInv, CalmInv, SessionInCharge
<1> QED
  BY <1>1, SessionInvariant, PTL

-----------------------------------------------------------------------------
(* Requests.                                                               *)

\* A request that is being served, and one whose command was sent.
Underway == {"lock", "install", "command", "check", "block", "asleep", "woken", "return"}
Sent == {"check", "block", "asleep", "woken", "return", "done"}

Written == [to : Waiting, message : Message]

\* The types of what requests and isolates share.
DebugTyped ==
    /\ serial \in BOOLEAN /\ ready \in BOOLEAN
    /\ kind \in [Requests -> Kinds]
    /\ target \in [Requests -> Workers \cup {Nothing}]
    /\ pc \in [Requests -> {"new", "done"} \cup Underway]
    /\ mutex \in Requests \cup {Nobody}
    /\ result \in [Waiting -> Message \cup {Nothing}]
    /\ reply \in [Requests -> Message \cup {Nothing}]
    /\ early \subseteq Requests
    /\ handler \in [Workers -> Waiting \cup {Nothing}]
    /\ commands \in [Workers -> Seq(Requests)]
    /\ writing \in [Workers -> Written \cup {Nothing}]
    /\ js \in [Workers -> {"idle", "update", "other", "process", "notify"}]
    /\ paused \subseteq Workers

\* A request under way is for a worker, and a command that was sent finds a message
\* handler installed.
Addressed ==
    /\ \A r \in Requests :
          /\ pc[r] \in Underway => kind[r] \in Waiting /\ target[r] \in Workers
          /\ pc[r] = "command" => handler[target[r]] # Nothing
    /\ \A w \in Workers : \A i \in DOMAIN commands[w] :
          handler[w] # Nothing /\ kind[commands[w][i]] \in Waiting

\* The workers that were never loaded are not those that are.
WorkersTyped ==
    /\ calm \in BOOLEAN /\ crashed \in BOOLEAN
    /\ flag \subseteq Workers /\ deployed \subseteq Workers
    /\ fresh \subseteq Workers \ deployed

RequestInv == DebugTyped /\ Addressed

\* Nothing is asked for at the start.
LEMMA RequestInit == Init => RequestInv
<1> SUFFICES ASSUME Init
             PROVE  RequestInv
  OBVIOUS
<1>1. PICK sc \in Scenes : DebugInit(sc.serial, sc.kinds)
  BY DEF Init
<1>2. sc.serial \in BOOLEAN /\ sc.kinds \in [Requests -> Kinds]
  BY SessionAssumption
<1>3. DebugTyped
  <2>1. /\ serial \in BOOLEAN /\ ready \in BOOLEAN /\ mutex \in Requests \cup {Nobody}
        /\ kind \in [Requests -> Kinds]
        /\ early \subseteq Requests /\ paused \subseteq Workers
    BY <1>1, <1>2 DEF DebugInit
  <2>2. /\ target \in [Requests -> Workers \cup {Nothing}]
        /\ pc \in [Requests -> {"new", "done"} \cup Underway]
        /\ result \in [Waiting -> Message \cup {Nothing}]
        /\ reply \in [Requests -> Message \cup {Nothing}]
    BY <1>1 DEF DebugInit
  <2>3. /\ handler \in [Workers -> Waiting \cup {Nothing}]
        /\ commands \in [Workers -> Seq(Requests)]
        /\ writing \in [Workers -> Written \cup {Nothing}]
        /\ js \in [Workers -> {"idle", "update", "other", "process", "notify"}]
    BY <1>1 DEF DebugInit
  <2> QED
    BY <2>1, <2>2, <2>3 DEF DebugTyped
<1>4. Addressed
  BY <1>1 DEF DebugInit, Addressed, Underway
<1> QED
  BY <1>3, <1>4 DEF RequestInv

\* The steps of a request that only move it.
LEMMA RequestMoves ==
  ASSUME RequestInv, NEW r \in Requests,
         \/ Stub(r) \/ Lock(r) \/ Check(r) \/ Block(r) \/ SpuriousWakeup(r) \/ Relock(r)
  PROVE  RequestInv'
<1>1. DebugTyped'
  <2>1. CASE Stub(r) \/ Lock(r)
    <3>1. /\ \E p \in {"done", "install"} : pc' = [pc EXCEPT ![r] = p]
          /\ mutex' \in {mutex, r} /\ (ready' = ready \/ ready' = FALSE)
          /\ UNCHANGED <<serial, kind, target, result, reply, early, handler>>
          /\ UNCHANGED <<commands, writing, js, paused>>
      BY <2>1 DEF Stub, Lock, isolates
    <3>2. /\ pc' \in [Requests -> {"new", "done"} \cup Underway]
          /\ mutex' \in Requests \cup {Nobody}
      BY <3>1 DEF RequestInv, DebugTyped, Underway
    <3>3. ready' \in BOOLEAN
      BY <3>1 DEF RequestInv, DebugTyped
    <3> QED
      BY <3>1, <3>2, <3>3 DEF RequestInv, DebugTyped
  <2>2. CASE Check(r) \/ Block(r)
    <3>1. /\ \E p \in {"return", "block", "asleep"} : pc' = [pc EXCEPT ![r] = p]
          /\ mutex' \in {mutex, Nobody} /\ early' \subseteq early \cup {r}
          /\ UNCHANGED <<serial, kind, target, ready, result, reply, handler>>
          /\ UNCHANGED <<commands, writing, js, paused>>
      BY <2>2 DEF Check, Block, isolates
    <3>2. /\ pc' \in [Requests -> {"new", "done"} \cup Underway]
          /\ mutex' \in Requests \cup {Nobody} /\ early' \subseteq Requests
      BY <3>1 DEF RequestInv, DebugTyped, Underway
    <3> QED
      BY <3>1, <3>2 DEF RequestInv, DebugTyped
  <2>3. CASE SpuriousWakeup(r) \/ Relock(r)
    BY <2>3 DEF RequestInv, DebugTyped, SpuriousWakeup, Relock, isolates, Underway
  <2> QED
    BY <2>1, <2>2, <2>3
<1>2. /\ kind' = kind /\ target' = target /\ handler' = handler /\ commands' = commands
      /\ \A q \in Requests : pc'[q] \in Underway =>
            pc'[q] = pc[q] \/ (pc[q] \in Underway /\ pc'[q] # "command")
  BY DEF RequestInv, DebugTyped, Stub, Lock, Check, Block, SpuriousWakeup, Relock, isolates, Underway
<1>3. Addressed'
  BY <1>2 DEF RequestInv, Addressed, Underway
<1> QED
  BY <1>1, <1>3 DEF RequestInv

\* The other steps of a request.
LEMMA RequestActs ==
  ASSUME RequestInv, NEW r \in Requests, NEW w \in Workers,
         Request(r, w) \/ SetMessageHandler(r) \/ SendCommand(r) \/ Copy(r)
  PROVE  RequestInv'
<1>1. CASE Request(r, w)
  <2>1. DebugTyped'
    BY <1>1 DEF RequestInv, DebugTyped, Request, isolates, Underway
  <2>2. Addressed'
    BY <1>1 DEF RequestInv, DebugTyped, Addressed, Request, isolates, Underway
  <2> QED
    BY <2>1, <2>2 DEF RequestInv
<1>2. CASE SetMessageHandler(r)
  <2>1. kind[r] \in Waiting /\ target[r] \in Workers
    BY <1>2 DEF SetMessageHandler, RequestInv, Addressed, Underway
  <2>2. DebugTyped'
    BY <1>2, <2>1 DEF RequestInv, DebugTyped, SetMessageHandler, isolates, Underway
  <2>3. Nothing \notin Waiting
    BY RequestAssumption
  <2>4. \A v \in Workers : handler'[v] = handler[v] \/ handler'[v] # Nothing
    BY <1>2, <2>1, <2>3 DEF RequestInv, DebugTyped, SetMessageHandler
  <2>5. handler'[target[r]] # Nothing
    BY <1>2, <2>1, <2>3 DEF RequestInv, DebugTyped, SetMessageHandler
  <2>6. /\ kind' = kind /\ target' = target /\ commands' = commands
        /\ pc'[r] = "command" /\ pc[r] \in Underway
        /\ \A q \in Requests \ {r} : pc'[q] = pc[q]
    BY <1>2 DEF RequestInv, DebugTyped, SetMessageHandler, isolates, Underway
  <2>7. Addressed'
    BY <2>4, <2>5, <2>6 DEF RequestInv, Addressed, Underway
  <2> QED
    BY <2>2, <2>7 DEF RequestInv
<1>3. CASE SendCommand(r)
  <2>1. kind[r] \in Waiting /\ target[r] \in Workers /\ handler[target[r]] # Nothing
    BY <1>3 DEF SendCommand, RequestInv, Addressed, Underway
  <2>2. DebugTyped'
    BY <1>3, <2>1 DEF RequestInv, DebugTyped, SendCommand, Underway
  <2>3. /\ kind' = kind /\ target' = target /\ handler' = handler
        /\ pc[r] \in Underway /\ pc'[r] = "check"
        /\ \A q \in Requests \ {r} : pc'[q] = pc[q]
        /\ commands'[target[r]] = Append(commands[target[r]], r)
        /\ \A v \in Workers \ {target[r]} : commands'[v] = commands[v]
    BY <1>3, <2>1 DEF RequestInv, DebugTyped, SendCommand, Underway
  <2>4. ASSUME NEW v \in Workers, NEW i \in DOMAIN commands'[v]
        PROVE  handler[v] # Nothing /\ kind[commands'[v][i]] \in Waiting
    <3>1. CASE v # target[r]
      BY <2>3, <2>4, <3>1 DEF RequestInv, Addressed
    <3>2. CASE v = target[r]
      <4>1. commands[v] \in Seq(Requests)
        BY DEF RequestInv, DebugTyped
      <4>2. commands'[v] = Append(commands[v], r)
        BY <2>3, <3>2
      <4>3. (i \in DOMAIN commands[v] /\ commands'[v][i] = commands[v][i]) \/ commands'[v][i] = r
        BY <2>4, <4>1, <4>2
      <4> QED
        BY <2>1, <3>2, <4>3 DEF RequestInv, Addressed
    <3> QED
      BY <3>1, <3>2
  <2>5. Addressed'
    BY <2>3, <2>4 DEF RequestInv, Addressed, Underway
  <2> QED
    BY <2>2, <2>5 DEF RequestInv
<1>4. CASE Copy(r)
  <2>1. PICK m : /\ m \in {result[kind[r]], Torn}
                 /\ reply' = [reply EXCEPT ![r] = m]
    BY <1>4 DEF Copy
  <2>2. kind[r] \in Waiting
    BY <1>4 DEF Copy, RequestInv, Addressed, Underway
  <2>3. m \in Message \cup {Nothing}
    BY <2>1, <2>2 DEF RequestInv, DebugTyped, Message
  <2>4. DebugTyped'
    BY <1>4, <2>1, <2>3 DEF RequestInv, DebugTyped, Copy, isolates, Underway
  <2>5. /\ kind' = kind /\ target' = target /\ handler' = handler /\ commands' = commands
        /\ \A q \in Requests : pc'[q] = pc[q] \/ pc'[q] = "done"
    BY <1>4 DEF RequestInv, DebugTyped, Copy, isolates
  <2>6. Addressed'
    BY <2>5 DEF RequestInv, Addressed, Underway
  <2> QED
    BY <2>4, <2>6 DEF RequestInv
<1> QED
  BY <1>1, <1>2, <1>3, <1>4

\* A notification moves requests that sleep, and nobody else.
LEMMA Notified ==
  ASSUME DebugTyped
  PROVE  /\ NotifyAll \in [Requests -> {"new", "done"} \cup Underway]
         /\ \A q \in Requests : \/ NotifyAll[q] = pc[q]
                                \/ pc[q] = "asleep" /\ NotifyAll[q] = "woken"
  BY DEF NotifyAll, DebugTyped, Underway

\* The steps of an isolate.
LEMMA IsolateActs ==
  ASSUME RequestInv, NEW w \in Workers, IsolateStep(w) \/ StartUpdate(w) \/ StartOther(w)
  PROVE  RequestInv'
<1>1. CASE StartUpdate(w) \/ StartOther(w) \/ ScriptReturns(w) \/ ProcessDebugMessages(w)
  <2>1. DebugTyped'
    BY <1>1 DEF RequestInv, DebugTyped, StartUpdate, StartOther, StartCall, ScriptReturns,
                ProcessDebugMessages, requests
  <2>2. Addressed'
    BY <1>1 DEF RequestInv, Addressed, StartUpdate, StartOther, StartCall, ScriptReturns,
                ProcessDebugMessages, requests
  <2> QED
    BY <2>1, <2>2 DEF RequestInv
<1>2. CASE Stop(w)
  <2>1. [to |-> handler[w], message |-> Break] \in Written
    BY <1>2 DEF Stop, RequestInv, DebugTyped, Written, Message
  <2>2. DebugTyped'
    BY <1>2, <2>1 DEF RequestInv, DebugTyped, Stop, requests
  <2>3. Addressed'
    BY <1>2 DEF RequestInv, Addressed, Stop, requests
  <2> QED
    BY <2>2, <2>3 DEF RequestInv
<1>3. CASE Execute(w)
  <2>1. PICK r : r = Head(commands[w])
    OBVIOUS
  <2>2. commands[w] \in Seq(Requests) /\ commands[w] # <<>>
    BY <1>3 DEF Execute, RequestInv, DebugTyped
  <2>3. r \in Requests /\ 1 \in DOMAIN commands[w] /\ commands[w][1] = r
    BY <2>1, <2>2
  <2>4. handler[w] \in Waiting /\ kind[r] \in Waiting
    BY <2>3 DEF RequestInv, DebugTyped, Addressed
  <2>5. PICK ok \in BOOLEAN :
           writing' = [writing EXCEPT ![w] =
               [to |-> handler[w], message |-> [re |-> r, command |-> kind[r], ok |-> ok]]]
    BY <1>3, <2>1 DEF Execute
  <2>6. [to |-> handler[w], message |-> [re |-> r, command |-> kind[r], ok |-> ok]] \in Written
    BY <2>3, <2>4 DEF Written, Message, Response
  <2>7. /\ commands' = [commands EXCEPT ![w] = Tail(@)]
        /\ paused' \subseteq paused
        /\ UNCHANGED <<serial, kind, target, pc, mutex, reply, early, ready, result, handler, js>>
    BY <1>3 DEF Execute, requests
  <2>8. Tail(commands[w]) \in Seq(Requests)
    BY <2>2
  <2>9. DebugTyped'
    BY <2>5, <2>6, <2>7, <2>8 DEF RequestInv, DebugTyped
  <2>10. ASSUME NEW v \in Workers, NEW i \in DOMAIN commands'[v]
         PROVE  handler[v] # Nothing /\ kind[commands'[v][i]] \in Waiting
    <3>1. CASE v # w
      BY <2>7, <2>10, <3>1 DEF RequestInv, DebugTyped, Addressed
    <3>2. CASE v = w
      <4>1. commands'[w] = Tail(commands[w])
        BY <2>7 DEF RequestInv, DebugTyped
      <4>2. i + 1 \in DOMAIN commands[w] /\ commands'[w][i] = commands[w][i + 1]
        BY <2>2, <2>10, <3>2, <4>1
      <4> QED
        BY <3>2, <4>2 DEF RequestInv, Addressed
    <3> QED
      BY <3>1, <3>2
  <2>11. Addressed'
    BY <2>7, <2>10 DEF RequestInv, Addressed
  <2> QED
    BY <2>9, <2>11 DEF RequestInv
<1>4. CASE Store(w)
  <2>1. PICK k, m : k = writing[w].to /\ m = writing[w].message
    OBVIOUS
  <2>2. k \in Waiting /\ m \in Message
    BY <1>4, <2>1 DEF Store, RequestInv, DebugTyped, Written
  <2>3. PICK x \in {m, Torn} : result' = [result EXCEPT ![k] = x]
    BY <1>4, <2>1 DEF Store
  <2>4. x \in Message
    BY <2>2, <2>3 DEF Message
  <2>5. \/ ready' = TRUE /\ pc' = NotifyAll
        \/ ready' = ready /\ pc' = pc
    BY <1>4 DEF Store
  <2>6. /\ writing' = [writing EXCEPT ![w] = Nothing]
        /\ UNCHANGED <<serial, kind, target, mutex, reply, early, handler, commands, js, paused>>
    BY <1>4 DEF Store
  <2>7. DebugTyped'
    BY <2>2, <2>3, <2>4, <2>5, <2>6, Notified DEF RequestInv, DebugTyped
  <2>8. \A q \in Requests : pc'[q] = pc[q] \/ (pc[q] = "asleep" /\ pc'[q] = "woken")
    BY <2>5, Notified DEF RequestInv
  <2>9. Addressed'
    BY <2>6, <2>8 DEF RequestInv, Addressed, Underway
  <2> QED
    BY <2>7, <2>9 DEF RequestInv
<1>5. CASE UpdateReturns(w)
  <2>1. /\ ready' = TRUE /\ pc' = NotifyAll /\ js' = [js EXCEPT ![w] = "idle"]
        /\ UNCHANGED <<serial, kind, target, mutex, result, reply, early, handler, commands,
                       writing, paused>>
    BY <1>5 DEF UpdateReturns
  <2>2. DebugTyped'
    BY <2>1, Notified DEF RequestInv, DebugTyped
  <2>3. \A q \in Requests : pc'[q] = pc[q] \/ (pc[q] = "asleep" /\ pc'[q] = "woken")
    BY <2>1, Notified DEF RequestInv
  <2>4. Addressed'
    BY <2>1, <2>3 DEF RequestInv, Addressed, Underway
  <2> QED
    BY <2>2, <2>4 DEF RequestInv
<1> QED
  BY <1>1, <1>2, <1>3, <1>4, <1>5 DEF IsolateStep

\* Every step keeps RequestInv.
LEMMA RequestNext == SInv /\ RequestInv /\ [Next]_vars => RequestInv'
<1> SUFFICES ASSUME SInv, RequestInv, [Next]_vars
             PROVE  RequestInv'
  OBVIOUS
<1>1. ASSUME NEW r \in Requests, ARequest(r)
      PROVE  RequestInv'
  <2>1. ASSUME NEW a \in Apps, V8DebugHandler(r, a)
        PROVE  RequestInv'
    <3>1. table[a] \in Workers /\ Request(r, table[a])
      BY <2>1 DEF V8DebugHandler, SInv, SessionTyped
    <3> QED
      BY <3>1, RequestActs
  <2>2. CASE RequestStep(r)
    <3>1. CASE Stub(r) \/ Lock(r) \/ Check(r) \/ Block(r) \/ SpuriousWakeup(r) \/ Relock(r)
      BY <3>1, RequestMoves
    <3>2. CASE SetMessageHandler(r) \/ SendCommand(r) \/ Copy(r)
      <4>1. target[r] \in Workers
        BY <3>2 DEF SetMessageHandler, SendCommand, Copy, RequestInv, Addressed, Underway
      <4> QED
        BY <3>2, <4>1, RequestActs
    <3> QED
      BY <2>2, <3>1, <3>2 DEF RequestStep
  <2> QED
    BY <1>1, <2>1, <2>2 DEF ARequest
<1>2. ASSUME NEW w \in Workers, AnIsolate(w)
      PROVE  RequestInv'
  BY <1>2, IsolateActs DEF AnIsolate, Event, OtherCall
<1>3. CASE UNCHANGED <<serial, kind, target, pc, mutex, ready, result, reply, early, handler,
                       commands, writing, js, paused>>
  BY <1>3 DEF RequestInv, DebugTyped, Addressed
<1>4. ASSUME NEW s \in Sessions,
             \/ StartListen(s) \/ Serve(s) \/ ServeReturns(s)
             \/ \E a \in Apps : StartV8Debugger(s, a)
      PROVE  RequestInv'
  BY <1>3, <1>4 DEF StartListen, Serve, ServeReturns, StartV8Debugger, debugVars, requests, isolates
<1>5. CASE StopListen
  BY <1>3, <1>5 DEF StopListen, debugVars
<1>6. ASSUME NEW a \in Apps, NEW w \in Workers, Redeploy(a, w)
      PROVE  RequestInv'
  BY <1>3, <1>6 DEF Redeploy, debugVars
<1>7. CASE UNCHANGED vars
  BY <1>3, <1>7 DEF vars
<1> QED
  BY <1>1, <1>2, <1>4, <1>5, <1>6, <1>7 DEF Next

\* Every step keeps WorkersTyped: workers are loaded once.
LEMMA WorkersNext == SInv /\ WorkersTyped /\ [Next]_vars => WorkersTyped'
<1> SUFFICES ASSUME SInv, WorkersTyped, [Next]_vars
             PROVE  WorkersTyped'
  OBVIOUS
<1>1. CASE UNCHANGED <<calm, crashed, flag, deployed, fresh>>
  BY <1>1 DEF WorkersTyped
<1>2. CASE (\E r \in Requests : ARequest(r)) \/ (\E w \in Workers : AnIsolate(w))
  BY <1>1, <1>2, OthersIdle DEF sessionVars
<1>3. ASSUME NEW s \in Sessions, StartListen(s) \/ Serve(s)
      PROVE  WorkersTyped'
  BY <1>1, <1>3 DEF StartListen, Serve, debugVars
<1>4. ASSUME NEW s \in Sessions, ServeReturns(s)
      PROVE  WorkersTyped'
  BY <1>4 DEF ServeReturns, WorkersTyped
<1>5. ASSUME NEW s \in Sessions, NEW a \in Apps, StartV8Debugger(s, a)
      PROVE  WorkersTyped'
  BY <1>5 DEF StartV8Debugger, WorkersTyped, SInv, SessionTyped
<1>6. CASE StopListen
  BY <1>1, <1>6 DEF StopListen, debugVars
<1>7. ASSUME NEW a \in Apps, NEW w \in Workers, Redeploy(a, w)
      PROVE  WorkersTyped'
  BY <1>7 DEF Redeploy, WorkersTyped, debugVars
<1>8. CASE UNCHANGED vars
  BY <1>1, <1>8 DEF vars
<1> QED
  BY <1>2, <1>3, <1>4, <1>5, <1>6, <1>7, <1>8 DEF Next

\* Every variable keeps its type, for any number of requests, workers and sessions:
\* in particular V8 never executes a command without a message handler to give the
\* response to, and a redeploy never loads a worker that was loaded before.
THEOREM DebugTypes == Spec => []TypeOK
<1>1. Init => WorkersTyped
  <2> SUFFICES ASSUME Init
               PROVE  WorkersTyped
    OBVIOUS
  <2>1. PICK sc \in Scenes : DebugInit(sc.serial, sc.kinds) /\ calm = sc.calm /\ fresh = sc.workers \ deployed
    BY DEF Init
  <2>2. sc.calm \in BOOLEAN /\ sc.workers \subseteq Workers
    BY SessionAssumption
  <2>3. crashed \in BOOLEAN /\ flag = {}
    BY <2>1 DEF Init, DebugInit
  <2>4. deployed \subseteq Workers
    <3>1. deployed = {Boot[a] : a \in Apps} \ {Nothing}
      BY DEF Init
    <3>2. \A a \in Apps : Boot[a] \in Workers \cup {Nothing}
      BY SessionAssumption
    <3> QED
      BY <3>1, <3>2
  <2> QED
    BY <2>1, <2>2, <2>3, <2>4 DEF WorkersTyped
<1>2. SInv /\ RequestInv /\ WorkersTyped => TypeOK
  <2> SUFFICES ASSUME SessionTyped, DebugTyped, WorkersTyped
               PROVE  TypeOK
    BY DEF SInv, RequestInv
  <2>1. pc \in [Requests -> {"new", "lock", "install", "command", "check", "block",
                             "asleep", "woken", "return", "done"}]
    <3>1. {"new", "done"} \cup Underway = {"new", "lock", "install", "command", "check", "block",
                                           "asleep", "woken", "return", "done"}
      BY DEF Underway
    <3> QED
      BY <3>1 DEF DebugTyped
  <2> QED
    BY <2>1 DEF TypeOK, SessionTyped, DebugTyped, WorkersTyped, Written
<1> QED
  BY <1>1, <1>2, SInvInit, SInvNext, RequestInit, RequestNext, WorkersNext, PTL DEF Spec

-----------------------------------------------------------------------------
(* Answers.                                                                *)

\* A request that is under way, or whose response has still to be stored.
Pending(r) == pc[r] \in Underway \/ Unanswered(r)

\* The string of r's kind holds the response to r, a stop, or a spoilt message.
Good(r) == \/ result[kind[r]] \in {Break, Torn}
           \/ result[kind[r]] # Nothing /\ result[kind[r]].re = r

\* Until r returns its response is on the way or stored; what r returned is it.
Answered(r) ==
    /\ Unanswered(r) => pc[r] \in Sent
    /\ pc[r] = "command" => handler[target[r]] = kind[r]
    /\ pc[r] \in Sent \ {"done"} /\ r \notin early =>
          (pc[r] # "return" /\ Unanswered(r)) \/ Good(r)
    /\ pc[r] = "done" /\ kind[r] \in Waiting /\ r \notin early =>
          reply[r] \in {Break, Torn} \/ (reply[r] # Nothing /\ reply[r].re = r)

\* A response goes to the string of its request's kind.
Delivered(w) ==
    /\ \A i \in DOMAIN commands[w] : handler[w] = kind[commands[w][i]]
    /\ writing[w] # Nothing /\ writing[w].message.re \in Requests =>
          writing[w].to = kind[writing[w].message.re]

AnswerInv ==
    serial => /\ \A q, r \in Requests : Pending(q) /\ Pending(r) => q = r
              /\ \A r \in Requests : Answered(r)
              /\ \A w \in Workers : Delivered(w)

\* A request moves on between the steps that send, store and copy.
LEMMA AnswerMoves ==
  ASSUME AnswerInv,
         UNCHANGED <<serial, kind, target, result, reply, early, handler, commands, writing>>,
         \A q \in Requests :
            \/ pc'[q] = pc[q]
            \/ /\ pc[q] \in Underway /\ pc'[q] \in Underway \ {"command", "return"}
               /\ pc[q] \in Sent <=> pc'[q] \in Sent
               /\ pc[q] # "return"
  PROVE  AnswerInv'
<1> SUFFICES ASSUME serial
             PROVE  /\ \A q, r \in Requests : Pending(q)' /\ Pending(r)' => q = r
                    /\ \A r \in Requests : Answered(r)'
                    /\ \A w \in Workers : Delivered(w)'
  BY DEF AnswerInv
<1>1. \A q \in Requests : Unanswered(q)' = Unanswered(q)
  BY DEF Unanswered
<1>2. \A q \in Requests : Pending(q)' => Pending(q)
  BY <1>1 DEF Pending
<1>3. ASSUME NEW r \in Requests
      PROVE  Answered(r)'
  <2>1. Answered(r)
    BY DEF AnswerInv
  <2>2. Good(r) => Good(r)'
    BY DEF Good
  <2> QED
    BY <1>1, <2>1, <2>2 DEF Answered, Underway, Sent
<1>4. ASSUME NEW w \in Workers
      PROVE  Delivered(w)'
  BY DEF AnswerInv, Delivered
<1> QED
  BY <1>2, <1>3, <1>4 DEF AnswerInv

\* Steps of a request that are not moves of this kind; r is then the only one that
\* is pending.
LEMMA AnswerRequest ==
  ASSUME RequestInv, AnswerInv, NEW r \in Requests, NEW w \in Workers,
         Stub(r) \/ Request(r, w) \/ SetMessageHandler(r) \/ SendCommand(r) \/ Check(r) \/ Copy(r)
  PROVE  AnswerInv'
<1> SUFFICES ASSUME serial
             PROVE  /\ \A p, q \in Requests : Pending(p)' /\ Pending(q)' => p = q
                    /\ \A q \in Requests : Answered(q)'
                    /\ \A v \in Workers : Delivered(v)'
  BY DEF AnswerInv, Stub, Request, SetMessageHandler, SendCommand, Check, Copy
<1>0. /\ \A p, q \in Requests : Pending(p) /\ Pending(q) => p = q
      /\ \A q \in Requests : Answered(q)
      /\ \A v \in Workers : Delivered(v)
  BY DEF AnswerInv
<1>a. kind' = kind /\ result' = result /\ writing' = writing /\ \A q \in Requests : Good(q)' = Good(q)
  BY DEF Stub, Request, SetMessageHandler, SendCommand, Check, Copy, isolates, Good
<1>b. \A q \in Requests \ {r} : pc'[q] = pc[q]
  BY DEF Stub, Request, SetMessageHandler, SendCommand, Check, Copy, RequestInv, DebugTyped
<1>1. CASE Stub(r) \/ Request(r, w)
  <2>1. /\ pc[r] = "new" /\ pc'[r] \in {"lock", "done"}
        /\ pc'[r] = "done" => kind[r] \notin Waiting
        /\ pc'[r] = "lock" => \A q \in Requests : pc[q] = "new" \/ (pc[q] = "done" /\ ~ Unanswered(q))
        /\ UNCHANGED <<reply, early, handler, commands>>
        /\ \A q \in Requests \ {r} : target'[q] = target[q]
    BY <1>1 DEF Stub, Request, RequestInv, DebugTyped, isolates, Stubs, Waiting
  <2>2. \A q \in Requests : Unanswered(q)' = Unanswered(q)
    BY <1>a, <2>1 DEF Unanswered
  <2>3. ~ Unanswered(r)
    BY <1>0, <2>1 DEF Answered, Sent
  <2>4. \A q \in Requests \ {r} : Pending(q)' = Pending(q)
    BY <1>b, <2>2 DEF Pending
  <2>5. Pending(r)' => \A q \in Requests : ~ Pending(q) \/ q = r
    <3>1. pc'[r] \in Underway => \A q \in Requests : ~ Pending(q)
      <4> SUFFICES ASSUME pc'[r] \in Underway, NEW q \in Requests
                   PROVE  ~ Pending(q)
        OBVIOUS
      <4>1. pc[q] = "new" \/ (pc[q] = "done" /\ ~ Unanswered(q))
        BY <2>1 DEF Underway
      <4>2. Unanswered(q) => pc[q] \in Sent
        BY <1>0 DEF Answered
      <4> QED
        BY <4>1, <4>2 DEF Pending, Underway, Sent
    <3> QED
      BY <2>2, <2>3, <3>1 DEF Pending
  <2>6. \A p, q \in Requests : Pending(p)' /\ Pending(q)' => p = q
    BY <1>0, <2>4, <2>5
  <2>7. Answered(r)'
    BY <1>a, <2>1, <2>2, <2>3 DEF Answered, Sent
  <2>8. ASSUME NEW q \in Requests \ {r}
        PROVE  Answered(q)'
    BY <1>0, <1>a, <1>b, <2>1, <2>2 DEF Answered
  <2>9. \A v \in Workers : Delivered(v)'
    BY <1>0, <1>a, <2>1 DEF Delivered
  <2> QED
    BY <2>6, <2>7, <2>8, <2>9
<1>2. CASE SetMessageHandler(r)
  <2>1. /\ pc[r] = "install" /\ pc'[r] = "command"
        /\ UNCHANGED <<reply, early, commands, target>>
        /\ handler'[target[r]] = kind[r]
    BY <1>2 DEF SetMessageHandler, RequestInv, DebugTyped, Addressed, isolates, Underway
  <2>2. \A q \in Requests : Unanswered(q)' = Unanswered(q)
    BY <1>a, <2>1 DEF Unanswered
  <2>3. Pending(r) /\ ~ Unanswered(r)
    BY <1>0, <2>1 DEF Answered, Sent, Pending, Underway
  <2>4. \A q \in Requests \ {r} : ~ Pending(q) /\ ~ Pending(q)'
    BY <1>0, <1>b, <2>2, <2>3 DEF Pending
  <2>5. \A q \in Requests : ~ Unanswered(q)
    BY <2>3, <2>4 DEF Pending
  <2>6. ASSUME NEW v \in Workers
        PROVE  Delivered(v)'
    <3>1. \A i \in DOMAIN commands[v] : commands[v][i] \in Requests
      <4>1. commands[v] \in Seq(Requests)
        BY DEF RequestInv, DebugTyped
      <4> QED
        BY <4>1
    <3>2. DOMAIN commands[v] = {}
      BY <2>5, <3>1 DEF Unanswered
    <3> QED
      BY <1>0, <1>a, <2>1, <3>2 DEF Delivered
  <2>7. Answered(r)'
    BY <1>a, <2>1, <2>2, <2>3 DEF Answered, Sent
  <2>8. ASSUME NEW q \in Requests \ {r}
        PROVE  Answered(q)'
    <3>1. pc'[q] = pc[q] /\ pc[q] \notin Underway
      BY <1>b, <2>4 DEF Pending
    <3> QED
      BY <1>0, <1>a, <2>1, <2>2, <3>1 DEF Answered, Underway
  <2> QED
    BY <2>4, <2>6, <2>7, <2>8
<1>3. CASE SendCommand(r)
  <2>1. /\ pc[r] = "command" /\ pc'[r] = "check"
        /\ UNCHANGED <<reply, early, handler, target>>
        /\ target[r] \in Workers
        /\ commands'[target[r]] = Append(commands[target[r]], r)
        /\ \A v \in Workers \ {target[r]} : commands'[v] = commands[v]
    BY <1>3 DEF SendCommand, RequestInv, DebugTyped, Addressed, Underway
  <2>2. PICK c, t : c = commands[target[r]] /\ t = target[r]
    OBVIOUS
  <2>3. c \in Seq(Requests)
    BY <2>1, <2>2 DEF RequestInv, DebugTyped
  <2>4. PICK d : d = Append(c, r)
    OBVIOUS
  <2>5. /\ \A i \in DOMAIN d : d[i] = r \/ (i \in DOMAIN c /\ d[i] = c[i])
        /\ \E i \in DOMAIN d : d[i] = r
    <3>1. DOMAIN d = 1..(Len(c) + 1) /\ DOMAIN c = 1..Len(c) /\ Len(c) \in Nat
          /\ d[Len(c) + 1] = r /\ \A i \in 1..Len(c) : d[i] = c[i]
      BY <2>3, <2>4
    <3> QED
      BY <3>1
  <2>6. commands'[t] = d /\ commands[t] = c /\ t \in Workers
    BY <2>1, <2>2, <2>4
  <2>7. \A q \in Requests \ {r} : Unanswered(q)' => Unanswered(q)
    BY <1>a, <2>1, <2>2, <2>5, <2>6 DEF Unanswered
  <2>8. Unanswered(r)'
    BY <2>5, <2>6 DEF Unanswered
  <2>9. Pending(r)
    BY <2>1 DEF Pending, Underway
  <2>10. \A q \in Requests \ {r} : ~ Pending(q) /\ ~ Pending(q)'
    BY <1>0, <1>b, <2>7, <2>9 DEF Pending
  <2>11. handler[t] = kind[r]
    BY <1>0, <2>1, <2>2 DEF Answered
  <2>12. ASSUME NEW v \in Workers
         PROVE  Delivered(v)'
    <3>1. CASE v = t
      BY <1>0, <1>a, <2>1, <2>5, <2>6, <2>11, <3>1 DEF Delivered
    <3>2. CASE v # t
      BY <1>0, <1>a, <2>1, <2>2, <3>2 DEF Delivered
    <3> QED
      BY <3>1, <3>2
  <2>13. Answered(r)'
    BY <2>1, <2>8 DEF Answered, Sent
  <2>14. ASSUME NEW q \in Requests \ {r}
         PROVE  Answered(q)'
    <3>1. pc'[q] = pc[q] /\ pc[q] \notin Underway
      BY <1>b, <2>10 DEF Pending
    <3> QED
      BY <1>0, <1>a, <2>1, <2>7, <3>1 DEF Answered, Underway, Sent
  <2> QED
    BY <2>10, <2>12, <2>13, <2>14
<1>4. CASE Check(r) \/ Copy(r)
  <2>1. UNCHANGED <<handler, commands, target>>
    BY <1>4 DEF Check, Copy, isolates
  <2>2. \A q \in Requests : Unanswered(q)' = Unanswered(q)
    BY <1>a, <2>1 DEF Unanswered
  <2>3. pc[r] \in {"check", "return"} /\ pc'[r] \in {"return", "block", "done"}
    BY <1>4 DEF Check, Copy, RequestInv, DebugTyped
  <2>4. Pending(r)
    BY <2>3 DEF Pending, Underway
  <2>5. \A q \in Requests \ {r} : ~ Pending(q) /\ ~ Pending(q)'
    BY <1>0, <1>b, <2>2, <2>4 DEF Pending
  <2>6. \A v \in Workers : Delivered(v)'
    BY <1>0, <1>a, <2>1 DEF Delivered
  <2>7. ASSUME NEW q \in Requests \ {r}
        PROVE  Answered(q)'
    <3>1. pc'[q] = pc[q] /\ pc[q] \notin Underway
      BY <1>b, <2>5 DEF Pending
    <3>2. reply'[q] = reply[q] /\ (q \in early => q \in early')
      BY <1>4 DEF Check, Copy, RequestInv, DebugTyped
    <3> QED
      BY <1>0, <1>a, <2>1, <2>2, <3>1, <3>2 DEF Answered, Underway, Sent
  <2>8. Answered(r)'
    <3>1. CASE Check(r)
      <4>1. /\ pc[r] = "check" /\ reply' = reply
            /\ \/ pc'[r] = "return" /\ early' = IF Unanswered(r) THEN early \cup {r} ELSE early
               \/ pc'[r] = "block" /\ early' = early
        BY <3>1 DEF Check, RequestInv, DebugTyped
      <4> QED
        BY <1>0, <1>a, <2>1, <2>2, <4>1 DEF Answered, Sent
    <3>2. CASE Copy(r)
      <4>1. /\ pc[r] = "return" /\ pc'[r] = "done" /\ early' = early
        BY <3>2 DEF Copy, RequestInv, DebugTyped
      <4>2. PICK m \in {result[kind[r]], Torn} : reply' = [reply EXCEPT ![r] = m]
        BY <3>2 DEF Copy
      <4>3. reply'[r] = m
        BY <4>2 DEF RequestInv, DebugTyped
      <4>4. r \notin early => m \in {Break, Torn} \/ (m # Nothing /\ m.re = r)
        BY <1>0, <4>1, <4>2 DEF Answered, Good, Sent
      <4> QED
        BY <1>0, <1>a, <2>1, <2>2, <4>1, <4>3, <4>4 DEF Answered, Sent
    <3> QED
      BY <1>4, <3>1, <3>2
  <2> QED
    BY <2>5, <2>6, <2>7, <2>8
<1> QED
  BY <1>1, <1>2, <1>3, <1>4

\* Steps of an isolate: a command that is executed is still unanswered, and a
\* message that is stored is a stop or answers the only request that is pending.
LEMMA AnswerIsolate ==
  ASSUME RequestInv, AnswerInv, NEW w \in Workers, Stop(w) \/ Execute(w) \/ Store(w)
  PROVE  AnswerInv'
<1> SUFFICES ASSUME serial
             PROVE  /\ \A p, q \in Requests : Pending(p)' /\ Pending(q)' => p = q
                    /\ \A q \in Requests : Answered(q)'
                    /\ \A v \in Workers : Delivered(v)'
  BY DEF AnswerInv, Stop, Execute, Store, requests
<1>0. /\ \A p, q \in Requests : Pending(p) /\ Pending(q) => p = q
      /\ \A q \in Requests : Answered(q)
      /\ \A v \in Workers : Delivered(v)
  BY DEF AnswerInv
<1>a. UNCHANGED <<kind, target, reply, early, handler>>
  BY DEF Stop, Execute, Store, requests
<1>b. Nothing \notin Requests
  BY RequestAssumption
<1>1. CASE Stop(w)
  <2>1. UNCHANGED <<pc, result, commands>> /\ writing[w] = Nothing
    BY <1>1 DEF Stop, InScript, requests
  <2>2. PICK x : x = [to |-> handler[w], message |-> Break]
    OBVIOUS
  <2>3. writing'[w] = x /\ \A v \in Workers \ {w} : writing'[v] = writing[v]
    BY <1>1, <2>2 DEF Stop, RequestInv, DebugTyped
  <2>4. x.message.re = Nothing
    BY <2>2 DEF Break
  <2>5. \A q \in Requests : Unanswered(q)' = Unanswered(q)
    BY <1>b, <2>1, <2>3, <2>4 DEF Unanswered
  <2>6. \A q \in Requests : Pending(q)' = Pending(q) /\ Good(q)' = Good(q)
    BY <1>a, <2>1, <2>5 DEF Pending, Good
  <2>7. \A q \in Requests : Answered(q)'
    BY <1>0, <1>a, <2>1, <2>5, <2>6 DEF Answered
  <2>8. \A v \in Workers : Delivered(v)'
    BY <1>0, <1>a, <1>b, <2>1, <2>3, <2>4 DEF Delivered
  <2> QED
    BY <1>0, <2>6, <2>7, <2>8
<1>2. CASE Execute(w)
  <2>1. PICK c : c = commands[w]
    OBVIOUS
  <2>2. c \in Seq(Requests) /\ c # <<>> /\ writing[w] = Nothing /\ UNCHANGED <<pc, result>>
    BY <1>2, <2>1 DEF Execute, InScript, RequestInv, DebugTyped, requests
  <2>3. PICK r : r = Head(c)
    OBVIOUS
  <2>4. PICK d : d = Tail(c)
    OBVIOUS
  <2>5. PICK ok \in BOOLEAN :
           writing' = [writing EXCEPT ![w] =
               [to |-> handler[w], message |-> [re |-> r, command |-> kind[r], ok |-> ok]]]
    BY <1>2, <2>1, <2>3 DEF Execute
  <2>6. PICK x : x = [to |-> handler[w], message |-> [re |-> r, command |-> kind[r], ok |-> ok]]
    OBVIOUS
  <2>7. /\ writing'[w] = x /\ \A v \in Workers \ {w} : writing'[v] = writing[v]
        /\ x.message.re = r /\ x.to = handler[w] /\ x # Nothing
    <3>1. x.message.re = r /\ x.to = handler[w]
      BY <2>6
    <3>2. writing'[w] = x /\ \A v \in Workers \ {w} : writing'[v] = writing[v]
      BY <2>5, <2>6 DEF RequestInv, DebugTyped
    <3>3. x # Nothing
      <4>1. r \in Requests /\ 1 \in DOMAIN c /\ c[1] = r
        BY <2>2, <2>3
      <4>2. handler[w] \in Waiting /\ kind[r] \in Waiting
        BY <2>1, <4>1 DEF RequestInv, DebugTyped, Addressed
      <4>3. x \in [to : Waiting, message : Message]
        BY <2>6, <4>1, <4>2 DEF Message, Response
      <4> QED
        BY <4>3, NothingAssumption
    <3> QED
      BY <3>1, <3>2, <3>3
  <2>8. /\ commands'[w] = d /\ \A v \in Workers \ {w} : commands'[v] = commands[v]
    BY <1>2, <2>1, <2>4 DEF Execute, RequestInv, DebugTyped
  <2>9. /\ \A i \in DOMAIN c : c[i] = r \/ \E j \in DOMAIN d : d[j] = c[i]
        /\ \A j \in DOMAIN d : \E i \in DOMAIN c : c[i] = d[j]
        /\ \E i \in DOMAIN c : c[i] = r
        /\ r \in Requests
    <3>1. /\ Len(c) \in Nat \ {0} /\ DOMAIN c = 1..Len(c) /\ DOMAIN d = 1..(Len(c) - 1)
          /\ r = c[1] /\ \A j \in 1..(Len(c) - 1) : d[j] = c[j + 1]
      BY <2>2, <2>3, <2>4
    <3>2. ASSUME NEW i \in DOMAIN c, c[i] # r
          PROVE  \E j \in DOMAIN d : d[j] = c[i]
      <4>1. i - 1 \in DOMAIN d /\ d[i - 1] = c[(i - 1) + 1] /\ (i - 1) + 1 = i
        BY <3>1, <3>2
      <4> QED
        BY <4>1
    <3>3. ASSUME NEW j \in DOMAIN d
          PROVE  j + 1 \in DOMAIN c /\ c[j + 1] = d[j]
      BY <3>1
    <3>4. 1 \in DOMAIN c /\ c[1] = r /\ r \in Requests
      BY <2>2, <3>1
    <3> QED
      BY <3>2, <3>3, <3>4
  <2>10. \A q \in Requests : Unanswered(q)' = Unanswered(q)
    <3>1. ASSUME NEW q \in Requests, Unanswered(q)
          PROVE  Unanswered(q)'
      BY <2>1, <2>2, <2>7, <2>8, <2>9, <3>1 DEF Unanswered
    <3>2. ASSUME NEW q \in Requests, Unanswered(q)'
          PROVE  Unanswered(q)
      BY <2>1, <2>7, <2>8, <2>9, <3>2 DEF Unanswered
    <3> QED
      BY <3>1, <3>2 DEF Unanswered
  <2>11. \A q \in Requests : Pending(q)' = Pending(q) /\ Good(q)' = Good(q)
    BY <1>a, <2>2, <2>10 DEF Pending, Good
  <2>12. \A q \in Requests : Answered(q)'
    BY <1>0, <1>a, <2>2, <2>10, <2>11 DEF Answered
  <2>13. handler[w] = kind[r] /\ \A j \in DOMAIN d : handler[w] = kind[d[j]]
    BY <1>0, <2>1, <2>9 DEF Delivered
  <2>14. \A v \in Workers : Delivered(v)'
    BY <1>0, <1>a, <2>7, <2>8, <2>13 DEF Delivered
  <2> QED
    BY <1>0, <2>11, <2>12, <2>14
<1>3. CASE Store(w)
  <2>1. PICK x : x = writing[w]
    OBVIOUS
  <2>2. x # Nothing /\ x \in Written /\ commands' = commands
    BY <1>3, <2>1 DEF Store, RequestInv, DebugTyped
  <2>3. PICK k, m : k = x.to /\ m = x.message
    OBVIOUS
  <2>4. k \in Waiting /\ m \in Message
    BY <2>2, <2>3 DEF Written
  <2>5. PICK y \in {m, Torn} : result' = [result EXCEPT ![k] = y]
    BY <1>3, <2>1, <2>3 DEF Store
  <2>6. result'[k] = y /\ \A l \in Waiting \ {k} : result'[l] = result[l]
    BY <2>4, <2>5 DEF RequestInv, DebugTyped
  <2>7. \A q \in Requests : pc'[q] = pc[q] \/ (pc[q] = "asleep" /\ pc'[q] = "woken")
    BY <1>3, Notified DEF Store, RequestInv
  <2>8. writing'[w] = Nothing /\ \A v \in Workers \ {w} : writing'[v] = writing[v]
    BY <1>3 DEF Store, RequestInv, DebugTyped
  <2>9. \A q \in Requests : /\ Unanswered(q)' => Unanswered(q)
                            /\ q # m.re /\ Unanswered(q) => Unanswered(q)'
    BY <2>1, <2>2, <2>3, <2>8 DEF Unanswered
  <2>10. \A q \in Requests : Pending(q)' => Pending(q)
    BY <2>7, <2>9 DEF Pending, Underway
  <2>11. m \in {Break, Torn} \/ (m.re \in Requests /\ m # Nothing)
    BY <2>4, NothingAssumption DEF Message, Response
  <2>12. m.re \in Requests => k = kind[m.re] /\ Unanswered(m.re)
    BY <1>0, <2>1, <2>2, <2>3 DEF Delivered, Unanswered
  <2>13. ASSUME NEW q \in Requests
         PROVE  Answered(q)'
    <3>1. Answered(q)
      BY <1>0
    <3>2. ASSUME pc[q] \in Underway, kind[q] = k
          PROVE  Good(q)'
      <4>1. Pending(q)
        BY <3>2 DEF Pending
      <4>2. m.re \in Requests => m.re = q
        BY <1>0, <2>12, <4>1 DEF Pending
      <4> QED
        BY <1>a, <2>5, <2>6, <2>11, <3>2, <4>2 DEF Good
    <3>3. ASSUME pc[q] \in Underway, kind[q] # k, Good(q)
          PROVE  Good(q)'
      <4>1. kind[q] \in Waiting
        BY <3>3 DEF RequestInv, Addressed
      <4> QED
        BY <1>a, <2>6, <3>3, <4>1 DEF Good
    <3>4. ASSUME pc[q] \in Underway, kind[q] # k, Unanswered(q)
          PROVE  Unanswered(q)'
      BY <2>9, <2>12, <3>4
    <3>5. pc[q] \in Sent \ {"done"} => pc[q] \in Underway
      BY DEF Sent, Underway
    <3>6. pc'[q] \in Sent \ {"done"} /\ q \notin early =>
             (pc'[q] # "return" /\ Unanswered(q)') \/ Good(q)'
      BY <2>7, <3>1, <3>2, <3>3, <3>4, <3>5 DEF Answered, Sent
    <3>7. Unanswered(q)' => pc'[q] \in Sent
      BY <2>7, <2>9, <3>1 DEF Answered, Sent
    <3> QED
      BY <1>a, <2>7, <3>1, <3>6, <3>7 DEF Answered
  <2>14. \A v \in Workers : Delivered(v)'
    BY <1>0, <1>a, <2>2, <2>8 DEF Delivered
  <2> QED
    BY <1>0, <2>10, <2>13, <2>14
<1> QED
  BY <1>1, <1>2, <1>3

\* Every step keeps AnswerInv.
LEMMA AnswerNext == SInv /\ RequestInv /\ AnswerInv /\ [Next]_vars => AnswerInv'
<1> SUFFICES ASSUME SInv, RequestInv, AnswerInv, [Next]_vars
             PROVE  AnswerInv'
  OBVIOUS
<1>0. CASE UNCHANGED <<serial, kind, target, pc, result, reply, early, handler, commands, writing>>
  BY <1>0, AnswerMoves
<1>1. ASSUME NEW r \in Requests, ARequest(r)
      PROVE  AnswerInv'
  <2>1. ASSUME NEW a \in Apps, V8DebugHandler(r, a)
        PROVE  AnswerInv'
    <3>1. table[a] \in Workers /\ Request(r, table[a])
      BY <2>1 DEF V8DebugHandler, SInv, SessionTyped
    <3> QED
      BY <3>1, AnswerRequest
  <2>2. CASE Lock(r) \/ Block(r) \/ SpuriousWakeup(r) \/ Relock(r)
    <3>1. UNCHANGED <<serial, kind, target, result, reply, early, handler, commands, writing>>
      BY <2>2 DEF Lock, Block, SpuriousWakeup, Relock, isolates
    <3>2. \A q \in Requests :
             \/ pc'[q] = pc[q]
             \/ /\ pc[q] \in Underway /\ pc'[q] \in Underway \ {"command", "return"}
                /\ pc[q] \in Sent <=> pc'[q] \in Sent
                /\ pc[q] # "return"
      BY <2>2 DEF Lock, Block, SpuriousWakeup, Relock, RequestInv, DebugTyped, Underway, Sent
    <3> QED
      BY <3>1, <3>2, AnswerMoves
  <2>3. CASE SetMessageHandler(r) \/ SendCommand(r) \/ Check(r) \/ Copy(r)
    <3>1. target[r] \in Workers
      BY <2>3 DEF SetMessageHandler, SendCommand, Check, Copy, RequestInv, Addressed, Underway
    <3> QED
      BY <2>3, <3>1, AnswerRequest
  <2>4. CASE Stub(r)
    <3>1. CASE \E w \in Workers : TRUE
      BY <2>4, <3>1, AnswerRequest
    <3>2. CASE Workers = {}
      <4>1. /\ UNCHANGED <<serial, kind, target, result, reply, early, handler, commands, writing>>
            /\ pc[r] = "new" /\ pc'[r] = "done" /\ kind[r] \notin Waiting
            /\ \A q \in Requests \ {r} : pc'[q] = pc[q]
        BY <2>4 DEF Stub, RequestInv, DebugTyped, isolates, Stubs, Waiting
      <4>2. \A q \in Requests : ~ Unanswered(q) /\ ~ Unanswered(q)' /\ Good(q)' = Good(q)
        BY <3>2, <4>1 DEF Unanswered, Good
      <4>3. \A q \in Requests : Pending(q)' => Pending(q)
        BY <4>1, <4>2 DEF Pending, Underway
      <4>4. serial => \A q \in Requests : Answered(q)'
        BY <4>1, <4>2 DEF AnswerInv, Answered, Sent
      <4> QED
        BY <3>2, <4>1, <4>3, <4>4 DEF AnswerInv
    <3> QED
      BY <3>1, <3>2
  <2> QED
    BY <1>1, <2>1, <2>2, <2>3, <2>4 DEF ARequest, RequestStep
<1>2. ASSUME NEW w \in Workers, AnIsolate(w)
      PROVE  AnswerInv'
  <2>1. CASE Stop(w) \/ Execute(w) \/ Store(w)
    BY <2>1, AnswerIsolate
  <2>2. CASE StartUpdate(w) \/ StartOther(w) \/ ScriptReturns(w) \/ ProcessDebugMessages(w)
    BY <1>0, <2>2 DEF StartUpdate, StartOther, StartCall, ScriptReturns, ProcessDebugMessages, requests
  <2>3. CASE UpdateReturns(w)
    <3>1. UNCHANGED <<serial, kind, target, result, reply, early, handler, commands, writing>>
      BY <2>3 DEF UpdateReturns
    <3>2. \A q \in Requests : pc'[q] = pc[q] \/ (pc[q] = "asleep" /\ pc'[q] = "woken")
      BY <2>3, Notified DEF UpdateReturns, RequestInv
    <3> QED
      BY <3>1, <3>2, AnswerMoves DEF Underway, Sent
  <2> QED
    BY <1>2, <2>1, <2>2, <2>3 DEF AnIsolate, IsolateStep, Event, OtherCall
<1>3. ASSUME NEW s \in Sessions,
             \/ StartListen(s) \/ Serve(s) \/ ServeReturns(s)
             \/ \E a \in Apps : StartV8Debugger(s, a)
      PROVE  AnswerInv'
  BY <1>0, <1>3 DEF StartListen, Serve, ServeReturns, StartV8Debugger, debugVars, requests, isolates
<1>4. CASE StopListen
  BY <1>0, <1>4 DEF StopListen, debugVars
<1>5. ASSUME NEW a \in Apps, NEW w \in Workers, Redeploy(a, w)
      PROVE  AnswerInv'
  BY <1>0, <1>5 DEF Redeploy, debugVars
<1>6. CASE UNCHANGED vars
  BY <1>0, <1>6 DEF vars
<1> QED
  BY <1>1, <1>2, <1>3, <1>4, <1>5, <1>6 DEF Next

\* OwnAnswer for any number of requests, workers, sessions and redeploys: though the
\* strings, data_ready and the condition variable are shared by all, a request that
\* is made alone returns its own answer, a stop or a message that was being stored,
\* unless it returned before the response was there.
THEOREM OwnAnswerTheorem == Spec => []OwnAnswer
<1>1. Init => AnswerInv
  <2> SUFFICES ASSUME Init
               PROVE  AnswerInv
    OBVIOUS
  <2>1. /\ \A r \in Requests : pc[r] = "new"
        /\ \A w \in Workers : commands[w] = <<>> /\ writing[w] = Nothing
    BY DEF Init, DebugInit
  <2>2. \A w \in Workers : DOMAIN commands[w] = {}
    BY <2>1
  <2>3. \A r \in Requests : ~ Unanswered(r)
    BY <2>1, <2>2 DEF Unanswered
  <2> QED
    BY <2>1, <2>2, <2>3 DEF AnswerInv, Pending, Answered, Delivered, Underway, Sent
<1>2. AnswerInv => OwnAnswer
  BY DEF AnswerInv, Answered, OwnAnswer
<1> QED
  BY <1>1, <1>2, SInvInit, SInvNext, RequestInit, RequestNext, AnswerNext, PTL DEF Spec
=============================================================================
