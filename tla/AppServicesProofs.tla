------------------------- MODULE AppServicesProofs -------------------------
(***************************************************************************)
(* Proof that the calls of handlers keep the promise of HttpReply: the     *)
(* call that runs in an isolate holds its Locker, and what is in http_body *)
(* while a request runs is what that request wrote.  Then, that listeners  *)
(* are known and that every variable keeps its type.                       *)
(***************************************************************************)
EXTENDS AppServices, TLAPS

\* Most leaves are first-order and need no arithmetic: Zenon goes first.
USE ZenonT(4), SMTT(30), ZenonT(20)

Inside(c) == pc[c] \in {"run", "send"}

CallsTyped ==
    /\ scene \in Scenes
    /\ referrer \in [Apps -> Deps \cup {Nothing}]
    /\ pc \in [Calls -> {"new", "wait", "run", "send", "done", "failed"}]
    /\ handle \in [Calls -> Deps \cup {Nothing}]
    /\ did \in [Calls -> SUBSET {"field", "mail"}]
    /\ isolate \in [Deps -> Calls \cup {Nothing}]
    /\ body \in [Deps -> SUBSET Calls]
    /\ built \in [Calls -> (SUBSET Calls) \cup {Nothing}]

\* A call has a worker, nothing done before it has the Locker, and the Locker
\* while it is inside; the body of a request that is inside is its own.
CallInv(c) ==
    /\ pc[c] \in {"wait", "run", "send"} => handle[c] \in Deps
    /\ pc[c] \in {"new", "wait", "failed"} => did[c] = {}
    /\ Inside(c) => isolate[handle[c]] = c
    /\ Inside(c) /\ Request(c) => body[handle[c]] = {c} \cap Wrote

RInv == CallsTyped /\ \A c \in Calls : CallInv(c)

\* The invariant holds at the start, when no call has begun.
LEMMA RInvInit == Init => RInv
<1> SUFFICES ASSUME Init
             PROVE  RInv
  OBVIOUS
<1>1. CallsTyped
  <2>1. \A x : {} \in SUBSET x
    OBVIOUS
  <2>2. /\ did \in [Calls -> SUBSET {"field", "mail"}]
        /\ body \in [Deps -> SUBSET Calls]
    BY <2>1 DEF Init
  <2>3. built \in [Calls -> (SUBSET Calls) \cup {Nothing}]
    BY DEF Init
  <2>4. /\ scene \in Scenes
        /\ referrer \in [Apps -> Deps \cup {Nothing}]
        /\ pc \in [Calls -> {"new", "wait", "run", "send", "done", "failed"}]
        /\ handle \in [Calls -> Deps \cup {Nothing}]
        /\ isolate \in [Deps -> Calls \cup {Nothing}]
    BY DEF Init
  <2> QED
    BY <2>2, <2>3, <2>4 DEF CallsTyped
<1>2. \A c \in Calls : pc[c] = "new" /\ did[c] = {}
  BY DEF Init
<1> QED
  BY <1>1, <1>2 DEF RInv, CallInv, Inside

\* What leaves the calls alone keeps the invariant.
LEMMA RInvIdle ==
  ASSUME RInv, UNCHANGED <<scene, callVars>>, referrer' \in [Apps -> Deps \cup {Nothing}]
  PROVE  RInv'
  BY DEF RInv, CallsTyped, CallInv, Inside, Request, Wrote, callVars

\* No call is inside an isolate whose Locker is free.
LEMMA FreeIsolate ==
  ASSUME RInv, NEW n \in Deps, isolate[n] = Nothing
  PROVE  \A c \in Calls : handle[c] = n => ~ Inside(c)
  BY ServicesAssumption DEF RInv, CallInv

\* Two calls inside have two workers.
LEMMA InsideAlone ==
  ASSUME RInv, NEW c \in Calls, NEW e \in Calls, Inside(c), Inside(e), handle[c] = handle[e]
  PROVE  c = e
  BY DEF RInv, CallInv

\* A call that takes the Locker keeps the invariant.
LEMMA RInvEnters ==
  ASSUME RInv, NEW c \in Calls, CallEnters(c)
  PROVE  RInv'
<1> DEFINE n == handle[c]
<1>1. pc[c] = "wait" /\ n \in Deps /\ did[c] = {}
  BY DEF CallEnters, SendUpdate, SendHTTPGet, SendHTTPPost, RInv, CallInv
<1>2. /\ isolate[n] = Nothing
      /\ isolate' = [isolate EXCEPT ![n] = c]
      /\ pc' = [pc EXCEPT ![c] = "run"]
      /\ UNCHANGED <<scene, referrer, handle, did, built>>
  BY DEF CallEnters, SendUpdate, SendHTTPGet, SendHTTPPost, EnterHTTP, deployVars
<1>3. \/ scene.kind[c] = "update" /\ body' = body
      \/ body' = [body EXCEPT ![n] = {}]
  BY DEF CallEnters, SendUpdate, SendHTTPGet, SendHTTPPost, EnterHTTP
<1>4. CallsTyped'
  BY <1>1, <1>2, <1>3 DEF RInv, CallsTyped
<1>5. ASSUME NEW e \in Calls
      PROVE  CallInv(e)'
  <2>1. CASE e = c
    <3>1. pc'[c] = "run" /\ handle'[c] = n /\ isolate'[n] = c /\ did'[c] = {}
      BY <1>1, <1>2 DEF RInv, CallsTyped
    <3>2. Request(c)' => body'[n] = {}
      BY <1>1, <1>2, <1>3 DEF Request, RInv, CallsTyped
    <3>3. ({c} \cap Wrote)' = {}
      BY <3>1 DEF Wrote
    <3> QED
      BY <2>1, <3>1, <3>2, <3>3, <1>1 DEF CallInv, Inside
  <2>2. CASE e # c
    <3>1. pc'[e] = pc[e] /\ handle'[e] = handle[e] /\ did' = did
      BY <2>2, <1>2 DEF RInv, CallsTyped
    <3>2. Inside(e) => handle[e] # n
      BY <1>1, <1>2, FreeIsolate
    <3>3. Inside(e) => isolate'[handle[e]] = isolate[handle[e]] /\ body'[handle[e]] = body[handle[e]]
      BY <3>2, <1>2, <1>3 DEF RInv, CallsTyped, CallInv, Inside
    <3>4. Inside(e)' = Inside(e) /\ Request(e)' = Request(e) /\ Wrote' = Wrote
      BY <3>1, <1>2 DEF Inside, Request, Wrote
    <3>5. CallInv(e)
      BY DEF RInv
    <3> QED
      BY <3>1, <3>3, <3>4, <3>5 DEF CallInv
  <2> QED
    BY <2>1, <2>2
<1> QED
  BY <1>4, <1>5 DEF RInv

\* A step in which a call begins, ends, or writes keeps the invariant.
LEMMA RInvCall ==
  ASSUME RInv, NEW c \in Calls,
         \/ HandleJsRequests(c) \/ HandleStaticAssets(c) \/ \E n \in Deps : Event(c, n)
         \/ HTTPBodySet(c) \/ SendMail(c) \/ SendMailSends(c) \/ CallEnds(c)
  PROVE  RInv'
<1> USE DEF deployVars, mailVars
<1>1. CASE HandleJsRequests(c)
  <2>1. handle'[c] \in Deps \cup {Nothing} /\ handle' = [handle EXCEPT ![c] = handle'[c]]
    BY <1>1, ServicesAssumption DEF HandleJsRequests, RInv, CallsTyped
  <2>2. /\ pc[c] = "new"
        /\ pc' = [pc EXCEPT ![c] = IF handle'[c] = Nothing THEN "failed" ELSE "wait"]
        /\ UNCHANGED <<scene, referrer, isolate, body, did, built>>
    BY <1>1 DEF HandleJsRequests
  <2> QED
    BY <2>1, <2>2 DEF RInv, CallsTyped, CallInv, Inside, Request, Wrote
<1>2. CASE HandleStaticAssets(c)
  <2>1. /\ pc[c] = "new"
        /\ \E p \in {"done", "failed"} : pc' = [pc EXCEPT ![c] = p]
        /\ UNCHANGED <<scene, referrer, handle, isolate, body, did, built>>
    BY <1>2 DEF HandleStaticAssets
  <2> QED
    BY <2>1 DEF RInv, CallsTyped, CallInv, Inside, Request, Wrote
<1>3. ASSUME NEW n \in Deps, Event(c, n)
      PROVE  RInv'
  <2>1. /\ pc[c] = "new"
        /\ pc' = [pc EXCEPT ![c] = "wait"] /\ handle' = [handle EXCEPT ![c] = n]
        /\ UNCHANGED <<scene, referrer, isolate, body, did, built>>
    BY <1>3 DEF Event
  <2> QED
    BY <2>1 DEF RInv, CallsTyped, CallInv, Inside, Request, Wrote
<1>4. CASE HTTPBodySet(c)
  <2> DEFINE n == handle[c]
  <2>1. /\ pc[c] = "run" /\ n \in Deps
        /\ body' = [body EXCEPT ![n] = body[n] \cup {c}]
        /\ did' = [did EXCEPT ![c] = did[c] \cup {"field"}]
        /\ UNCHANGED <<scene, referrer, isolate, pc, handle, built>>
    BY <1>4 DEF HTTPBodySet, HTTPResponseGet, RInv, CallInv
  <2>2. CallsTyped'
    BY <2>1 DEF RInv, CallsTyped
  <2>3. ASSUME NEW e \in Calls
        PROVE  CallInv(e)'
    <3>1. CallInv(e) /\ Inside(c) /\ Inside(e)' = Inside(e) /\ Request(e)' = Request(e)
      BY <2>1 DEF RInv, Inside, Request
    <3>2. CASE e = c
      <4>1. did'[c] = did[c] \cup {"field"} /\ body'[n] = body[n] \cup {c}
        BY <2>1 DEF RInv, CallsTyped
      <4>2. ({c} \cap Wrote)' = {c}
        BY <4>1 DEF Wrote
      <4>3. Request(c) => body[n] \subseteq {c}
        BY <3>1, <3>2 DEF CallInv
      <4> QED
        BY <2>1, <3>1, <3>2, <4>1, <4>2, <4>3 DEF CallInv
    <3>3. CASE e # c
      <4>1. did'[e] = did[e]
        BY <2>1, <3>3 DEF RInv, CallsTyped
      <4>2. ({e} \cap Wrote)' = {e} \cap Wrote
        BY <4>1 DEF Wrote
      <4>3. Inside(e) => handle[e] # n
        BY <3>1, <3>3, InsideAlone
      <4>4. Inside(e) => body'[handle[e]] = body[handle[e]]
        BY <2>1, <4>3 DEF RInv, CallsTyped, CallInv, Inside
      <4> QED
        BY <2>1, <3>1, <4>1, <4>2, <4>4 DEF CallInv
    <3> QED
      BY <3>2, <3>3
  <2> QED
    BY <2>2, <2>3 DEF RInv
<1>5. CASE SendMail(c)
  <2>1. /\ pc[c] = "run"
        /\ did' = [did EXCEPT ![c] = did[c] \cup {"mail"}]
        /\ \E p \in {"run", "send"} : pc' = [pc EXCEPT ![c] = p]
        /\ UNCHANGED <<scene, referrer, isolate, body, handle, built>>
    BY <1>5 DEF SendMail, RInv, CallsTyped
  <2>2. CallsTyped' /\ Wrote' = Wrote
    BY <2>1 DEF RInv, CallsTyped, Wrote
  <2> QED
    BY <2>1, <2>2 DEF RInv, CallsTyped, CallInv, Inside, Request
<1>6. CASE SendMailSends(c)
  <2>1. /\ pc[c] = "send" /\ pc' = [pc EXCEPT ![c] = "run"]
        /\ UNCHANGED <<scene, referrer, isolate, body, handle, did, built>>
    BY <1>6 DEF SendMailSends
  <2> QED
    BY <2>1 DEF RInv, CallsTyped, CallInv, Inside, Request, Wrote
<1>7. CASE CallEnds(c)
  <2> DEFINE n == handle[c]
  <2>1. /\ pc[c] = "run" /\ n \in Deps
        /\ pc' = [pc EXCEPT ![c] = "done"] /\ isolate' = [isolate EXCEPT ![n] = Nothing]
        /\ UNCHANGED <<scene, referrer, body, handle, did>>
        /\ built' = built \/ built' = [built EXCEPT ![c] = body[n]]
    BY <1>7 DEF CallEnds, ConvertMapToJson, UpdateReturns, RInv, CallInv
  <2>2. CallsTyped' /\ Wrote' = Wrote
    BY <2>1 DEF RInv, CallsTyped, Wrote
  <2>3. ASSUME NEW e \in Calls
        PROVE  CallInv(e)'
    <3>1. CASE e = c
      BY <2>1, <3>1 DEF RInv, CallsTyped, CallInv, Inside
    <3>2. CASE e # c
      <4>1. pc'[e] = pc[e] /\ CallInv(e) /\ Inside(e)' = Inside(e) /\ Request(e)' = Request(e)
        BY <2>1, <3>2 DEF RInv, CallsTyped, Inside, Request
      <4>2. Inside(e) => handle[e] # n
        BY <2>1, <3>2, InsideAlone DEF Inside
      <4>3. Inside(e) => isolate'[handle[e]] = isolate[handle[e]]
        BY <2>1, <4>1, <4>2 DEF RInv, CallsTyped, CallInv, Inside
      <4> QED
        BY <2>1, <2>2, <4>1, <4>3 DEF CallInv
    <3> QED
      BY <3>1, <3>2
  <2> QED
    BY <2>2, <2>3 DEF RInv
<1> QED
  BY <1>1, <1>2, <1>3, <1>4, <1>5, <1>6, <1>7

\* Every step keeps the invariant.
LEMMA RInvNext ==
  ASSUME RInv, [Next]_vars
  PROVE  RInv'
<1>1. ASSUME NEW n \in Deps, NEW a \in Apps, Store(n, a)
      PROVE  RInv'
  BY <1>1, RInvIdle DEF Store, RInv, CallsTyped
<1>2. CASE MainTake \/ MainMail
  BY <1>2, RInvIdle DEF MainTake, MainMail, RInv, CallsTyped
<1>3. ASSUME NEW n \in Deps, DepStep(n)
      PROVE  RInv'
  <2>1. UNCHANGED <<scene, callVars>>
    BY <1>3 DEF DepStep, HttpListen, HttpRegister, HttpServe, Publish, Quits, ProcessMails,
                ProcessMail, ProcessMailsEnds
  <2>2. referrer' = referrer \/ \E m \in Deps \cup {Nothing} : referrer' = [referrer EXCEPT ![appOf[n]] = m]
    BY <1>3 DEF DepStep, HttpListen, HttpRegister, HttpServe, Publish, Quits, ProcessMails,
                ProcessMail, ProcessMailsEnds, deployVars
  <2>3. referrer' \in [Apps -> Deps \cup {Nothing}]
    BY <2>2 DEF RInv, CallsTyped
  <2> QED
    BY <2>1, <2>3, RInvIdle
<1>4. ASSUME NEW c \in Calls,
             \/ HandleJsRequests(c) \/ HandleStaticAssets(c)
             \/ \E n \in Deps : Event(c, n)
             \/ CallEnters(c) \/ HTTPBodySet(c) \/ SendMail(c)
             \/ SendMailSends(c) \/ CallEnds(c)
      PROVE  RInv'
  BY <1>4, RInvEnters, RInvCall
<1>5. CASE UNCHANGED vars
  BY <1>5, RInvIdle DEF vars, callVars, RInv, CallsTyped
<1> QED
  BY <1>1, <1>2, <1>3, <1>4, <1>5 DEF Next

\* The invariant of the calls: whoever is in an isolate has its Locker, and a
\* request that is in finds its own fields in http_body.
THEOREM CallInvariant == Spec => []RInv
  BY RInvInit, RInvNext, PTL DEF Spec

\* A step of the services is a step of HttpReply or changes nothing there.
LEMMA ReplyStep ==
  ASSUME RInv, [Next]_vars
  PROVE  [Reply!Next]_(Reply!vars)
<1> DEFINE stage == [c \in Calls |-> Stage(c)]
<1>1. ASSUME UNCHANGED <<pc, did, built>>
      PROVE  UNCHANGED Reply!vars
  BY <1>1 DEF Reply!vars, Stage, Wrote
<1>2. ASSUME NEW n \in Deps, NEW a \in Apps, Store(n, a)
      PROVE  UNCHANGED <<pc, did, built>>
  BY <1>2 DEF Store, callVars
<1>3. CASE MainTake \/ MainMail
  BY <1>1, <1>3 DEF MainTake, MainMail, callVars
<1>4. ASSUME NEW n \in Deps, DepStep(n)
      PROVE  UNCHANGED <<pc, did, built>>
  BY <1>4 DEF DepStep, HttpListen, HttpRegister, HttpServe, Publish, Quits, ProcessMails,
              ProcessMail, ProcessMailsEnds, callVars
<1>5. CASE UNCHANGED vars
  BY <1>1, <1>5 DEF vars
<1>6. ASSUME NEW c \in Calls,
             \/ HandleJsRequests(c) \/ HandleStaticAssets(c)
             \/ \E n \in Deps : Event(c, n)
      PROVE  Reply!Start(c)
  <2>1. /\ pc[c] = "new" /\ UNCHANGED <<did, built>>
        /\ \E p \in {"wait", "done", "failed"} : pc' = [pc EXCEPT ![c] = p]
    BY <1>6 DEF HandleJsRequests, HandleStaticAssets, Event
  <2>2. PICK p \in {"wait", "done", "failed"} : pc' = [pc EXCEPT ![c] = p]
    BY <2>1
  <2> DEFINE s == IF p = "wait" THEN "open" ELSE p
  <2>3. stage' = [stage EXCEPT ![c] = s]
    BY <2>2 DEF Stage, RInv, CallsTyped
  <2>4. s \in {"open", "failed", "done"} /\ stage[c] = "new" /\ Wrote' = Wrote
    BY <2>1, <2>2 DEF Stage, Wrote
  <2> HIDE DEF s
  <2> QED
    BY <2>1, <2>3, <2>4 DEF Reply!Start
<1>7. ASSUME NEW c \in Calls, CallEnters(c) \/ SendMail(c) \/ SendMailSends(c)
      PROVE  UNCHANGED Reply!vars
  <2>1. /\ pc[c] \in {"wait", "run", "send"} /\ UNCHANGED built
        /\ \E p \in {"run", "send"} : pc' = [pc EXCEPT ![c] = p]
        /\ did' = did \/ did' = [did EXCEPT ![c] = did[c] \cup {"mail"}]
    BY <1>7 DEF CallEnters, SendUpdate, SendHTTPGet, SendHTTPPost, EnterHTTP, SendMail,
                SendMailSends, RInv, CallsTyped
  <2>2. stage' = stage
    BY <2>1 DEF Stage, RInv, CallsTyped
  <2>3. Wrote' = Wrote
    BY <2>1 DEF Wrote, RInv, CallsTyped
  <2> QED
    BY <2>1, <2>2, <2>3 DEF Reply!vars
<1>8. ASSUME NEW c \in Calls, HTTPBodySet(c)
      PROVE  Reply!Write(c)
  <2>1. /\ pc[c] = "run" /\ UNCHANGED <<pc, built>>
        /\ did' = [did EXCEPT ![c] = did[c] \cup {"field"}]
    BY <1>8 DEF HTTPBodySet
  <2>2. Wrote' = Wrote \cup {c}
    BY <2>1 DEF Wrote, RInv, CallsTyped
  <2> QED
    BY <2>1, <2>2 DEF Reply!Write, Stage
<1>9. ASSUME NEW c \in Calls, CallEnds(c)
      PROVE  Reply!Answer(c) \/ Reply!End(c)
  <2>1. /\ pc[c] = "run" /\ UNCHANGED did /\ pc' = [pc EXCEPT ![c] = "done"]
        /\ built' = built \/ (Request(c) /\ built' = [built EXCEPT ![c] = body[handle[c]]])
    BY <1>9 DEF CallEnds, ConvertMapToJson, UpdateReturns
  <2>2. stage[c] = "open" /\ stage' = [stage EXCEPT ![c] = "done"] /\ Wrote' = Wrote
    BY <2>1 DEF Stage, Wrote, RInv, CallsTyped
  <2>3. Request(c) => body[handle[c]] = {c} \cap Wrote
    BY <2>1 DEF RInv, CallInv, Inside
  <2> QED
    BY <2>1, <2>2, <2>3 DEF Reply!Answer, Reply!End
<1> QED
  BY <1>1, <1>2, <1>3, <1>4, <1>5, <1>6, <1>7, <1>8, <1>9 DEF Next, Reply!Next

\* The handlers' calls implement HttpReply, for any number of applications,
\* deployments and calls: SendHTTPGet and SendHTTPPost answer every request
\* with the fields that its own handler run set, and with no others.
THEOREM RepliesTheorem == Spec => RepliesKept
<1>1. Init => Reply!Init
  BY DEF Init, Reply!Init, Stage, Wrote
<1> QED
  BY <1>1, CallInvariant, ReplyStep, PTL DEF Spec, RepliesKept, Reply!Spec

-----------------------------------------------------------------------------
(* The listeners.                                                          *)

\* A deployment waits in appSetup once and before its HTTP set-up; an open
\* listener is one of a set-up that is past net.Listen.
LInv ==
    /\ scene.apps \subseteq Apps
    /\ appOf \in [Deps -> Apps \cup {Nothing}]
    /\ http \in [Deps -> {"none", "listen", "register", "uri", "serving"}]
    /\ appSetup \in Seq(Deps)
    /\ DOMAIN servers \subseteq scene.apps
    /\ open \subseteq {n \in Deps : http[n] \in {"register", "uri", "serving"}}
    /\ \A n \in Deps : http[n] # "none" => appOf[n] \in scene.apps
    /\ \A i \in 1..Len(appSetup) :
          http[appSetup[i]] = "none" /\ appOf[appSetup[i]] \in scene.apps
    /\ \A i, j \in 1..Len(appSetup) : i # j => appSetup[i] # appSetup[j]
    /\ ListenersKnown

\* The invariant holds at the start, when nothing is stored.
LEMMA LInvInit == Init => LInv
  BY ServicesAssumption DEF Init, LInv, ListenersKnown

\* storeAppSetup closes what it forgets.
LEMMA LInvStore ==
  ASSUME LInv, NEW n \in Deps, NEW a \in Apps, Store(n, a)
  PROVE  LInv'
<1>1. /\ appOf[n] = Nothing /\ a \in scene.apps
      /\ appOf' = [appOf EXCEPT ![n] = a]
      /\ open' = IF a \in DOMAIN servers THEN open \ servers[a] ELSE open
      /\ servers' = [b \in DOMAIN servers \ {a} |-> servers[b]]
      /\ appSetup' = Append(appSetup, n)
      /\ UNCHANGED <<scene, http>>
  BY DEF Store, Stored
<1>2. Nothing \notin scene.apps
  BY ServicesAssumption DEF LInv
<1>3. http[n] = "none" /\ \A i \in 1..Len(appSetup) : appSetup[i] # n
  BY <1>1, <1>2 DEF LInv
<1>4. \A m \in Deps \ {n} : appOf'[m] = appOf[m]
  BY <1>1 DEF LInv
<1>5. appOf'[n] = a /\ appOf' \in [Deps -> Apps \cup {Nothing}]
  BY <1>1 DEF LInv
<1>6. /\ appSetup' \in Seq(Deps) /\ Len(appSetup') = Len(appSetup) + 1
      /\ \A i \in 1..Len(appSetup') :
            appSetup'[i] = IF i = Len(appSetup) + 1 THEN n ELSE appSetup[i]
  BY <1>1 DEF LInv
<1>7. \A i \in 1..Len(appSetup') :
          http'[appSetup'[i]] = "none" /\ appOf'[appSetup'[i]] \in scene'.apps
  BY <1>1, <1>3, <1>4, <1>5, <1>6 DEF LInv
<1>8. ASSUME NEW i \in 1..Len(appSetup'), NEW j \in 1..Len(appSetup'), i # j
      PROVE  appSetup'[i] # appSetup'[j]
  <2>1. \A k \in 1..Len(appSetup') : k # Len(appSetup) + 1 => k \in 1..Len(appSetup)
    BY <1>6 DEF LInv
  <2>2. CASE i = Len(appSetup) + 1
    BY <1>3, <1>6, <1>8, <2>1, <2>2
  <2>3. CASE j = Len(appSetup) + 1
    BY <1>3, <1>6, <1>8, <2>1, <2>3
  <2>4. CASE i # Len(appSetup) + 1 /\ j # Len(appSetup) + 1
    <3>1. appSetup[i] # appSetup[j]
      BY <1>8, <2>1, <2>4 DEF LInv
    <3> QED
      BY <1>6, <2>4, <3>1
  <2> QED
    BY <2>2, <2>3, <2>4
<1>9. ListenersKnown'
  <2> SUFFICES ASSUME \A x, y \in scene.apps : x = y, NEW m \in open'
               PROVE  http[m] = "register"
    BY <1>1 DEF ListenersKnown
  <2>1. m \in open /\ appOf[m] = a
    BY <1>1 DEF LInv
  <2> QED
    BY <1>1, <2>1 DEF LInv, ListenersKnown
<1> QED
  BY <1>1, <1>3, <1>4, <1>5, <1>6, <1>7, <1>8, <1>9 DEF LInv

\* Every step keeps the invariant of the listeners.
LEMMA LInvNext ==
  ASSUME LInv, [Next]_vars
  PROVE  LInv'
<1>1. ASSUME UNCHANGED <<scene, appOf, http, appSetup, servers, open>>
      PROVE  LInv'
  BY <1>1 DEF LInv, ListenersKnown
<1>2. ASSUME NEW n \in Deps, NEW a \in Apps, Store(n, a)
      PROVE  LInv'
  BY <1>2, LInvStore
<1>3. CASE MainTake
  <2>1. /\ appSetup # <<>> /\ appSetup' = Tail(appSetup)
        /\ http' = [http EXCEPT ![Head(appSetup)] = "listen"]
        /\ UNCHANGED <<scene, appOf, servers, open>>
    BY <1>3 DEF MainTake
  <2>2. /\ Head(appSetup) = appSetup[1] /\ 1 \in 1..Len(appSetup) /\ Head(appSetup) \in Deps
        /\ appSetup' \in Seq(Deps) /\ Len(appSetup') = Len(appSetup) - 1
        /\ \A i \in 1..Len(appSetup') : appSetup'[i] = appSetup[i + 1] /\ i + 1 \in 1..Len(appSetup)
    BY <2>1 DEF LInv
  <2>3. Head(appSetup) \notin open
    BY <2>2 DEF LInv
  <2>4. \A i \in 1..Len(appSetup') : appSetup'[i] # Head(appSetup) /\ appSetup'[i] \in Deps
    BY <2>2 DEF LInv
  <2>5. ListenersKnown'
    BY <2>1, <2>2, <2>3 DEF LInv, ListenersKnown
  <2>6. ASSUME NEW i \in 1..Len(appSetup'), NEW j \in 1..Len(appSetup'), i # j
        PROVE  appSetup'[i] # appSetup'[j]
    <3>1. i + 1 \in 1..Len(appSetup) /\ j + 1 \in 1..Len(appSetup)
      BY <2>2
    <3>2. i + 1 # j + 1
      BY <2>6
    <3>3. appSetup[i + 1] # appSetup[j + 1]
      BY <3>1, <3>2 DEF LInv
    <3> QED
      BY <2>2, <3>3
  <2>7. \A i \in 1..Len(appSetup') :
            http'[appSetup'[i]] = "none" /\ appOf'[appSetup'[i]] \in scene'.apps
    BY <2>1, <2>2, <2>4 DEF LInv
  <2>8. /\ http' \in [Deps -> {"none", "listen", "register", "uri", "serving"}]
        /\ open' \subseteq {n \in Deps : http'[n] \in {"register", "uri", "serving"}}
        /\ \A n \in Deps : http'[n] # "none" => appOf'[n] \in scene'.apps
    BY <2>1, <2>2, <2>3 DEF LInv
  <2> QED
    BY <2>1, <2>2, <2>5, <2>6, <2>7, <2>8 DEF LInv
<1>4. CASE MainMail
  BY <1>1, <1>4 DEF MainMail, httpVars
<1>5. ASSUME NEW n \in Deps, HttpListen(n)
      PROVE  LInv'
  <2>1. /\ http[n] = "listen" /\ http' = [http EXCEPT ![n] = "register"]
        /\ open' = open \/ open' = open \cup {n}
        /\ UNCHANGED <<scene, appOf, appSetup, servers>>
    BY <1>5 DEF HttpListen, deployVars
  <2>2. \A m \in open : m # n /\ http'[m] = http[m]
    BY <2>1 DEF LInv
  <2>3. ListenersKnown'
    BY <2>1, <2>2 DEF LInv, ListenersKnown
  <2> QED
    BY <2>1, <2>2, <2>3 DEF LInv
<1>6. ASSUME NEW n \in Deps, HttpRegister(n)
      PROVE  LInv'
  <2>1. /\ http[n] = "register" /\ http' = [http EXCEPT ![n] = "uri"]
        /\ servers' = IF appOf[n] \in DOMAIN servers
                      THEN [servers EXCEPT ![appOf[n]] = servers[appOf[n]] \cup {n}]
                      ELSE [b \in {appOf[n]} |-> {n}]
        /\ UNCHANGED <<scene, appOf, appSetup, open>>
    BY <1>6 DEF HttpRegister, deployVars
  <2>2. appOf[n] \in scene.apps /\ DOMAIN servers' \subseteq scene.apps
    BY <2>1 DEF LInv
  <2>3. ListenersKnown'
    <3> SUFFICES ASSUME \A x, y \in scene.apps : x = y, NEW m \in open
                 PROVE  \/ http'[m] = "register"
                        \/ appOf[m] \in DOMAIN servers' /\ m \in servers'[appOf[m]]
      BY <2>1 DEF ListenersKnown
    <3>1. m \in Deps /\ appOf[m] = appOf[n] /\ (m # n => http'[m] = http[m])
      BY <2>1, <2>2 DEF LInv
    <3>2. http[m] = "register" \/ (appOf[m] \in DOMAIN servers /\ m \in servers[appOf[m]])
      BY DEF LInv, ListenersKnown
    <3> QED
      BY <2>1, <3>1, <3>2
  <2> QED
    BY <2>1, <2>2, <2>3 DEF LInv
<1>7. ASSUME NEW n \in Deps, HttpServe(n)
      PROVE  LInv'
  <2>1. /\ http[n] = "uri" /\ http' = [http EXCEPT ![n] = "serving"]
        /\ UNCHANGED <<scene, appOf, appSetup, servers, open>>
    BY <1>7 DEF HttpServe, deployVars
  <2>2. ListenersKnown'
    BY <2>1 DEF LInv, ListenersKnown
  <2> QED
    BY <2>1, <2>2 DEF LInv
<1>8. ASSUME NEW n \in Deps,
             Publish(n) \/ Quits(n) \/ ProcessMails(n) \/ ProcessMail(n) \/ ProcessMailsEnds(n)
      PROVE  LInv'
  BY <1>1, <1>8 DEF Publish, Quits, ProcessMails, ProcessMail, ProcessMailsEnds, deployVars, httpVars
<1>9. ASSUME NEW c \in Calls,
             \/ HandleJsRequests(c) \/ HandleStaticAssets(c)
             \/ \E n \in Deps : Event(c, n)
             \/ CallEnters(c) \/ HTTPBodySet(c) \/ SendMail(c)
             \/ SendMailSends(c) \/ CallEnds(c)
      PROVE  LInv'
  BY <1>1, <1>9 DEF HandleJsRequests, HandleStaticAssets, Event, CallEnters, SendUpdate, SendHTTPGet,
        SendHTTPPost, EnterHTTP, HTTPBodySet, SendMail, SendMailSends, CallEnds, ConvertMapToJson,
        UpdateReturns, deployVars, httpVars
<1>10. CASE UNCHANGED vars
  BY <1>1, <1>10 DEF vars
<1> QED
  BY <1>2, <1>3, <1>4, <1>5, <1>6, <1>7, <1>8, <1>9, <1>10 DEF Next, DepStep

\* With one application storeAppSetup knows every listener that its set-ups
\* opened and registered, however many stores overtake each other.
THEOREM ListenersTheorem == Spec => []ListenersKnown
<1>1. LInv => ListenersKnown
  BY DEF LInv
<1> QED
  BY <1>1, LInvInit, LInvNext, PTL DEF Spec

-----------------------------------------------------------------------------
(* What the tables and the channels hold.                                  *)

\* The mails that sendMail can hand to a channel.
Mails == {[call |-> c, text |-> FormMail(PostMail(scene.text[c]))] : c \in Calls}

\* A deployment that a table, a goroutine or a call leads to was stored.
Known ==
    /\ \A n \in Deps : work[n] # "none" \/ reader[n] # "none" => n \in Stored
    /\ \A a \in Apps : referrer[a] # Nothing => referrer[a] \in Stored
    /\ \A a \in Apps : table[a] # Nothing => table[a] \in Stored
    /\ \A a \in Apps : mapping[a] # Nothing => mapping[a] \in Stored
    /\ \A c \in Calls : handle[c] # Nothing => handle[c] \in Stored
    /\ main # Nothing => main \in Stored
    /\ open \subseteq Stored /\ closed \subseteq Stored
    /\ \A a \in DOMAIN servers : servers[a] \subseteq Stored

ServicesTyped ==
    /\ main \in Deps \cup {Nothing}
    /\ uri \subseteq Apps
    /\ work \in [Deps -> {"none", "setup", "running", "quitting", "stopped"}]
    /\ table \in [Apps -> Deps \cup {Nothing}]
    /\ mapping \in [Apps -> Deps \cup {Nothing}]
    /\ chan \in [Deps -> Seq(Mails)]
    /\ \A n \in Deps : Len(chan[n]) <= MailRoom
    /\ reader \in [Deps -> {"none", "start", "loop", "ended"}]
    /\ reads \in [Deps -> Deps \cup {Nothing}]
    /\ channel \in [Calls -> Deps \cup {Nothing}]

SInv == RInv /\ LInv /\ ServicesTyped /\ Known

\* The invariant holds at the start, when no table leads anywhere.
LEMMA SInvInit == Init => SInv
<1> SUFFICES ASSUME Init
             PROVE  SInv
  OBVIOUS
<1>1. ServicesTyped
  BY ServicesAssumption DEF Init, ServicesTyped
<1>2. Known
  BY DEF Init, Known
<1> QED
  BY <1>1, <1>2, RInvInit, LInvInit DEF SInv

\* A deployment past its net.Listen, or in appSetup, was stored.
LEMMA SetUpIsStored ==
  ASSUME SInv
  PROVE  /\ \A n \in Deps : http[n] # "none" => n \in Stored
         /\ appSetup # <<>> => Head(appSetup) \in Stored
<1>1. Nothing \notin scene.apps
  BY ServicesAssumption DEF SInv, LInv
<1>2. \A n \in Deps : http[n] # "none" => n \in Stored
  BY <1>1 DEF SInv, LInv, Stored
<1>3. appSetup # <<>> => Head(appSetup) \in Deps /\ appOf[Head(appSetup)] \in scene.apps
  BY DEF SInv, LInv
<1> QED
  BY <1>1, <1>2, <1>3 DEF Stored

\* The steps of the deployments keep types and what is known.
LEMMA SInvDeploys ==
  ASSUME SInv,
         \/ \E n \in Deps, a \in Apps : Store(n, a)
         \/ MainTake \/ MainMail \/ \E n \in Deps : DepStep(n)
  PROVE  ServicesTyped' /\ Known'
<1> USE DEF deployVars, httpVars, mailVars, callVars
<1>0. /\ ServicesTyped /\ Known /\ CallsTyped
      /\ appOf \in [Deps -> Apps \cup {Nothing}] /\ Nothing \notin Apps /\ Stored \subseteq Deps
  BY ServicesAssumption DEF SInv, RInv, LInv, Stored
<1>1. ASSUME NEW n \in Deps, NEW a \in Apps, Store(n, a)
      PROVE  ServicesTyped' /\ Known'
  <2>1. /\ appOf' = [appOf EXCEPT ![n] = a]
        /\ open' \subseteq open
        /\ servers' = [b \in DOMAIN servers \ {a} |-> servers[b]]
        /\ closed' = closed \cup ({mapping[a]} \ {Nothing})
        /\ mapping' = [mapping EXCEPT ![a] = Nothing]
        /\ uri' \subseteq uri
        /\ UNCHANGED <<scene, main, table, referrer, chan, reader, reads, handle, channel>>
    BY <1>1 DEF Store
  <2>2. Stored' = Stored \cup {n}
    BY <1>0, <2>1 DEF Stored
  <2>3. /\ work' \in [Deps -> {"none", "setup", "running", "quitting", "stopped"}]
        /\ \A m \in Deps : work'[m] # "none" => m = n \/ work[m] # "none" \/ m = table[a]
    BY <1>0, <1>1 DEF Store, ServicesTyped
  <2>4. ServicesTyped'
    <3>1. Mails' = Mails
      BY <2>1 DEF Mails
    <3>2. mapping' \in [Apps -> Deps \cup {Nothing}]
      BY <1>0, <2>1 DEF ServicesTyped
    <3> QED
      BY <1>0, <2>1, <2>3, <3>1, <3>2 DEF ServicesTyped
  <2>5. \A m \in Deps : work'[m] # "none" \/ reader'[m] # "none" => m \in Stored'
    BY <1>0, <2>1, <2>2, <2>3, ServicesAssumption DEF ServicesTyped, Known
  <2>6. \A b \in Apps : mapping'[b] # Nothing => mapping'[b] \in Stored'
    BY <1>0, <2>1, <2>2 DEF ServicesTyped, Known
  <2>7. open' \subseteq Stored' /\ closed' \subseteq Stored'
    BY <1>0, <2>1, <2>2 DEF ServicesTyped, Known
  <2> QED
    BY <1>0, <2>1, <2>2, <2>4, <2>5, <2>6, <2>7 DEF Known
<1>2. CASE MainTake
  <2>1. /\ main' \in Stored
        /\ UNCHANGED <<scene, appOf, work, table, referrer, open, servers, uri, mailVars, handle,
                       channel>>
    BY <1>2, SetUpIsStored DEF MainTake
  <2>2. Stored' = Stored
    BY <2>1 DEF Stored
  <2> QED
    BY <1>0, <2>1, <2>2 DEF ServicesTyped, Known, Mails
<1>3. CASE MainMail
  <2>1. main \in Stored /\ main \in Deps /\ appOf[main] \in Apps
    BY <1>0, <1>3 DEF MainMail, Known, Stored
  <2>2. /\ mapping' \in {mapping, [mapping EXCEPT ![appOf[main]] = main]}
        /\ reader' = [reader EXCEPT ![main] = "start"]
        /\ main' = Nothing
        /\ UNCHANGED <<scene, appOf, work, table, referrer, open, servers, uri, chan, closed,
                       reads, handle, channel>>
    BY <1>3 DEF MainMail
  <2>3. Stored' = Stored
    BY <2>2 DEF Stored
  <2>4. ServicesTyped'
    BY <1>0, <2>1, <2>2 DEF ServicesTyped, Mails
  <2>5. \A m \in Deps : work'[m] # "none" \/ reader'[m] # "none" => m \in Stored'
    BY <1>0, <2>1, <2>2, <2>3 DEF ServicesTyped, Known
  <2>6. \A b \in Apps : mapping'[b] # Nothing => mapping'[b] \in Stored'
    BY <1>0, <2>1, <2>2, <2>3 DEF ServicesTyped, Known
  <2> QED
    BY <1>0, <2>2, <2>3, <2>4, <2>5, <2>6 DEF Known
<1>4. ASSUME NEW n \in Deps, HttpListen(n) \/ HttpRegister(n) \/ HttpServe(n)
      PROVE  ServicesTyped' /\ Known'
  <2>1. n \in Stored /\ appOf[n] \in Apps
    BY <1>0, <1>4, SetUpIsStored DEF HttpListen, HttpRegister, HttpServe, Stored
  <2>2. UNCHANGED <<scene, deployVars, mailVars, handle, channel>>
    BY <1>4 DEF HttpListen, HttpRegister, HttpServe
  <2>3. /\ open' \subseteq open \cup {n}
        /\ uri' \subseteq uri \cup {appOf[n]}
        /\ \A b \in DOMAIN servers' :
              servers'[b] \subseteq IF b \in DOMAIN servers THEN servers[b] \cup {n} ELSE {n}
    BY <1>4 DEF HttpListen, HttpRegister, HttpServe
  <2>4. Stored' = Stored
    BY <2>2 DEF Stored
  <2>5. ServicesTyped'
    BY <1>0, <2>1, <2>2, <2>3 DEF ServicesTyped, Mails
  <2>6. open' \subseteq Stored' /\ \A b \in DOMAIN servers' : servers'[b] \subseteq Stored'
    BY <1>0, <2>1, <2>3, <2>4 DEF Known
  <2> QED
    BY <1>0, <2>2, <2>4, <2>5, <2>6 DEF Known
<1>5. ASSUME NEW n \in Deps, Publish(n) \/ Quits(n)
      PROVE  ServicesTyped' /\ Known'
  <2>1. n \in Stored /\ appOf[n] \in Apps
    BY <1>0, <1>5 DEF Publish, Quits, Known, Stored
  <2>2. /\ work' \in {[work EXCEPT ![n] = "running"], [work EXCEPT ![n] = "stopped"]}
        /\ table' \in {table, [table EXCEPT ![appOf[n]] = n]}
        /\ referrer' \in {[referrer EXCEPT ![appOf[n]] = n], [referrer EXCEPT ![appOf[n]] = Nothing]}
        /\ UNCHANGED <<scene, appOf, main, httpVars, mailVars, handle, channel>>
    BY <1>5 DEF Publish, Quits
  <2>3. Stored' = Stored
    BY <2>2 DEF Stored
  <2>4. ServicesTyped'
    <3>1. Mails' = Mails
      BY <2>2 DEF Mails
    <3>a. table \in [Apps -> Deps \cup {Nothing}]
      BY <1>0 DEF ServicesTyped
    <3>2. table' \in [Apps -> Deps \cup {Nothing}]
      BY <2>2, <3>a
    <3>3. work' \in [Deps -> {"none", "setup", "running", "quitting", "stopped"}]
      BY <1>0, <2>2 DEF ServicesTyped
    <3> QED
      BY <1>0, <2>2, <3>1, <3>2, <3>3 DEF ServicesTyped
  <2>5. \A m \in Deps : work'[m] # "none" \/ reader'[m] # "none" => m \in Stored'
    BY <1>0, <2>1, <2>2, <2>3 DEF ServicesTyped, Known
  <2>6. \A b \in Apps : table'[b] # Nothing => table'[b] \in Stored'
    <3>1. /\ table \in [Apps -> Deps \cup {Nothing}]
          /\ \A b \in Apps : table[b] # Nothing => table[b] \in Stored
      BY <1>0 DEF ServicesTyped, Known
    <3>2. CASE table' = table
      BY <2>3, <3>1, <3>2
    <3>3. CASE table' = [table EXCEPT ![appOf[n]] = n]
      BY <2>1, <2>3, <3>1, <3>3
    <3> QED
      BY <2>2, <3>2, <3>3
  <2>7. \A b \in Apps : referrer'[b] # Nothing => referrer'[b] \in Stored'
    <3>1. /\ referrer \in [Apps -> Deps \cup {Nothing}]
          /\ \A b \in Apps : referrer[b] # Nothing => referrer[b] \in Stored
      BY <1>0 DEF CallsTyped, Known
    <3>2. CASE referrer' = [referrer EXCEPT ![appOf[n]] = n]
      BY <2>1, <2>3, <3>1, <3>2
    <3>3. CASE referrer' = [referrer EXCEPT ![appOf[n]] = Nothing]
      BY <2>3, <3>1, <3>3
    <3> QED
      BY <2>2, <3>2, <3>3
  <2> QED
    BY <1>0, <2>2, <2>3, <2>4, <2>5, <2>6, <2>7 DEF Known
<1>6. ASSUME NEW n \in Deps, ProcessMails(n) \/ ProcessMailsEnds(n)
      PROVE  ServicesTyped' /\ Known'
  <2>1. n \in Stored /\ appOf[n] \in Apps
    BY <1>0, <1>6 DEF ProcessMails, ProcessMailsEnds, Known, Stored
  <2>2. /\ reader' \in {[reader EXCEPT ![n] = "loop"], [reader EXCEPT ![n] = "ended"]}
        /\ reads' \in {reads, [reads EXCEPT ![n] = mapping[appOf[n]]]}
        /\ UNCHANGED <<scene, deployVars, httpVars, mapping, chan, closed, handle, channel>>
    BY <1>6 DEF ProcessMails, ProcessMailsEnds
  <2>3. Stored' = Stored
    BY <2>2 DEF Stored
  <2>4. ServicesTyped'
    <3>1. Mails' = Mails
      BY <2>2 DEF Mails
    <3>a. reads \in [Deps -> Deps \cup {Nothing}] /\ mapping \in [Apps -> Deps \cup {Nothing}]
      BY <1>0 DEF ServicesTyped
    <3>2. reads' \in [Deps -> Deps \cup {Nothing}]
      BY <2>1, <2>2, <3>a
    <3>3. reader' \in [Deps -> {"none", "start", "loop", "ended"}]
      BY <1>0, <2>2 DEF ServicesTyped
    <3> QED
      BY <1>0, <2>2, <3>1, <3>2, <3>3 DEF ServicesTyped
  <2>5. \A m \in Deps : work'[m] # "none" \/ reader'[m] # "none" => m \in Stored'
    BY <1>0, <2>1, <2>2, <2>3 DEF ServicesTyped, Known
  <2> QED
    BY <1>0, <2>2, <2>3, <2>4, <2>5 DEF Known
<1>7. ASSUME NEW n \in Deps, ProcessMail(n)
      PROVE  ServicesTyped' /\ Known'
  <2> DEFINE k == reads[n]
  <2>1. /\ k \in Deps /\ chan[k] # <<>> /\ chan[k] \in Seq(Mails)
        /\ chan' = [chan EXCEPT ![k] = Tail(chan[k])]
        /\ UNCHANGED <<scene, deployVars, httpVars, mapping, closed, reader, reads, handle, channel>>
    BY <1>0, <1>7 DEF ProcessMail, ServicesTyped
  <2>2. Tail(chan[k]) \in Seq(Mails) /\ Len(Tail(chan[k])) <= Len(chan[k])
    BY <2>1
  <2>3. /\ chan' \in [Deps -> Seq(Mails)]
        /\ \A m \in Deps : Len(chan'[m]) <= MailRoom
    BY <1>0, <2>1, <2>2, ServicesAssumption DEF ServicesTyped
  <2>4. Mails' = Mails /\ Stored' = Stored
    BY <2>1 DEF Mails, Stored
  <2> QED
    BY <1>0, <2>1, <2>3, <2>4 DEF ServicesTyped, Known
<1> QED
  BY <1>1, <1>2, <1>3, <1>4, <1>5, <1>6, <1>7 DEF DepStep

\* The steps of the calls keep types and what is known.
LEMMA SInvCalls ==
  ASSUME SInv, NEW c \in Calls,
         \/ HandleJsRequests(c) \/ HandleStaticAssets(c) \/ \E n \in Deps : Event(c, n)
         \/ CallEnters(c) \/ HTTPBodySet(c) \/ SendMail(c) \/ SendMailSends(c) \/ CallEnds(c)
  PROVE  ServicesTyped' /\ Known'
<1> USE DEF deployVars, httpVars, mailVars, callVars
<1>0. /\ ServicesTyped /\ Known /\ CallsTyped
      /\ appOf \in [Deps -> Apps \cup {Nothing}] /\ Nothing \notin Apps /\ Stored \subseteq Deps
      /\ scene.apps \subseteq Apps
  BY ServicesAssumption DEF SInv, RInv, LInv, Stored
<1>1. UNCHANGED <<scene, deployVars, httpVars, mapping, closed, reader, reads>>
  BY DEF HandleJsRequests, HandleStaticAssets, Event, CallEnters, SendUpdate, SendHTTPGet,
     SendHTTPPost, EnterHTTP, HTTPBodySet, SendMail, SendMailSends, CallEnds, ConvertMapToJson,
     UpdateReturns
<1>2. Mails' = Mails /\ Stored' = Stored
  BY <1>1 DEF Mails, Stored
<1>3. ASSUME handle' = handle \/ \E h \in Stored \cup {Nothing} : handle' = [handle EXCEPT ![c] = h],
             channel' = channel \/ \E k \in Deps \cup {Nothing} : channel' = [channel EXCEPT ![c] = k],
             chan' \in [Deps -> Seq(Mails)], \A n \in Deps : Len(chan'[n]) <= MailRoom
      PROVE  ServicesTyped' /\ Known'
  <2>1. \A e \in Calls : handle'[e] # Nothing => handle'[e] \in Stored'
    BY <1>0, <1>2, <1>3 DEF CallsTyped, Known
  <2>2. Known'
    BY <1>0, <1>1, <1>2, <2>1 DEF Known
  <2>3. channel' \in [Calls -> Deps \cup {Nothing}]
    BY <1>0, <1>3 DEF ServicesTyped
  <2> QED
    BY <1>0, <1>1, <1>2, <1>3, <2>2, <2>3 DEF ServicesTyped
<1>4. chan \in [Deps -> Seq(Mails)] /\ \A n \in Deps : Len(chan[n]) <= MailRoom
  BY <1>0 DEF ServicesTyped
<1>5. CASE HandleJsRequests(c)
  <2>1. /\ \E h \in Stored \cup {Nothing} : handle' = [handle EXCEPT ![c] = h]
        /\ UNCHANGED <<chan, channel>>
    BY <1>0, <1>5 DEF HandleJsRequests, Known
  <2> QED
    BY <1>3, <1>4, <2>1
<1>6. ASSUME NEW n \in Deps, Event(c, n)
      PROVE  ServicesTyped' /\ Known'
  <2>1. n \in Stored /\ handle' = [handle EXCEPT ![c] = n] /\ UNCHANGED <<chan, channel>>
    BY <1>0, <1>6 DEF Event, Known
  <2> QED
    BY <1>3, <1>4, <2>1
<1>7. CASE SendMail(c)
  <2>1. handle[c] \in Deps /\ handle[c] \in Stored
    BY <1>0, <1>7, ServicesAssumption DEF SendMail, SInv, RInv, CallInv, Known
  <2>2. mapping[appOf[handle[c]]] \in Deps \cup {Nothing}
    BY <1>0, <2>1 DEF Stored, ServicesTyped
  <2>3. /\ channel' = channel \/ channel' = [channel EXCEPT ![c] = mapping[appOf[handle[c]]]]
        /\ UNCHANGED <<chan, handle>>
    BY <1>7 DEF SendMail
  <2> QED
    BY <1>3, <1>4, <2>2, <2>3
<1>8. CASE SendMailSends(c)
  <2> DEFINE k == channel[c]
             m == [call |-> c, text |-> FormMail(PostMail(scene.text[c]))]
  <2>1. k \in Deps /\ UNCHANGED <<handle, channel>>
    BY <1>0, <1>8 DEF SendMailSends, ServicesTyped
  <2>2. CASE chan' = chan
    BY <1>3, <1>4, <2>1, <2>2
  <2>3. CASE /\ Len(chan[k]) < MailRoom
             /\ chan' = [chan EXCEPT ![k] = Append(chan[k], m)]
    <3>1. m \in Mails
      BY DEF Mails
    <3>2. chan[k] \in Seq(Mails)
      BY <1>4, <2>1
    <3>3. Append(chan[k], m) \in Seq(Mails) /\ Len(Append(chan[k], m)) = Len(chan[k]) + 1
      BY <3>1, <3>2
    <3>4. Len(Append(chan[k], m)) <= MailRoom
      BY <2>3, <3>2, <3>3, ServicesAssumption
    <3>5. chan' \in [Deps -> Seq(Mails)] /\ \A n \in Deps : Len(chan'[n]) <= MailRoom
      BY <1>4, <2>1, <2>3, <3>3, <3>4
    <3> QED
      BY <1>3, <2>1, <3>5
  <2>4. chan' = chan \/ (Len(chan[k]) < MailRoom /\ chan' = [chan EXCEPT ![k] = Append(chan[k], m)])
    BY <1>8 DEF SendMailSends, HasRoom
  <2> QED
    BY <2>2, <2>3, <2>4
<1>9. CASE HandleStaticAssets(c) \/ CallEnters(c) \/ HTTPBodySet(c) \/ CallEnds(c)
  <2>1. UNCHANGED <<chan, handle, channel>>
    BY <1>9 DEF HandleStaticAssets, CallEnters, SendUpdate, SendHTTPGet, SendHTTPPost, EnterHTTP,
       HTTPBodySet, CallEnds, ConvertMapToJson, UpdateReturns
  <2> QED
    BY <1>3, <1>4, <2>1
<1> QED
  BY <1>5, <1>6, <1>7, <1>8, <1>9

\* Every step keeps the invariant of the tables.
LEMMA SInvNext ==
  ASSUME SInv, [Next]_vars
  PROVE  SInv'
<1>1. RInv' /\ LInv'
  BY RInvNext, LInvNext DEF SInv
<1>2. CASE UNCHANGED vars
  <2>0. /\ UNCHANGED <<scene, appOf, main, work, table, referrer, open, servers, uri>>
        /\ UNCHANGED <<mapping, chan, closed, reader, reads, handle, channel>>
    BY <1>2 DEF vars
  <2>1. ServicesTyped'
    <3>1. Mails' = Mails
      BY <2>0 DEF Mails
    <3> QED
      BY <2>0, <3>1 DEF SInv, ServicesTyped
  <2>2. Known'
    BY <2>0 DEF SInv, Known, Stored
  <2> QED
    BY <1>1, <2>1, <2>2 DEF SInv
<1>3. CASE Next
  BY <1>1, <1>3, SInvDeploys, SInvCalls DEF Next, SInv
<1> QED
  BY <1>2, <1>3

\* Whatever storeAppSetup overtakes, the tables of the listeners, the workers and
\* the mail channels lead only to deployments that were stored, a mail channel
\* never holds more than its capacity, and every call is on such a deployment.
THEOREM ServicesTypes == Spec => []TypeOK
<1>1. SInv => TypeOK
  BY DEF SInv, RInv, LInv, CallsTyped, ServicesTyped, Known, TypeOK
<1> QED
  BY <1>1, SInvInit, SInvNext, PTL DEF Spec
=============================================================================
