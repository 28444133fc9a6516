---------------------------- MODULE AppServices ----------------------------
(***************************************************************************)
(* What an application offers besides its event handlers: HTTP requests    *)
(* that run OnHTTPGet and OnHTTPPost, and sendmail.  A deployment opens a  *)
(* listener and a mail channel from main's loop, next to the worker that   *)
(* its set-up makes; storing the application again takes down the listener *)
(* and the channel that the tables lead to.  Handlers run with the Locker  *)
(* of their isolate held, also while sendmail waits for the answer of      *)
(* another handler of the same process.                                    *)
(* The steps of a critical section of tableLock are one action.            *)
(***************************************************************************)
EXTENDS Naturals, Sequences

CONSTANTS
    Apps,       \* applications, each with one HTTP port
    MaxDeps,    \* bound: deployments, numbered as they are stored
    Calls,      \* calls of handlers
    MailRoom,   \* capacity of a mail channel
    Scenes,     \* which applications are stored and have mail settings, what
                \* the calls are, and what the operator waits for
    Nothing     \* no deployment, no channel

Deps == 1..MaxDeps

ASSUME ServicesAssumption ==
    /\ MaxDeps \in Nat /\ MailRoom \in Nat \ {0}
    /\ Nothing \notin Deps \cup Calls \cup Apps
    /\ \A s \in Scenes : s.apps \subseteq Apps

VARIABLES
    scene,
    appOf,      \* the application of each deployment that was stored
    appSetup,   \* the channel of that name: deployments that main has still to take
    main,       \* the deployment that main's loop works on
    http,       \* where performAppHTTPSetup of each deployment is
    open,       \* the deployments whose listener is open
    servers,    \* appHTTPservers
    uri,        \* the applications in uriPrefixAppMap
    work,       \* where each deployment's worker is
    table,      \* workerTable
    referrer,   \* workerHTTPReferrerTable
    mapping,    \* appMailChanMapping; a channel has the number of its deployment
    chan,       \* the mails in each channel
    closed,     \* the channels that are closed
    reader,     \* where the processMails goroutine of each deployment is
    reads,      \* the channel that it reads
    sent,       \* the mails handed to the mail server
    isolate,    \* per worker, the call that holds the Locker
    body,       \* per worker, the calls that set the fields in http_body
    pc,         \* where each call is
    handle,     \* the worker of each call
    channel,    \* the channel that sendMail found for each call
    did,        \* what each call did: set a field, sent a mail
    accepted,   \* history: the mails that a channel took
    built       \* the fields in the response that ConvertMapToJson built

deployVars == <<appOf, appSetup, main, work, table, referrer>>
httpVars == <<http, open, servers, uri>>
mailVars == <<mapping, chan, closed, reader, reads, sent>>
callVars == <<isolate, body, pc, handle, channel, did, accepted, built>>
vars == <<scene, appOf, appSetup, main, work, table, referrer, http, open, servers, uri,
          mapping, chan, closed, reader, reads, sent, isolate, body, pc, handle, channel, did,
          accepted, built>>

Init ==
    /\ scene \in Scenes
    /\ appOf = [n \in Deps |-> Nothing]
    /\ appSetup = <<>>
    /\ main = Nothing
    /\ http = [n \in Deps |-> "none"]
    /\ open = {}
    /\ servers = [a \in {} |-> {}]
    /\ uri = {}
    /\ work = [n \in Deps |-> "none"]
    /\ table = [a \in Apps |-> Nothing]
    /\ referrer = [a \in Apps |-> Nothing]
    /\ mapping = [a \in Apps |-> Nothing]
    /\ chan = [n \in Deps |-> <<>>]
    /\ closed = {}
    /\ reader = [n \in Deps |-> "none"]
    /\ reads = [n \in Deps |-> Nothing]
    /\ sent = {}
    /\ isolate = [n \in Deps |-> Nothing]
    /\ body = [n \in Deps |-> {}]
    /\ pc = [c \in Calls |-> "new"]
    /\ handle = [c \in Calls |-> Nothing]
    /\ channel = [c \in Calls |-> Nothing]
    /\ did = [c \in Calls |-> {}]
    /\ accepted = {}
    /\ built = [c \in Calls |-> Nothing]

-----------------------------------------------------------------------------
(* Storing an application, and main's loop.                                *)

Stored == {n \in Deps : appOf[n] # Nothing}

\* Nothing of any deployment is still on its way.
Settled ==
    /\ appSetup = <<>> /\ main = Nothing
    /\ \A n \in Stored : /\ http[n] = "serving"
                         /\ work[n] \in {"running", "stopped"}
                         /\ reader[n] # "start"

\* storeAppSetup from its Lock on: the listeners and the channel of the last
\* deployment are closed, its worker is told to quit, and the new one is set up.
Store(n, a) ==
    /\ n \notin Stored /\ \A m \in 1..(n - 1) : m \in Stored
    /\ a \in scene.apps /\ n <= scene.stores
    /\ scene.patient => Settled
    /\ appOf' = [appOf EXCEPT ![n] = a]
    /\ open' = IF a \in DOMAIN servers THEN open \ servers[a] ELSE open
    /\ servers' = [b \in DOMAIN servers \ {a} |-> servers[b]]
    /\ closed' = closed \cup ({mapping[a]} \ {Nothing})
    /\ mapping' = [mapping EXCEPT ![a] = Nothing]
    /\ IF table[a] # Nothing
       THEN uri' = uri \ {a} /\ work' = [work EXCEPT ![table[a]] = "quitting", ![n] = "setup"]
       ELSE UNCHANGED uri /\ work' = [work EXCEPT ![n] = "setup"]
    /\ appSetup' = Append(appSetup, n)
    /\ UNCHANGED <<scene, main, table, referrer, http, chan, reader, reads, sent, callVars>>

\* Mutant of MainTake: no second HTTP set-up for an application.
MainTakeOnce ==
    /\ main = Nothing /\ appSetup # <<>>
    /\ main' = Head(appSetup)
    /\ appSetup' = Tail(appSetup)
    /\ http' = [http EXCEPT ![main'] =
                   IF \E m \in Deps : http[m] # "none" /\ appOf[m] = appOf[main']
                   THEN "serving" ELSE "listen"]
    /\ UNCHANGED <<scene, appOf, work, table, referrer, open, servers, uri, mailVars, callVars>>

\* go performAppHTTPSetup.
MainTake ==
    /\ main = Nothing /\ appSetup # <<>>
    /\ main' = Head(appSetup)
    /\ appSetup' = Tail(appSetup)
    /\ http' = [http EXCEPT ![main'] = "listen"]
    /\ UNCHANGED <<scene, appOf, work, table, referrer, open, servers, uri, mailVars, callVars>>

\* setUpMailServer, which does nothing without mail settings, and go processMails.
MainMail ==
    /\ main # Nothing
    /\ mapping' = IF appOf[main] \in scene.mail
                  THEN [mapping EXCEPT ![appOf[main]] = main] ELSE mapping
    /\ reader' = [reader EXCEPT ![main] = "start"]
    /\ main' = Nothing
    /\ UNCHANGED <<scene, appOf, appSetup, work, table, referrer, httpVars, chan, closed,
                   reads, sent, callVars>>

-----------------------------------------------------------------------------
(* performAppHTTPSetup, a goroutine per deployment.                        *)

\* net.Listen, which fails while the port is still open: the set-up goes on
\* with no listener.
HttpListen(n) ==
    /\ http[n] = "listen"
    /\ http' = [http EXCEPT ![n] = "register"]
    /\ open' = IF \E m \in open : appOf[m] = appOf[n] THEN open ELSE open \cup {n}
    /\ UNCHANGED <<scene, deployVars, servers, uri, mailVars, callVars>>

\* Mutant of HttpRegister: the list is replaced when there is one already.
HttpRegisterReplaces(n) ==
    /\ http[n] = "register"
    /\ http' = [http EXCEPT ![n] = "uri"]
    /\ servers' = [b \in {appOf[n]} |-> {n}]
    /\ UNCHANGED <<scene, deployVars, open, uri, mailVars, callVars>>

\* An application with no entry gets a new appHTTPservers of its own, without
\* the entries of the others.
HttpRegister(n) ==
    /\ http[n] = "register"
    /\ http' = [http EXCEPT ![n] = "uri"]
    /\ servers' = IF appOf[n] \in DOMAIN servers
                  THEN [servers EXCEPT ![appOf[n]] = @ \cup {n}]
                  ELSE [b \in {appOf[n]} |-> {n}]
    /\ UNCHANGED <<scene, deployVars, open, uri, mailVars, callVars>>

\* uriPrefixAppMap, and the goroutine that serves.  On a listener that is closed,
\* or was never opened, Accept fails and it ends.
HttpServe(n) ==
    /\ http[n] = "uri"
    /\ http' = [http EXCEPT ![n] = "serving"]
    /\ uri' = uri \cup {appOf[n]}
    /\ UNCHANGED <<scene, deployVars, open, servers, mailVars, callVars>>

-----------------------------------------------------------------------------
(* The workers, reduced to what the services see of them.                  *)

Busy(n) == {c \in Calls : handle[c] = n /\ pc[c] \notin {"done", "failed"}}

\* loadApp's tables.  A patient operator's set-up is slower than the old worker.
Publish(n) ==
    LET a == appOf[n] IN
    /\ work[n] = "setup"
    /\ scene.patient => \A m \in Stored : appOf[m] = a => work[m] # "quitting"
    /\ work' = [work EXCEPT ![n] = "running"]
    /\ table' = [table EXCEPT ![a] = n]
    /\ referrer' = [referrer EXCEPT ![a] = n]
    /\ UNCHANGED <<scene, appOf, appSetup, main, httpVars, mailVars, callVars>>

\* runWorker takes the quit message between two events, and removes the entry
\* of its port.
Quits(n) ==
    /\ work[n] = "quitting"
    /\ \A c \in Busy(n) : scene.kind[c] # "update"
    /\ work' = [work EXCEPT ![n] = "stopped"]
    /\ referrer' = [referrer EXCEPT ![appOf[n]] = Nothing]
    /\ UNCHANGED <<scene, appOf, appSetup, main, table, httpVars, mailVars, callVars>>

-----------------------------------------------------------------------------
(* Calls of handlers.                                                      *)

Request(c) == scene.kind[c] \in {"GET", "POST"}

\* A connection of a listener that is served; its port is its application's.
Served(a) == \E n \in open : http[n] = "serving" /\ appOf[n] = a

\* handleJsRequests reads the table without the lock.  A call on no worker
\* panics, which the HTTP server recovers: the connection is closed.
HandleJsRequests(c) ==
    /\ pc[c] = "new" /\ Request(c)
    /\ \E a \in scene.apps :
           /\ Served(a)
           /\ handle' = [handle EXCEPT ![c] = referrer[a]]
    /\ pc' = [pc EXCEPT ![c] = IF handle'[c] = Nothing THEN "failed" ELSE "wait"]
    /\ UNCHANGED <<scene, deployVars, httpVars, mailVars, isolate, body, channel, did, accepted,
                   built>>

\* handleStaticAssets panics, recovered, when the prefix is not in the map.
HandleStaticAssets(c) ==
    /\ pc[c] = "new" /\ scene.kind[c] = "static"
    /\ \E a \in scene.apps :
           /\ Served(a)
           /\ pc' = [pc EXCEPT ![c] = IF a \in uri THEN "done" ELSE "failed"]
    /\ UNCHANGED <<scene, deployVars, httpVars, mailVars, isolate, body, handle, channel, did,
                   accepted, built>>

\* handleDcpEvent of the worker's own goroutine, one at a time.
Event(c, n) ==
    /\ pc[c] = "new" /\ scene.kind[c] = "update"
    /\ work[n] \in {"running", "quitting"}
    /\ \A e \in Busy(n) : scene.kind[e] # "update"
    /\ handle' = [handle EXCEPT ![c] = n]
    /\ pc' = [pc EXCEPT ![c] = "wait"]
    /\ UNCHANGED <<scene, deployVars, httpVars, mailVars, isolate, body, channel, did, accepted,
                   built>>

\* The Locker at the head of SendUpdate.
SendUpdate(c) ==
    /\ pc[c] = "wait" /\ scene.kind[c] = "update"
    /\ isolate[handle[c]] = Nothing
    /\ isolate' = [isolate EXCEPT ![handle[c]] = c]
    /\ pc' = [pc EXCEPT ![c] = "run"]
    /\ UNCHANGED <<scene, deployVars, httpVars, mailVars, body, handle, channel, did, accepted,
                   built>>

\* Mutant of EnterHTTP: http_body keeps the fields of the last call.
EnterHTTPNoClear(c) ==
    /\ isolate[handle[c]] = Nothing
    /\ isolate' = [isolate EXCEPT ![handle[c]] = c]
    /\ pc' = [pc EXCEPT ![c] = "run"]
    /\ UNCHANGED <<scene, deployVars, httpVars, mailVars, body, handle, channel, did, accepted,
                   built>>

\* The Locker, and http_body.clear().
EnterHTTP(c) ==
    /\ isolate[handle[c]] = Nothing
    /\ isolate' = [isolate EXCEPT ![handle[c]] = c]
    /\ body' = [body EXCEPT ![handle[c]] = {}]
    /\ pc' = [pc EXCEPT ![c] = "run"]
    /\ UNCHANGED <<scene, deployVars, httpVars, mailVars, handle, channel, did, accepted, built>>

SendHTTPGet(c) == pc[c] = "wait" /\ scene.kind[c] = "GET" /\ EnterHTTP(c)

SendHTTPPost(c) == pc[c] = "wait" /\ scene.kind[c] = "POST" /\ EnterHTTP(c)

\* Any property of the response object is the one body map of the worker...
HTTPResponseGet(n) == body[n]

\* ...of which the handler sets a field.  A handler of an event can do so too,
\* through an object that an earlier request left in a global variable.
HTTPBodySet(c) ==
    /\ pc[c] = "run" /\ "field" \notin did[c]
    /\ body' = [body EXCEPT ![handle[c]] = HTTPResponseGet(handle[c]) \cup {c}]
    /\ did' = [did EXCEPT ![c] = @ \cup {"field"}]
    /\ UNCHANGED <<scene, deployVars, httpVars, mailVars, isolate, pc, handle, channel, accepted,
                   built>>

\* The handler's end, by its return, by an exception, which nobody looks at, or
\* by TerminateExecution.  The text is in a buffer that is freed on return,
\* before C.GoString copies it: built is what was written to it.
ConvertMapToJson(c) ==
    /\ pc[c] = "run" /\ Request(c)
    /\ built' = [built EXCEPT ![c] = body[handle[c]]]
    /\ isolate' = [isolate EXCEPT ![handle[c]] = Nothing]
    /\ pc' = [pc EXCEPT ![c] = "done"]
    /\ UNCHANGED <<scene, deployVars, httpVars, mailVars, body, handle, channel, did, accepted>>

\* Mutant of UpdateReturns: a handler that sent a mail leaves the Locker held.
UpdateReturnsLocked(c) ==
    /\ pc[c] = "run" /\ scene.kind[c] = "update"
    /\ isolate' = IF "mail" \in did[c] THEN isolate ELSE [isolate EXCEPT ![handle[c]] = Nothing]
    /\ pc' = [pc EXCEPT ![c] = "done"]
    /\ UNCHANGED <<scene, deployVars, httpVars, mailVars, body, handle, channel, did, accepted,
                   built>>

UpdateReturns(c) ==
    /\ pc[c] = "run" /\ scene.kind[c] = "update"
    /\ isolate' = [isolate EXCEPT ![handle[c]] = Nothing]
    /\ pc' = [pc EXCEPT ![c] = "done"]
    /\ UNCHANGED <<scene, deployVars, httpVars, mailVars, body, handle, channel, did, accepted,
                   built>>

-----------------------------------------------------------------------------
(* sendmail.  A text is a sequence of words, of which "&" and "=" are two. *)

Split(s, t) ==
    LET cuts == SelectSeq([i \in 1..(Len(s) + 1) |-> i],
                          LAMBDA i : IF i > Len(s) THEN TRUE ELSE s[i] = t)
    IN [k \in 1..Len(cuts) |->
           SubSeq(s, IF k = 1 THEN 1 ELSE cuts[k - 1] + 1, cuts[k] - 1)]

\* The sprintf of PostMail, which quotes nothing.
PostMail(m) ==
    <<"app_name", "=", "app", "&", "to", "=">> \o m.to \o <<"&", "subject", "=">> \o m.subject
        \o <<"&", "body", "=">> \o m.body

\* What sendMail reads of the i-th field; no second part is an index out of range.
FormParts(s, i) == Split(Split(s, "&")[i], "=")

FormReads(s) == \A i \in 1..4 : Len(FormParts(s, i)) > 1

FormMail(s) ==
    [to |-> FormParts(s, 2)[2], subject |-> FormParts(s, 3)[2], body |-> FormParts(s, 4)[2]]

\* SendMail of the worker with PostMail, and sendMail up to its Unlock; the
\* Locker is kept.  A form that does not read panics: the HTTP server recovers,
\* and PostMail returns.
SendMail(c) ==
    /\ pc[c] = "run" /\ "mail" \notin did[c] /\ c \in scene.mailers
    /\ did' = [did EXCEPT ![c] = @ \cup {"mail"}]
    /\ IF FormReads(PostMail(scene.text[c]))
       THEN /\ pc' = [pc EXCEPT ![c] = "send"]
            /\ channel' = [channel EXCEPT ![c] = mapping[appOf[handle[c]]]]
       ELSE UNCHANGED <<pc, channel>>
    /\ UNCHANGED <<scene, deployVars, httpVars, mailVars, isolate, body, handle, accepted, built>>

\* Mutant of HasRoom: one mail too many.
RoomForOneMore(q) == Len(q) <= MailRoom

HasRoom(q) == Len(q) < MailRoom

\* mailChan <- sFields: for ever on no channel, a panic on a closed one.
SendMailSends(c) ==
    /\ pc[c] = "send" /\ channel[c] # Nothing
    /\ \/ /\ channel[c] \in closed
          /\ UNCHANGED <<chan, accepted>>
       \/ /\ channel[c] \notin closed /\ HasRoom(chan[channel[c]])
          /\ chan' = [chan EXCEPT ![channel[c]] =
                         Append(@, [call |-> c, text |-> FormMail(PostMail(scene.text[c]))])]
          /\ accepted' = accepted \cup {c}
    /\ pc' = [pc EXCEPT ![c] = "run"]
    /\ UNCHANGED <<scene, deployVars, httpVars, mapping, closed, reader, reads, sent, isolate,
                   body, handle, channel, did, built>>

\* processMails up to its Unlock.
ProcessMails(n) ==
    /\ reader[n] = "start"
    /\ reader' = [reader EXCEPT ![n] = "loop"]
    /\ reads' = [reads EXCEPT ![n] = mapping[appOf[n]]]
    /\ UNCHANGED <<scene, deployVars, httpVars, mapping, chan, closed, sent, callVars>>

\* Mutant of ProcessMail: the loop ends when the channel is closed, with mails in it.
ProcessMailUntilClosed(n) ==
    /\ reader[n] = "loop" /\ reads[n] # Nothing
    /\ chan[reads[n]] # <<>> /\ reads[n] \notin closed
    /\ sent' = sent \cup {Head(chan[reads[n]])}
    /\ chan' = [chan EXCEPT ![reads[n]] = Tail(@)]
    /\ UNCHANGED <<scene, deployVars, httpVars, mapping, closed, reader, reads, callVars>>

\* A turn of the loop: smtp.SendMail gets the mail, and its error is logged.
ProcessMail(n) ==
    /\ reader[n] = "loop" /\ reads[n] # Nothing
    /\ chan[reads[n]] # <<>>
    /\ sent' = sent \cup {Head(chan[reads[n]])}
    /\ chan' = [chan EXCEPT ![reads[n]] = Tail(@)]
    /\ UNCHANGED <<scene, deployVars, httpVars, mapping, closed, reader, reads, callVars>>

\* The channel is closed, and nothing is left in it.
ProcessMailsEnds(n) ==
    /\ reader[n] = "loop" /\ reads[n] \in closed /\ chan[reads[n]] = <<>>
    /\ reader' = [reader EXCEPT ![n] = "ended"]
    /\ UNCHANGED <<scene, deployVars, httpVars, mapping, chan, closed, reads, sent, callVars>>

-----------------------------------------------------------------------------

DepStep(n) ==
    \/ HttpListen(n) \/ HttpRegister(n) \/ HttpServe(n)
    \/ Publish(n) \/ Quits(n) \/ ProcessMails(n) \/ ProcessMail(n) \/ ProcessMailsEnds(n)

CallEnds(c) == ConvertMapToJson(c) \/ UpdateReturns(c)

CallEnters(c) == SendUpdate(c) \/ SendHTTPGet(c) \/ SendHTTPPost(c)

Next ==
    \/ \E n \in Deps, a \in Apps : Store(n, a)
    \/ MainTake \/ MainMail
    \/ \E n \in Deps : DepStep(n)
    \/ \E c \in Calls : \/ HandleJsRequests(c) \/ HandleStaticAssets(c)
                        \/ \E n \in Deps : Event(c, n)
                        \/ CallEnters(c) \/ HTTPBodySet(c) \/ SendMail(c)
                        \/ SendMailSends(c) \/ CallEnds(c)

Spec == Init /\ [][Next]_vars

\* Goroutines are scheduled, a Locker is handed to each thread that goes on
\* asking, and a channel with room to each sender.
Fairness ==
    /\ WF_vars(MainTake \/ MainMail)
    /\ \A n \in Deps : /\ WF_vars(HttpListen(n) \/ HttpRegister(n) \/ HttpServe(n))
                       /\ SF_vars(Publish(n) \/ Quits(n))
                       /\ WF_vars(ProcessMails(n) \/ ProcessMail(n) \/ ProcessMailsEnds(n))
    /\ \A c \in Calls : /\ WF_vars(CallEnds(c))
                        /\ SF_vars(CallEnters(c) \/ SendMailSends(c))

FairSpec == Spec /\ Fairness

-----------------------------------------------------------------------------

\* Every variable has its type.
TypeOK ==
    /\ appOf \in [Deps -> Apps \cup {Nothing}]
    /\ main \in Deps \cup {Nothing}
    /\ http \in [Deps -> {"none", "listen", "register", "uri", "serving"}]
    /\ open \subseteq Stored /\ closed \subseteq Stored
    /\ DOMAIN servers \subseteq Apps /\ \A a \in DOMAIN servers : servers[a] \subseteq Stored
    /\ uri \subseteq Apps
    /\ work \in [Deps -> {"none", "setup", "running", "quitting", "stopped"}]
    /\ \A f \in {table, referrer, mapping} : f \in [Apps -> Deps \cup {Nothing}]
    /\ \A n \in Deps : Len(chan[n]) <= MailRoom
    /\ reader \in [Deps -> {"none", "start", "loop", "ended"}]
    /\ reads \in [Deps -> Deps \cup {Nothing}]
    /\ isolate \in [Deps -> Calls \cup {Nothing}]
    /\ body \in [Deps -> SUBSET Calls]
    /\ pc \in [Calls -> {"new", "wait", "run", "send", "done", "failed"}]
    /\ \A f \in {handle, channel} : f \in [Calls -> Deps \cup {Nothing}]

\* What each call looks like from outside: open from the moment it has a worker.
Stage(c) == IF pc[c] \in {"wait", "run", "send"} THEN "open" ELSE pc[c]

Wrote == {c \in Calls : "field" \in did[c]}

Reply == INSTANCE HttpReply WITH
    NoAnswer <- Nothing, stage <- [c \in Calls |-> Stage(c)], wrote <- Wrote, answer <- built

\* SendHTTPGet and SendHTTPPost keep the promise of HttpReply: every response
\* has the fields that its own run of the handler set and no others, although
\* all calls of a worker, events included, share one http_body.
RepliesKept == Reply!Spec

\* With one application, every open listener that performAppHTTPSetup has
\* registered is in appHTTPservers, so that the next storeAppSetup closes it
\* ("Cleaning up previous HTTPServer on app redeploy"), however its stores
\* overtake the set-ups before them.
ListenersKnown ==
    (\A a, b \in scene.apps : a = b) =>
        \A n \in open : \/ http[n] = "register"
                        \/ appOf[n] \in DOMAIN servers /\ n \in servers[appOf[n]]

\* A call that waits for ever in sendMail, for a channel that is not there.
Hangs == \E c \in Calls : pc[c] = "send" /\ channel[c] = Nothing

\* With an operator who waits for each deployment, every call of a handler
\* comes back, unless sendmail met an application without a mail channel: no
\* other wait of the Locker, the channels and the readers goes on for ever.
CallReturns ==
    scene.patient =>
        \A c \in Calls : pc[c] # "new" ~> pc[c] \in {"done", "failed"} \/ Hangs

PlainText(s) == \A i \in 1..Len(s) : s[i] \notin {"&", "="}

\* A mail is handed on as the handler gave it to sendmail, if the form in which it
\* travels can hold its texts.
AsWritten(m) ==
    LET t == scene.text[m.call] IN
    PlainText(t.to) /\ PlainText(t.subject) /\ PlainText(t.body) => m.text = t

\* With an operator who waits, every mail that a channel took is handed to the
\* mail server, also when storeAppSetup closes the channel with mails in it, and
\* with the texts that the handler wrote, if they have no "&" and no "=".
AcceptedMailIsSent ==
    scene.patient =>
        \A c \in Calls : c \in accepted ~> \E m \in sent : m.call = c /\ AsWritten(m)

\* With an operator who waits, a stored application is served again on its
\* port and its requests lead to its new worker, whichever listener is left.
ServiceReturns ==
    scene.patient =>
        \A n \in Deps :
            LET a == appOf[n] IN
            a # Nothing ~> \/ Served(a) /\ referrer[a] = n
                           \/ Hangs
                           \/ \E m \in (n + 1)..MaxDeps : appOf[m] = a
=============================================================================
