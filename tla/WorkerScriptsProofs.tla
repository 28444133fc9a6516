------------------------ MODULE WorkerScriptsProofs ------------------------
(***************************************************************************)
(* Proofs about the scripts that workers load.  First WorkerSetup: what    *)
(* reaches V8 is the result of Preprocess, however set-ups overlap.  Then  *)
(* the two passes of Preprocess, for scripts of every length: they keep    *)
(* the words of a script, and they rewrite plain calls as meant.           *)
(***************************************************************************)
EXTENDS WorkerSetup, SequenceTheorems, WellFoundedInduction, TLAPS

\* Most leaves are first-order and need no arithmetic: Zenon goes first.
USE ZenonT(4), SMTT(30), ZenonT(20)

-----------------------------------------------------------------------------
(* The scripts that set-ups load.                                          *)

Fields == {"seen", "config", "bucket", "n1ql", "queue", "left", "script", "rc", "exception",
           "globals", "pushed", "query", "answer"}

\* What the invariant needs of the shapes of the variables.
Shapes ==
    /\ scene \in Scenes
    /\ DOMAIN file = Apps
    /\ DOMAIN store = Setups
    /\ DOMAIN pc = Setups
    /\ DOMAIN w = Setups
    /\ \A d \in Setups : DOMAIN w[d] = Fields

\* Where a set-up is when WorkerLoad has returned, and when loadApp has read the file.
Executed == {"loaded", "running", "stopped"}
Seen == {"construct", "assign", "assigning", "buckets", "n1ql", "n1ql again", "queues", "built"}
        \cup Executed

Stored == {scene.stored[e] : e \in Setups}

\* A file is never removed once it is there.
Files ==
    /\ \A a \in Apps : file[a] \in {Nothing, Partial} \cup Stored
    /\ \A d \in Setups : store[d] # "new" => file[App(d)] # Nothing

\* A set-up that has read its application has a script, or none if the file was half
\* written; and what V8 was given is what Preprocess makes of that script.
Rewritten(d) ==
    /\ store[d] # "done" => pc[d] = "idle"
    /\ pc[d] \in Seen => w[d].seen \in {Partial} \cup Stored
    /\ w[d].rc # Nothing => pc[d] \in Executed /\ w[d].script = Preprocess(Code(d).text)

ScriptInv == Shapes /\ Files /\ \A d \in Setups : Rewritten(d)

\* A disjunct of Next: a step of set-up d or of its worker.
Step(d) ==
    \/ StoreTruncate(d) \/ StoreWrite(d) \/ StoreStart(d)
    \/ GetSource(d) \/ LoadApp(d) \/ ParseDeployment(d)
    \/ AssignStart(d) \/ AssignEnd(d)
    \/ CreateBuckets(d) \/ CreateN1QL(d) \/ CreateQueue(d) \/ QueueUnreachable(d)
    \/ FinishConstructor(d)
    \/ LoadFails(d) \/ LoadNoHandlers(d) \/ LoadCrashes(d) \/ LoadSucceeds(d)
    \/ Publish(d)
    \/ CallUnloaded(d) \/ StartQuery(d) \/ QueryRow(d) \/ Stop(d)
    \/ \E alias \in DOMAIN w[d].globals : QueueGetCall(d, alias)
    \/ \E ok \in BOOLEAN : QueryFinal(d, ok)

\* A step of d leaves the other set-ups and the shapes alone, and no file but its own.
Moves(d) ==
    /\ scene' = scene
    /\ DOMAIN file' = Apps /\ DOMAIN store' = Setups /\ DOMAIN pc' = Setups
    /\ DOMAIN w' = Setups /\ DOMAIN w'[d] = Fields
    /\ \A e \in Setups \ {d} : w'[e] = w[e] /\ pc'[e] = pc[e] /\ store'[e] = store[e]
    /\ \/ file' = file /\ (store[d] = "new" => store'[d] = "new")
       \/ file' = [file EXCEPT ![App(d)] = Partial]
       \/ file' = [file EXCEPT ![App(d)] = scene.stored[d]]

\* A step that is not one of reading or loading the application.
Keeps(d) ==
    /\ w'[d].seen = w[d].seen /\ w'[d].rc = w[d].rc /\ w'[d].script = w[d].script
    /\ \/ pc'[d] = pc[d] /\ (store[d] = "done" => store'[d] = "done")
       \/ /\ pc[d] \in Seen /\ pc'[d] \in Seen /\ store' = store
          /\ pc[d] \in Executed => pc'[d] \in Executed

\* Workers share nothing that their scripts depend on but the files: every step moves
\* one set-up.
LEMMA StepMoves ==
  ASSUME Shapes, NEW d \in Setups, Step(d)
  PROVE  Moves(d)
<1> USE DEF Shapes, Moves
<1>1. CASE StoreTruncate(d) \/ StoreWrite(d) \/ StoreStart(d) \/ GetSource(d)
  BY <1>1 DEF StoreTruncate, StoreWrite, StoreStart, GetSource
<1>2. CASE LoadApp(d) \/ ParseDeployment(d)
  BY <1>2 DEF LoadApp, ParseDeployment
<1>3. CASE AssignStart(d) \/ AssignEnd(d) \/ QueueUnreachable(d) \/ FinishConstructor(d)
  BY <1>3 DEF AssignStart, AssignEnd, QueueUnreachable, FinishConstructor
<1>4. CASE CreateBuckets(d)
  BY <1>4 DEF CreateBuckets
<1>5. CASE CreateN1QL(d)
  BY <1>5 DEF CreateN1QL
<1>6. CASE CreateQueue(d)
  BY <1>6 DEF CreateQueue
<1>7. CASE LoadFails(d) \/ LoadNoHandlers(d)
  BY <1>7 DEF LoadFails, LoadNoHandlers
<1>8. CASE LoadSucceeds(d)
  BY <1>8 DEF LoadSucceeds
<1>9. CASE LoadCrashes(d) \/ Publish(d) \/ CallUnloaded(d) \/ Stop(d)
  BY <1>9 DEF LoadCrashes, Publish, CallUnloaded, Stop
<1>10. CASE StartQuery(d) \/ QueryRow(d)
  BY <1>10 DEF StartQuery, QueryRow
<1>11. ASSUME NEW alias, QueueGetCall(d, alias)
       PROVE  Moves(d)
  BY <1>11 DEF QueueGetCall
<1>12. ASSUME NEW ok \in BOOLEAN, QueryFinal(d, ok)
       PROVE  Moves(d)
  BY <1>12 DEF QueryFinal
<1> QED
  BY <1>1, <1>2, <1>3, <1>4, <1>5, <1>6, <1>7, <1>8, <1>9, <1>10, <1>11, <1>12 DEF Step

\* WriteFile leaves a file half written or written.
LEMMA FilesNext ==
  ASSUME Shapes, Files, NEW d \in Setups, Moves(d)
  PROVE  Shapes' /\ Files'
<1>1. Shapes'
  BY DEF Shapes, Moves
<1>2. Stored' = Stored /\ \A e \in Setups : App(e)' = App(e) /\ App(e) \in Apps
  BY SetupAssumption DEF Stored, App, Moves, Shapes
<1>3. Nothing # Partial /\ scene.stored[d] # Nothing /\ scene.stored[d] \in Stored
  BY StoredAssumption DEF Complete, Shapes, Stored
<1>4. CASE file' = file /\ (store[d] = "new" => store'[d] = "new")
  <2>1. \A e \in Setups : store'[e] # "new" => store[e] # "new"
    BY <1>4 DEF Moves
  <2> QED
    BY <1>1, <1>2, <1>4, <2>1 DEF Files
<1>5. ASSUME NEW c \in {Partial} \cup Stored, c # Nothing, file' = [file EXCEPT ![App(d)] = c]
      PROVE  Files'
  <2>1. file'[App(d)] = c /\ \A a \in Apps \ {App(d)} : file'[a] = file[a]
    BY <1>2, <1>5 DEF Shapes
  <2>2. \A e \in Setups \ {d} : store'[e] = store[e]
    BY DEF Moves
  <2> QED
    BY <1>2, <1>5, <2>1, <2>2 DEF Files
<1> QED
  BY <1>1, <1>3, <1>4, <1>5 DEF Moves

\* The process that executes the script has read the application, and not before
\* storeAppSetup started the set-up.
LEMMA ScriptReads ==
  ASSUME ScriptInv, NEW d \in Setups,
         \/ StoreTruncate(d) \/ StoreWrite(d) \/ StoreStart(d)
         \/ GetSource(d) \/ LoadApp(d) \/ ParseDeployment(d)
  PROVE  Rewritten(d)' \/ Keeps(d)
<1> USE DEF Shapes, Fields
<1>0. Shapes /\ Files /\ Rewritten(d)
  BY DEF ScriptInv
<1>1. Rewritten(d) /\ App(d) \in Apps /\ file[App(d)] \in {Nothing, Partial} \cup Stored
  BY <1>0, SetupAssumption DEF Files, App
<1>2. CASE StoreTruncate(d) \/ StoreWrite(d)
  BY <1>0, <1>2 DEF StoreTruncate, StoreWrite, Keeps
<1>3. CASE StoreStart(d)
  <2>1. w' = w /\ store[d] = "written" /\ store'[d] = "done" /\ pc'[d] = "start"
    BY <1>0, <1>3 DEF StoreStart
  <2>2. pc[d] = "idle"
    BY <1>1, <2>1 DEF Rewritten
  <2>3. w'[d].rc = Nothing
    BY <1>1, <2>1, <2>2 DEF Rewritten, Executed
  <2> QED
    BY <2>1, <2>3 DEF Rewritten, Seen, Executed
<1>4. CASE GetSource(d)
  <2>1. w' = w /\ store' = store /\ pc[d] = "start" /\ pc'[d] = "load"
    BY <1>0, <1>4 DEF GetSource
  <2>2. store[d] = "done" /\ w'[d].rc = Nothing
    BY <1>1, <2>1 DEF Rewritten, Executed
  <2> QED
    BY <2>1, <2>2 DEF Rewritten, Seen, Executed
<1>5. CASE LoadApp(d)
  <2>1. /\ scene' = scene /\ store' = store /\ pc[d] = "load" /\ pc'[d] = "construct"
        /\ w'[d].seen = file[App(d)] /\ w'[d].rc = w[d].rc
    BY <1>0, <1>5 DEF LoadApp
  <2>2. store[d] = "done" /\ w'[d].rc = Nothing
    BY <1>1, <2>1 DEF Rewritten, Executed
  <2>3. file[App(d)] # Nothing
    BY <1>0, <2>2 DEF Files
  <2>4. w'[d].seen \in {Partial} \cup Stored
    BY <1>1, <2>1, <2>3
  <2>5. Stored' = Stored
    BY <1>0, <2>1 DEF Stored
  <2> QED
    BY <2>1, <2>2, <2>4, <2>5 DEF Rewritten
<1>6. CASE ParseDeployment(d)
  <2>1. /\ store' = store /\ pc[d] = "construct" /\ pc'[d] = "assign"
        /\ w'[d].seen = w[d].seen /\ w'[d].rc = w[d].rc /\ w'[d].script = w[d].script
    BY <1>0, <1>6 DEF ParseDeployment
  <2> QED
    BY <2>1 DEF Keeps, Seen, Executed
<1> QED
  BY <1>2, <1>3, <1>4, <1>5, <1>6

\* WorkerLoad hands V8 the result of Preprocess, on each of its ways out.
LEMMA ScriptLoads ==
  ASSUME ScriptInv, NEW d \in Setups,
         LoadFails(d) \/ LoadNoHandlers(d) \/ LoadSucceeds(d)
  PROVE  Rewritten(d)'
<1> USE DEF Shapes, Fields
<1>0. Shapes
  BY DEF ScriptInv
<1>1. Rewritten(d)
  BY DEF ScriptInv
<1>2. /\ pc[d] = "built" /\ pc'[d] = "loaded" /\ store' = store /\ scene' = scene
  BY <1>0 DEF LoadFails, LoadNoHandlers, LoadSucceeds
<1>3. w'[d].seen = w[d].seen /\ w'[d].script = Preprocess(Code(d).text)
  <2>1. CASE LoadFails(d)
    BY <1>0, <2>1 DEF LoadFails
  <2>2. CASE LoadNoHandlers(d)
    BY <1>0, <2>2 DEF LoadNoHandlers
  <2>3. CASE LoadSucceeds(d)
    <3>1. PICK g : w' = [w EXCEPT ![d].script = Preprocess(Code(d).text), ![d].rc = SUCCESS,
                                  ![d].globals = g]
      BY <1>0, <2>3 DEF LoadSucceeds
    <3> QED
      BY <1>0, <3>1
  <2> QED
    BY <2>1, <2>2, <2>3
<1>4. Code(d)' = Code(d)
  BY <1>3 DEF Code
<1>5. Stored' = Stored
  BY <1>0, <1>2 DEF Stored
<1>6. store[d] = "done" /\ w[d].seen \in {Partial} \cup Stored
  BY <1>1, <1>2 DEF Rewritten, Seen
<1>7. pc'[d] \in Executed
  BY <1>2 DEF Executed
<1> QED
  BY <1>2, <1>3, <1>4, <1>5, <1>6, <1>7 DEF Rewritten

\* No other step of a set-up or of its worker reads the application or loads a script.
LEMMA ScriptRest ==
  ASSUME Shapes, NEW d \in Setups,
         \/ AssignStart(d) \/ AssignEnd(d)
         \/ CreateBuckets(d) \/ CreateN1QL(d) \/ CreateQueue(d) \/ QueueUnreachable(d)
         \/ FinishConstructor(d) \/ LoadCrashes(d) \/ Publish(d)
         \/ CallUnloaded(d) \/ StartQuery(d) \/ QueryRow(d) \/ Stop(d)
         \/ \E alias \in DOMAIN w[d].globals : QueueGetCall(d, alias)
         \/ \E ok \in BOOLEAN : QueryFinal(d, ok)
  PROVE  Keeps(d)
<1> USE DEF Shapes, Fields
<1>1. CASE AssignStart(d) \/ AssignEnd(d) \/ QueueUnreachable(d) \/ FinishConstructor(d)
  BY <1>1 DEF AssignStart, AssignEnd, QueueUnreachable, FinishConstructor, Keeps,
     Seen, Executed
<1>2. CASE CreateBuckets(d)
  BY <1>2 DEF CreateBuckets, Keeps, Seen, Executed
<1>3. CASE CreateN1QL(d)
  <2>1. PICK b, l : w' = [w EXCEPT ![d].n1ql = b, ![d].left = l]
    BY <1>3 DEF CreateN1QL
  <2>2. w'[d].seen = w[d].seen /\ w'[d].rc = w[d].rc /\ w'[d].script = w[d].script
    BY <2>1
  <2>3. /\ pc[d] \in {"n1ql", "n1ql again"} /\ pc'[d] \in {"n1ql again", "queues"}
        /\ store' = store
    BY <1>3 DEF CreateN1QL
  <2> QED
    BY <2>2, <2>3 DEF Keeps, Seen, Executed
<1>4. CASE CreateQueue(d)
  BY <1>4 DEF CreateQueue, Keeps
<1>5. CASE LoadCrashes(d) \/ Publish(d) \/ CallUnloaded(d) \/ Stop(d)
  BY <1>5 DEF LoadCrashes, Publish, CallUnloaded, Stop, Handles, Keeps,
     Seen, Executed
<1>6. CASE StartQuery(d) \/ QueryRow(d)
  <2>1. PICK q : w' = [w EXCEPT ![d].query = q]
    BY <1>6 DEF StartQuery, QueryRow
  <2>2. pc' = pc /\ store' = store
    BY <1>6 DEF StartQuery, QueryRow
  <2> QED
    BY <2>1, <2>2 DEF Keeps
<1>7. ASSUME NEW ok \in BOOLEAN, QueryFinal(d, ok)
      PROVE  Keeps(d)
  <2>1. PICK q, a : w' = [w EXCEPT ![d].query = q, ![d].answer = a]
    BY <1>7 DEF QueryFinal
  <2>2. pc' = pc /\ store' = store
    BY <1>7 DEF QueryFinal
  <2> QED
    BY <2>1, <2>2 DEF Keeps
<1>8. ASSUME NEW alias, QueueGetCall(d, alias)
      PROVE  Keeps(d)
  <2>1. PICK l : w' = [w EXCEPT ![d].pushed = l]
    BY <1>8 DEF QueueGetCall
  <2>2. pc' = pc /\ store' = store
    BY <1>8 DEF QueueGetCall
  <2> QED
    BY <2>1, <2>2 DEF Keeps
<1> QED
  BY <1>1, <1>2, <1>3, <1>4, <1>5, <1>6, <1>7, <1>8

\* Every step keeps what is known of the scripts.
LEMMA ScriptNext == ScriptInv /\ [Next]_vars => ScriptInv'
<1> SUFFICES ASSUME ScriptInv, [Next]_vars
             PROVE  ScriptInv'
  OBVIOUS
<1>0. Shapes /\ Files /\ \A d \in Setups : Rewritten(d)
  BY DEF ScriptInv
<1>1. CASE UNCHANGED vars
  <2>1. Stored' = Stored /\ \A d \in Setups : Code(d)' = Code(d) /\ App(d)' = App(d)
    BY <1>1 DEF vars, Stored, Code, App
  <2>2. Shapes' /\ Files'
    BY <1>0, <1>1, <2>1 DEF vars, Shapes, Files
  <2>3. \A d \in Setups : Rewritten(d)'
    BY <1>0, <1>1, <2>1 DEF vars, Rewritten
  <2> QED
    BY <2>2, <2>3 DEF ScriptInv
<1>2. ASSUME NEW d \in Setups, Step(d)
      PROVE  ScriptInv'
  <2>1. Moves(d)
    BY <1>0, <1>2, StepMoves
  <2>2. Stored' = Stored
    BY <2>1 DEF Stored, Moves
  <2>3. Shapes' /\ Files'
    BY <1>0, <2>1, FilesNext
  <2>4. ASSUME NEW e \in Setups \ {d}
        PROVE  Rewritten(e)'
    <3>1. w'[e] = w[e] /\ pc'[e] = pc[e] /\ store'[e] = store[e]
      BY <2>1 DEF Moves
    <3>2. Code(e)' = Code(e)
      BY <3>1 DEF Code
    <3> QED
      BY <1>0, <2>2, <3>1, <3>2 DEF Rewritten
  <2>5. Keeps(d) => Rewritten(d)'
    <3> SUFFICES ASSUME Keeps(d)
                 PROVE  Rewritten(d)'
      OBVIOUS
    <3>1. Code(d)' = Code(d)
      BY DEF Code, Keeps
    <3>2. store'[d] # "done" => pc'[d] = "idle"
      BY <1>0 DEF Rewritten, Keeps, Seen, Executed
    <3>3. pc'[d] \in Seen => pc[d] \in Seen
      BY DEF Keeps
    <3>4. pc[d] \in Executed => pc'[d] \in Executed
      BY DEF Keeps
    <3> QED
      BY <1>0, <2>2, <3>1, <3>2, <3>3, <3>4 DEF Rewritten, Keeps
  <2>6. Rewritten(d)' \/ Keeps(d)
    BY <1>0, <1>2, ScriptReads, ScriptLoads, ScriptRest DEF Step
  <2> QED
    BY <2>3, <2>4, <2>5, <2>6 DEF ScriptInv
<1> QED
  BY <1>1, <1>2 DEF Next, Step

\* ScriptInv holds at the start: nothing is stored and no worker is made.
LEMMA ScriptInit == Init => ScriptInv
<1> SUFFICES ASSUME Init
             PROVE  ScriptInv
  OBVIOUS
<1>1. DOMAIN NewWorker = Fields /\ NewWorker.rc = Nothing
  BY DEF NewWorker, Fields
<1>2. /\ scene \in Scenes
      /\ DOMAIN file = Apps /\ DOMAIN store = Setups /\ DOMAIN pc = Setups /\ DOMAIN w = Setups
      /\ \A a \in Apps : file[a] = Nothing
      /\ \A d \in Setups : w[d] = NewWorker /\ pc[d] = "idle" /\ store[d] = "new"
  BY DEF Init
<1>3. Shapes
  BY <1>1, <1>2 DEF Shapes
<1>4. Files
  BY <1>2 DEF Files
<1>5. \A d \in Setups : Rewritten(d)
  BY <1>1, <1>2 DEF Rewritten, Seen, Executed
<1> QED
  BY <1>3, <1>4, <1>5 DEF ScriptInv

\* The script of a set-up that has loaded it is a sequence of tokens.
LEMMA LoadedScript ==
  ASSUME ScriptInv, NEW d \in Setups, w[d].rc # Nothing
  PROVE  Code(d).text \in Seq(Tokens) /\ w[d].script = Preprocess(Code(d).text)
<1>1. /\ w[d].script = Preprocess(Code(d).text) /\ w[d].seen \in {Partial} \cup Stored
  BY DEF ScriptInv, Rewritten, Seen
<1>2. CASE w[d].seen = Partial
  <2>1. Code(d).text = <<>>
    BY <1>2 DEF Code
  <2>2. <<>> \in Seq(Tokens)
    BY SMTT(30)
  <2> QED
    BY <1>1, <2>1, <2>2
<1>3. CASE w[d].seen # Partial
  <2>1. PICK e \in Setups : w[d].seen = scene.stored[e]
    BY <1>1, <1>3 DEF Stored
  <2>2. scene.stored[e].code.text \in Seq(Tokens)
    BY StoredAssumption DEF ScriptInv, Shapes, Complete
  <2> QED
    BY <1>1, <1>3, <2>1, <2>2 DEF Code
<1> QED
  BY <1>2, <1>3

-----------------------------------------------------------------------------
(* Positions, and functions that are written from the end of a script.     *)

\* A set of naturals has a least element.
LEMMA NatLeast ==
  ASSUME NEW T, T \subseteq Nat, T # {}
  PROVE  \E x \in T : \A y \in T : x <= y
<1> DEFINE R == {ss \in Nat \X Nat : ss[1] < ss[2]}
<1>1. IsWellFoundedOn(R, Nat)
  BY NatLessThanWellFounded DEF OpToRel
<1> HIDE DEF R
<1>2. PICK x \in T : \A y \in T : ~ (<<y, x>> \in R)
  BY <1>1, WFMin
<1>3. ASSUME NEW y \in T
      PROVE  x <= y
  <2>1. <<y, x>> \notin R
    BY <1>2
  <2>2. ~ (y < x)
    BY <2>1 DEF R
  <2> QED
    BY <2>2, SMTT(30)
<1> QED
  BY <1>3

\* The leftmost of some positions.
LEMMA MinIs ==
  ASSUME NEW S, S \subseteq Nat, S # {}
  PROVE  Min(S) \in S /\ \A y \in S : Min(S) <= y
  BY NatLeast DEF Min

\* The rightmost of some positions.
LEMMA MaxIs ==
  ASSUME NEW n \in Nat, NEW S, S \subseteq 0..n, S # {}
  PROVE  Max(S) \in S /\ \A y \in S : y <= Max(S)
<1> DEFINE D == {n - x : x \in S}
<1>1. D \subseteq Nat
  <2>1. \A x \in S : n - x \in Nat
    BY SMTT(30)
  <2> QED
    BY <2>1
<1>a. D # {}
  OBVIOUS
<1>2. PICK m \in D : \A y \in D : m <= y
  BY <1>1, <1>a, NatLeast
<1>3. PICK x \in S : m = n - x
  BY <1>2
<1>4. \A y \in S : x >= y
  BY <1>2, <1>3, SMTT(30)
<1>5. Max(S) \in S /\ \A y \in S : Max(S) >= y
  BY <1>4 DEF Max
<1> QED
  BY <1>5

\* What holds at a position if it holds at all later ones holds at every position.
LEMMA Downward ==
  ASSUME NEW L \in Nat, NEW G, G \subseteq 1..(L + 1),
         \A p \in 1..(L + 1) : (\A q \in (p + 1)..(L + 1) : q \in G) => p \in G
  PROVE  G = 1..(L + 1)
<1> DEFINE B == (1..(L + 1)) \ G
<1> SUFFICES ASSUME B # {}
             PROVE  FALSE
  OBVIOUS
<1>1. B \subseteq 0..(L + 1)
  BY SMTT(30)
<1>2. Max(B) \in B /\ \A y \in B : y <= Max(B)
  BY <1>1, MaxIs, SMTT(30)
<1>3. PICK p \in B : \A y \in B : y <= p
  BY <1>2
<1>4. \A q \in (p + 1)..(L + 1) : q \in G
  BY <1>3, SMTT(30)
<1> QED
  BY <1>3, <1>4

\* A loop over a text of length L: at position p it either copies base[p] and stops, or
\* writes head[p] and goes on at next[p].
Chain(L, T, stop, base, head, next) ==
    /\ \A p \in 1..(L + 1) : p \in stop => base[p] \in Seq(T)
    /\ \A p \in 1..(L + 1) : p \notin stop => head[p] \in Seq(T)
    /\ \A p \in 1..(L + 1) : p \notin stop => next[p] \in (p + 1)..(L + 1)

\* f[p] is what the loop writes from p on.
Writes(f, L, stop, base, head, next) ==
    \A p \in 1..(L + 1) : f[p] = IF p \in stop THEN base[p] ELSE head[p] \o f[next[p]]

\* A function that the loops define by recursion towards the end of the text exists.
LEMMA ChainExists ==
  ASSUME NEW L \in Nat, NEW T, NEW stop, NEW base, NEW head, NEW next,
         Chain(L, T, stop, base, head, next)
  PROVE  \E f \in [1..(L + 1) -> Seq(T)] : Writes(f, L, stop, base, head, next)
<1> USE DEF Chain, Writes
<1> DEFINE Eq(f, p) == f[p] = IF p \in stop THEN base[p] ELSE head[p] \o f[next[p]]
           G == {p \in 1..(L + 1) : \E f \in [p..(L + 1) -> Seq(T)] : \A q \in p..(L + 1) : Eq(f, q)}
<1>1. ASSUME NEW p \in 1..(L + 1), \A q \in (p + 1)..(L + 1) : q \in G
      PROVE  p \in G
  <2>1. PICK g \in [(p + 1)..(L + 1) -> Seq(T)] : \A q \in (p + 1)..(L + 1) : Eq(g, q)
    <3>1. CASE p = L + 1
      <4>1. (p + 1)..(L + 1) = {}
        BY <3>1, SMTT(30)
      <4>2. [x \in (p + 1)..(L + 1) |-> <<>>] \in [(p + 1)..(L + 1) -> Seq(T)]
        BY <4>1
      <4> QED
        BY <4>1, <4>2
    <3>2. CASE p # L + 1
      <4>1. p + 1 \in (p + 1)..(L + 1)
        BY <3>2, SMTT(30)
      <4>2. p + 1 \in G
        BY <1>1, <4>1
      <4> QED
        BY <4>2
    <3> QED
      BY <3>1, <3>2
  <2> DEFINE v == IF p \in stop THEN base[p] ELSE head[p] \o g[next[p]]
             f == [q \in p..(L + 1) |-> IF q = p THEN v ELSE g[q]]
  <2>2. v \in Seq(T)
    <3>1. CASE p \in stop
      BY <3>1
    <3>2. CASE p \notin stop
      <4>1. head[p] \in Seq(T) /\ g[next[p]] \in Seq(T)
        BY <2>1, <3>2
      <4> QED
        BY <3>2, <4>1, ConcatProperties
    <3> QED
      BY <3>1, <3>2
  <2>3. f \in [p..(L + 1) -> Seq(T)]
    BY <2>1, <2>2, SMTT(30)
  <2>4. f[p] = v /\ \A q \in (p + 1)..(L + 1) : f[q] = g[q]
    <3> HIDE DEF v
    <3>1. p \in p..(L + 1)
      BY SMTT(30)
    <3>2. \A q \in (p + 1)..(L + 1) : q \in p..(L + 1) /\ q # p
      BY SMTT(30)
    <3> QED
      BY <3>1, <3>2
  <2>5. ASSUME NEW q \in p..(L + 1)
        PROVE  Eq(f, q)
    <3>1. q \notin stop => next[q] \in (q + 1)..(L + 1)
      BY SMTT(30)
    <3>2. q \notin stop => f[next[q]] = g[next[q]]
      BY <2>4, <3>1, SMTT(30)
    <3>3. CASE q = p
      BY <2>4, <3>2, <3>3
    <3>4. CASE q # p
      <4>1. q \in (p + 1)..(L + 1)
        BY <3>4, SMTT(30)
      <4> QED
        BY <2>1, <2>4, <3>2, <4>1
    <3> QED
      BY <3>3, <3>4
  <2> HIDE DEF f, v
  <2> QED
    BY <2>3, <2>5
<1>2. G = 1..(L + 1)
  <2> HIDE DEF G
  <2>1. G \subseteq 1..(L + 1)
    BY DEF G
  <2> QED
    BY <1>1, <2>1, Downward
<1>3. 1 \in G
  <2> HIDE DEF G
  <2>1. 1 \in 1..(L + 1)
    BY SMTT(30)
  <2> QED
    BY <1>2, <2>1
<1> QED
  BY <1>3

\* Such a function takes sequences as values.
LEMMA ChainTyped ==
  ASSUME NEW L \in Nat, NEW T, NEW stop, NEW base, NEW head, NEW next,
         Chain(L, T, stop, base, head, next),
         NEW f, Writes(f, L, stop, base, head, next)
  PROVE  \A p \in 1..(L + 1) : f[p] \in Seq(T)
<1> USE DEF Chain, Writes
<1> DEFINE G == {p \in 1..(L + 1) : f[p] \in Seq(T)}
<1>1. ASSUME NEW p \in 1..(L + 1), \A q \in (p + 1)..(L + 1) : q \in G
      PROVE  p \in G
  <2>1. CASE p \in stop
    BY <2>1
  <2>2. CASE p \notin stop
    <3>1. head[p] \in Seq(T) /\ next[p] \in (p + 1)..(L + 1)
      BY <2>2
    <3>2. f[next[p]] \in Seq(T)
      BY <1>1, <3>1
    <3>3. head[p] \o f[next[p]] \in Seq(T)
      BY <3>1, <3>2, ConcatProperties
    <3> QED
      BY <2>2, <3>3
  <2> QED
    BY <2>1, <2>2
<1>2. G = 1..(L + 1)
  <2> HIDE DEF G
  <2>1. G \subseteq 1..(L + 1)
    BY DEF G
  <2> QED
    BY <1>1, <2>1, Downward
<1> QED
  BY <1>2

-----------------------------------------------------------------------------
(* Pieces of a script.                                                     *)

Script == Seq(Tokens)

\* A piece of a script is a script, and so are two in a row.
LEMMA Piece ==
  ASSUME NEW s \in Script, NEW p \in 1..(Len(s) + 1), NEW m \in 0..Len(s)
  PROVE  /\ SubSeq(s, p, m) \in Script
         /\ Len(SubSeq(s, p, m)) = IF p <= m THEN m - p + 1 ELSE 0
         /\ \A x \in 1..(m - p + 1) : SubSeq(s, p, m)[x] = s[p + x - 1]
<1>1. Len(s) \in Nat /\ \A x \in 1..Len(s) : s[x] \in Tokens
  BY ElementOfSeq, LenProperties DEF Script
<1>2. \A x \in p..m : s[x] \in Tokens
  BY <1>1, SMTT(30)
<1>3. p \in Int /\ m \in Int
  BY <1>1, SMTT(30)
<1> QED
  BY <1>2, <1>3, SubSeqProperties, SMTT(30) DEF Script

\* A sequence of one element.
LEMMA Single ==
  ASSUME NEW S, NEW x \in S
  PROVE  <<x>> \in Seq(S) /\ Len(<<x>>) = 1 /\ <<x>>[1] = x
  BY SMTT(30)

\* A token is a script of length one.
LEMMA Token ==
  ASSUME NEW x \in Tokens
  PROVE  <<x>> \in Script /\ Len(<<x>>) = 1 /\ <<x>>[1] = x
  BY Single DEF Script

\* Two scripts one after the other: their tokens, in order.
LEMMA Cat ==
  ASSUME NEW a \in Script, NEW b \in Script
  PROVE  /\ a \o b \in Script
         /\ Len(a \o b) = Len(a) + Len(b)
         /\ \A x \in 1..Len(a) : (a \o b)[x] = a[x]
         /\ \A x \in 1..Len(b) : (a \o b)[Len(a) + x] = b[x]
<1>1. Len(a) \in Nat /\ Len(b) \in Nat
  BY LenProperties DEF Script
<1>2. /\ a \o b \in Script
      /\ Len(a \o b) = Len(a) + Len(b)
      /\ \A x \in 1..(Len(a) + Len(b)) : (a \o b)[x] = IF x <= Len(a) THEN a[x] ELSE b[x - Len(a)]
  BY ConcatProperties DEF Script
<1> QED
  BY <1>1, <1>2, SMTT(30)

Associates(a, b, c) == (a \o b) \o c = a \o (b \o c)

\* It does not matter in which order Preprocess appends the pieces of its result.
LEMMA Assoc ==
  ASSUME NEW a \in Script, NEW b \in Script, NEW c \in Script
  PROVE  Associates(a, b, c)
  BY ConcatAssociative, SMTT(30) DEF Script, Associates

\* The rest of a script after a piece of it.
LEMMA Split ==
  ASSUME NEW s \in Script, NEW p \in 1..(Len(s) + 1), NEW m \in (p - 1)..Len(s)
  PROVE  From(s, p) = SubSeq(s, p, m) \o From(s, m + 1)
<1>1. Len(s) \in Nat
  BY LenProperties DEF Script
<1>2. Len(s) \in m..Len(s)
  BY <1>1, SMTT(30)
<1> QED
  BY <1>2, ConcatAdjacentSubSeq DEF Script, From

\* The rest of a script from a position, which the loops keep in a string of their own.
LEMMA Rest ==
  ASSUME NEW s \in Script
  PROVE  /\ Len(s) \in Nat
         /\ \A x \in 1..Len(s) : s[x] \in Tokens
         /\ \A p \in 1..(Len(s) + 1) : From(s, p) \in Script
         /\ From(s, 1) = s
         /\ From(s, Len(s) + 1) = <<>>
         /\ \A p \in 1..Len(s) : From(s, p) = <<s[p]>> \o From(s, p + 1)
<1>1. Len(s) \in Nat /\ \A x \in 1..Len(s) : s[x] \in Tokens
  BY ElementOfSeq, LenProperties DEF Script
<1>2. \A p \in 1..(Len(s) + 1) : From(s, p) \in Script
  <2>1. Len(s) \in 0..Len(s)
    BY <1>1, SMTT(30)
  <2> QED
    BY <2>1, Piece DEF From
<1>3. From(s, 1) = s
  BY SubSeqFull DEF From, Script
<1>4. From(s, Len(s) + 1) = <<>>
  BY <1>1, SubSeqEmpty, SMTT(30) DEF From
<1>5. ASSUME NEW p \in 1..Len(s)
      PROVE  From(s, p) = <<s[p]>> \o From(s, p + 1)
  <2>1. Len(s) \in p..Len(s)
    BY <1>1, SMTT(30)
  <2> QED
    BY <2>1, SubSeqRecursiveFirst DEF From, Script
<1> QED
  BY <1>1, <1>2, <1>3, <1>4, <1>5


-----------------------------------------------------------------------------
(* The loops, one match at a time.                                         *)

\* What the expression for enqueue matches: the opening at i, the comma at j and the
\* parenthesis at k, all of them on one line.
EnqueueMatch(s, p, i, j, k) ==
    /\ i \in EnqueueAt(s, p) /\ \A x \in EnqueueAt(s, p) : i <= x
    /\ j \in Commas(s, i) /\ \A x \in Commas(s, i) : x <= j
    /\ k \in Closes(s, i) /\ \A x \in Closes(s, i) : x <= k
    /\ i = Min(EnqueueAt(s, p)) /\ j = Max(Commas(s, i)) /\ k = Max(Closes(s, i))
    /\ p <= i /\ i < j /\ j < k /\ k <= Len(s)
    /\ p \in 1..(Len(s) + 1) /\ i \in 1..Len(s) /\ j \in 1..Len(s) /\ k \in 1..Len(s)

\* regex_search finds such a match whenever a queue operation opens at or after p.
LEMMA EnqueueMatches ==
  ASSUME NEW s \in Script, NEW p \in 1..(Len(s) + 1), EnqueueAt(s, p) # {}
  PROVE  \E i, j, k \in 1..Len(s) : EnqueueMatch(s, p, i, j, k)
<1>0. Len(s) \in Nat
  BY Rest
<1>1. PICK i : i = Min(EnqueueAt(s, p))
  OBVIOUS
<1>2. EnqueueAt(s, p) \subseteq Nat /\ EnqueueAt(s, p) \subseteq p..Len(s)
  BY <1>0, SMTT(30) DEF EnqueueAt
<1>3. i \in EnqueueAt(s, p) /\ \A x \in EnqueueAt(s, p) : i <= x
  BY <1>1, <1>2, MinIs
<1>4. i \in p..Len(s) /\ Commas(s, i) # {}
  BY <1>2, <1>3 DEF EnqueueAt
<1>5. /\ RestOfLine(s, i) \subseteq (i + 1)..Len(s)
      /\ Commas(s, i) \subseteq RestOfLine(s, i) /\ Closes(s, i) \subseteq RestOfLine(s, i)
  BY DEF RestOfLine, Commas, Closes
<1>6. Commas(s, i) \subseteq 0..Len(s) /\ Closes(s, i) \subseteq 0..Len(s)
  BY <1>0, <1>4, <1>5, SMTT(30)
<1>7. PICK j : j = Max(Commas(s, i))
  OBVIOUS
<1>8. j \in Commas(s, i) /\ \A x \in Commas(s, i) : x <= j
  BY <1>0, <1>4, <1>6, <1>7, MaxIs
<1>9. PICK c \in Closes(s, i) : c > j
  BY <1>8 DEF Commas
<1>10. PICK k : k = Max(Closes(s, i))
  OBVIOUS
<1>11. k \in Closes(s, i) /\ \A x \in Closes(s, i) : x <= k
  BY <1>0, <1>6, <1>9, <1>10, MaxIs
<1>12. i \in 1..Len(s) /\ p <= i /\ j \in (i + 1)..Len(s) /\ k \in (i + 1)..Len(s) /\ c \in Nat
  BY <1>0, <1>4, <1>5, <1>8, <1>9, <1>11, SMTT(30)
<1>13. c <= k
  BY <1>9, <1>11
<1>14. j < k /\ j \in 1..Len(s) /\ k \in 1..Len(s) /\ i < j /\ k <= Len(s)
  BY <1>0, <1>9, <1>12, <1>13, SMTT(30)
<1> QED
  BY <1>1, <1>3, <1>7, <1>8, <1>10, <1>11, <1>12, <1>14 DEF EnqueueMatch

\* What the expression for n1ql matches.
N1qlMatch(s, p, i, k) ==
    /\ i \in N1qlAt(s, p) /\ \A x \in N1qlAt(s, p) : i <= x
    /\ k \in Ends(s, i) /\ \A x \in Ends(s, i) : x <= k
    /\ i = Min(N1qlAt(s, p)) /\ k = Max(Ends(s, i))
    /\ p <= i /\ i < k /\ k < Len(s)
    /\ p \in 1..(Len(s) + 1) /\ i \in 1..Len(s) /\ k \in 1..Len(s)

\* regex_search finds such a match whenever a query opens at or after p.
LEMMA N1qlMatches ==
  ASSUME NEW s \in Script, NEW p \in 1..(Len(s) + 1), N1qlAt(s, p) # {}
  PROVE  \E i, k \in 1..Len(s) : N1qlMatch(s, p, i, k)
<1>0. Len(s) \in Nat
  BY Rest
<1>1. PICK i : i = Min(N1qlAt(s, p))
  OBVIOUS
<1>2. N1qlAt(s, p) \subseteq Nat /\ N1qlAt(s, p) \subseteq p..Len(s)
  BY <1>0, SMTT(30) DEF N1qlAt
<1>3. i \in N1qlAt(s, p) /\ \A x \in N1qlAt(s, p) : i <= x
  BY <1>1, <1>2, MinIs
<1>4. i \in p..Len(s) /\ Ends(s, i) # {}
  BY <1>2, <1>3 DEF N1qlAt
<1>5. Ends(s, i) \subseteq (i + 1)..Len(s) /\ \A x \in Ends(s, i) : x < Len(s)
  BY DEF RestOfLine, Ends
<1>6. Ends(s, i) \subseteq 0..Len(s)
  BY <1>0, <1>4, <1>5, SMTT(30)
<1>7. PICK k : k = Max(Ends(s, i))
  OBVIOUS
<1>8. k \in Ends(s, i) /\ \A x \in Ends(s, i) : x <= k
  BY <1>0, <1>4, <1>6, <1>7, MaxIs
<1>9. i \in 1..Len(s) /\ p <= i /\ k \in 1..Len(s) /\ i < k /\ k < Len(s)
  BY <1>0, <1>4, <1>5, <1>8, SMTT(30)
<1> QED
  BY <1>1, <1>3, <1>7, <1>8, <1>9 DEF N1qlMatch

\* The texts that replace calls are scripts.
LEMMA Replacement ==
  ASSUME NEW s \in Script, NEW i \in 1..Len(s), NEW j \in 1..Len(s), NEW k \in 1..Len(s)
  PROVE  AsProperty(s, i, j, k) \in Script
<1>0. Len(s) \in Nat
  BY Rest
<1>1. i + 1 \in 1..(Len(s) + 1) /\ j + 1 \in 1..(Len(s) + 1) /\ j - 1 \in 0..Len(s) /\ k - 1 \in 0..Len(s)
  BY <1>0, SMTT(30)
<1>2. SubSeq(s, i + 1, j - 1) \in Script /\ SubSeq(s, j + 1, k - 1) \in Script
  BY <1>1, Piece
<1>a. "[" \in Tokens /\ "]" \in Tokens
  BY DEF Tokens, Delimiters
<1>3. <<"[">> \in Script /\ <<"]">> \in Script
  BY <1>a, Token
<1> QED
  BY <1>2, <1>3, Cat DEF AsProperty

\* The template literal that replaces a query is a piece of script.
LEMMA Template ==
  ASSUME NEW s \in Script, NEW i \in 1..Len(s), NEW k \in 1..Len(s)
  PROVE  AsTemplate(s, i, k) \in Script
<1>0. Len(s) \in Nat
  BY Rest
<1>1. i + 1 \in 1..(Len(s) + 1) /\ k - 1 \in 0..Len(s)
  BY <1>0, SMTT(30)
<1>2. SubSeq(s, i + 1, k - 1) \in Script
  BY <1>1, Piece
<1>a. N1qlTag \in Tokens /\ Back \in Tokens
  BY DEF Tokens, Delimiters
<1>3. <<N1qlTag>> \in Script /\ <<Back>> \in Script
  BY <1>a, Token
<1> QED
  BY <1>2, <1>3, Cat DEF AsTemplate


\* The loop over queue operations, unfolded once.
LEMMA EnqueueEq ==
  ASSUME NEW s \in Script
  PROVE  /\ EnqueueRest(s) \in [1..(Len(s) + 1) -> Script]
         /\ \A p \in 1..(Len(s) + 1) : EnqueueAt(s, p) = {} => EnqueueRest(s)[p] = From(s, p)
         /\ \A p \in 1..(Len(s) + 1) : \A i, j, k \in 1..Len(s) : EnqueueMatch(s, p, i, j, k) =>
               EnqueueRest(s)[p] = SubSeq(s, p, i - 1) \o AsProperty(s, i, j, k) \o EnqueueRest(s)[k + 1]
<1> DEFINE I(p) == Min(EnqueueAt(s, p))
           J(p) == Max(Commas(s, I(p)))
           K(p) == Max(Closes(s, I(p)))
           P == 1..(Len(s) + 1)
           stop == {p \in P : EnqueueAt(s, p) = {}}
           base == [p \in P |-> From(s, p)]
           head == [p \in P |-> SubSeq(s, p, I(p) - 1) \o AsProperty(s, I(p), J(p), K(p))]
           next == [p \in P |-> K(p) + 1]
<1>0. Len(s) \in Nat
  BY Rest
<1>1. \A p \in P : p \in stop => base[p] \in Script
  BY Rest
<1>2. ASSUME NEW p \in P, p \notin stop
      PROVE  head[p] \in Script /\ next[p] \in (p + 1)..(Len(s) + 1)
  <2>1. PICK i \in 1..Len(s), j \in 1..Len(s), k \in 1..Len(s) : EnqueueMatch(s, p, i, j, k)
    BY <1>2, EnqueueMatches
  <2>2. i = I(p) /\ j = J(p) /\ k = K(p) /\ p <= i /\ i < j /\ j < k /\ k <= Len(s)
    BY <2>1 DEF EnqueueMatch
  <2>3. i - 1 \in 0..Len(s) /\ k + 1 \in (p + 1)..(Len(s) + 1)
    BY <1>0, <2>2, SMTT(30)
  <2>4. SubSeq(s, p, i - 1) \in Script /\ AsProperty(s, i, j, k) \in Script
    BY <2>2, <2>3, Piece, Replacement
  <2>5. SubSeq(s, p, i - 1) \o AsProperty(s, i, j, k) \in Script
    BY <2>4, Cat
  <2>6. head[p] = SubSeq(s, p, i - 1) \o AsProperty(s, i, j, k) /\ next[p] = k + 1
    BY <2>2
  <2> QED
    BY <2>3, <2>5, <2>6
<1>a. Chain(Len(s), Tokens, stop, base, head, next)
  <2> HIDE DEF stop, base, head, next
  <2> QED
    BY <1>1, <1>2 DEF Script, Chain
<1>3. PICK f \in [P -> Script] : Writes(f, Len(s), stop, base, head, next)
  <2> HIDE DEF stop, base, head, next
  <2> QED
    BY <1>0, <1>a, ChainExists DEF Script
<1> DEFINE Body(g) == [p \in P |-> IF EnqueueAt(s, p) = {} THEN From(s, p)
                                   ELSE SubSeq(s, p, I(p) - 1) \o AsProperty(s, I(p), J(p), K(p)) \o g[K(p) + 1]]
<1>4. f = Body(f)
  <2>1. \A p \in P : f[p] = Body(f)[p]
    BY <1>3 DEF Writes
  <2> QED
    BY <1>3, <2>1
<1>5. EnqueueRest(s) = Body(EnqueueRest(s))
  BY <1>4 DEF EnqueueRest
<1>6. \A p \in P : EnqueueRest(s)[p] = Body(EnqueueRest(s))[p]
  <2> HIDE DEF Body
  <2> QED
    BY <1>5
<1>7. Writes(EnqueueRest(s), Len(s), stop, base, head, next)
  BY <1>6 DEF Writes
<1>8. EnqueueRest(s) \in [P -> Script]
  <2>1. \A p \in P : EnqueueRest(s)[p] \in Script
    <3> HIDE DEF stop, base, head, next
    <3> QED
      BY <1>0, <1>a, <1>7, ChainTyped DEF Script
  <2>2. \E g : EnqueueRest(s) = [p \in P |-> g[p]]
    BY <1>5
  <2> QED
    BY <2>1, <2>2
<1>9. ASSUME NEW p \in P, NEW i \in 1..Len(s), NEW j \in 1..Len(s), NEW k \in 1..Len(s),
             EnqueueMatch(s, p, i, j, k)
      PROVE  EnqueueRest(s)[p] = SubSeq(s, p, i - 1) \o AsProperty(s, i, j, k) \o EnqueueRest(s)[k + 1]
  <2>1. i = I(p) /\ j = J(p) /\ k = K(p) /\ EnqueueAt(s, p) # {}
    BY <1>9 DEF EnqueueMatch
  <2> QED
    BY <1>6, <2>1
<1> QED
  BY <1>6, <1>8, <1>9
\* The loop over n1ql calls, unfolded once.
LEMMA N1qlEq ==
  ASSUME NEW s \in Script
  PROVE  /\ N1qlRest(s) \in [1..(Len(s) + 1) -> Script]
         /\ \A p \in 1..(Len(s) + 1) : N1qlAt(s, p) = {} => N1qlRest(s)[p] = From(s, p)
         /\ \A p \in 1..(Len(s) + 1) : \A i, k \in 1..Len(s) : N1qlMatch(s, p, i, k) =>
               N1qlRest(s)[p] = SubSeq(s, p, i - 1) \o AsTemplate(s, i, k) \o N1qlRest(s)[k + 2]
<1> DEFINE I(p) == Min(N1qlAt(s, p))
           K(p) == Max(Ends(s, I(p)))
           P == 1..(Len(s) + 1)
           stop == {p \in P : N1qlAt(s, p) = {}}
           base == [p \in P |-> From(s, p)]
           head == [p \in P |-> SubSeq(s, p, I(p) - 1) \o AsTemplate(s, I(p), K(p))]
           next == [p \in P |-> K(p) + 2]
<1>0. Len(s) \in Nat
  BY Rest
<1>1. \A p \in P : p \in stop => base[p] \in Script
  BY Rest
<1>2. ASSUME NEW p \in P, p \notin stop
      PROVE  head[p] \in Script /\ next[p] \in (p + 1)..(Len(s) + 1)
  <2>1. PICK i \in 1..Len(s), k \in 1..Len(s) : N1qlMatch(s, p, i, k)
    BY <1>2, N1qlMatches
  <2>2. i = I(p) /\ k = K(p) /\ p <= i /\ i < k /\ k < Len(s)
    BY <2>1 DEF N1qlMatch
  <2>3. i - 1 \in 0..Len(s) /\ k + 2 \in (p + 1)..(Len(s) + 1)
    BY <1>0, <2>2, SMTT(30)
  <2>4. SubSeq(s, p, i - 1) \in Script /\ AsTemplate(s, i, k) \in Script
    BY <2>2, <2>3, Piece, Template
  <2>5. SubSeq(s, p, i - 1) \o AsTemplate(s, i, k) \in Script
    BY <2>4, Cat
  <2>6. head[p] = SubSeq(s, p, i - 1) \o AsTemplate(s, i, k) /\ next[p] = k + 2
    BY <2>2
  <2> QED
    BY <2>3, <2>5, <2>6
<1>a. Chain(Len(s), Tokens, stop, base, head, next)
  <2> HIDE DEF stop, base, head, next
  <2> QED
    BY <1>1, <1>2 DEF Script, Chain
<1>3. PICK f \in [P -> Script] : Writes(f, Len(s), stop, base, head, next)
  <2> HIDE DEF stop, base, head, next
  <2> QED
    BY <1>0, <1>a, ChainExists DEF Script
<1> DEFINE Body(g) == [p \in P |-> IF N1qlAt(s, p) = {} THEN From(s, p)
                                   ELSE SubSeq(s, p, I(p) - 1) \o AsTemplate(s, I(p), K(p)) \o g[K(p) + 2]]
<1>4. f = Body(f)
  <2>1. \A p \in P : f[p] = Body(f)[p]
    BY <1>3 DEF Writes
  <2> QED
    BY <1>3, <2>1
<1>5. N1qlRest(s) = Body(N1qlRest(s))
  BY <1>4 DEF N1qlRest
<1>6. \A p \in P : N1qlRest(s)[p] = Body(N1qlRest(s))[p]
  <2> HIDE DEF Body
  <2> QED
    BY <1>5
<1>7. Writes(N1qlRest(s), Len(s), stop, base, head, next)
  BY <1>6 DEF Writes
<1>8. N1qlRest(s) \in [P -> Script]
  <2>1. \A p \in P : N1qlRest(s)[p] \in Script
    <3> HIDE DEF stop, base, head, next
    <3> QED
      BY <1>0, <1>a, <1>7, ChainTyped DEF Script
  <2>2. \E g : N1qlRest(s) = [p \in P |-> g[p]]
    BY <1>5
  <2> QED
    BY <2>1, <2>2
<1>9. ASSUME NEW p \in P, NEW i \in 1..Len(s), NEW k \in 1..Len(s), N1qlMatch(s, p, i, k)
      PROVE  N1qlRest(s)[p] = SubSeq(s, p, i - 1) \o AsTemplate(s, i, k) \o N1qlRest(s)[k + 2]
  <2>1. i = I(p) /\ k = K(p) /\ N1qlAt(s, p) # {}
    BY <1>9 DEF N1qlMatch
  <2> QED
    BY <1>6, <2>1
<1> QED
  BY <1>6, <1>8, <1>9

\* The rewriting that is meant, at an enqueue, at an n1ql and elsewhere.
LEMMA MeantCases ==
  ASSUME NEW s \in Script, NEW i \in 1..Len(s)
  PROVE  /\ s[i] = EnqueueOpen /\ CommasOn(s, i) # {} /\ Closes(s, i) # {} =>
               MeantCall(s, i) = [text |-> AsProperty(s, i, Min(CommasOn(s, i)), Min(Closes(s, i))),
                                  next |-> Min(Closes(s, i)) + 1]
         /\ s[i] = N1qlOpen /\ Ends(s, i) # {} =>
               MeantCall(s, i) = [text |-> AsTemplate(s, i, Min(Ends(s, i))), next |-> Min(Ends(s, i)) + 2]
         /\ /\ ~ (s[i] = EnqueueOpen /\ CommasOn(s, i) # {} /\ Closes(s, i) # {})
            /\ ~ (s[i] = N1qlOpen /\ Ends(s, i) # {})
            => MeantCall(s, i) = [text |-> <<s[i]>>, next |-> i + 1]
<1>1. EnqueueOpen # N1qlOpen
  BY DEF EnqueueOpen, N1qlOpen
<1> QED
  BY <1>1 DEF MeantCall

\* What is meant for a token is a piece of script, and goes on after that token.
LEMMA MeantTyped ==
  ASSUME NEW s \in Script, NEW i \in 1..Len(s)
  PROVE  MeantCall(s, i).text \in Script /\ MeantCall(s, i).next \in (i + 1)..(Len(s) + 1)
<1>0. Len(s) \in Nat /\ s[i] \in Tokens
  BY Rest
<1>1. /\ RestOfLine(s, i) \subseteq (i + 1)..Len(s)
      /\ CommasOn(s, i) \subseteq RestOfLine(s, i) /\ Closes(s, i) \subseteq RestOfLine(s, i)
      /\ Ends(s, i) \subseteq RestOfLine(s, i) /\ \A x \in Ends(s, i) : x < Len(s)
  BY DEF RestOfLine, CommasOn, Closes, Ends
<1>2. (i + 1)..Len(s) \subseteq Nat /\ (i + 1)..Len(s) \subseteq 1..Len(s)
  BY <1>0, SMTT(30)
<1>3. CASE s[i] = EnqueueOpen /\ CommasOn(s, i) # {} /\ Closes(s, i) # {}
  <2>1. Min(CommasOn(s, i)) \in (i + 1)..Len(s) /\ Min(Closes(s, i)) \in (i + 1)..Len(s)
    BY <1>1, <1>2, <1>3, MinIs
  <2>2. AsProperty(s, i, Min(CommasOn(s, i)), Min(Closes(s, i))) \in Script
    BY <1>2, <2>1, Replacement
  <2>3. Min(Closes(s, i)) + 1 \in (i + 1)..(Len(s) + 1)
    BY <1>0, <2>1, SMTT(30)
  <2> QED
    BY <1>3, <2>2, <2>3, MeantCases, SMTT(30)
<1>4. CASE s[i] = N1qlOpen /\ Ends(s, i) # {}
  <2>1. Min(Ends(s, i)) \in (i + 1)..Len(s) /\ Min(Ends(s, i)) < Len(s)
    BY <1>1, <1>2, <1>4, MinIs
  <2>2. AsTemplate(s, i, Min(Ends(s, i))) \in Script
    BY <1>2, <2>1, Template
  <2>3. Min(Ends(s, i)) + 2 \in (i + 1)..(Len(s) + 1)
    BY <1>0, <2>1, SMTT(30)
  <2> QED
    BY <1>4, <2>2, <2>3, MeantCases, SMTT(30)
<1>5. CASE /\ ~ (s[i] = EnqueueOpen /\ CommasOn(s, i) # {} /\ Closes(s, i) # {})
           /\ ~ (s[i] = N1qlOpen /\ Ends(s, i) # {})
  <2>1. <<s[i]>> \in Script
    BY <1>0, Token
  <2>2. i + 1 \in (i + 1)..(Len(s) + 1)
    BY <1>0, SMTT(30)
  <2> QED
    BY <1>5, <2>1, <2>2, MeantCases, SMTT(30)
<1> QED
  BY <1>3, <1>4, <1>5

\* Meant, unfolded by one token or call.
LEMMA MeantEq ==
  ASSUME NEW s \in Script
  PROVE  /\ MeantRest(s) \in [1..(Len(s) + 1) -> Script]
         /\ MeantRest(s)[Len(s) + 1] = <<>>
         /\ \A p \in 1..Len(s) :
               MeantRest(s)[p] = MeantCall(s, p).text \o MeantRest(s)[MeantCall(s, p).next]
<1> DEFINE P == 1..(Len(s) + 1)
           stop == {Len(s) + 1}
           base == [p \in P |-> <<>>]
           head == [p \in P |-> MeantCall(s, p).text]
           next == [p \in P |-> MeantCall(s, p).next]
<1>0. Len(s) \in Nat /\ <<>> \in Script /\ Len(s) + 1 \in P
  BY Rest, SMTT(30) DEF Script
<1>1. ASSUME NEW p \in P
      PROVE  (p \in stop <=> p > Len(s)) /\ (p \notin stop <=> p \in 1..Len(s))
  BY <1>0, SMTT(30)
<1>2. Chain(Len(s), Tokens, stop, base, head, next)
  <2>1. \A p \in P : p \in stop => base[p] \in Script
    BY <1>0
  <2>2. \A p \in P : p \notin stop => head[p] \in Script /\ next[p] \in (p + 1)..(Len(s) + 1)
    BY <1>1, MeantTyped
  <2> HIDE DEF stop, base, head, next
  <2> QED
    BY <2>1, <2>2 DEF Script, Chain
<1>3. PICK f \in [P -> Script] : Writes(f, Len(s), stop, base, head, next)
  <2> HIDE DEF stop, base, head, next
  <2> QED
    BY <1>0, <1>2, ChainExists DEF Script
<1> DEFINE Body(g) == [p \in P |-> IF p > Len(s) THEN <<>>
                                   ELSE MeantCall(s, p).text \o g[MeantCall(s, p).next]]
<1>4. f = Body(f)
  <2>1. \A p \in P : f[p] = Body(f)[p]
    BY <1>1, <1>3 DEF Writes
  <2> QED
    BY <1>3, <2>1
<1>5. MeantRest(s) = Body(MeantRest(s))
  BY <1>4 DEF MeantRest
<1>6. \A p \in P : MeantRest(s)[p] = Body(MeantRest(s))[p]
  <2> HIDE DEF Body
  <2> QED
    BY <1>5
<1>7. Writes(MeantRest(s), Len(s), stop, base, head, next)
  BY <1>1, <1>6 DEF Writes
<1>8. MeantRest(s) \in [P -> Script]
  <2>1. \A p \in P : MeantRest(s)[p] \in Script
    <3> HIDE DEF stop, base, head, next
    <3> QED
      BY <1>0, <1>2, <1>7, ChainTyped DEF Script
  <2>2. \E g : MeantRest(s) = [p \in P |-> g[p]]
    BY <1>5
  <2> QED
    BY <2>1, <2>2
<1>9. \A p \in 1..Len(s) : p \in P /\ ~ (p > Len(s))
  BY <1>0, SMTT(30)
<1>10. Len(s) + 1 > Len(s)
  BY <1>0, SMTT(30)
<1> QED
  BY <1>0, <1>6, <1>8, <1>9, <1>10

-----------------------------------------------------------------------------
(* The words of a script.                                                  *)

\* What is left of one token.
WordOf(x) == IF IsWord(x) THEN <<x>> ELSE <<>>

\* What a token adds to the words of a script is a piece of script.
LEMMA WordOfTyped ==
  ASSUME NEW x \in Tokens
  PROVE  WordOf(x) \in Script
<1>1. <<>> \in Script
  BY SMTT(30) DEF Script
<1>2. <<x>> \in Script
  BY Token
<1> QED
  BY <1>1, <1>2 DEF WordOf

\* Words, unfolded by one token.
LEMMA WordsEq ==
  ASSUME NEW s \in Script
  PROVE  /\ WordsRest(s) \in [1..(Len(s) + 1) -> Script]
         /\ WordsRest(s)[Len(s) + 1] = <<>>
         /\ \A p \in 1..Len(s) : WordsRest(s)[p] = WordOf(s[p]) \o WordsRest(s)[p + 1]
<1> DEFINE P == 1..(Len(s) + 1)
           stop == {Len(s) + 1}
           base == [p \in P |-> <<>>]
           head == [p \in P |-> WordOf(s[p])]
           next == [p \in P |-> p + 1]
<1>0. Len(s) \in Nat /\ <<>> \in Script /\ Len(s) + 1 \in P
  BY Rest, SMTT(30) DEF Script
<1>1. ASSUME NEW p \in P
      PROVE  (p \in stop <=> p > Len(s)) /\ (p \notin stop <=> p \in 1..Len(s))
  BY <1>0, SMTT(30)
<1>2. Chain(Len(s), Tokens, stop, base, head, next)
  <2>1. \A p \in P : p \in stop => base[p] \in Script
    BY <1>0
  <2>2. \A p \in P : p \notin stop => head[p] \in Script
    BY <1>1, Rest, WordOfTyped
  <2>3. \A p \in P : p \notin stop => next[p] \in (p + 1)..(Len(s) + 1)
    BY <1>0, <1>1, SMTT(30)
  <2> HIDE DEF stop, base, head, next
  <2> QED
    BY <2>1, <2>2, <2>3 DEF Script, Chain
<1>3. PICK f \in [P -> Script] : Writes(f, Len(s), stop, base, head, next)
  <2> HIDE DEF stop, base, head, next
  <2> QED
    BY <1>0, <1>2, ChainExists DEF Script
<1> DEFINE Body(g) == [p \in P |-> IF p > Len(s) THEN <<>>
                                   ELSE (IF IsWord(s[p]) THEN <<s[p]>> ELSE <<>>) \o g[p + 1]]
<1>4. f = Body(f)
  <2>1. \A p \in P : f[p] = Body(f)[p]
    BY <1>1, <1>3 DEF Writes, WordOf
  <2> QED
    BY <1>3, <2>1
<1>5. WordsRest(s) = Body(WordsRest(s))
  BY <1>4 DEF WordsRest
<1>6. \A p \in P : WordsRest(s)[p] = Body(WordsRest(s))[p]
  <2> HIDE DEF Body
  <2> QED
    BY <1>5
<1>7. Writes(WordsRest(s), Len(s), stop, base, head, next)
  BY <1>1, <1>6 DEF Writes, WordOf
<1>8. WordsRest(s) \in [P -> Script]
  <2>1. \A p \in P : WordsRest(s)[p] \in Script
    <3> HIDE DEF stop, base, head, next
    <3> QED
      BY <1>0, <1>2, <1>7, ChainTyped DEF Script
  <2>2. \E g : WordsRest(s) = [p \in P |-> g[p]]
    BY <1>5
  <2> QED
    BY <2>1, <2>2
<1>9. \A p \in 1..Len(s) : p \in P /\ ~ (p > Len(s))
  BY <1>0, SMTT(30)
<1>10. Len(s) + 1 > Len(s)
  BY <1>0, SMTT(30)
<1> QED
  BY <1>0, <1>6, <1>8, <1>9, <1>10 DEF WordOf

\* Appending an empty piece changes nothing.
LEMMA Empty ==
  ASSUME NEW a \in Script
  PROVE  <<>> \in Script /\ <<>> \o a = a /\ a \o <<>> = a
  BY ConcatEmptySeq, SMTT(30) DEF Script

\* The words of a script are a script.
LEMMA WordsTyped ==
  ASSUME NEW s \in Script
  PROVE  Words(s) \in Script
<1>1. 1 \in 1..(Len(s) + 1)
  BY Rest, SMTT(30)
<1> QED
  BY <1>1, WordsEq DEF Words

\* The words of two pieces in a row are those of the first and then those of the second.
LEMMA WordsCat ==
  ASSUME NEW a \in Script, NEW b \in Script
  PROVE  Words(a \o b) = Words(a) \o Words(b)
<1> DEFINE s == a \o b
           A == Len(a)
           B == Len(b)
<1>0. A \in Nat /\ B \in Nat /\ s \in Script /\ Len(s) = A + B
  BY Rest, Cat
<1> DEFINE G == {q \in 1..(B + 1) : WordsRest(s)[A + q] = WordsRest(b)[q]}
<1>1. ASSUME NEW q \in 1..(B + 1), \A x \in (q + 1)..(B + 1) : x \in G
      PROVE  q \in G
  <2>1. CASE q = B + 1
    <3>1. A + q = Len(s) + 1
      BY <1>0, <2>1, SMTT(30)
    <3> QED
      BY <1>0, <2>1, <3>1, WordsEq
  <2>2. CASE q # B + 1
    <3>1. q \in 1..B /\ A + q \in 1..Len(s) /\ q + 1 \in (q + 1)..(B + 1) /\ (A + q) + 1 = A + (q + 1)
      BY <1>0, <2>2, SMTT(30)
    <3>2. WordsRest(s)[A + q] = WordOf(s[A + q]) \o WordsRest(s)[A + (q + 1)]
      BY <1>0, <3>1, WordsEq
    <3>3. WordsRest(b)[q] = WordOf(b[q]) \o WordsRest(b)[q + 1]
      BY <3>1, WordsEq
    <3>4. s[A + q] = b[q]
      BY <3>1, Cat
    <3>5. WordsRest(s)[A + (q + 1)] = WordsRest(b)[q + 1]
      BY <1>1, <3>1
    <3> HIDE DEF s, A, B
    <3> QED
      BY <3>2, <3>3, <3>4, <3>5
  <2> QED
    BY <2>1, <2>2
<1>2. G = 1..(B + 1)
  <2> HIDE DEF G
  <2>1. G \subseteq 1..(B + 1)
    BY DEF G
  <2> QED
    BY <1>0, <1>1, <2>1, Downward
<1>3. WordsRest(s)[A + 1] = Words(b)
  <2>1. 1 \in 1..(B + 1)
    BY <1>0, SMTT(30)
  <2> QED
    BY <1>2, <2>1 DEF Words
<1> DEFINE H == {p \in 1..(A + 1) : WordsRest(s)[p] = WordsRest(a)[p] \o Words(b)}
<1>4. ASSUME NEW p \in 1..(A + 1), \A x \in (p + 1)..(A + 1) : x \in H
      PROVE  p \in H
  <2>1. CASE p = A + 1
    <3>1. WordsRest(a)[p] = <<>>
      BY <2>1, WordsEq
    <3>2. <<>> \o Words(b) = Words(b)
      BY WordsTyped, Empty
    <3> QED
      BY <1>3, <2>1, <3>1, <3>2
  <2>2. CASE p # A + 1
    <3>1. p \in 1..A /\ p \in 1..Len(s) /\ p + 1 \in (p + 1)..(A + 1) /\ p + 1 \in 1..(A + 1)
      BY <1>0, <2>2, SMTT(30)
    <3>2. WordsRest(s)[p] = WordOf(s[p]) \o WordsRest(s)[p + 1]
      BY <1>0, <3>1, WordsEq
    <3>3. WordsRest(a)[p] = WordOf(a[p]) \o WordsRest(a)[p + 1]
      BY <3>1, WordsEq
    <3>4. s[p] = a[p]
      BY <3>1, Cat
    <3>5. WordsRest(s)[p + 1] = WordsRest(a)[p + 1] \o Words(b)
      BY <1>4, <3>1
    <3>6. WordOf(a[p]) \in Script /\ WordsRest(a)[p + 1] \in Script /\ Words(b) \in Script
      BY <3>1, Rest, WordOfTyped, WordsEq, WordsTyped
    <3>7. (WordOf(a[p]) \o WordsRest(a)[p + 1]) \o Words(b) = WordOf(a[p]) \o (WordsRest(a)[p + 1] \o Words(b))
      <4>1. Associates(WordOf(a[p]), WordsRest(a)[p + 1], Words(b))
        BY <3>6, Assoc
      <4> QED
        BY <4>1 DEF Associates
    <3>8. WordsRest(s)[p] = WordsRest(a)[p] \o Words(b)
      <4> HIDE DEF s
      <4> QED
        BY <3>2, <3>3, <3>4, <3>5, <3>7
    <3> QED
      BY <3>8
  <2> QED
    BY <2>1, <2>2
<1>5. H = 1..(A + 1)
  <2> HIDE DEF H
  <2>1. H \subseteq 1..(A + 1)
    BY DEF H
  <2> QED
    BY <1>0, <1>4, <2>1, Downward
<1>6. 1 \in 1..(A + 1)
  BY <1>0, SMTT(30)
<1> QED
  BY <1>5, <1>6 DEF Words

\* A delimiter has no words.
LEMMA WordsDelimiter ==
  ASSUME NEW x \in Tokens, x \in Delimiters
  PROVE  <<x>> \in Script /\ Words(<<x>>) = <<>>
<1>1. <<x>> \in Script /\ Len(<<x>>) = 1 /\ <<x>>[1] = x
  BY Token
<1>2. 1 \in 1..1 /\ 1 + 1 = 2
  BY SMTT(30)
<1>3. WordsRest(<<x>>)[1] = WordOf(x) \o WordsRest(<<x>>)[2] /\ WordsRest(<<x>>)[2] = <<>>
  BY <1>1, <1>2, WordsEq
<1>4. WordOf(x) = <<>>
  BY DEF WordOf, IsWord
<1>5. <<>> \o <<>> = <<>>
  BY <1>1, Empty
<1> QED
  BY <1>1, <1>3, <1>4, <1>5 DEF Words

\* So a delimiter before a text, or after it, changes no words.
LEMMA WordsAround ==
  ASSUME NEW x \in Tokens, x \in Delimiters, NEW a \in Script
  PROVE  /\ <<x>> \o a \in Script /\ Words(<<x>> \o a) = Words(a)
         /\ a \o <<x>> \in Script /\ Words(a \o <<x>>) = Words(a)
<1>1. <<x>> \in Script /\ Words(<<x>>) = <<>> /\ Words(a) \in Script
  BY WordsDelimiter, WordsTyped
<1>2. Words(<<x>> \o a) = <<>> \o Words(a) /\ Words(a \o <<x>>) = Words(a) \o <<>>
  BY <1>1, WordsCat
<1> QED
  BY <1>1, <1>2, Cat, Empty

\* Words(a \o (<<x>> \o b)) for a delimiter x.
LEMMA WordsOver ==
  ASSUME NEW a \in Script, NEW x \in Tokens, x \in Delimiters, NEW b \in Script
  PROVE  a \o (<<x>> \o b) \in Script /\ Words(a \o (<<x>> \o b)) = Words(a) \o Words(b)
<1>1. <<x>> \o b \in Script /\ Words(<<x>> \o b) = Words(b)
  BY WordsAround
<1>2. a \o (<<x>> \o b) \in Script
  BY <1>1, Cat
<1>3. Words(a \o (<<x>> \o b)) = Words(a) \o Words(<<x>> \o b)
  BY <1>1, WordsCat
<1> QED
  BY <1>1, <1>2, <1>3

\* The text after a position, cut at a later token.
LEMMA SplitAt ==
  ASSUME NEW s \in Script, NEW p \in 1..(Len(s) + 1), NEW i \in 1..Len(s), p <= i
  PROVE  /\ From(s, p) = SubSeq(s, p, i - 1) \o (<<s[i]>> \o From(s, i + 1))
         /\ SubSeq(s, p, i - 1) \in Script /\ s[i] \in Tokens /\ From(s, i + 1) \in Script
<1>0. Len(s) \in Nat
  BY Rest
<1>1. i - 1 \in (p - 1)..Len(s) /\ i - 1 \in 0..Len(s) /\ (i - 1) + 1 = i /\ i + 1 \in 1..(Len(s) + 1)
  BY <1>0, SMTT(30)
<1>2. From(s, p) = SubSeq(s, p, i - 1) \o From(s, (i - 1) + 1)
  BY <1>1, Split
<1>3. From(s, i) = <<s[i]>> \o From(s, i + 1) /\ s[i] \in Tokens /\ From(s, i + 1) \in Script
  BY <1>1, Rest
<1>4. SubSeq(s, p, i - 1) \in Script
  BY <1>1, Piece
<1> QED
  BY <1>1, <1>2, <1>3, <1>4

\* The words of the text that follows p, when a delimiter stands at i.
LEMMA WordsFrom ==
  ASSUME NEW s \in Script, NEW p \in 1..(Len(s) + 1), NEW i \in 1..Len(s), p <= i, s[i] \in Delimiters
  PROVE  Words(From(s, p)) = Words(SubSeq(s, p, i - 1)) \o Words(From(s, i + 1))
<1> DEFINE a == SubSeq(s, p, i - 1)
           b == From(s, i + 1)
<1>1. From(s, p) = a \o (<<s[i]>> \o b) /\ a \in Script /\ s[i] \in Tokens /\ b \in Script
  BY SplitAt
<1> HIDE DEF a, b
<1>2. Words(a \o (<<s[i]>> \o b)) = Words(a) \o Words(b)
  BY <1>1, WordsOver
<1> QED
  BY <1>1, <1>2 DEF a, b

\* An alias[doc] has the words of the call that it replaces.
LEMMA WordsProperty ==
  ASSUME NEW s \in Script, NEW i \in 1..Len(s), NEW j \in 1..Len(s), NEW k \in 1..Len(s)
  PROVE  /\ Words(AsProperty(s, i, j, k)) = Words(SubSeq(s, i + 1, j - 1)) \o Words(SubSeq(s, j + 1, k - 1))
         /\ SubSeq(s, i + 1, j - 1) \in Script /\ SubSeq(s, j + 1, k - 1) \in Script
<1>0. Len(s) \in Nat
  BY Rest
<1>1. i + 1 \in 1..(Len(s) + 1) /\ j + 1 \in 1..(Len(s) + 1) /\ j - 1 \in 0..Len(s) /\ k - 1 \in 0..Len(s)
  BY <1>0, SMTT(30)
<1> DEFINE a == SubSeq(s, i + 1, j - 1)
           b == SubSeq(s, j + 1, k - 1)
<1>2. a \in Script /\ b \in Script
  BY <1>1, Piece
<1>3. "[" \in Tokens /\ "]" \in Tokens /\ "[" \in Delimiters /\ "]" \in Delimiters
  BY DEF Tokens, Delimiters
<1>4. AsProperty(s, i, j, k) = ((a \o <<"[">>) \o b) \o <<"]">>
  BY DEF AsProperty
<1> HIDE DEF a, b
<1>5. a \o <<"[">> \in Script /\ Words(a \o <<"[">>) = Words(a)
  BY <1>2, <1>3, WordsAround
<1>6. (a \o <<"[">>) \o b \in Script /\ Words((a \o <<"[">>) \o b) = Words(a) \o Words(b)
  BY <1>2, <1>5, Cat, WordsCat
<1>7. Words(((a \o <<"[">>) \o b) \o <<"]">>) = Words(a) \o Words(b)
  BY <1>3, <1>6, WordsAround
<1> QED
  BY <1>2, <1>4, <1>7 DEF a, b

\* A template literal has the words of the call that it replaces.
LEMMA WordsTemplate ==
  ASSUME NEW s \in Script, NEW i \in 1..Len(s), NEW k \in 1..Len(s)
  PROVE  Words(AsTemplate(s, i, k)) = Words(SubSeq(s, i + 1, k - 1)) /\ SubSeq(s, i + 1, k - 1) \in Script
<1>0. Len(s) \in Nat
  BY Rest
<1>1. i + 1 \in 1..(Len(s) + 1) /\ k - 1 \in 0..Len(s)
  BY <1>0, SMTT(30)
<1> DEFINE a == SubSeq(s, i + 1, k - 1)
<1>2. a \in Script
  BY <1>1, Piece
<1>3. N1qlTag \in Tokens /\ Back \in Tokens /\ N1qlTag \in Delimiters /\ Back \in Delimiters
  BY DEF Tokens, Delimiters
<1>4. AsTemplate(s, i, k) = (<<N1qlTag>> \o a) \o <<Back>>
  BY DEF AsTemplate
<1> HIDE DEF a
<1>5. <<N1qlTag>> \o a \in Script /\ Words(<<N1qlTag>> \o a) = Words(a)
  BY <1>2, <1>3, WordsAround
<1>6. Words((<<N1qlTag>> \o a) \o <<Back>>) = Words(a)
  BY <1>3, <1>5, WordsAround
<1> QED
  BY <1>2, <1>4, <1>6 DEF a

\* The loop over queue operations moves words nowhere: it neither drops nor adds one.
LEMMA EnqueueKeepsWords ==
  ASSUME NEW s \in Script
  PROVE  Enqueue(s) \in Script /\ Words(Enqueue(s)) = Words(s)
<1> DEFINE R == EnqueueRest(s)
           G == {p \in 1..(Len(s) + 1) : Words(R[p]) = Words(From(s, p))}
<1>0. Len(s) \in Nat
  BY Rest
<1>1. ASSUME NEW p \in 1..(Len(s) + 1), \A q \in (p + 1)..(Len(s) + 1) : q \in G
      PROVE  p \in G
  <2>1. CASE EnqueueAt(s, p) = {}
    BY <2>1, EnqueueEq
  <2>2. CASE EnqueueAt(s, p) # {}
    <3>1. PICK i \in 1..Len(s), j \in 1..Len(s), k \in 1..Len(s) : EnqueueMatch(s, p, i, j, k)
      BY <2>2, EnqueueMatches
    <3>2. p <= i /\ i < j /\ j < k /\ s[i] = EnqueueOpen /\ s[j] = Comma /\ s[k] = Close
      BY <3>1 DEF EnqueueMatch, EnqueueAt, Commas, Closes
    <3>3. s[i] \in Delimiters /\ s[j] \in Delimiters /\ s[k] \in Delimiters
      BY <3>2 DEF Delimiters
    <3>4. /\ i + 1 \in 1..(Len(s) + 1) /\ i + 1 <= j /\ j + 1 \in 1..(Len(s) + 1) /\ j + 1 <= k
          /\ k + 1 \in (p + 1)..(Len(s) + 1) /\ k + 1 \in 1..(Len(s) + 1) /\ i - 1 \in 0..Len(s)
      BY <1>0, <3>2, SMTT(30)
    <3> DEFINE a == SubSeq(s, p, i - 1)
               b == SubSeq(s, i + 1, j - 1)
               c == SubSeq(s, j + 1, k - 1)
               r == AsProperty(s, i, j, k)
               d == From(s, k + 1)
    <3>5. a \in Script /\ b \in Script /\ c \in Script /\ r \in Script /\ d \in Script /\ R[k + 1] \in Script
      BY <3>4, Piece, WordsProperty, Replacement, Rest, EnqueueEq
    <3>6. R[p] = (a \o r) \o R[k + 1]
      BY <3>1, EnqueueEq
    <3>7. Words(r) = Words(b) \o Words(c)
      BY WordsProperty
    <3>8. Words(From(s, p)) = Words(a) \o Words(From(s, i + 1))
      BY <3>2, <3>3, WordsFrom
    <3>9. Words(From(s, i + 1)) = Words(b) \o Words(From(s, j + 1))
      BY <3>3, <3>4, WordsFrom
    <3>10. Words(From(s, j + 1)) = Words(c) \o Words(d)
      BY <3>3, <3>4, WordsFrom
    <3>11. Words(R[k + 1]) = Words(d)
      BY <1>1, <3>4
    <3> HIDE DEF a, b, c, r, d, R
    <3>12. Words((a \o r) \o R[k + 1]) = (Words(a) \o (Words(b) \o Words(c))) \o Words(d)
      <4>1. a \o r \in Script /\ Words(a \o r) = Words(a) \o Words(r)
        BY <3>5, Cat, WordsCat
      <4>2. Words((a \o r) \o R[k + 1]) = Words(a \o r) \o Words(R[k + 1])
        BY <3>5, <4>1, WordsCat
      <4> QED
        BY <3>7, <3>11, <4>1, <4>2
    <3>13. Words(a) \in Script /\ Words(b) \in Script /\ Words(c) \in Script /\ Words(d) \in Script
      BY <3>5, WordsTyped
    <3>14. (Words(a) \o (Words(b) \o Words(c))) \o Words(d) = Words(a) \o (Words(b) \o (Words(c) \o Words(d)))
      <4>1. Words(b) \o Words(c) \in Script
        BY <3>13, Cat
      <4>2. (Words(a) \o (Words(b) \o Words(c))) \o Words(d) = Words(a) \o ((Words(b) \o Words(c)) \o Words(d))
        <5>1. Associates(Words(a), Words(b) \o Words(c), Words(d))
          BY <3>13, <4>1, Assoc
        <5> QED
          BY <5>1 DEF Associates
      <4>3. (Words(b) \o Words(c)) \o Words(d) = Words(b) \o (Words(c) \o Words(d))
        <5>1. Associates(Words(b), Words(c), Words(d))
          BY <3>13, Assoc
        <5> QED
          BY <5>1 DEF Associates
      <4> QED
        BY <4>2, <4>3
    <3>15. Words(R[p]) = Words(From(s, p))
      BY <3>6, <3>8, <3>9, <3>10, <3>12, <3>14
    <3> QED
      BY <3>15 DEF R
  <2> QED
    BY <2>1, <2>2
<1>2. G = 1..(Len(s) + 1)
  <2> HIDE DEF G
  <2>1. G \subseteq 1..(Len(s) + 1)
    BY DEF G
  <2> QED
    BY <1>0, <1>1, <2>1, Downward
<1>3. 1 \in 1..(Len(s) + 1)
  BY <1>0, SMTT(30)
<1>4. Words(R[1]) = Words(From(s, 1))
  BY <1>2, <1>3
<1> QED
  BY <1>3, <1>4, EnqueueEq, Rest DEF Enqueue

\* Neither does the loop over n1ql calls.
LEMMA N1qlKeepsWords ==
  ASSUME NEW s \in Script
  PROVE  N1ql(s) \in Script /\ Words(N1ql(s)) = Words(s)
<1> DEFINE R == N1qlRest(s)
           G == {p \in 1..(Len(s) + 1) : Words(R[p]) = Words(From(s, p))}
<1>0. Len(s) \in Nat
  BY Rest
<1>1. ASSUME NEW p \in 1..(Len(s) + 1), \A q \in (p + 1)..(Len(s) + 1) : q \in G
      PROVE  p \in G
  <2>1. CASE N1qlAt(s, p) = {}
    BY <2>1, N1qlEq
  <2>2. CASE N1qlAt(s, p) # {}
    <3>1. PICK i \in 1..Len(s), k \in 1..Len(s) : N1qlMatch(s, p, i, k)
      BY <2>2, N1qlMatches
    <3>2. p <= i /\ i < k /\ k < Len(s) /\ s[i] = N1qlOpen /\ s[k] = Quote /\ s[k + 1] = Close
      BY <3>1 DEF N1qlMatch, N1qlAt, Ends
    <3>3. s[i] \in Delimiters /\ s[k] \in Delimiters /\ s[k + 1] \in Delimiters
      BY <3>2 DEF Delimiters
    <3>4. /\ i + 1 \in 1..(Len(s) + 1) /\ i + 1 <= k /\ k + 1 \in 1..(Len(s) + 1) /\ k + 1 \in 1..Len(s)
          /\ k + 1 <= k + 1 /\ (k + 1) + 1 = k + 2 /\ (k + 1) - 1 = k
          /\ k + 2 \in (p + 1)..(Len(s) + 1) /\ k + 2 \in 1..(Len(s) + 1) /\ i - 1 \in 0..Len(s)
      BY <1>0, <3>2, SMTT(30)
    <3> DEFINE a == SubSeq(s, p, i - 1)
               b == SubSeq(s, i + 1, k - 1)
               r == AsTemplate(s, i, k)
               d == From(s, k + 2)
    <3>5. a \in Script /\ b \in Script /\ r \in Script /\ d \in Script /\ R[k + 2] \in Script
      BY <3>4, Piece, WordsTemplate, Template, Rest, N1qlEq
    <3>6. R[p] = (a \o r) \o R[k + 2]
      BY <3>1, N1qlEq
    <3>7. Words(r) = Words(b)
      BY WordsTemplate
    <3>8. Words(From(s, p)) = Words(a) \o Words(From(s, i + 1))
      BY <3>2, <3>3, WordsFrom
    <3>9. Words(From(s, i + 1)) = Words(b) \o Words(From(s, k + 1))
      BY <3>3, <3>4, WordsFrom
    <3>10. Words(From(s, k + 1)) = Words(d)
      <4>1. From(s, k + 1) = <<s[k + 1]>> \o d /\ s[k + 1] \in Tokens
        BY <3>4, Rest
      <4> QED
        BY <3>3, <3>5, <4>1, WordsAround
    <3>11. Words(R[k + 2]) = Words(d)
      BY <1>1, <3>4
    <3> HIDE DEF a, b, r, d, R
    <3>12. Words((a \o r) \o R[k + 2]) = (Words(a) \o Words(b)) \o Words(d)
      <4>1. a \o r \in Script /\ Words(a \o r) = Words(a) \o Words(r)
        BY <3>5, Cat, WordsCat
      <4>2. Words((a \o r) \o R[k + 2]) = Words(a \o r) \o Words(R[k + 2])
        BY <3>5, <4>1, WordsCat
      <4> QED
        BY <3>7, <3>11, <4>1, <4>2
    <3>13. Words(a) \in Script /\ Words(b) \in Script /\ Words(d) \in Script
      BY <3>5, WordsTyped
    <3>14. (Words(a) \o Words(b)) \o Words(d) = Words(a) \o (Words(b) \o Words(d))
      <4>1. Associates(Words(a), Words(b), Words(d))
        BY <3>13, Assoc
      <4> QED
        BY <4>1 DEF Associates
    <3>15. Words(R[p]) = Words(From(s, p))
      BY <3>6, <3>8, <3>9, <3>10, <3>12, <3>14
    <3> QED
      BY <3>15 DEF R
  <2> QED
    BY <2>1, <2>2
<1>2. G = 1..(Len(s) + 1)
  <2> HIDE DEF G
  <2>1. G \subseteq 1..(Len(s) + 1)
    BY DEF G
  <2> QED
    BY <1>0, <1>1, <2>1, Downward
<1>3. 1 \in 1..(Len(s) + 1)
  BY <1>0, SMTT(30)
<1>4. Words(R[1]) = Words(From(s, 1))
  BY <1>2, <1>3
<1> QED
  BY <1>3, <1>4, N1qlEq, Rest DEF N1ql

\* Both passes together keep the words of every script, in their order.
THEOREM PreprocessKeepsWords ==
  ASSUME NEW s \in Seq(Tokens)
  PROVE  Preprocess(s) \in Seq(Tokens) /\ Words(Preprocess(s)) = Words(s)
<1>1. s \in Script
  BY DEF Script
<1>2. Enqueue(s) \in Script /\ Words(Enqueue(s)) = Words(s)
  BY <1>1, EnqueueKeepsWords
<1> QED
  BY <1>2, N1qlKeepsWords DEF Preprocess, Script

-----------------------------------------------------------------------------
(* The loops, one token at a time.                                         *)

\* The loop over queue operations writes a script.
LEMMA EnqueueTyped ==
  ASSUME NEW s \in Script, NEW p \in 1..(Len(s) + 1)
  PROVE  EnqueueRest(s)[p] \in Script
  BY EnqueueEq

\* Without a match, the loop over queue operations copies the rest.
LEMMA EnqueueNone ==
  ASSUME NEW s \in Script, NEW p \in 1..(Len(s) + 1), EnqueueAt(s, p) = {}
  PROVE  EnqueueRest(s)[p] = From(s, p)
  BY EnqueueEq

\* What the loop writes at a match.
EnqueueWrites(s, p, i, j, k) ==
    EnqueueRest(s)[p] = (SubSeq(s, p, i - 1) \o AsProperty(s, i, j, k)) \o EnqueueRest(s)[k + 1]

\* At a match, the loop over queue operations copies the prefix and rewrites the call.
LEMMA EnqueueOn ==
  ASSUME NEW s \in Script, NEW p, NEW i, NEW j, NEW k, EnqueueMatch(s, p, i, j, k)
  PROVE  EnqueueWrites(s, p, i, j, k)
<1>1. p \in 1..(Len(s) + 1) /\ i \in 1..Len(s) /\ j \in 1..Len(s) /\ k \in 1..Len(s)
  BY DEF EnqueueMatch
<1> QED
  BY <1>1, EnqueueEq DEF EnqueueWrites

\* The loop over queries writes a script.
LEMMA N1qlTyped ==
  ASSUME NEW s \in Script, NEW p \in 1..(Len(s) + 1)
  PROVE  N1qlRest(s)[p] \in Script
  BY N1qlEq

\* Without a match, the loop over queries copies the rest.
LEMMA N1qlNone ==
  ASSUME NEW s \in Script, NEW p \in 1..(Len(s) + 1), N1qlAt(s, p) = {}
  PROVE  N1qlRest(s)[p] = From(s, p)
  BY N1qlEq

\* What the loop writes at a match.
N1qlWrites(s, p, i, k) ==
    N1qlRest(s)[p] = (SubSeq(s, p, i - 1) \o AsTemplate(s, i, k)) \o N1qlRest(s)[k + 2]

\* At a match, the loop over queries copies the prefix and rewrites the call.
LEMMA N1qlOn ==
  ASSUME NEW s \in Script, NEW p, NEW i, NEW k, N1qlMatch(s, p, i, k)
  PROVE  N1qlWrites(s, p, i, k)
<1>1. p \in 1..(Len(s) + 1) /\ i \in 1..Len(s) /\ k \in 1..Len(s)
  BY DEF N1qlMatch
<1> QED
  BY <1>1, N1qlEq DEF N1qlWrites

\* Where no call opens, the loop over queue operations copies the token.
LEMMA EnqueueStep ==
  ASSUME NEW s \in Script, NEW p \in 1..Len(s), ~ (s[p] = EnqueueOpen /\ Commas(s, p) # {})
  PROVE  EnqueueRest(s)[p] = <<s[p]>> \o EnqueueRest(s)[p + 1]
<1> DEFINE R == EnqueueRest(s)
<1>0. Len(s) \in Nat
  BY Rest
<1>1. p \in 1..(Len(s) + 1) /\ p + 1 \in 1..(Len(s) + 1)
  BY <1>0, SMTT(30)
<1>2. EnqueueAt(s, p) = EnqueueAt(s, p + 1)
  <2>1. \A i : i \in p..Len(s) <=> i = p \/ i \in (p + 1)..Len(s)
    BY <1>0, SMTT(30)
  <2>2. \A i : i \in EnqueueAt(s, p) <=> i \in p..Len(s) /\ s[i] = EnqueueOpen /\ Commas(s, i) # {}
    BY DEF EnqueueAt
  <2>3. \A i : i \in EnqueueAt(s, p + 1) <=> i \in (p + 1)..Len(s) /\ s[i] = EnqueueOpen /\ Commas(s, i) # {}
    BY DEF EnqueueAt
  <2>4. \A i : i \in EnqueueAt(s, p) <=> i \in EnqueueAt(s, p + 1)
    BY <2>1, <2>2, <2>3
  <2> QED
    BY <2>4
<1>3. CASE EnqueueAt(s, p) = {}
  <2>1. EnqueueRest(s)[p] = From(s, p) /\ EnqueueRest(s)[p + 1] = From(s, p + 1)
    BY <1>1, <1>2, <1>3, EnqueueNone
  <2> QED
    BY <2>1, Rest
<1>4. CASE EnqueueAt(s, p) # {}
  <2>1. PICK i \in 1..Len(s), j \in 1..Len(s), k \in 1..Len(s) : EnqueueMatch(s, p + 1, i, j, k)
    BY <1>1, <1>2, <1>4, EnqueueMatches
  <2>2. p + 1 <= i /\ i < j /\ j < k
    BY <2>1 DEF EnqueueMatch
  <2>3. p <= i /\ i - 1 \in p..Len(s) /\ i - 1 \in 0..Len(s) /\ k + 1 \in 1..(Len(s) + 1)
    BY <1>0, <2>2, SMTT(30)
  <2>4. EnqueueMatch(s, p, i, j, k)
    BY <1>1, <1>2, <2>1, <2>3 DEF EnqueueMatch
  <2> DEFINE r == AsProperty(s, i, j, k)
             a == SubSeq(s, p + 1, i - 1)
             u == R[k + 1]
  <2>5. SubSeq(s, p, i - 1) = <<s[p]>> \o a
    BY <2>3, SubSeqRecursiveFirst DEF Script
  <2>6. a \in Script /\ r \in Script /\ u \in Script /\ <<s[p]>> \in Script
    <3>1. a \in Script
      BY <1>1, <2>3, Piece
    <3>2. r \in Script
      BY Replacement
    <3>3. u \in Script
      BY <2>3, EnqueueEq
    <3>4. <<s[p]>> \in Script
      BY Rest, Token
    <3> QED
      BY <3>1, <3>2, <3>3, <3>4
  <2>7. R[p] = ((<<s[p]>> \o a) \o r) \o u
    <3>1. R[p] = (SubSeq(s, p, i - 1) \o r) \o u
      <4>1. EnqueueWrites(s, p, i, j, k)
        BY <2>4, EnqueueOn
      <4> QED
        BY <4>1 DEF EnqueueWrites
    <3> QED
      BY <2>5, <3>1
  <2>8. R[p + 1] = (a \o r) \o u
    <3>1. EnqueueWrites(s, p + 1, i, j, k)
      BY <2>1, EnqueueOn
    <3> QED
      BY <3>1 DEF EnqueueWrites
  <2> HIDE DEF R, r, a, u
  <2>9. ((<<s[p]>> \o a) \o r) \o u = <<s[p]>> \o ((a \o r) \o u)
    <3>1. a \o r \in Script
      BY <2>6, Cat
    <3>2. (<<s[p]>> \o a) \o r = <<s[p]>> \o (a \o r)
      <4>1. Associates(<<s[p]>>, a, r)
        BY <2>6, Assoc
      <4> QED
        BY <4>1 DEF Associates
    <3>3. (<<s[p]>> \o (a \o r)) \o u = <<s[p]>> \o ((a \o r) \o u)
      <4>1. Associates(<<s[p]>>, a \o r, u)
        BY <2>6, <3>1, Assoc
      <4> QED
        BY <4>1 DEF Associates
    <3> QED
      BY <3>2, <3>3
  <2>10. R[p] = <<s[p]>> \o R[p + 1]
    BY <2>7, <2>8, <2>9
  <2> QED
    BY <2>10 DEF R
<1> QED
  BY <1>3, <1>4

\* Where a call opens, it writes the property access and goes on behind the call.
LEMMA EnqueueHere ==
  ASSUME NEW s \in Script, NEW p \in 1..Len(s), s[p] = EnqueueOpen, Commas(s, p) # {}
  PROVE  \E j, k \in 1..Len(s) : /\ EnqueueMatch(s, p, p, j, k)
                                 /\ EnqueueRest(s)[p] = AsProperty(s, p, j, k) \o EnqueueRest(s)[k + 1]
<1>0. Len(s) \in Nat
  BY Rest
<1>1. p \in p..Len(s) /\ p \in 1..(Len(s) + 1) /\ p > p - 1 /\ p - 1 \in 0..Len(s)
  BY <1>0, SMTT(30)
<1>2. p \in EnqueueAt(s, p)
  BY <1>1 DEF EnqueueAt
<1>3. PICK i \in 1..Len(s), j \in 1..Len(s), k \in 1..Len(s) : EnqueueMatch(s, p, i, j, k)
  BY <1>1, <1>2, EnqueueMatches
<1>4. p <= i /\ i <= p
  BY <1>2, <1>3 DEF EnqueueMatch
<1>5. i = p
  BY <1>4, SMTT(30)
<1>6. k + 1 \in 1..(Len(s) + 1)
  BY <1>0, SMTT(30)
<1> DEFINE r == AsProperty(s, p, j, k)
           u == EnqueueRest(s)[k + 1]
           e == SubSeq(s, p, p - 1)
<1>7. EnqueueRest(s)[p] = (e \o r) \o u
  <2>1. EnqueueWrites(s, p, i, j, k)
    BY <1>3, EnqueueOn
  <2> QED
    BY <1>5, <2>1 DEF EnqueueWrites
<1>8. r \in Script /\ u \in Script
  BY <1>6, Replacement, EnqueueEq
<1>9. e = <<>>
  <2>1. p \in Int /\ p - 1 \in Int /\ p - 1 < p
    BY <1>0, <1>1, SMTT(30)
  <2> QED
    BY <2>1, SubSeqEmpty, SMTT(30)
<1> HIDE DEF r, u, e
<1>10. EnqueueRest(s)[p] = r \o u
  BY <1>7, <1>8, <1>9, Empty
<1>11. EnqueueMatch(s, p, p, j, k)
  BY <1>3, <1>5
<1> QED
  BY <1>10, <1>11 DEF r, u

\* Where no call opens, the loop over n1ql calls copies the token.
LEMMA N1qlStep ==
  ASSUME NEW s \in Script, NEW p \in 1..Len(s), ~ (s[p] = N1qlOpen /\ Ends(s, p) # {})
  PROVE  N1qlRest(s)[p] = <<s[p]>> \o N1qlRest(s)[p + 1]
<1> DEFINE R == N1qlRest(s)
<1>0. Len(s) \in Nat
  BY Rest
<1>1. p \in 1..(Len(s) + 1) /\ p + 1 \in 1..(Len(s) + 1)
  BY <1>0, SMTT(30)
<1>2. N1qlAt(s, p) = N1qlAt(s, p + 1)
  <2>1. \A i : i \in p..Len(s) <=> i = p \/ i \in (p + 1)..Len(s)
    BY <1>0, SMTT(30)
  <2>2. \A i : i \in N1qlAt(s, p) <=> i \in p..Len(s) /\ s[i] = N1qlOpen /\ Ends(s, i) # {}
    BY DEF N1qlAt
  <2>3. \A i : i \in N1qlAt(s, p + 1) <=> i \in (p + 1)..Len(s) /\ s[i] = N1qlOpen /\ Ends(s, i) # {}
    BY DEF N1qlAt
  <2>4. \A i : i \in N1qlAt(s, p) <=> i \in N1qlAt(s, p + 1)
    BY <2>1, <2>2, <2>3
  <2> QED
    BY <2>4
<1>3. CASE N1qlAt(s, p) = {}
  <2>1. N1qlRest(s)[p] = From(s, p) /\ N1qlRest(s)[p + 1] = From(s, p + 1)
    BY <1>1, <1>2, <1>3, N1qlNone
  <2> QED
    BY <2>1, Rest
<1>4. CASE N1qlAt(s, p) # {}
  <2>1. PICK i \in 1..Len(s), k \in 1..Len(s) : N1qlMatch(s, p + 1, i, k)
    BY <1>1, <1>2, <1>4, N1qlMatches
  <2>2. p + 1 <= i /\ i < k /\ k < Len(s)
    BY <2>1 DEF N1qlMatch
  <2>3. p <= i /\ i - 1 \in p..Len(s) /\ i - 1 \in 0..Len(s) /\ k + 2 \in 1..(Len(s) + 1)
    BY <1>0, <2>2, SMTT(30)
  <2>4. N1qlMatch(s, p, i, k)
    BY <1>1, <1>2, <2>1, <2>3 DEF N1qlMatch
  <2> DEFINE r == AsTemplate(s, i, k)
             a == SubSeq(s, p + 1, i - 1)
             u == R[k + 2]
  <2>5. SubSeq(s, p, i - 1) = <<s[p]>> \o a
    BY <2>3, SubSeqRecursiveFirst DEF Script
  <2>6. a \in Script /\ r \in Script /\ u \in Script /\ <<s[p]>> \in Script
    <3>1. a \in Script
      BY <1>1, <2>3, Piece
    <3>2. r \in Script
      BY Template
    <3>3. u \in Script
      BY <2>3, N1qlEq
    <3>4. <<s[p]>> \in Script
      BY Rest, Token
    <3> QED
      BY <3>1, <3>2, <3>3, <3>4
  <2>7. R[p] = ((<<s[p]>> \o a) \o r) \o u
    <3>1. R[p] = (SubSeq(s, p, i - 1) \o r) \o u
      <4>1. N1qlWrites(s, p, i, k)
        BY <2>4, N1qlOn
      <4> QED
        BY <4>1 DEF N1qlWrites
    <3> QED
      BY <2>5, <3>1
  <2>8. R[p + 1] = (a \o r) \o u
    <3>1. N1qlWrites(s, p + 1, i, k)
      BY <2>1, N1qlOn
    <3> QED
      BY <3>1 DEF N1qlWrites
  <2> HIDE DEF R, r, a, u
  <2>9. ((<<s[p]>> \o a) \o r) \o u = <<s[p]>> \o ((a \o r) \o u)
    <3>1. a \o r \in Script
      BY <2>6, Cat
    <3>2. (<<s[p]>> \o a) \o r = <<s[p]>> \o (a \o r)
      <4>1. Associates(<<s[p]>>, a, r)
        BY <2>6, Assoc
      <4> QED
        BY <4>1 DEF Associates
    <3>3. (<<s[p]>> \o (a \o r)) \o u = <<s[p]>> \o ((a \o r) \o u)
      <4>1. Associates(<<s[p]>>, a \o r, u)
        BY <2>6, <3>1, Assoc
      <4> QED
        BY <4>1 DEF Associates
    <3> QED
      BY <3>2, <3>3
  <2>10. R[p] = <<s[p]>> \o R[p + 1]
    BY <2>7, <2>8, <2>9
  <2> QED
    BY <2>10 DEF R
<1> QED
  BY <1>3, <1>4

\* Where a call opens, it writes the template literal and goes on behind the call.
LEMMA N1qlHere ==
  ASSUME NEW s \in Script, NEW p \in 1..Len(s), s[p] = N1qlOpen, Ends(s, p) # {}
  PROVE  \E k \in 1..Len(s) : /\ N1qlMatch(s, p, p, k)
                                 /\ N1qlRest(s)[p] = AsTemplate(s, p, k) \o N1qlRest(s)[k + 2]
<1>0. Len(s) \in Nat
  BY Rest
<1>1. p \in p..Len(s) /\ p \in 1..(Len(s) + 1) /\ p > p - 1 /\ p - 1 \in 0..Len(s)
  BY <1>0, SMTT(30)
<1>2. p \in N1qlAt(s, p)
  BY <1>1 DEF N1qlAt
<1>3. PICK i \in 1..Len(s), k \in 1..Len(s) : N1qlMatch(s, p, i, k)
  BY <1>1, <1>2, N1qlMatches
<1>4. p <= i /\ i <= p
  BY <1>2, <1>3 DEF N1qlMatch
<1>5. i = p
  BY <1>4, SMTT(30)
<1>a. k < Len(s)
  BY <1>3 DEF N1qlMatch
<1>6. k + 2 \in 1..(Len(s) + 1)
  BY <1>0, <1>a, SMTT(30)
<1> DEFINE r == AsTemplate(s, p, k)
           u == N1qlRest(s)[k + 2]
           e == SubSeq(s, p, p - 1)
<1>7. N1qlRest(s)[p] = (e \o r) \o u
  <2>1. N1qlWrites(s, p, i, k)
    BY <1>3, N1qlOn
  <2> QED
    BY <1>5, <2>1 DEF N1qlWrites
<1>8. r \in Script /\ u \in Script
  BY <1>6, Template, N1qlEq
<1>9. e = <<>>
  <2>1. p \in Int /\ p - 1 \in Int /\ p - 1 < p
    BY <1>0, <1>1, SMTT(30)
  <2> QED
    BY <2>1, SubSeqEmpty, SMTT(30)
<1> HIDE DEF r, u, e
<1>10. N1qlRest(s)[p] = r \o u
  BY <1>7, <1>8, <1>9, Empty
<1>11. N1qlMatch(s, p, p, k)
  BY <1>3, <1>5
<1> QED
  BY <1>10, <1>11 DEF r, u

-----------------------------------------------------------------------------
(* Two texts that agree from some position on.                             *)

\* t at x + d is s at x, for x from i to m.
Agree(s, t, d, i, m) ==
    /\ i \in 1..(Len(s) + 1) /\ m \in 0..Len(s)
    /\ i + d \in 1..(Len(t) + 1) /\ m + d \in 0..Len(t)
    /\ \A x \in i..m : t[x + d] = s[x]

SamePiece(s, t, d, i, m) == SubSeq(t, i + d, m + d) = SubSeq(s, i, m)

\* Scripts that agree, apart from a shift, have the same pieces there.
LEMMA SameSubSeq ==
  ASSUME NEW s \in Script, NEW t \in Script, NEW d \in Int, NEW i \in Nat, NEW m \in Nat, Agree(s, t, d, i, m)
  PROVE  SamePiece(s, t, d, i, m)
<1> DEFINE a == SubSeq(s, i, m)
           b == SubSeq(t, i + d, m + d)
<1>1. /\ a \in Script /\ Len(a) = IF i <= m THEN m - i + 1 ELSE 0
      /\ \A x \in 1..(m - i + 1) : a[x] = s[i + x - 1]
  BY Piece DEF Agree
<1>2. /\ b \in Script /\ Len(b) = IF i + d <= m + d THEN (m + d) - (i + d) + 1 ELSE 0
      /\ \A x \in 1..((m + d) - (i + d) + 1) : b[x] = t[(i + d) + x - 1]
  BY Piece DEF Agree
<1>3. (m + d) - (i + d) + 1 = m - i + 1 /\ (i + d <= m + d <=> i <= m)
  BY SMTT(30)
<1>4. Len(b) = Len(a)
  BY <1>1, <1>2, <1>3, SMTT(30)
<1>5. ASSUME NEW x \in 1..Len(a)
      PROVE  a[x] = b[x]
  <2>1. x \in 1..(m - i + 1)
    BY <1>1, SMTT(30)
  <2>2. i + x - 1 \in i..m /\ (i + d) + x - 1 = (i + x - 1) + d
    BY <2>1, SMTT(30)
  <2>3. a[x] = s[i + x - 1] /\ b[x] = t[(i + d) + x - 1]
    BY <1>1, <1>2, <1>3, <2>1
  <2> QED
    BY <2>2, <2>3 DEF Agree
<1> HIDE DEF a, b
<1>6. a = b
  BY <1>1, <1>2, <1>4, <1>5, SeqEqual DEF Script
<1> QED
  BY <1>6 DEF a, b, SamePiece

\* Where the string of a query may end: at a quote before a parenthesis, on its line.
LEMMA EndsIs ==
  ASSUME NEW s \in Script, NEW i \in 1..Len(s), NEW k
  PROVE  k \in Ends(s, i) <=> /\ k \in (i + 1)..(Len(s) - 1)
                              /\ \A x \in i..k : s[x] # Newline
                              /\ s[k] = Quote /\ s[k + 1] = Close
<1>0. Len(s) \in Nat
  BY Rest
<1>1. k \in (i + 1)..Len(s) /\ k < Len(s) <=> k \in (i + 1)..(Len(s) - 1)
  BY <1>0, SMTT(30)
<1> QED
  BY <1>1 DEF Ends, RestOfLine

\* Scripts that agree, apart from a shift, end the string of a query at the same place.
LEMMA SameEnds ==
  ASSUME NEW s \in Script, NEW t \in Script, NEW d \in Int, NEW i \in 1..Len(s), NEW k \in Nat,
         i < k, k < Len(s), Agree(s, t, d, i, k + 1)
  PROVE  k \in Ends(s, i) <=> k + d \in Ends(t, i + d)
<1>0. Len(s) \in Nat /\ Len(t) \in Nat
  BY Rest
<1>1. i + d \in 1..(Len(t) + 1) /\ (k + 1) + d \in 0..Len(t)
  BY DEF Agree
<1>2. /\ k \in (i + 1)..(Len(s) - 1) /\ i + d \in 1..Len(t) /\ k + d \in ((i + d) + 1)..(Len(t) - 1)
      /\ k \in i..(k + 1) /\ k + 1 \in i..(k + 1) /\ (k + 1) + d = (k + d) + 1
  BY <1>0, <1>1, SMTT(30)
<1>3. \A x \in i..(k + 1) : t[x + d] = s[x]
  BY DEF Agree
<1>4. t[k + d] = s[k] /\ t[(k + d) + 1] = s[k + 1]
  BY <1>2, <1>3, SMTT(30)
<1>5. (\A x \in i..k : s[x] # Newline) <=> (\A y \in (i + d)..(k + d) : t[y] # Newline)
  <2>1. \A x \in i..k : x \in i..(k + 1) /\ x + d \in (i + d)..(k + d)
    BY <1>0, SMTT(30)
  <2>2. \A y \in (i + d)..(k + d) : y - d \in i..k /\ (y - d) + d = y
    BY <1>0, SMTT(30)
  <2> QED
    BY <1>3, <2>1, <2>2
<1>6. k \in Ends(s, i) <=> /\ \A x \in i..k : s[x] # Newline
                           /\ s[k] = Quote /\ s[k + 1] = Close
  BY <1>2, EndsIs, SMTT(30)
<1>7. k + d \in Ends(t, i + d) <=> /\ \A y \in (i + d)..(k + d) : t[y] # Newline
                                   /\ t[k + d] = Quote /\ t[(k + d) + 1] = Close
  BY <1>2, EndsIs
<1> QED
  BY <1>4, <1>5, <1>6, <1>7

\* The second loop depends only on the text that is still to come.
LEMMA N1qlShift ==
  ASSUME NEW a \in Script, NEW b \in Script
  PROVE  /\ a \o b \in Script /\ Len(a \o b) = Len(a) + Len(b)
         /\ \A q \in 1..(Len(b) + 1) : N1qlRest(a \o b)[Len(a) + q] = N1qlRest(b)[q]
<1> DEFINE A == Len(a)
           B == Len(b)
<1>s. PICK s : s = a \o b
  OBVIOUS
<1>0. A \in Nat /\ B \in Nat /\ s \in Script /\ Len(s) = A + B /\ \A x \in 1..B : s[A + x] = b[x]
  BY <1>s, Rest, Cat
<1> DEFINE G == {q \in 1..(B + 1) : N1qlRest(s)[A + q] = N1qlRest(b)[q]}
<1> HIDE DEF A, B
<1>1. ASSUME NEW q \in 1..(B + 1), \A x \in (q + 1)..(B + 1) : x \in G
      PROVE  q \in G
  <2>1. CASE q = B + 1
    <3>1. A + q = Len(s) + 1 /\ A + q \in 1..(Len(s) + 1)
      BY <1>0, <2>1, SMTT(30)
    <3>2. N1qlAt(s, A + q) = {} /\ N1qlAt(b, q) = {}
      <4>1. (A + q)..Len(s) = {} /\ q..B = {}
        BY <1>0, <2>1, SMTT(30)
      <4> QED
        BY <4>1 DEF N1qlAt, B
    <3>3. N1qlRest(s)[A + q] = From(s, A + q)
      BY <1>0, <3>1, <3>2, N1qlNone
    <3>4. N1qlRest(b)[q] = From(b, q)
      BY <3>2, N1qlNone DEF B
    <3>5. From(s, A + q) = <<>> /\ From(b, q) = <<>>
      BY <1>0, <2>1, <3>1, Rest DEF B
    <3> QED
      BY <3>3, <3>4, <3>5
  <2>2. CASE q # B + 1
    <3>1. /\ q \in 1..B /\ A + q \in 1..Len(s) /\ q + 1 \in (q + 1)..(B + 1) /\ (A + q) + 1 = A + (q + 1)
          /\ q + A = A + q /\ A + q \in Nat
      BY <1>0, <2>2, SMTT(30)
    <3>2. s[A + q] = b[q]
      BY <1>0, <3>1
    <3>3. ASSUME NEW k \in Nat, q < k, k < B
          PROVE  (k \in Ends(b, q) <=> k + A \in Ends(s, q + A)) /\ Agree(b, s, A, q, k + 1)
      <4>1. Agree(b, s, A, q, k + 1)
        <5>1. /\ q \in 1..(B + 1) /\ k + 1 \in 0..B
              /\ q + A \in 1..(Len(s) + 1) /\ (k + 1) + A \in 0..Len(s)
          BY <1>0, <3>3, SMTT(30)
        <5>2. \A x \in q..(k + 1) : s[x + A] = b[x]
          <6>1. \A x \in q..(k + 1) : x \in 1..B /\ x + A = A + x
            BY <1>0, <3>3, SMTT(30)
          <6> QED
            BY <1>0, <6>1
        <5> QED
          BY <5>1, <5>2 DEF Agree, B
      <4>2. A \in Int /\ q \in 1..Len(b) /\ k < Len(b)
        BY <1>0, <3>1, <3>3, SMTT(30) DEF B
      <4> QED
        BY <1>0, <3>3, <4>1, <4>2, SameEnds
    <3>4. \A k \in Ends(b, q) : k \in Nat /\ q < k /\ k < B
      <4>1. \A k \in Ends(b, q) : k \in (q + 1)..(B - 1)
        BY <3>1, EndsIs DEF B
      <4> QED
        BY <1>0, <4>1, SMTT(30)
    <3>5. \A y \in Ends(s, A + q) : y - A \in Nat /\ q < y - A /\ y - A < B /\ (y - A) + A = y
      <4>1. \A y \in Ends(s, A + q) : y \in ((A + q) + 1)..(Len(s) - 1)
        BY <1>0, <3>1, EndsIs
      <4> QED
        BY <1>0, <4>1, SMTT(30)
    <3>6. \A k \in Ends(b, q) : k + A \in Ends(s, A + q)
      BY <3>1, <3>3, <3>4
    <3>7. \A y \in Ends(s, A + q) : y - A \in Ends(b, q)
      BY <3>1, <3>3, <3>5
    <3>8. CASE b[q] = N1qlOpen /\ Ends(b, q) # {}
      <4>1. PICK k \in 1..Len(b) : /\ N1qlMatch(b, q, q, k)
                                   /\ N1qlRest(b)[q] = AsTemplate(b, q, k) \o N1qlRest(b)[k + 2]
        BY <3>1, <3>8, N1qlHere DEF B
      <4>2. PICK y \in 1..Len(s) : /\ N1qlMatch(s, A + q, A + q, y)
                                   /\ N1qlRest(s)[A + q] = AsTemplate(s, A + q, y) \o N1qlRest(s)[y + 2]
        <5>1. s[A + q] = N1qlOpen /\ Ends(s, A + q) # {}
          BY <3>2, <3>6, <3>8
        <5> QED
          BY <1>0, <3>1, <5>1, N1qlHere
      <4>3. k \in Ends(b, q) /\ \A x \in Ends(b, q) : x <= k
        BY <4>1 DEF N1qlMatch
      <4>4. y \in Ends(s, A + q) /\ \A x \in Ends(s, A + q) : x <= y
        BY <4>2 DEF N1qlMatch
      <4>5. k + A <= y /\ y - A <= k
        BY <3>6, <3>7, <4>3, <4>4
      <4>6. k \in Nat /\ q < k /\ k < B /\ y \in Nat
        BY <3>4, <4>2, <4>3, SMTT(30)
      <4>7. y = k + A /\ y + 2 = A + (k + 2) /\ k + 2 \in (q + 1)..(B + 1)
        BY <1>0, <4>5, <4>6, SMTT(30)
      <4>8. SubSeq(s, (A + q) + 1, y - 1) = SubSeq(b, q + 1, k - 1)
        <5>1. Agree(b, s, A, q, k + 1)
          BY <3>3, <4>6
        <5>2. Agree(b, s, A, q + 1, k - 1)
          <6>1. /\ q + 1 \in 1..(B + 1) /\ k - 1 \in 0..B
                /\ (q + 1) + A \in 1..(Len(s) + 1) /\ (k - 1) + A \in 0..Len(s)
            BY <1>0, <4>6, SMTT(30)
          <6>2. \A x \in (q + 1)..(k - 1) : x \in q..(k + 1)
            BY <1>0, <4>6, SMTT(30)
          <6> QED
            BY <5>1, <6>1, <6>2 DEF Agree, B
        <5>3. q + 1 \in Nat /\ k - 1 \in Nat /\ A \in Int
          BY <1>0, <4>6, SMTT(30)
        <5>4. SubSeq(s, (q + 1) + A, (k - 1) + A) = SubSeq(b, q + 1, k - 1)
          <6>1. SamePiece(b, s, A, q + 1, k - 1)
            BY <1>0, <5>2, <5>3, SameSubSeq
          <6> QED
            BY <6>1 DEF SamePiece
        <5>5. (q + 1) + A = (A + q) + 1 /\ (k - 1) + A = y - 1
          BY <1>0, <4>6, <4>7, SMTT(30)
        <5> QED
          BY <5>4, <5>5
      <4>9. AsTemplate(s, A + q, y) = AsTemplate(b, q, k)
        BY <4>8 DEF AsTemplate
      <4>10. N1qlRest(s)[y + 2] = N1qlRest(b)[k + 2]
        BY <1>1, <4>7
      <4> QED
        BY <4>1, <4>2, <4>9, <4>10
    <3>9. CASE ~ (b[q] = N1qlOpen /\ Ends(b, q) # {})
      <4>1. N1qlRest(b)[q] = <<b[q]>> \o N1qlRest(b)[q + 1]
        BY <3>1, <3>9, N1qlStep DEF B
      <4>2. ~ (s[A + q] = N1qlOpen /\ Ends(s, A + q) # {})
        BY <3>2, <3>7, <3>9
      <4>3. N1qlRest(s)[A + q] = <<s[A + q]>> \o N1qlRest(s)[A + (q + 1)]
        BY <1>0, <3>1, <4>2, N1qlStep
      <4>4. N1qlRest(s)[A + (q + 1)] = N1qlRest(b)[q + 1]
        BY <1>1, <3>1
      <4> QED
        BY <3>2, <4>1, <4>3, <4>4
    <3> QED
      BY <3>8, <3>9
  <2> QED
    BY <2>1, <2>2
<1>2. G = 1..(B + 1)
  <2> HIDE DEF G
  <2>1. G \subseteq 1..(B + 1)
    BY DEF G
  <2> QED
    BY <1>0, <1>1, <2>1, Downward
<1> QED
  BY <1>s, <1>0, <1>2 DEF A, B

\* A text without calls before the rest of the script is copied.
LEMMA N1qlPrefix ==
  ASSUME NEW a \in Script, NEW u \in Script, \A x \in 1..Len(a) : a[x] # N1qlOpen
  PROVE  N1ql(a \o u) = a \o N1ql(u)
<1> DEFINE A == Len(a)
<1>s. PICK s : s = a \o u
  OBVIOUS
<1>0. /\ A \in Nat /\ Len(u) \in Nat /\ s \in Script /\ Len(s) = A + Len(u)
      /\ \A x \in 1..A : s[x] = a[x]
  BY <1>s, Rest, Cat
<1>1. N1qlRest(s)[A + 1] = N1ql(u) /\ N1ql(u) \in Script
  <2>1. 1 \in 1..(Len(u) + 1)
    BY <1>0, SMTT(30)
  <2>2. N1qlRest(s)[A + 1] = N1qlRest(u)[1]
    BY <1>s, <2>1, N1qlShift
  <2>3. N1qlRest(u)[1] \in Script
    BY <2>1, N1qlTyped
  <2> QED
    BY <2>2, <2>3 DEF N1ql
<1> DEFINE G == {p \in 1..(A + 1) : N1qlRest(s)[p] = From(a, p) \o N1ql(u)}
<1>2. ASSUME NEW p \in 1..(A + 1), \A x \in (p + 1)..(A + 1) : x \in G
      PROVE  p \in G
  <2>1. CASE p = A + 1
    <3>1. From(a, p) = <<>>
      BY <2>1, Rest
    <3>2. <<>> \o N1ql(u) = N1ql(u)
      BY <1>1, Empty
    <3> QED
      BY <1>1, <2>1, <3>1, <3>2
  <2>2. CASE p # A + 1
    <3>1. p \in 1..A /\ p \in 1..Len(s) /\ p + 1 \in (p + 1)..(A + 1) /\ p + 1 \in 1..(A + 1)
      BY <1>0, <2>2, SMTT(30)
    <3>2. s[p] = a[p] /\ s[p] # N1qlOpen
      BY <1>0, <3>1
    <3>3. N1qlRest(s)[p] = <<s[p]>> \o N1qlRest(s)[p + 1]
      BY <1>0, <3>1, <3>2, N1qlStep
    <3>4. From(a, p) = <<a[p]>> \o From(a, p + 1) /\ From(a, p + 1) \in Script /\ a[p] \in Tokens
      BY <3>1, Rest
    <3>5. N1qlRest(s)[p + 1] = From(a, p + 1) \o N1ql(u)
      BY <1>2, <3>1
    <3>6. (<<a[p]>> \o From(a, p + 1)) \o N1ql(u) = <<a[p]>> \o (From(a, p + 1) \o N1ql(u))
      <4>1. <<a[p]>> \in Script
        BY <3>4, Token
      <4>2. Associates(<<a[p]>>, From(a, p + 1), N1ql(u))
        BY <1>1, <3>4, <4>1, Assoc
      <4> QED
        BY <4>2 DEF Associates
    <3>7. N1qlRest(s)[p] = From(a, p) \o N1ql(u)
      BY <3>2, <3>3, <3>4, <3>5, <3>6
    <3> QED
      BY <3>7
  <2> QED
    BY <2>1, <2>2
<1>3. G = 1..(A + 1)
  <2> HIDE DEF G
  <2>1. G \subseteq 1..(A + 1)
    BY DEF G
  <2> QED
    BY <1>0, <1>2, <2>1, Downward
<1>4. 1 \in 1..(A + 1)
  BY <1>0, SMTT(30)
<1>5. N1qlRest(s)[1] = From(a, 1) \o N1ql(u)
  BY <1>3, <1>4
<1>6. From(a, 1) = a
  BY Rest
<1> QED
  BY <1>s, <1>5, <1>6 DEF N1ql

\* One token before the rest of the script is copied unless a call opens there.
LEMMA N1qlToken ==
  ASSUME NEW x \in Tokens, NEW u \in Script, ~ (x = N1qlOpen /\ Ends(<<x>> \o u, 1) # {})
  PROVE  N1ql(<<x>> \o u) = <<x>> \o N1ql(u)
<1>1. <<x>> \in Script /\ Len(<<x>>) = 1 /\ <<x>>[1] = x
  BY Token
<1>s. PICK s : s = <<x>> \o u
  OBVIOUS
<1>2. Len(u) \in Nat
  BY Rest
<1>3. s \in Script /\ Len(s) = Len(<<x>>) + Len(u) /\ \A y \in 1..Len(<<x>>) : s[y] = <<x>>[y]
  BY <1>s, <1>1, Cat
<1>4. 1 \in 1..1 /\ 1 \in 1..(Len(u) + 1) /\ 1 \in 1..(1 + Len(u)) /\ 1 + 1 = 2
  BY <1>2, SMTT(30)
<1>5. s[1] = x /\ 1 \in 1..Len(s)
  BY <1>1, <1>3, <1>4
<1>6. N1qlRest(s)[1] = <<x>> \o N1qlRest(s)[1 + 1]
  BY <1>s, <1>3, <1>5, N1qlStep
<1>7. N1qlRest(s)[1 + 1] = N1qlRest(u)[1]
  BY <1>s, <1>1, <1>4, N1qlShift
<1> QED
  BY <1>s, <1>6, <1>7 DEF N1ql

\* The first loop copies a piece of a script in which no enqueue opens.
LEMMA EnqueuePrefix ==
  ASSUME NEW s \in Script, NEW p \in 1..(Len(s) + 1), NEW m \in 0..Len(s), p <= m + 1,
         \A x \in p..m : s[x] # EnqueueOpen
  PROVE  EnqueueRest(s)[p] = SubSeq(s, p, m) \o EnqueueRest(s)[m + 1]
<1> DEFINE R == EnqueueRest(s)
           G == {q \in 1..(Len(s) + 1) : q \in p..(m + 1) => R[q] = SubSeq(s, q, m) \o R[m + 1]}
<1>0. Len(s) \in Nat /\ m + 1 \in 1..(Len(s) + 1)
  BY Rest, SMTT(30)
<1>a. R[m + 1] \in Script
  BY <1>0, EnqueueTyped
<1>1. ASSUME NEW q \in 1..(Len(s) + 1), \A x \in (q + 1)..(Len(s) + 1) : x \in G
      PROVE  q \in G
  <2> SUFFICES ASSUME q \in p..(m + 1)
               PROVE  R[q] = SubSeq(s, q, m) \o R[m + 1]
    OBVIOUS
  <2>1. CASE q = m + 1
    <3>1. SubSeq(s, q, m) = <<>>
      <4>1. ~ (q <= m)
        BY <1>0, <2>1, SMTT(30)
      <4>2. SubSeq(s, q, m) \in Script /\ Len(SubSeq(s, q, m)) = 0
        BY <4>1, Piece
      <4> QED
        BY <4>2, EmptySeq DEF Script
    <3>2. <<>> \o R[m + 1] = R[m + 1]
      BY <1>a, Empty
    <3> QED
      BY <2>1, <3>1, <3>2
  <2>2. CASE q # m + 1
    <3>1. /\ q \in p..m /\ q \in 1..Len(s) /\ m \in q..Len(s) /\ q + 1 \in (q + 1)..(Len(s) + 1)
          /\ q + 1 \in p..(m + 1) /\ q + 1 \in 1..(Len(s) + 1)
      BY <1>0, <2>2, SMTT(30)
    <3>2. R[q] = <<s[q]>> \o R[q + 1]
      BY <3>1, EnqueueStep
    <3>3. R[q + 1] = SubSeq(s, q + 1, m) \o R[m + 1]
      BY <1>1, <3>1
    <3>4. SubSeq(s, q, m) = <<s[q]>> \o SubSeq(s, q + 1, m)
      BY <3>1, SubSeqRecursiveFirst DEF Script
    <3>5. <<s[q]>> \in Script /\ SubSeq(s, q + 1, m) \in Script
      <4>1. s[q] \in Tokens
        BY <3>1, Rest
      <4> QED
        BY <3>1, <4>1, Token, Piece
    <3>6. (<<s[q]>> \o SubSeq(s, q + 1, m)) \o R[m + 1] = <<s[q]>> \o (SubSeq(s, q + 1, m) \o R[m + 1])
      <4> HIDE DEF R
      <4>2. Associates(<<s[q]>>, SubSeq(s, q + 1, m), R[m + 1])
        BY <1>a, <3>5, Assoc
      <4> QED
        BY <4>2 DEF Associates
    <3> HIDE DEF R
    <3> QED
      BY <3>2, <3>3, <3>4, <3>6
  <2> QED
    BY <2>1, <2>2
<1>2. G = 1..(Len(s) + 1)
  <2> HIDE DEF G
  <2>1. G \subseteq 1..(Len(s) + 1)
    BY DEF G
  <2> QED
    BY <1>0, <1>1, <2>1, Downward
<1>3. p \in p..(m + 1)
  BY <1>0, SMTT(30)
<1> QED
  BY <1>2, <1>3

-----------------------------------------------------------------------------
(* Calls in plain scripts.                                                 *)

\* Scripts that agree on a stretch agree on a shorter one.
LEMMA AgreeLess ==
  ASSUME NEW s \in Script, NEW t \in Script, NEW d \in Int, NEW i \in Nat, NEW m \in Nat, NEW n \in Nat,
         Agree(s, t, d, i, m), n <= m, n + d \in Nat
  PROVE  Agree(s, t, d, i, n)
<1>0. Len(s) \in Nat /\ Len(t) \in Nat
  BY Rest
<1>1. i \in 1..(Len(s) + 1) /\ m \in 0..Len(s) /\ i + d \in 1..(Len(t) + 1) /\ m + d \in 0..Len(t)
  BY DEF Agree
<1>2. n \in 0..Len(s) /\ n + d \in 0..Len(t)
  BY <1>0, <1>1, SMTT(30)
<1>3. \A x \in i..n : x \in i..m
  BY SMTT(30)
<1> QED
  BY <1>1, <1>2, <1>3 DEF Agree

\* A text that starts with the piece of s from p to m agrees with it.
LEMMA PieceAgree ==
  ASSUME NEW s \in Script, NEW p \in 1..Len(s), NEW m \in p..Len(s), NEW u \in Script
  PROVE  /\ SubSeq(s, p, m) \o u \in Script
         /\ Len(SubSeq(s, p, m) \o u) = (m - p + 1) + Len(u)
         /\ Agree(s, SubSeq(s, p, m) \o u, 1 - p, p, m)
<1> DEFINE a == SubSeq(s, p, m)
           t == a \o u
<1>0. Len(s) \in Nat /\ Len(u) \in Nat /\ p \in 1..(Len(s) + 1) /\ m \in 0..Len(s) /\ p <= m
  BY Rest, SMTT(30)
<1>1. a \in Script /\ Len(a) = m - p + 1 /\ \A x \in 1..(m - p + 1) : a[x] = s[p + x - 1]
  BY <1>0, Piece
<1> HIDE DEF a
<1>2. t \in Script /\ Len(t) = Len(a) + Len(u) /\ \A x \in 1..Len(a) : t[x] = a[x]
  BY <1>1, Cat
<1> HIDE DEF t
<1>3. p + (1 - p) \in 1..(Len(t) + 1) /\ m + (1 - p) \in 0..Len(t)
  BY <1>0, <1>1, <1>2, SMTT(30)
<1>4. ASSUME NEW x \in p..m
      PROVE  t[x + (1 - p)] = s[x]
  <2>1. x + (1 - p) \in 1..(m - p + 1) /\ p + (x + (1 - p)) - 1 = x
    BY <1>0, SMTT(30)
  <2>2. t[x + (1 - p)] = a[x + (1 - p)]
    BY <1>1, <1>2, <2>1
  <2>3. a[x + (1 - p)] = s[p + (x + (1 - p)) - 1]
    BY <1>1, <2>1
  <2> QED
    BY <2>1, <2>2, <2>3
<1>5. Agree(s, t, 1 - p, p, m)
  BY <1>0, <1>3, <1>4 DEF Agree
<1> QED
  BY <1>1, <1>2, <1>5 DEF a, t

\* No call opens on the line of another.
LEMMA PlainLine ==
  ASSUME NEW s \in Script, Plain(s), NEW p \in 1..Len(s), s[p] \in {EnqueueOpen, N1qlOpen},
         NEW k \in p..Len(s), \A x \in p..k : s[x] # Newline
  PROVE  \A x \in (p + 1)..k : s[x] # EnqueueOpen /\ s[x] # N1qlOpen
<1>0. Len(s) \in Nat
  BY Rest
<1> TAKE x \in (p + 1)..k
<1>1. x \in (p + 1)..Len(s) /\ \A y \in p..x : y \in p..k
  BY <1>0, SMTT(30)
<1>2. x \in RestOfLine(s, p)
  BY <1>1 DEF RestOfLine
<1> QED
  BY <1>2 DEF Plain

\* The first loop moves the end of an n1ql call with its opening: it finds no other end
\* in what it writes for the line, and loses none.
LEMMA LineEnds ==
  ASSUME NEW s \in Script, Plain(s), NEW p \in 1..Len(s), s[p] = N1qlOpen
  PROVE  /\ \A k \in Ends(s, p) : k + (1 - p) \in Ends(EnqueueRest(s)[p], 1)
         /\ \A x \in Ends(EnqueueRest(s)[p], 1) : x - (1 - p) \in Ends(s, p)
         /\ \A k \in Ends(s, p) :
               EnqueueRest(s)[p] = SubSeq(s, p, k + 1) \o EnqueueRest(s)[k + 2]
<1>t. PICK t : t = EnqueueRest(s)[p]
  OBVIOUS
<1>0. /\ Len(s) \in Nat /\ 1 - p \in Int /\ p + (1 - p) = 1 /\ p \in 1..(Len(s) + 1)
      /\ Len(s) + 1 \in 1..(Len(s) + 1)
  BY Rest, SMTT(30)
<1>a. t \in Script /\ Len(t) \in Nat
  BY <1>t, <1>0, EnqueueTyped, Rest
<1>d. EnqueueOpen # N1qlOpen /\ EnqueueOpen # Close /\ EnqueueOpen # Newline /\ N1qlOpen # Newline
  BY DEF EnqueueOpen, N1qlOpen, Close, Newline
<1>1. ASSUME NEW m \in p..Len(s), \A x \in p..m : s[x] # EnqueueOpen
      PROVE  /\ t = SubSeq(s, p, m) \o EnqueueRest(s)[m + 1]
             /\ Agree(s, t, 1 - p, p, m)
             /\ Len(t) = (m - p + 1) + Len(EnqueueRest(s)[m + 1])
  <2>1. m \in 0..Len(s) /\ p <= m + 1 /\ m + 1 \in 1..(Len(s) + 1)
    BY <1>0, SMTT(30)
  <2>2. t = SubSeq(s, p, m) \o EnqueueRest(s)[m + 1]
    BY <1>t, <1>0, <1>1, <2>1, EnqueuePrefix
  <2>3. EnqueueRest(s)[m + 1] \in Script
    BY <2>1, EnqueueTyped
  <2> QED
    BY <2>2, <2>3, PieceAgree
<1>2. ASSUME NEW k \in Ends(s, p)
      PROVE  /\ k + (1 - p) \in Ends(t, 1)
             /\ t = SubSeq(s, p, k + 1) \o EnqueueRest(s)[k + 2]
  <2>1. k \in (p + 1)..(Len(s) - 1) /\ (\A x \in p..k : s[x] # Newline) /\ s[k + 1] = Close
    BY EndsIs
  <2>2. /\ k \in Nat /\ p < k /\ k < Len(s) /\ k \in p..Len(s) /\ k + 1 \in p..Len(s) /\ (k + 1) + 1 = k + 2
        /\ \A x \in p..(k + 1) : x = p \/ x \in (p + 1)..k \/ x = k + 1
    BY <1>0, <2>1, SMTT(30)
  <2>3. \A x \in (p + 1)..k : s[x] # EnqueueOpen
    BY <2>1, <2>2, PlainLine
  <2>4. \A x \in p..(k + 1) : s[x] # EnqueueOpen
    BY <1>d, <2>1, <2>2, <2>3
  <2>5. t = SubSeq(s, p, k + 1) \o EnqueueRest(s)[k + 2] /\ Agree(s, t, 1 - p, p, k + 1)
    BY <1>1, <2>2, <2>4
  <2>6. k + (1 - p) \in Ends(t, p + (1 - p))
    BY <1>0, <1>a, <2>2, <2>5, SameEnds, SMTT(30)
  <2> QED
    BY <1>0, <2>5, <2>6
<1>3. ASSUME NEW y \in Ends(t, 1)
      PROVE  y - (1 - p) \in Ends(s, p)
  <2>1. y \in 2..(Len(t) - 1) /\ \A x \in 1..y : t[x] # Newline
    <3>1. 1 \in 1..Len(t)
      <4>1. Len(t) = (p - p + 1) + Len(EnqueueRest(s)[p + 1]) /\ Len(EnqueueRest(s)[p + 1]) \in Nat
        <5>1. p \in p..Len(s) /\ (\A x \in p..p : x = p) /\ p + 1 \in 1..(Len(s) + 1)
          BY <1>0, SMTT(30)
        <5>2. Len(EnqueueRest(s)[p + 1]) \in Nat
          BY <5>1, EnqueueTyped, Rest
        <5> QED
          BY <1>1, <1>d, <5>1, <5>2
      <4> QED
        BY <1>0, <4>1, SMTT(30)
    <3>2. 1 + 1 = 2
      BY SMTT(30)
    <3> QED
      BY <1>a, <3>1, <3>2, EndsIs, SMTT(30)
  <2>2. PICK k : k = y - (1 - p)
    OBVIOUS
  <2>3. k \in Nat /\ p < k /\ k + (1 - p) = y /\ y \in Nat
    BY <1>0, <1>a, <2>1, <2>2, SMTT(30)
  <2> DEFINE NL == {q \in p..Len(s) : s[q] = Newline}
  <2>4. PICK m \in p..Len(s) : Agree(s, t, 1 - p, p, m) /\ k + 1 <= m
    <3>1. CASE NL = {}
      <4>1. \A x \in p..Len(s) : s[x] # Newline
        BY <3>1
      <4>2. Len(s) \in p..Len(s) /\ \A x \in p..Len(s) : x = p \/ x \in (p + 1)..Len(s)
        BY <1>0, SMTT(30)
      <4>3. \A x \in (p + 1)..Len(s) : s[x] # EnqueueOpen
        BY <4>1, <4>2, PlainLine
      <4>4. \A x \in p..Len(s) : s[x] # EnqueueOpen
        BY <1>d, <4>2, <4>3
      <4>5. /\ Agree(s, t, 1 - p, p, Len(s))
            /\ Len(t) = (Len(s) - p + 1) + Len(EnqueueRest(s)[Len(s) + 1])
        BY <1>1, <4>2, <4>4
      <4>6. EnqueueRest(s)[Len(s) + 1] = <<>>
        <5>1. (Len(s) + 1)..Len(s) = {}
          BY <1>0, SMTT(30)
        <5>2. EnqueueAt(s, Len(s) + 1) = {}
          BY <5>1 DEF EnqueueAt
        <5>3. EnqueueRest(s)[Len(s) + 1] = From(s, Len(s) + 1)
          BY <1>0, <5>2, EnqueueNone
        <5> QED
          BY <5>3, Rest
      <4>7. Len(t) = Len(s) - p + 1
        <5>1. Len(<<>>) = 0
          OBVIOUS
        <5> QED
          BY <1>0, <4>5, <4>6, <5>1, SMTT(30)
      <4>8. k + 1 <= Len(s)
        BY <1>0, <2>1, <2>2, <4>7, SMTT(30)
      <4> QED
        BY <4>2, <4>5, <4>8
    <3>2. CASE NL # {}
      <4>1. NL \subseteq Nat
        BY <1>0, SMTT(30)
      <4>2. PICK n \in NL : \A x \in NL : n <= x
        BY <3>2, <4>1, NatLeast
      <4>3. n \in p..Len(s) /\ s[n] = Newline
        BY <4>2
      <4>4. n # p
        BY <1>d, <4>3
      <4>5. \A x \in p..(n - 1) : x \in p..Len(s) /\ ~ (n <= x)
        BY <1>0, <4>3, SMTT(30)
      <4>6. \A x \in p..(n - 1) : s[x] # Newline
        BY <4>2, <4>5
      <4>7. n - 1 \in p..Len(s) /\ \A x \in p..n : x = p \/ x \in (p + 1)..(n - 1) \/ x = n
        BY <1>0, <4>3, <4>4, SMTT(30)
      <4>8. \A x \in (p + 1)..(n - 1) : s[x] # EnqueueOpen
        BY <4>6, <4>7, PlainLine
      <4>9. \A x \in p..n : s[x] # EnqueueOpen
        BY <1>d, <4>3, <4>7, <4>8
      <4>10. Agree(s, t, 1 - p, p, n)
        BY <1>1, <4>3, <4>9
      <4>11. t[n + (1 - p)] = Newline
        <5>1. n \in p..n
          BY <1>0, <4>3, SMTT(30)
        <5> QED
          BY <4>3, <4>10, <5>1 DEF Agree
      <4>12. n + (1 - p) \notin 1..y
        BY <2>1, <4>11
      <4>13. k + 1 <= n
        BY <1>0, <2>2, <2>3, <4>3, <4>12, SMTT(30)
      <4> QED
        BY <4>3, <4>10, <4>13
    <3> QED
      BY <3>1, <3>2
  <2>5. k < Len(s) /\ m \in Nat /\ k + 1 \in Nat /\ (k + 1) + (1 - p) \in Nat /\ p \in Nat
    BY <1>0, <2>3, <2>4, SMTT(30)
  <2>6. Agree(s, t, 1 - p, p, k + 1)
    BY <1>0, <1>a, <2>4, <2>5, AgreeLess
  <2>7. k \in Ends(s, p) <=> k + (1 - p) \in Ends(t, p + (1 - p))
    BY <1>0, <1>a, <2>3, <2>5, <2>6, SameEnds, SMTT(30)
  <2> QED
    BY <1>0, <2>2, <2>3, <2>7
<1> QED
  BY <1>t, <1>2, <1>3

\* MeantRest at a token that opens no call.
LEMMA MeantToken ==
  ASSUME NEW s \in Script, NEW p \in 1..Len(s),
         ~ (s[p] = EnqueueOpen /\ CommasOn(s, p) # {} /\ Closes(s, p) # {}),
         ~ (s[p] = N1qlOpen /\ Ends(s, p) # {})
  PROVE  MeantRest(s)[p] = <<s[p]>> \o MeantRest(s)[p + 1]
<1>1. MeantCall(s, p) = [text |-> <<s[p]>>, next |-> p + 1]
  BY MeantCases
<1>2. MeantCall(s, p).text = <<s[p]>> /\ MeantCall(s, p).next = p + 1
  BY <1>1, SMTT(30)
<1>3. MeantRest(s)[p] = MeantCall(s, p).text \o MeantRest(s)[MeantCall(s, p).next]
  BY MeantEq
<1> QED
  BY <1>2, <1>3

\* The rewriting that is meant for the enqueue at p has no n1ql call in its text.
IsMeantAt(s, p, j, k) ==
    /\ MeantRest(s)[p] = AsProperty(s, p, j, k) \o MeantRest(s)[k + 1]
    /\ \A x \in 1..Len(AsProperty(s, p, j, k)) : AsProperty(s, p, j, k)[x] # N1qlOpen

\* In a plain script the enqueue that opens at p is rewritten as it is meant.
LEMMA MeantEnqueue ==
  ASSUME NEW s \in Script, Plain(s), NEW p \in 1..Len(s), s[p] = EnqueueOpen,
         NEW j, NEW k, EnqueueMatch(s, p, p, j, k)
  PROVE  IsMeantAt(s, p, j, k)
<1>0. Len(s) \in Nat
  BY Rest
<1>1. j \in Commas(s, p) /\ k \in Closes(s, p) /\ p < j /\ j < k /\ j \in 1..Len(s) /\ k \in 1..Len(s)
  BY DEF EnqueueMatch
<1>2. j \in CommasOn(s, p)
  BY <1>1 DEF Commas, CommasOn
<1>3. RestOfLine(s, p) \subseteq (p + 1)..Len(s) /\ (p + 1)..Len(s) \subseteq 0..Len(s) /\ 0..Len(s) \subseteq Nat
  BY <1>0, SMTT(30) DEF RestOfLine
<1>4. CommasOn(s, p) \subseteq 0..Len(s) /\ Closes(s, p) \subseteq 0..Len(s)
  BY <1>3 DEF CommasOn, Closes
<1>5. AtMostOne(CommasOn(s, p)) /\ AtMostOne(Closes(s, p))
  BY DEF Plain
<1>6. Min(CommasOn(s, p)) \in CommasOn(s, p)
  BY <1>2, <1>3, <1>4, MinIs
<1>7. Min(Closes(s, p)) \in Closes(s, p)
  BY <1>1, <1>3, <1>4, MinIs
<1>8. Min(CommasOn(s, p)) = j
  BY <1>2, <1>5, <1>6 DEF AtMostOne
<1>9. Min(Closes(s, p)) = k
  BY <1>1, <1>5, <1>7 DEF AtMostOne
<1>10. MeantCall(s, p) = [text |-> AsProperty(s, p, j, k), next |-> k + 1]
  <2>1. CommasOn(s, p) # {} /\ Closes(s, p) # {}
    BY <1>1, <1>2
  <2> QED
    BY <1>8, <1>9, <2>1, MeantCases
<1>11. MeantRest(s)[p] = AsProperty(s, p, j, k) \o MeantRest(s)[k + 1]
  <2>1. MeantCall(s, p).text = AsProperty(s, p, j, k) /\ MeantCall(s, p).next = k + 1
    BY <1>10, SMTT(30)
  <2>2. MeantRest(s)[p] = MeantCall(s, p).text \o MeantRest(s)[MeantCall(s, p).next]
    BY MeantEq
  <2> QED
    BY <2>1, <2>2
<1>12. \A x \in p..k : s[x] # Newline
  BY <1>1 DEF Closes, RestOfLine
<1>13. \A x \in (p + 1)..k : s[x] # N1qlOpen
  <2>1. k \in p..Len(s)
    BY <1>0, <1>1, SMTT(30)
  <2> QED
    BY <1>12, <2>1, PlainLine
<1> DEFINE a == SubSeq(s, p + 1, j - 1)
           b == SubSeq(s, j + 1, k - 1)
           Clear(z) == z \in Script /\ \A x \in 1..Len(z) : z[x] # N1qlOpen
<1>14. ASSUME NEW i \in (p + 1)..(k + 1), NEW m \in 0..Len(s), m < k
       PROVE  Clear(SubSeq(s, i, m))
  <2>1. i \in 1..(Len(s) + 1)
    BY <1>0, <1>1, SMTT(30)
  <2>2. /\ SubSeq(s, i, m) \in Script
        /\ Len(SubSeq(s, i, m)) = IF i <= m THEN m - i + 1 ELSE 0
        /\ \A x \in 1..(m - i + 1) : SubSeq(s, i, m)[x] = s[i + x - 1]
    BY <2>1, Piece
  <2>3. ASSUME NEW x \in 1..Len(SubSeq(s, i, m))
        PROVE  SubSeq(s, i, m)[x] # N1qlOpen
    <3>1. x \in 1..(m - i + 1) /\ i + x - 1 \in (p + 1)..k
      BY <1>0, <1>1, <1>14, <2>2, SMTT(30)
    <3> QED
      BY <1>13, <2>2, <3>1
  <2> QED
    BY <2>2, <2>3
<1>15. Clear(a) /\ Clear(b)
  <2>1. /\ p + 1 \in (p + 1)..(k + 1) /\ j + 1 \in (p + 1)..(k + 1)
        /\ j - 1 \in 0..Len(s) /\ j - 1 < k /\ k - 1 \in 0..Len(s) /\ k - 1 < k
    BY <1>0, <1>1, SMTT(30)
  <2> HIDE DEF Clear
  <2> QED
    BY <1>14, <2>1
<1>16. Clear(<<"[">>) /\ Clear(<<"]">>)
  <2>1. "[" \in Tokens /\ "]" \in Tokens /\ "[" # N1qlOpen /\ "]" # N1qlOpen
    BY DEF Tokens, Delimiters, N1qlOpen
  <2>2. \A x \in 1..1 : x = 1
    BY SMTT(30)
  <2> QED
    BY <2>1, <2>2, Token
<1>17. ASSUME NEW y, NEW z, Clear(y), Clear(z)
       PROVE  Clear(y \o z)
  <2>1. /\ y \o z \in Script /\ Len(y \o z) = Len(y) + Len(z)
        /\ \A x \in 1..Len(y) : (y \o z)[x] = y[x]
        /\ \A x \in 1..Len(z) : (y \o z)[Len(y) + x] = z[x]
    BY <1>17, Cat
  <2>2. Len(y) \in Nat /\ Len(z) \in Nat
    BY <1>17, Rest
  <2>3. ASSUME NEW x \in 1..Len(y \o z)
        PROVE  (y \o z)[x] # N1qlOpen
    <3>1. CASE x \in 1..Len(y)
      BY <1>17, <2>1, <3>1
    <3>2. CASE x \notin 1..Len(y)
      <4>1. x - Len(y) \in 1..Len(z) /\ Len(y) + (x - Len(y)) = x
        BY <2>1, <2>2, <3>2, SMTT(30)
      <4> QED
        BY <1>17, <2>1, <4>1
    <3> QED
      BY <3>1, <3>2
  <2> QED
    BY <2>1, <2>3
<1> HIDE DEF Clear, a, b
<1>18. Clear(((a \o <<"[">>) \o b) \o <<"]">>)
  <2>1. Clear(a \o <<"[">>)
    BY <1>15, <1>16, <1>17
  <2>2. Clear((a \o <<"[">>) \o b)
    BY <1>15, <1>17, <2>1
  <2> QED
    BY <1>16, <1>17, <2>2
<1>19. AsProperty(s, p, j, k) = ((a \o <<"[">>) \o b) \o <<"]">>
  BY DEF AsProperty, a, b
<1>20. Clear(AsProperty(s, p, j, k))
  BY <1>18, <1>19
<1> QED
  BY <1>11, <1>20 DEF Clear, IsMeantAt

\* In a plain script the n1ql call that opens at p is rewritten as it is meant, whatever
\* the first loop does to the rest.
LEMMA MeantN1ql ==
  ASSUME NEW s \in Script, Plain(s), NEW p \in 1..Len(s), s[p] = N1qlOpen, NEW e \in Ends(s, p)
  PROVE  /\ MeantRest(s)[p] = AsTemplate(s, p, e) \o MeantRest(s)[e + 2]
         /\ N1ql(EnqueueRest(s)[p]) = AsTemplate(s, p, e) \o N1ql(EnqueueRest(s)[e + 2])
         /\ e + 2 \in (p + 1)..(Len(s) + 1)
<1>t. PICK t : t = EnqueueRest(s)[p]
  OBVIOUS
<1>0. Len(s) \in Nat /\ p \in 1..(Len(s) + 1) /\ 1 - p \in Int
  BY Rest, SMTT(30)
<1>1. e \in (p + 1)..(Len(s) - 1)
  BY EndsIs
<1>2. /\ e + 1 \in p..Len(s) /\ e + 2 \in (p + 1)..(Len(s) + 1) /\ e + 2 \in 1..(Len(s) + 1) /\ e \in Nat
      /\ p < e /\ e < Len(s) /\ e \in 1..Len(s)
  BY <1>0, <1>1, SMTT(30)
<1>3. Ends(s, p) \subseteq 0..Len(s) /\ 0..Len(s) \subseteq Nat
  BY <1>0, SMTT(30) DEF Ends, RestOfLine
<1>4. \A x \in Ends(s, p) : x = e
  <2>1. AtMostOne(Ends(s, p))
    BY DEF Plain
  <2> QED
    BY <2>1 DEF AtMostOne
<1>5. Min(Ends(s, p)) = e
  BY <1>3, <1>4, MinIs
<1>6. MeantRest(s)[p] = AsTemplate(s, p, e) \o MeantRest(s)[e + 2]
  <2>1. MeantCall(s, p) = [text |-> AsTemplate(s, p, e), next |-> e + 2]
    <3>1. Ends(s, p) # {}
      OBVIOUS
    <3> QED
      BY <1>5, <3>1, MeantCases
  <2>2. MeantCall(s, p).text = AsTemplate(s, p, e) /\ MeantCall(s, p).next = e + 2
    BY <2>1, SMTT(30)
  <2>3. MeantRest(s)[p] = MeantCall(s, p).text \o MeantRest(s)[MeantCall(s, p).next]
    BY MeantEq
  <2> QED
    BY <2>2, <2>3
<1>7. /\ e + (1 - p) \in Ends(t, 1)
      /\ \A x \in Ends(t, 1) : x - (1 - p) \in Ends(s, p)
      /\ t = SubSeq(s, p, e + 1) \o EnqueueRest(s)[e + 2]
  BY <1>t, LineEnds
<1> DEFINE a == SubSeq(s, p, e + 1)
           u == EnqueueRest(s)[e + 2]
<1>8. u \in Script /\ Len(u) \in Nat
  BY <1>2, EnqueueTyped, Rest
<1>9. t \in Script /\ Len(t) = ((e + 1) - p + 1) + Len(u) /\ Agree(s, t, 1 - p, p, e + 1)
  BY <1>2, <1>7, <1>8, PieceAgree
<1>10. a \in Script /\ Len(a) = (e + 1) - p + 1
  <2>1. e + 1 \in 0..Len(s) /\ p <= e + 1
    BY <1>0, <1>2, SMTT(30)
  <2> QED
    BY <1>0, <2>1, Piece
<1> HIDE DEF a, u
<1>11. 1 \in 1..Len(t) /\ t[1] = N1qlOpen
  <2>1. p \in p..(e + 1) /\ p + (1 - p) = 1 /\ 1 \in 1..Len(t)
    BY <1>0, <1>2, <1>8, <1>9, SMTT(30)
  <2>2. t[p + (1 - p)] = s[p]
    BY <1>9, <2>1 DEF Agree
  <2> QED
    BY <2>1, <2>2
<1>12. PICK y \in 1..Len(t) : /\ N1qlMatch(t, 1, 1, y)
                              /\ N1qlRest(t)[1] = AsTemplate(t, 1, y) \o N1qlRest(t)[y + 2]
  <2>1. Ends(t, 1) # {}
    BY <1>7
  <2> QED
    BY <1>9, <1>11, <2>1, N1qlHere
<1>13. y = e + (1 - p)
  <2>1. y \in Ends(t, 1) /\ y \in Nat
    BY <1>12, SMTT(30) DEF N1qlMatch
  <2>2. y - (1 - p) = e
    BY <1>4, <1>7, <2>1
  <2> QED
    BY <1>0, <1>2, <2>1, <2>2, SMTT(30)
<1>14. AsTemplate(t, 1, y) = AsTemplate(s, p, e)
  <2>1. Agree(s, t, 1 - p, p + 1, e - 1)
    <3>1. /\ p + 1 \in 1..(Len(s) + 1) /\ e - 1 \in 0..Len(s)
          /\ (p + 1) + (1 - p) \in 1..(Len(t) + 1) /\ (e - 1) + (1 - p) \in 0..Len(t)
      BY <1>0, <1>2, <1>8, <1>9, SMTT(30)
    <3>2. \A x \in (p + 1)..(e - 1) : x \in p..(e + 1)
      BY <1>2, SMTT(30)
    <3> QED
      BY <1>9, <3>1, <3>2 DEF Agree
  <2>2. p + 1 \in Nat /\ e - 1 \in Nat /\ (p + 1) + (1 - p) = 1 + 1 /\ (e - 1) + (1 - p) = y - 1
    BY <1>0, <1>2, <1>13, SMTT(30)
  <2>3. SubSeq(t, (p + 1) + (1 - p), (e - 1) + (1 - p)) = SubSeq(s, p + 1, e - 1)
    <3>1. SamePiece(s, t, 1 - p, p + 1, e - 1)
      BY <1>0, <1>9, <2>1, <2>2, SameSubSeq
    <3> QED
      BY <3>1 DEF SamePiece
  <2>4. SubSeq(t, 1 + 1, y - 1) = SubSeq(s, p + 1, e - 1)
    BY <2>2, <2>3
  <2> QED
    BY <2>4 DEF AsTemplate
<1>15. N1qlRest(t)[y + 2] = N1ql(u)
  <2>1. y + 2 = Len(a) + 1 /\ 1 \in 1..(Len(u) + 1) /\ t = a \o u
    <3>1. t = a \o u
      BY <1>7 DEF a, u
    <3>2. y + 2 = Len(a) + 1
      BY <1>0, <1>2, <1>10, <1>13, SMTT(30)
    <3>3. 1 \in 1..(Len(u) + 1)
      BY <1>8, SMTT(30)
    <3> QED
      BY <3>1, <3>2, <3>3
  <2>2. N1qlRest(a \o u)[Len(a) + 1] = N1qlRest(u)[1]
    BY <1>8, <1>10, <2>1, N1qlShift
  <2> QED
    BY <2>1, <2>2 DEF N1ql
<1>16. N1ql(t) = AsTemplate(s, p, e) \o N1ql(u)
  BY <1>12, <1>14, <1>15 DEF N1ql
<1> QED
  BY <1>t, <1>2, <1>6, <1>16 DEF u

\* A plain script is rewritten as it is meant: each call by itself.
THEOREM PreprocessAsMeant ==
  ASSUME NEW s \in Seq(Tokens), Plain(s)
  PROVE  Preprocess(s) = Meant(s)
<1> DEFINE R == EnqueueRest(s)
           M == MeantRest(s)
           G == {p \in 1..(Len(s) + 1) : N1ql(R[p]) = M[p]}
<1>s. s \in Script
  BY DEF Script
<1>0. Len(s) \in Nat
  BY <1>s, Rest
<1>d. EnqueueOpen # N1qlOpen
  BY DEF EnqueueOpen, N1qlOpen
<1>1. ASSUME NEW p \in 1..(Len(s) + 1), \A q \in (p + 1)..(Len(s) + 1) : q \in G
      PROVE  p \in G
  <2>1. CASE p = Len(s) + 1
    <3>1. R[p] = <<>>
      <4>1. p..Len(s) = {}
        BY <1>0, <2>1, SMTT(30)
      <4>2. EnqueueAt(s, p) = {}
        BY <4>1 DEF EnqueueAt
      <4>3. R[p] = From(s, p)
        BY <1>s, <4>2, EnqueueNone
      <4> QED
        BY <1>s, <2>1, <4>3, Rest
    <3>2. N1ql(<<>>) = <<>>
      <4>1. <<>> \in Script /\ Len(<<>>) = 0 /\ 1 \in 1..(0 + 1) /\ 1..0 = {} /\ 0 + 1 = 1
        BY SMTT(30) DEF Script
      <4>2. N1qlAt(<<>>, 1) = {}
        BY <4>1 DEF N1qlAt
      <4>3. N1qlRest(<<>>)[1] = From(<<>>, 1)
        BY <4>1, <4>2, N1qlNone
      <4>4. From(<<>>, 1) = <<>>
        BY <4>1, Rest
      <4> QED
        BY <4>3, <4>4 DEF N1ql
    <3>3. M[p] = <<>>
      BY <1>s, <2>1, MeantEq
    <3> QED
      BY <3>1, <3>2, <3>3
  <2>2. CASE p # Len(s) + 1
    <3>1. p \in 1..Len(s) /\ p + 1 \in (p + 1)..(Len(s) + 1) /\ p + 1 \in 1..(Len(s) + 1)
      BY <1>0, <2>2, SMTT(30)
    <3>2. CASE s[p] = EnqueueOpen /\ Commas(s, p) # {}
      <4>1. PICK j \in 1..Len(s), k \in 1..Len(s) :
               EnqueueMatch(s, p, p, j, k) /\ R[p] = AsProperty(s, p, j, k) \o R[k + 1]
        BY <1>s, <3>1, <3>2, EnqueueHere
      <4> DEFINE r == AsProperty(s, p, j, k)
      <4>2. M[p] = r \o M[k + 1] /\ \A x \in 1..Len(r) : r[x] # N1qlOpen
        <5>1. EnqueueMatch(s, p, p, j, k)
          BY <4>1
        <5>2. IsMeantAt(s, p, j, k)
          BY <1>s, <3>1, <3>2, <5>1, MeantEnqueue
        <5> QED
          BY <5>2 DEF IsMeantAt
      <4>3. p < k
        BY <4>1, SMTT(30) DEF EnqueueMatch
      <4>4. k + 1 \in (p + 1)..(Len(s) + 1) /\ k + 1 \in 1..(Len(s) + 1)
        BY <1>0, <3>1, <4>3, SMTT(30)
      <4>5. r \in Script
        BY <1>s, <3>1, Replacement
      <4>6. R[k + 1] \in Script
        BY <1>s, <4>4, EnqueueTyped
      <4>7. N1ql(R[k + 1]) = M[k + 1]
        BY <1>1, <4>4
      <4> HIDE DEF r, R, M
      <4>8. N1ql(r \o R[k + 1]) = r \o N1ql(R[k + 1])
        BY <4>2, <4>5, <4>6, N1qlPrefix
      <4>9. R[p] = r \o R[k + 1]
        BY <4>1 DEF r
      <4>10. N1ql(R[p]) = M[p]
        BY <4>2, <4>7, <4>8, <4>9
      <4> QED
        BY <4>10
    <3>3. CASE s[p] = N1qlOpen /\ Ends(s, p) # {}
      <4>1. PICK e \in Ends(s, p) : TRUE
        BY <3>3
      <4>2. /\ M[p] = AsTemplate(s, p, e) \o M[e + 2]
            /\ N1ql(R[p]) = AsTemplate(s, p, e) \o N1ql(R[e + 2])
            /\ e + 2 \in (p + 1)..(Len(s) + 1)
        BY <1>s, <3>1, <3>3, <4>1, MeantN1ql
      <4>3. N1ql(R[e + 2]) = M[e + 2]
        BY <1>1, <4>2
      <4>4. N1ql(R[p]) = M[p]
        BY <4>2, <4>3
      <4> QED
        BY <4>4
    <3>4. CASE /\ ~ (s[p] = EnqueueOpen /\ Commas(s, p) # {})
               /\ ~ (s[p] = N1qlOpen /\ Ends(s, p) # {})
      <4>1. R[p] = <<s[p]>> \o R[p + 1]
        BY <1>s, <3>1, <3>4, EnqueueStep
      <4>2. ~ (s[p] = EnqueueOpen /\ CommasOn(s, p) # {} /\ Closes(s, p) # {})
        <5> SUFFICES ASSUME s[p] = EnqueueOpen, NEW j \in CommasOn(s, p), NEW k \in Closes(s, p)
                     PROVE  FALSE
          OBVIOUS
        <5>1. j < k
          BY <3>1 DEF Plain
        <5>2. RestOfLine(s, p) \subseteq (p + 1)..Len(s)
          BY DEF RestOfLine
        <5>3. j \in (p + 1)..Len(s) /\ k \in (p + 1)..Len(s)
          BY <5>2 DEF CommasOn, Closes
        <5>4. k > j
          BY <1>0, <5>1, <5>3
        <5>5. j \in Commas(s, p)
          BY <5>4 DEF Commas, CommasOn
        <5> QED
          BY <3>4, <5>5
      <4>3. M[p] = <<s[p]>> \o M[p + 1]
        BY <1>s, <3>1, <3>4, <4>2, MeantToken
      <4>4. R[p + 1] \in Script /\ s[p] \in Tokens
        BY <1>s, <3>1, EnqueueTyped, Rest
      <4>5. ~ (s[p] = N1qlOpen /\ Ends(<<s[p]>> \o R[p + 1], 1) # {})
        <5> SUFFICES ASSUME s[p] = N1qlOpen
                     PROVE  Ends(<<s[p]>> \o R[p + 1], 1) = {}
          OBVIOUS
        <5>1. Ends(s, p) = {}
          BY <3>4
        <5>2. \A x \in Ends(R[p], 1) : x - (1 - p) \in Ends(s, p)
          BY <1>s, <3>1, LineEnds
        <5> QED
          BY <4>1, <5>1, <5>2
      <4>6. N1ql(R[p + 1]) = M[p + 1]
        BY <1>1, <3>1
      <4> HIDE DEF R, M
      <4>7. N1ql(<<s[p]>> \o R[p + 1]) = <<s[p]>> \o N1ql(R[p + 1])
        BY <4>4, <4>5, N1qlToken
      <4>8. N1ql(R[p]) = M[p]
        BY <4>1, <4>3, <4>6, <4>7
      <4> QED
        BY <4>8
    <3> QED
      BY <3>2, <3>3, <3>4
  <2> QED
    BY <2>1, <2>2
<1>2. G = 1..(Len(s) + 1)
  <2> HIDE DEF G
  <2>1. G \subseteq 1..(Len(s) + 1)
    BY DEF G
  <2> QED
    BY <1>0, <1>1, <2>1, Downward
<1>3. 1 \in 1..(Len(s) + 1)
  BY <1>0, SMTT(30)
<1>4. N1ql(R[1]) = M[1]
  BY <1>2, <1>3
<1> QED
  BY <1>4 DEF Preprocess, Enqueue, Meant

-----------------------------------------------------------------------------
(* What V8 is given.                                                       *)

\* WordsKept: whatever script is deployed, and however set-ups overlap, Preprocess
\* loses, repeats and reorders nothing of it but the delimiters of calls.
THEOREM ScriptsKeepWords == Spec => []WordsKept
<1>1. ScriptInv => WordsKept
  BY LoadedScript, PreprocessKeepsWords DEF WordsKept
<1> QED
  BY <1>1, ScriptInit, ScriptNext, PTL DEF Spec

\* RewrittenAsMeant: a script of any length whose calls are each alone on a line
\* reaches V8 with every n1ql call and every enqueue rewritten as meant.
THEOREM ScriptsAsMeant == Spec => []RewrittenAsMeant
<1>1. ScriptInv => RewrittenAsMeant
  BY LoadedScript, PreprocessAsMeant DEF RewrittenAsMeant
<1> QED
  BY <1>1, ScriptInit, ScriptNext, PTL DEF Spec
=============================================================================
