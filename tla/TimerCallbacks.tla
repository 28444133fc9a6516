--------------------------- MODULE TimerCallbacks ---------------------------
(***************************************************************************)
(* Timers of one application.  registerCallback, called by handler code,   *)
(* stores a blob under the document's key and appends the key to the       *)
(* marker of the second at which the callback is due; a goroutine wakes    *)
(* every second, fetches the marker of two seconds ago, calls the callback *)
(* of every key in it and deletes the marker and the blobs.  All of it     *)
(* lies in the metadata bucket and no two operations are atomic.           *)
(*                                                                         *)
(* A time is a number of seconds.  Both sides print times in UTC with the  *)
(* same fields, down to the second, so equal times and no others have      *)
(* equal marker keys.  Document keys contain no ";".                       *)
(***************************************************************************)
EXTENDS Naturals, Sequences, FiniteSets

CONSTANTS
    Docs,        \* document keys
    Values,      \* timer values that handler code passes to registerCallback
    Times,       \* the seconds whose markers the model keeps
    Start,       \* the time at which the model starts
    MaxTicks,    \* bound on the seconds that pass
    MaxRegs,     \* bound on the registrations
    NoSlot,      \* there is no marker for that second
    NoReg,       \* no registerCallback is being executed
    RegLag,      \* a registerCallback takes at most this many seconds
    Envs         \* the environments considered: prompt if the goroutine takes a
                 \* tick in its second and is done with it before the next,
                 \* fresh if no document is registered twice

ASSUME TimerAssumption ==
    /\ Start \in Nat /\ Start >= 2 /\ MaxTicks \in Nat /\ MaxRegs \in Nat
    /\ RegLag \in Nat \ {0}
    /\ Values \subseteq Nat /\ Times \subseteq Nat
    /\ Envs \subseteq [prompt : BOOLEAN, fresh : BOOLEAN]
    /\ NoReg \notin [doc : Docs, val : Nat, ts : Times, at : Nat,
                     step : {"set", "get", "add", "append"}]

\* No marker, not even an empty one, stands for its absence.
ASSUME NoSlotAssumption == NoSlot \notin Seq(Docs)

VARIABLES
    env,      \* the environment, which never changes
    now,      \* the clock
    due,      \* the ticker has still to fire in this second
    slot,     \* the markers: per second, the document keys appended to it
    blob,     \* per document, the start_timestamp of its blob, 0 if it has none
    reg,      \* the registerCallback being executed
    holder,   \* the thread that holds the Locker of the isolate
    tick,     \* the ticker's channel holds a tick (it has room for one)
    tpc,      \* where processTimerEvent is
    docID,    \* the second it looks at
    value,    \* the keys it found there
    idx,      \* position in value
    regs,     \* history: registrations that reached their append
    fired,    \* history: callbacks called, with the second and the blob they are for
    purged    \* history: seconds whose marker was deleted, with the keys in it

clock == <<env, now, due, tick>>
timer == <<tpc, docID, value, idx>>
history == <<regs, fired, purged>>
vars == <<env, now, due, slot, blob, reg, holder, tick, tpc, docID, value, idx,
          regs, fired, purged>>

Init ==
    /\ env \in Envs
    /\ now = Start
    /\ due \in BOOLEAN
    /\ slot = [t \in Times |-> NoSlot]
    /\ blob = [d \in Docs |-> 0]
    /\ reg = NoReg
    /\ holder = "none"
    /\ tick = FALSE
    /\ tpc = "idle"
    /\ docID = Start - 2
    /\ value = <<>>
    /\ idx = 1
    /\ regs = <<>>
    /\ fired = <<>>
    /\ purged = {}

-----------------------------------------------------------------------------
(* registerCallback                                                        *)

\* A large value is a time, a small one a number of seconds from now.
ConvertToISO8601(v) == IF v > 25920000 THEN v ELSE now + v

\* The call begins, unless the value is 0: by a handler, which has the
\* isolate's Locker, or by a timer callback, which runs under the same lock.
RegisterCallback(d, v) ==
    /\ reg = NoReg
    /\ v # 0
    /\ ConvertToISO8601(v) \in Times
    /\ Len(regs) < MaxRegs
    /\ env.fresh => \A i \in 1 .. Len(regs) : regs[i].doc # d
    /\ \/ holder = "none" /\ holder' = "handler"
       \/ holder = "handler" /\ UNCHANGED holder
       \/ holder = "timer" /\ tpc = "js" /\ UNCHANGED holder
    /\ reg' = [doc |-> d, val |-> v, ts |-> ConvertToISO8601(v), at |-> now, step |-> "set"]
    /\ UNCHANGED <<clock, slot, blob, timer, history>>

\* Mutant of RegSetBlob: the blob holds the time of the call.
RegSetBlobRaw ==
    /\ reg # NoReg /\ reg.step = "set"
    /\ blob' = [blob EXCEPT ![reg.doc] = reg.at]
    /\ reg' = [reg EXCEPT !.step = "get"]
    /\ UNCHANGED <<clock, slot, holder, timer, history>>

\* LCB_SET of the blob; the status of no store is looked at.
RegSetBlob ==
    /\ reg # NoReg /\ reg.step = "set"
    /\ blob' = [blob EXCEPT ![reg.doc] = reg.ts]
    /\ reg' = [reg EXCEPT !.step = "get"]
    /\ UNCHANGED <<clock, slot, holder, timer, history>>

\* LCB_GET of the marker decides whether LCB_ADD is needed.
RegGetMarker ==
    /\ reg # NoReg /\ reg.step = "get"
    /\ reg' = [reg EXCEPT !.step = IF slot[reg.ts] = NoSlot THEN "add" ELSE "append"]
    /\ UNCHANGED <<clock, slot, blob, holder, timer, history>>

\* LCB_ADD of an empty marker, which fails if there is one.
RegAddMarker ==
    /\ reg # NoReg /\ reg.step = "add"
    /\ slot' = [slot EXCEPT ![reg.ts] = IF @ = NoSlot THEN <<>> ELSE @]
    /\ reg' = [reg EXCEPT !.step = "append"]
    /\ UNCHANGED <<clock, blob, holder, timer, history>>

\* LCB_APPEND of the key, which fails if there is no marker.
RegAppend ==
    /\ reg # NoReg /\ reg.step = "append"
    /\ slot' = [slot EXCEPT ![reg.ts] = IF @ = NoSlot THEN @ ELSE Append(@, reg.doc)]
    /\ reg' = NoReg
    /\ regs' = Append(regs, [doc |-> reg.doc, ts |-> reg.ts, at |-> reg.at])
    /\ UNCHANGED <<clock, blob, holder, timer, fired, purged>>

HandlerReturn ==
    /\ holder = "handler" /\ reg = NoReg
    /\ holder' = "none"
    /\ UNCHANGED <<clock, slot, blob, reg, timer, history>>

-----------------------------------------------------------------------------
(* processTimerEvent and SendTimerCallback                                 *)

\* A second of the clock passes.  How slow the goroutine and a registerCallback
\* may be are assumptions, not code.
Second ==
    /\ ~ due
    /\ now < Start + MaxTicks
    /\ env.prompt => ~ tick
    /\ reg # NoReg => now < reg.at + RegLag
    /\ now' = now + 1
    /\ due' = TRUE
    /\ UNCHANGED <<env, slot, blob, reg, holder, tick, timer, history>>

\* The ticker fires once a second, somewhere between two seconds of the clock;
\* a tick that finds the channel full is dropped.
Fire ==
    /\ due
    /\ env.prompt => tpc = "idle" /\ ~ tick
    /\ due' = FALSE
    /\ tick' = TRUE
    /\ UNCHANGED <<env, now, slot, blob, reg, holder, timer, history>>

\* Mutant of NewISO8601: a delay of one second.
NewISO8601OneSecond(t) == t - 1

NewISO8601(t) == t - 2

\* The clock is read when the tick is taken, not when the ticker fired.
TakeTick ==
    /\ tpc = "idle" /\ tick
    /\ tick' = FALSE
    /\ docID' = NewISO8601(now)
    /\ tpc' = "get"
    /\ UNCHANGED <<env, now, due, slot, blob, reg, holder, value, idx, history>>

\* bucketGet, which answers whenever the bucket does.  It is the value of the
\* first case's send, so it is evaluated before the select waits, and
\* time.After only after it: the second case is never taken.
BucketGet ==
    /\ tpc = "get"
    /\ value' = IF docID \in Times /\ slot[docID] # NoSlot THEN slot[docID] ELSE <<>>
    /\ tpc' = "send"
    /\ UNCHANGED <<clock, slot, blob, reg, holder, docID, idx, history>>

\* Mutant of SendTimerCallback: no Locker is taken.
SendTimerCallbackUnlocked ==
    /\ tpc = "send"
    /\ idx' = 1
    /\ tpc' = IF value = <<>> THEN "purge" ELSE "call"
    /\ UNCHANGED <<clock, slot, blob, reg, holder, docID, value, history>>

\* SendTimerCallback takes the Locker if there is any key.
SendTimerCallback ==
    /\ tpc = "send"
    /\ idx' = 1
    /\ \/ value = <<>> /\ tpc' = "purge" /\ UNCHANGED holder
       \/ value # <<>> /\ holder = "none" /\ holder' = "timer" /\ tpc' = "call"
    /\ UNCHANGED <<clock, slot, blob, reg, docID, value, history>>

\* The next key: its callback is called if it has a blob.  A key without one
\* ends SendTimerCallback, and so does the last key.
CallNext ==
    /\ tpc = "call"
    /\ IF idx <= Len(value) /\ blob[value[idx]] # 0
         THEN /\ fired' = Append(fired, [doc |-> value[idx], ts |-> docID,
                                         blob |-> blob[value[idx]]])
              /\ tpc' = "js"
              /\ UNCHANGED holder
         ELSE /\ tpc' = "purge"
              /\ holder' = "none"
              /\ UNCHANGED fired
    /\ UNCHANGED <<clock, slot, blob, reg, docID, value, idx, regs, purged>>

\* Mutant of CallbackReturn: a failed callback ends the loop over the keys.
CallbackReturnEnds ==
    /\ tpc = "js" /\ reg = NoReg
    /\ idx' = Len(value) + 1
    /\ tpc' = "call"
    /\ UNCHANGED <<clock, slot, blob, reg, holder, docID, value, history>>

CallbackReturn ==
    /\ tpc = "js" /\ reg = NoReg
    /\ idx' = idx + 1
    /\ tpc' = "call"
    /\ UNCHANGED <<clock, slot, blob, reg, holder, docID, value, history>>

\* Mutant of PurgeMarker: the marker is not deleted.
PurgeKeepsMarker ==
    /\ tpc = "purge"
    /\ UNCHANGED slot
    /\ purged' = IF value = <<>> THEN purged ELSE purged \cup {[ts |-> docID, keys |-> value]}
    /\ idx' = 1
    /\ tpc' = "blobs"
    /\ UNCHANGED <<clock, blob, reg, holder, docID, value, regs, fired>>

\* bucket.Delete(docID): the marker as it is now, not as it was fetched.
PurgeMarker ==
    /\ tpc = "purge"
    /\ slot' = IF docID \in Times THEN [slot EXCEPT ![docID] = NoSlot] ELSE slot
    /\ purged' = IF value = <<>> THEN purged ELSE purged \cup {[ts |-> docID, keys |-> value]}
    /\ idx' = 1
    /\ tpc' = "blobs"
    /\ UNCHANGED <<clock, blob, reg, holder, docID, value, regs, fired>>

\* bucket.Delete(keys[index]) for every key fetched, called or not.
PurgeBlobs ==
    /\ tpc = "blobs"
    /\ IF idx <= Len(value)
         THEN /\ blob' = [blob EXCEPT ![value[idx]] = 0]
              /\ idx' = idx + 1
              /\ UNCHANGED <<tpc, value>>
         ELSE /\ tpc' = "idle"
              /\ value' = <<>>
              /\ idx' = 1
              /\ UNCHANGED blob
    /\ UNCHANGED <<clock, slot, reg, holder, docID, history>>

RegisterStep == RegSetBlob \/ RegGetMarker \/ RegAddMarker \/ RegAppend

TimerStep ==
    \/ TakeTick \/ BucketGet \/ SendTimerCallback \/ CallNext \/ CallbackReturn
    \/ PurgeMarker \/ PurgeBlobs

Next ==
    \/ \E d \in Docs, v \in Values : RegisterCallback(d, v)
    \/ RegisterStep
    \/ HandlerReturn
    \/ Second
    \/ Fire
    \/ TimerStep

Spec == Init /\ [][Next]_vars

-----------------------------------------------------------------------------
(* Properties                                                              *)

\* Every variable has its type; a blob and a marker are for a time of the
\* model and a timer callback runs with the isolate's Locker.
TypeOK ==
    /\ env \in Envs
    /\ now \in Start .. Start + MaxTicks
    /\ slot \in [Times -> Seq(Docs) \cup {NoSlot}]
    /\ blob \in [Docs -> Times \cup {0}]
    /\ reg # NoReg => reg.doc \in Docs /\ reg.ts \in Times
                      /\ reg.step \in {"set", "get", "add", "append"}
    /\ holder \in {"none", "handler", "timer"}
    /\ due \in BOOLEAN /\ tick \in BOOLEAN
    /\ tpc \in {"idle", "get", "send", "call", "js", "purge", "blobs"}
    /\ holder = "timer" <=> tpc \in {"call", "js"}
    /\ docID \in Nat
    /\ value \in Seq(Docs)
    /\ idx \in 1 .. Len(value) + 1
    /\ reg # NoReg => holder # "none"

Registered(d, t) == {i \in 1 .. Len(regs) : regs[i].doc = d /\ regs[i].ts = t}

Fired(d, t) == {i \in 1 .. Len(fired) : fired[i].doc = d /\ fired[i].ts = t}

\* "Delay the timestamp by 2 second to allow callbacks to get processed"
\* (proccess_timer_callbacks.go): if every tick is served in time, documents
\* are registered once and registerCallback takes at most two seconds, every
\* callback registered for a later second has been called when its turn is
\* over.
NoMissedCallback ==
    \A i \in 1 .. Len(regs) :
        /\ env.prompt /\ env.fresh
        /\ regs[i].ts > regs[i].at
        /\ now > regs[i].ts + 2 /\ tpc = "idle"
        => Fired(regs[i].doc, regs[i].ts) # {}

\* If no document is registered twice, the blob SendTimerCallback takes the
\* callback from is the one stored for the second that is being processed.
RightCallback ==
    env.fresh => \A i \in 1 .. Len(fired) : fired[i].blob = fired[i].ts

\* However slow the goroutine is and however often documents are registered,
\* no callback is called more often for a second than it was registered for
\* it: processTimerEvent deletes a marker before it fetches one again.
FiresBounded ==
    \A d \in Docs, t \in Times : Cardinality(Fired(d, t)) <= Cardinality(Registered(d, t))

\* "Purge all timer event and docid once they are processed"
\* (proccess_timer_callbacks.go): if no document is registered twice, what is
\* purged has been called, however slow the goroutine is.
PurgedOnceProcessed ==
    env.fresh => \A p \in purged : \A i \in 1 .. Len(p.keys) : Fired(p.keys[i], p.ts) # {}
=============================================================================
