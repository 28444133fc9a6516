--------------------------- MODULE MutationFilter ---------------------------
(***************************************************************************)
(* The path of a mutation of the source bucket from its DCP stream through *)
(* an application's channel rch to the JavaScript handlers, and the filter *)
(* that keeps a handler from being called for a document it stored itself: *)
(* BucketSet stores the document and then, in the application's metadata   *)
(* bucket, a marker whose key is the CAS value of the store; the worker    *)
(* looks that key up for every mutation, and a mutation with a marker is   *)
(* dropped and its marker deleted.                                         *)
(*                                                                         *)
(* A CAS value is the position of its mutation in log.  libcouchbase keeps *)
(* it in wire byte order and the DCP client in host order; htonll_64 swaps *)
(* the bytes before the key is printed, so both sides print one number.    *)
(* Documents carry no values: what a handler computes is arbitrary, so is  *)
(* the key it writes.  Stores to a bucket other than the source bucket     *)
(* raise no mutation and are left out.                                     *)
(***************************************************************************)
EXTENDS Naturals, Sequences

CONSTANTS
    Apps,            \* deployed applications, all with the same source bucket
    Keys,            \* document keys
    User,            \* whoever else writes to the source bucket
    Buckets,         \* metadata buckets
    MetadataBucket,  \* the metadata bucket in each application's settings
    Callers,         \* threads besides the worker that run handler code
    RchCap,          \* capacity of rch (10000 in the code)
    MaxWrites,       \* bound on the mutations of the source bucket
    MaxRestarts,     \* bound on the restarts of the eventing process
    KvFails          \* whether operations on the buckets may fail

ASSUME FilterAssumption ==
    /\ User \notin Apps
    /\ MetadataBucket \in [Apps -> Buckets]
    /\ Callers \subseteq {"http", "timer"}
    /\ RchCap \in Nat /\ MaxWrites \in Nat /\ MaxRestarts \in Nat
    /\ KvFails \in BOOLEAN

VARIABLES
    log,       \* mutations of the source bucket, in the order of their CAS values
    markers,   \* per metadata bucket, the CAS values that are keys of markers
    sent,      \* mutations an application's stream has passed, by sending or by
               \* leaving them out for a later mutation of the same key
    rch,       \* per application, the channel from startBucket to runWorker
    ev,        \* the mutation in handleDcpEvent, 0 if there is none
    pc,        \* where runWorker is
    inside,    \* the thread that holds the Locker of the application's isolate
    cas,       \* result.cas of a BucketSet between its two stores
    handled,   \* history: mutations the handlers were called for
    ignored,   \* history: mutations the filter dropped
    restarts   \* restarts so far

buckets == <<log, markers>>
stream == <<sent, rch>>
history == <<handled, ignored>>
vars == <<log, markers, sent, rch, ev, pc, inside, cas, handled, ignored, restarts>>

Mutation == [key : Keys, op : {"set", "del"}, by : Apps \cup {User}]

Own(a, c) == log[c].by = a /\ log[c].op = "set"

\* The document k exists: its last mutation is not a deletion.
Exists(k) ==
    \E c \in 1 .. Len(log) :
        /\ log[c].key = k /\ log[c].op = "set"
        /\ \A later \in c + 1 .. Len(log) : log[later].key # k

Init ==
    /\ log = <<>>
    /\ markers = [b \in Buckets |-> {}]
    /\ sent = [a \in Apps |-> {}]
    /\ rch = [a \in Apps |-> <<>>]
    /\ ev = [a \in Apps |-> 0]
    /\ pc = [a \in Apps |-> "select"]
    /\ inside = [a \in Apps |-> "none"]
    /\ cas = [a \in Apps |-> {}]
    /\ handled = [a \in Apps |-> {}]
    /\ ignored = [a \in Apps |-> {}]
    /\ restarts = 0

-----------------------------------------------------------------------------
(* The source bucket (external).                                           *)

\* A mutation of key k by the author who; the server numbers it and removing
\* a document that does not exist is no mutation.
Mutate(k, op, who) ==
    /\ Len(log) < MaxWrites
    /\ op = "del" => Exists(k)
    /\ log' = Append(log, [key |-> k, op |-> op, by |-> who])

UserWrite(k, op) ==
    /\ Mutate(k, op, User)
    /\ UNCHANGED <<markers, stream, ev, pc, inside, cas, history, restarts>>

-----------------------------------------------------------------------------
(* startBucket: the stream keeps the order of the mutations of a key and   *)
(* none between keys, and it may send only the last of several mutations   *)
(* of a key.  The send on rch waits while the channel is full.             *)

\* Mutant of FeedPush: the send does not wait for room in rch.
FeedPushUnbounded(a, c) ==
    /\ c \notin sent[a]
    /\ sent' = [sent EXCEPT ![a] = @ \cup {e \in 1 .. c : log[e].key = log[c].key}]
    /\ rch' = [rch EXCEPT ![a] = Append(@, c)]
    /\ UNCHANGED <<buckets, ev, pc, inside, cas, history, restarts>>

FeedPush(a, c) ==
    /\ c \notin sent[a]
    /\ Len(rch[a]) < RchCap
    /\ sent' = [sent EXCEPT ![a] = @ \cup {e \in 1 .. c : log[e].key = log[c].key}]
    /\ rch' = [rch EXCEPT ![a] = Append(@, c)]
    /\ UNCHANGED <<buckets, ev, pc, inside, cas, history, restarts>>

-----------------------------------------------------------------------------
(* runWorker and handleDcpEvent.                                           *)

\* case msg := <-chans.rch.  A deletion goes to SendDelete without a lookup.
Receive(a) ==
    /\ pc[a] = "select"
    /\ rch[a] # <<>>
    /\ ev' = [ev EXCEPT ![a] = Head(rch[a])]
    /\ rch' = [rch EXCEPT ![a] = Tail(@)]
    /\ pc' = [pc EXCEPT ![a] = IF log[Head(rch[a])].op = "set" THEN "check" ELSE "call"]
    /\ UNCHANGED <<buckets, sent, inside, cas, history, restarts>>

\* Mutant of CheckCas: markers are matched by document key.
CheckCasByKey(a) ==
    /\ pc[a] = "check"
    /\ LET found == \E c \in markers[MetadataBucket[a]] \cap 1 .. Len(log) :
                       log[c].key = log[ev[a]].key
       IN  pc' = [pc EXCEPT ![a] = IF found THEN "skip" ELSE "call"]
    /\ UNCHANGED <<buckets, stream, ev, inside, cas, history, restarts>>

\* bucket.GetRaw(casValue): any error, not only a missing key, counts as
\* "no marker".
CheckCas(a) ==
    /\ pc[a] = "check"
    /\ \E found \in BOOLEAN :
         /\ found => ev[a] \in markers[MetadataBucket[a]]
         /\ ~ found => ev[a] \notin markers[MetadataBucket[a]] \/ KvFails
         /\ pc' = [pc EXCEPT ![a] = IF found THEN "skip" ELSE "call"]
    /\ UNCHANGED <<buckets, stream, ev, inside, cas, history, restarts>>

\* bucket.Delete(casValue), whose error is dropped; the event is over.
SkipDelete(a) ==
    /\ pc[a] = "skip"
    /\ \/ markers' = [markers EXCEPT ![MetadataBucket[a]] = @ \ {ev[a]}]
       \/ KvFails /\ UNCHANGED markers
    /\ ignored' = [ignored EXCEPT ![a] = @ \cup {ev[a]}]
    /\ ev' = [ev EXCEPT ![a] = 0]
    /\ pc' = [pc EXCEPT ![a] = "select"]
    /\ UNCHANGED <<log, stream, inside, cas, handled, restarts>>

\* SendUpdate or SendDelete: take the Locker and call the handler.
CallHandler(a) ==
    /\ pc[a] = "call"
    /\ inside[a] = "none"
    /\ inside' = [inside EXCEPT ![a] = "worker"]
    /\ pc' = [pc EXCEPT ![a] = "running"]
    /\ handled' = [handled EXCEPT ![a] = @ \cup {ev[a]}]
    /\ UNCHANGED <<buckets, stream, ev, cas, ignored, restarts>>

-----------------------------------------------------------------------------
(* The isolate: handler code, run by the worker or by another thread.      *)

\* SendHTTPGet, SendHTTPPost (an HTTP request's goroutine) and
\* SendTimerCallback (the timer's goroutine) take the same Locker.
OtherCall(a, t) ==
    /\ inside[a] = "none"
    /\ inside' = [inside EXCEPT ![a] = t]
    /\ UNCHANGED <<buckets, stream, ev, pc, cas, history, restarts>>

\* BucketSet, the store of the document.  The status is not looked at: after
\* a failure, or an answer that is lost, result.cas is 0.
BucketSet(a, k) ==
    /\ inside[a] # "none"
    /\ cas[a] = {}
    /\ \/ Mutate(k, "set", a) /\ cas' = [cas EXCEPT ![a] = {Len(log) + 1}]
       \/ KvFails /\ Mutate(k, "set", a) /\ cas' = [cas EXCEPT ![a] = {0}]
       \/ KvFails /\ UNCHANGED log /\ cas' = [cas EXCEPT ![a] = {0}]
    /\ UNCHANGED <<markers, stream, ev, pc, inside, history, restarts>>

\* Mutant of StoreMarker: result.cas is read before the store has answered.
StoreMarkerEarlyCas(a) ==
    /\ cas[a] # {}
    /\ markers' = [markers EXCEPT ![MetadataBucket[a]] = @ \cup {0}]
    /\ cas' = [cas EXCEPT ![a] = {}]
    /\ UNCHANGED <<log, stream, ev, pc, inside, history, restarts>>

\* BucketSet, the store of the marker; its outcome is not looked at either.
StoreMarker(a) ==
    /\ cas[a] # {}
    /\ \/ markers' = [markers EXCEPT ![MetadataBucket[a]] = @ \cup cas[a]]
       \/ KvFails /\ UNCHANGED markers
    /\ cas' = [cas EXCEPT ![a] = {}]
    /\ UNCHANGED <<log, stream, ev, pc, inside, history, restarts>>

\* BucketDelete leaves no marker.
BucketDelete(a, k) ==
    /\ inside[a] # "none"
    /\ cas[a] = {}
    /\ Mutate(k, "del", a)
    /\ UNCHANGED <<markers, stream, ev, pc, inside, cas, history, restarts>>

\* Mutant of HandlerReturn: the Locker is not released.
HandlerReturnLocked(a) ==
    /\ inside[a] # "none"
    /\ cas[a] = {}
    /\ UNCHANGED inside
    /\ ev' = [ev EXCEPT ![a] = IF inside[a] = "worker" THEN 0 ELSE @]
    /\ pc' = [pc EXCEPT ![a] = IF inside[a] = "worker" THEN "select" ELSE @]
    /\ UNCHANGED <<buckets, stream, cas, history, restarts>>

\* The handler returns or throws; the worker goes back to its select.
HandlerReturn(a) ==
    /\ inside[a] # "none"
    /\ cas[a] = {}
    /\ inside' = [inside EXCEPT ![a] = "none"]
    /\ ev' = [ev EXCEPT ![a] = IF inside[a] = "worker" THEN 0 ELSE @]
    /\ pc' = [pc EXCEPT ![a] = IF inside[a] = "worker" THEN "select" ELSE @]
    /\ UNCHANGED <<buckets, stream, cas, history, restarts>>

-----------------------------------------------------------------------------
\* The process dies and main starts it again: the buckets survive, and every
\* stream is requested from sequence number 0.
Restart ==
    /\ restarts < MaxRestarts
    /\ restarts' = restarts + 1
    /\ sent' = [a \in Apps |-> {}]
    /\ rch' = [a \in Apps |-> <<>>]
    /\ ev' = [a \in Apps |-> 0]
    /\ pc' = [a \in Apps |-> "select"]
    /\ inside' = [a \in Apps |-> "none"]
    /\ cas' = [a \in Apps |-> {}]
    /\ UNCHANGED <<buckets, history>>

WorkerStep(a) == Receive(a) \/ CheckCas(a) \/ SkipDelete(a) \/ CallHandler(a)

Next ==
    \/ \E k \in Keys, op \in {"set", "del"} : UserWrite(k, op)
    \/ \E a \in Apps :
         \/ \E c \in 1 .. Len(log) : FeedPush(a, c)
         \/ WorkerStep(a)
         \/ \E t \in Callers : OtherCall(a, t)
         \/ \E k \in Keys : BucketSet(a, k) \/ BucketDelete(a, k)
         \/ StoreMarker(a)
         \/ HandlerReturn(a)
    \/ Restart

Spec == Init /\ [][Next]_vars

\* The stream and the worker go on while they can, stores are answered and
\* handlers return.  Nothing obliges a handler to write.
Fairness ==
    \A a \in Apps :
        /\ \A c \in 1 .. MaxWrites :
               WF_vars(c \in 1 .. Len(log) /\ FeedPush(a, c))
        /\ WF_vars(WorkerStep(a))
        /\ WF_vars(StoreMarker(a))
        /\ WF_vars(HandlerReturn(a))

FairSpec == Spec /\ Fairness

-----------------------------------------------------------------------------
(* Properties.                                                             *)

\* Every variable has its type, rch stays within its capacity and the event
\* in the worker is a mutation of the source bucket.
TypeOK ==
    /\ log \in Seq(Mutation)
    /\ markers \in [Buckets -> SUBSET Nat]
    /\ sent \in [Apps -> SUBSET Nat]
    /\ rch \in [Apps -> Seq(Nat)]
    /\ \A a \in Apps : Len(rch[a]) <= RchCap
    /\ ev \in [Apps -> 0 .. Len(log)]
    /\ pc \in [Apps -> {"select", "check", "skip", "call", "running"}]
    /\ inside \in [Apps -> {"none", "worker"} \cup Callers]
    /\ cas \in [Apps -> SUBSET Nat]
    /\ handled \in [Apps -> SUBSET Nat]
    /\ ignored \in [Apps -> SUBSET Nat]
    /\ restarts \in Nat

\* "to ensure idempotent-ness of callback handlers" (v8_worker.go): no handler
\* of an application is called for a document the application itself stored.
NoSelfTrigger ==
    \A a \in Apps : \A c \in handled[a] : ~ Own(a, c)

\* The filter of handleDcpEvent drops only what it is for: a mutation dropped
\* for an application is a document stored by the handlers of an application
\* with the same metadata bucket.  A user's mutation is never dropped, nor a
\* deletion, whatever fails or restarts.
WithheldOnlyHandlerWrites ==
    \A a \in Apps : \A c \in ignored[a] :
        \E b \in Apps : MetadataBucket[b] = MetadataBucket[a] /\ Own(b, c)

Delivery == INSTANCE EventDelivery WITH log <- log, handled <- handled, ignored <- ignored

\* startBucket, handleDcpEvent and BucketSet together keep the promise of
\* EventDelivery: a mutation reaches the handlers at most once, one the
\* application stored never, and no other is dropped.
DeliveryKept == Delivery!Spec

\* A mutation that no handler made is handled by every application, unless a
\* later mutation of the same key takes its place (runWorker, startBucket).
UserMutationHandled ==
    \A a \in Apps : \A c \in 1 .. MaxWrites :
        (c <= Len(log) /\ log[c].by = User)
            ~> (c \in handled[a] \/ \E d \in c + 1 .. Len(log) : log[d].key = log[c].key)

\* The conditions under which the filter does what it is for: only the worker
\* runs handler code, no two applications share a metadata bucket, nothing
\* restarts and no operation fails.
Alone ==
    /\ Callers = {}
    /\ \A a, b \in Apps : MetadataBucket[a] = MetadataBucket[b] => a = b
    /\ MaxRestarts = 0
    /\ ~ KvFails
=============================================================================
