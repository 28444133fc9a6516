------------------------ MODULE MutationFilterProofs ------------------------
(***************************************************************************)
(* Proofs about MutationFilter.  FilterInv is inductive without any        *)
(* condition on the environment and gives WithheldOnlyHandlerWrites.       *)
(* AloneInv is inductive where only the worker runs handler code, metadata *)
(* buckets are private and nothing fails or restarts; it gives             *)
(* NoSelfTrigger and that MutationFilter implements EventDelivery.         *)
(***************************************************************************)
EXTENDS MutationFilter, TLAPS

USE SMTT(20), ZenonT(30)

\* What the channel, the worker, a store in progress and the histories hold
\* are mutations of the source bucket; only at its select is the worker idle.
RangeInv ==
    \A a \in Apps :
        /\ \A i \in 1 .. Len(rch[a]) : rch[a][i] \in 1 .. Len(log)
        /\ handled[a] \subseteq 1 .. Len(log)
        /\ ignored[a] \subseteq 1 .. Len(log)
        /\ pc[a] # "select" => ev[a] # 0
        /\ cas[a] \subseteq 0 .. Len(log)

\* c is a document stored by handlers of an application that keeps its
\* markers in bucket b.
StoredBy(b, c) == \E x \in Apps : MetadataBucket[x] = b /\ Own(x, c)

\* Every marker, every CAS value about to become one and every mutation about
\* to be dropped belong to such a document; 0 is the CAS of a failed store.
MarkInv ==
    /\ \A b \in Buckets : \A c \in markers[b] :
         c = 0 \/ (c \in 1 .. Len(log) /\ StoredBy(b, c))
    /\ \A a \in Apps : \A c \in cas[a] : c = 0 \/ Own(a, c)
    /\ \A a \in Apps : pc[a] = "skip" => StoredBy(MetadataBucket[a], ev[a])

FilterInv == TypeOK /\ RangeInv /\ MarkInv /\ WithheldOnlyHandlerWrites

\* One mutation more leaves the earlier ones and their positions alone.
LEMMA LogGrows ==
    ASSUME log \in Seq(Mutation),
           NEW m \in Mutation,
           log' = Append(log, m)
    PROVE  /\ log' \in Seq(Mutation)
           /\ Len(log) \in Nat
           /\ Len(log') = Len(log) + 1
           /\ \A c \in 1 .. Len(log) : log'[c] = log[c]
           /\ log'[Len(log) + 1] = m
  OBVIOUS

\* Receiving from rch takes its first element and leaves the others in order.
LEMMA HeadTail ==
    ASSUME NEW S, NEW s \in Seq(S), s # <<>>
    PROVE  /\ Len(s) \in Nat /\ Len(s) >= 1
           /\ Head(s) = s[1] /\ Head(s) \in S
           /\ Tail(s) \in Seq(S) /\ Len(Tail(s)) = Len(s) - 1
           /\ \A i \in 1 .. Len(Tail(s)) : Tail(s)[i] = s[i + 1]
  OBVIOUS

\* What Mutate does to log, in the terms the proofs use.
LEMMA MutateGrows ==
    ASSUME TypeOK, NEW k \in Keys, NEW op \in {"set", "del"},
           NEW who \in Apps \cup {User}, Mutate(k, op, who)
    PROVE  /\ log' \in Seq(Mutation)
           /\ Len(log) \in Nat
           /\ Len(log') = Len(log) + 1
           /\ \A c \in 1 .. Len(log) : log'[c] = log[c]
           /\ log'[Len(log) + 1] = [key |-> k, op |-> op, by |-> who]
  <1>1. [key |-> k, op |-> op, by |-> who] \in Mutation
    BY DEF Mutation
  <1>2. log' = Append(log, [key |-> k, op |-> op, by |-> who])
    BY DEF Mutate
  <1> QED
    BY <1>1, <1>2, LogGrows DEF TypeOK

\* A longer log leaves in range what was in range.
LEMMA GrowKeepsType ==
    ASSUME TypeOK, RangeInv,
           log' \in Seq(Mutation), Len(log) \in Nat, Len(log') = Len(log) + 1,
           cas' \in [Apps -> SUBSET Nat],
           \A a \in Apps : cas'[a] \subseteq 0 .. Len(log) + 1,
           UNCHANGED <<markers, sent, rch, ev, pc, inside, handled, ignored, restarts>>
    PROVE  TypeOK' /\ RangeInv'
  <1>1. ev' \in [Apps -> 0 .. Len(log')]
    BY DEF TypeOK
  <1>2. TypeOK'
    BY <1>1 DEF TypeOK
  <1>3. RangeInv'
    BY DEF TypeOK, RangeInv
  <1> QED
    BY <1>2, <1>3

\* TypeOK and RangeInv are kept by every step.
LEMMA TypeStep ==
    ASSUME TypeOK, RangeInv, [Next]_vars
    PROVE  TypeOK' /\ RangeInv'
  <1> USE FilterAssumption
  <1>1. ASSUME NEW k \in Keys, NEW op \in {"set", "del"}, UserWrite(k, op)
        PROVE  TypeOK' /\ RangeInv'
    <2>1. Mutate(k, op, User)
      BY <1>1 DEF UserWrite
    <2>2. cas' = cas /\ UNCHANGED <<markers, sent, rch, ev, pc, inside, handled, ignored, restarts>>
      BY <1>1 DEF UserWrite, stream, history
    <2>3. log' \in Seq(Mutation) /\ Len(log) \in Nat /\ Len(log') = Len(log) + 1
      BY <2>1, MutateGrows
    <2>4. cas' \in [Apps -> SUBSET Nat] /\ \A x \in Apps : cas'[x] \subseteq 0 .. Len(log) + 1
      BY <2>2, <2>3 DEF TypeOK, RangeInv
    <2> QED
      BY <2>2, <2>3, <2>4, GrowKeepsType
  <1>2. ASSUME NEW a \in Apps, NEW c \in 1 .. Len(log), FeedPush(a, c)
        PROVE  TypeOK' /\ RangeInv'
    BY <1>2 DEF FeedPush, TypeOK, RangeInv, buckets, history
  <1>3. ASSUME NEW a \in Apps, Receive(a)
        PROVE  TypeOK' /\ RangeInv'
    <2>1. /\ rch[a] \in Seq(Nat) /\ rch[a] # <<>>
          /\ Len(rch[a]) \in Nat /\ Len(rch[a]) >= 1
          /\ Head(rch[a]) = rch[a][1] /\ Head(rch[a]) \in Nat
          /\ Tail(rch[a]) \in Seq(Nat) /\ Len(Tail(rch[a])) = Len(rch[a]) - 1
          /\ \A i \in 1 .. Len(Tail(rch[a])) : Tail(rch[a])[i] = rch[a][i + 1]
      <3>1. rch[a] \in Seq(Nat) /\ rch[a] # <<>>
        BY <1>3 DEF Receive, TypeOK
      <3> QED
        BY <3>1, HeadTail
    <2>2. /\ ev' = [ev EXCEPT ![a] = Head(rch[a])]
          /\ rch' = [rch EXCEPT ![a] = Tail(rch[a])]
          /\ \E p \in {"check", "call"} : pc' = [pc EXCEPT ![a] = p]
          /\ UNCHANGED <<log, markers, sent, inside, cas, handled, ignored, restarts>>
      BY <1>3 DEF Receive, TypeOK, buckets, history
    <2>3. Head(rch[a]) \in 1 .. Len(log)
      BY <2>1 DEF RangeInv
    <2>4. TypeOK'
      BY <2>1, <2>2, <2>3 DEF TypeOK
    <2>5. \A x \in Apps : pc'[x] # "select" => ev'[x] # 0
      BY <2>2, <2>3 DEF TypeOK, RangeInv
    <2>6. \A x \in Apps : \A i \in 1 .. Len(rch'[x]) : rch'[x][i] \in 1 .. Len(log)
      BY <2>1, <2>2 DEF TypeOK, RangeInv
    <2> QED
      BY <2>2, <2>4, <2>5, <2>6 DEF RangeInv
  <1>4. ASSUME NEW a \in Apps, CheckCas(a)
        PROVE  TypeOK' /\ RangeInv'
    BY <1>4 DEF CheckCas, TypeOK, RangeInv, buckets, stream, history
  <1>5. ASSUME NEW a \in Apps, SkipDelete(a)
        PROVE  TypeOK' /\ RangeInv'
    <2>1. markers' \in [Buckets -> SUBSET Nat]
      <3>1. CASE markers' = [markers EXCEPT ![MetadataBucket[a]] = @ \ {ev[a]}]
        BY <3>1 DEF TypeOK
      <3>2. CASE UNCHANGED markers
        BY <3>2 DEF TypeOK
      <3> QED
        BY <1>5, <3>1, <3>2 DEF SkipDelete
    <2>2. TypeOK'
      BY <1>5, <2>1 DEF SkipDelete, TypeOK, stream
    <2>3. RangeInv'
      BY <1>5 DEF SkipDelete, TypeOK, RangeInv, stream
    <2> QED
      BY <2>2, <2>3
  <1>6. ASSUME NEW a \in Apps, CallHandler(a)
        PROVE  TypeOK' /\ RangeInv'
    BY <1>6 DEF CallHandler, TypeOK, RangeInv, buckets, stream
  <1>7. ASSUME NEW a \in Apps, NEW t \in Callers, OtherCall(a, t)
        PROVE  TypeOK' /\ RangeInv'
    BY <1>7 DEF OtherCall, TypeOK, RangeInv, buckets, stream, history
  <1>8. ASSUME NEW a \in Apps, NEW k \in Keys, BucketSet(a, k)
        PROVE  TypeOK' /\ RangeInv'
    <2>0. UNCHANGED <<markers, sent, rch, ev, pc, inside, handled, ignored, restarts>>
      BY <1>8 DEF BucketSet, stream, history
    <2>1. CASE Mutate(k, "set", a)
      <3>0. log' \in Seq(Mutation) /\ Len(log) \in Nat /\ Len(log') = Len(log) + 1
        BY <2>1, MutateGrows
      <3>1. cas' \in [Apps -> SUBSET Nat] /\ \A x \in Apps : cas'[x] \subseteq 0 .. Len(log) + 1
        <4>1. CASE cas' = [cas EXCEPT ![a] = {0}]
          BY <3>0, <4>1 DEF TypeOK, RangeInv
        <4>2. CASE cas' = [cas EXCEPT ![a] = {Len(log) + 1}]
          BY <3>0, <4>2 DEF TypeOK, RangeInv
        <4> QED
          BY <1>8, <4>1, <4>2 DEF BucketSet
      <3> QED
        BY <2>0, <3>0, <3>1, GrowKeepsType
    <2>2. CASE ~ Mutate(k, "set", a)
      <3>2. log' = log /\ cas' = [cas EXCEPT ![a] = {0}]
        BY <1>8, <2>2 DEF BucketSet
      <3>3. cas' \in [Apps -> SUBSET Nat] /\ \A x \in Apps : cas'[x] \subseteq 0 .. Len(log)
        BY <3>2 DEF TypeOK, RangeInv
      <3> QED
        BY <2>0, <3>2, <3>3 DEF TypeOK, RangeInv
    <2> QED
      BY <2>1, <2>2
  <1>9. ASSUME NEW a \in Apps, NEW k \in Keys, BucketDelete(a, k)
        PROVE  TypeOK' /\ RangeInv'
    <2>1. Mutate(k, "del", a)
      BY <1>9 DEF BucketDelete
    <2>2. cas' = cas /\ UNCHANGED <<markers, sent, rch, ev, pc, inside, handled, ignored, restarts>>
      BY <1>9 DEF BucketDelete, stream, history
    <2>3. log' \in Seq(Mutation) /\ Len(log) \in Nat /\ Len(log') = Len(log) + 1
      BY <2>1, MutateGrows
    <2>4. cas' \in [Apps -> SUBSET Nat] /\ \A x \in Apps : cas'[x] \subseteq 0 .. Len(log) + 1
      BY <2>2, <2>3 DEF TypeOK, RangeInv
    <2> QED
      BY <2>2, <2>3, <2>4, GrowKeepsType
  <1>10. ASSUME NEW a \in Apps, StoreMarker(a)
        PROVE  TypeOK' /\ RangeInv'
    <2>1. markers' \in [Buckets -> SUBSET Nat]
      <3>1. CASE markers' = [markers EXCEPT ![MetadataBucket[a]] = @ \cup cas[a]]
        BY <3>1 DEF TypeOK
      <3>2. CASE UNCHANGED markers
        BY <3>2 DEF TypeOK
      <3> QED
        BY <1>10, <3>1, <3>2 DEF StoreMarker
    <2>2. TypeOK'
      BY <1>10, <2>1 DEF StoreMarker, TypeOK, stream, history
    <2>3. RangeInv'
      BY <1>10 DEF StoreMarker, TypeOK, RangeInv, stream, history
    <2> QED
      BY <2>2, <2>3
  <1>11. ASSUME NEW a \in Apps, HandlerReturn(a)
        PROVE  TypeOK' /\ RangeInv'
    BY <1>11 DEF HandlerReturn, TypeOK, RangeInv, buckets, stream, history
  <1>12. ASSUME Restart
        PROVE  TypeOK' /\ RangeInv'
    BY <1>12 DEF Restart, TypeOK, RangeInv, buckets, history
  <1>13. CASE UNCHANGED vars
    BY <1>13 DEF vars, TypeOK, RangeInv
  <1> QED
    BY <1>1, <1>2, <1>3, <1>4, <1>5, <1>6, <1>7, <1>8, <1>9, <1>10, <1>11,
       <1>12, <1>13 DEF Next, WorkerStep

\* Whose a document is does not change while the log grows.
LEMMA OwnKept ==
    ASSUME NEW c \in 1 .. Len(log),
           log'[c] = log[c]
    PROVE  /\ \A x : Own(x, c)' <=> Own(x, c)
           /\ \A b : StoredBy(b, c)' <=> StoredBy(b, c)
  BY DEF Own, StoredBy

\* So the CAS values about to become markers stay those of own documents.
LEMMA CasKept ==
    ASSUME RangeInv, MarkInv,
           \A c \in 1 .. Len(log) : log'[c] = log[c]
    PROVE  \A a \in Apps : \A c \in cas[a] : c = 0 \/ Own(a, c)'
  <1> SUFFICES ASSUME NEW a \in Apps, NEW c \in cas[a], c # 0
               PROVE  Own(a, c)'
    OBVIOUS
  <1>1. c \in 0 .. Len(log)
    BY DEF RangeInv
  <1>2. Own(a, c)
    BY DEF MarkInv
  <1> QED
    BY <1>1, <1>2 DEF Own

\* MarkInv and WithheldOnlyHandlerWrites survive a mutation of the source
\* bucket, if a new result.cas is 0 or that of the application's own store.
LEMMA GrowKeepsMarks ==
    ASSUME TypeOK, RangeInv, MarkInv, WithheldOnlyHandlerWrites,
           Len(log) \in Nat, Len(log') = Len(log) + 1,
           \A c \in 1 .. Len(log) : log'[c] = log[c],
           \A a \in Apps : \A c \in cas'[a] : c = 0 \/ Own(a, c)',
           UNCHANGED <<markers, ev, pc, ignored>>
    PROVE  MarkInv' /\ WithheldOnlyHandlerWrites'
  <1>1. \A c \in 1 .. Len(log) : /\ \A x : Own(x, c)' <=> Own(x, c)
                                 /\ \A b : StoredBy(b, c)' <=> StoredBy(b, c)
    BY OwnKept
  <1>2. \A b \in Buckets : \A c \in markers'[b] :
          c = 0 \/ (c \in 1 .. Len(log') /\ StoredBy(b, c)')
    BY <1>1 DEF MarkInv
  <1>3. ASSUME NEW a \in Apps, pc'[a] = "skip"
        PROVE  StoredBy(MetadataBucket[a], ev[a])'
    <2>1. ev[a] \in 1 .. Len(log) /\ pc[a] = "skip"
      BY <1>3 DEF TypeOK, RangeInv
    <2> QED
      BY <1>1, <2>1 DEF MarkInv
  <1>4. MarkInv'
    BY <1>2, <1>3 DEF MarkInv
  <1>5. ASSUME NEW a \in Apps, NEW c \in ignored'[a]
        PROVE  \E b \in Apps : MetadataBucket[b] = MetadataBucket[a] /\ Own(b, c)'
    <2>1. c \in 1 .. Len(log)
      BY DEF RangeInv
    <2> QED
      BY <1>1, <2>1 DEF WithheldOnlyHandlerWrites
  <1> QED
    BY <1>4, <1>5 DEF WithheldOnlyHandlerWrites

\* They survive a step that leaves the log alone, adds no CAS value to cas and
\* no unfounded marker or dropped mutation.
LEMMA SameLog ==
    ASSUME MarkInv, WithheldOnlyHandlerWrites,
           log' = log, cas' = cas,
           \A b \in Buckets : markers'[b] \subseteq markers[b],
           \A x \in Apps : pc'[x] = "skip" => pc[x] = "skip" /\ ev'[x] = ev[x],
           \/ ignored' = ignored
           \/ \A x \in Apps : \A c \in ignored'[x] :
                 \E b \in Apps : MetadataBucket[b] = MetadataBucket[x] /\ Own(b, c)
    PROVE  MarkInv' /\ WithheldOnlyHandlerWrites'
  <1>1. MarkInv'
    BY DEF MarkInv, StoredBy, Own
  <1>2. WithheldOnlyHandlerWrites'
    BY DEF WithheldOnlyHandlerWrites, Own
  <1> QED
    BY <1>1, <1>2

\* A step that only finds a marker, or fails to store, keeps them too.
LEMMA SameMarkers ==
    ASSUME MarkInv, WithheldOnlyHandlerWrites,
           log' = log, markers' = markers, ignored' = ignored,
           \A x \in Apps : \A c \in cas'[x] : c = 0 \/ Own(x, c),
           \A x \in Apps : pc'[x] = "skip" => StoredBy(MetadataBucket[x], ev'[x])
    PROVE  MarkInv' /\ WithheldOnlyHandlerWrites'
  <1>1. MarkInv'
    BY DEF MarkInv, StoredBy, Own
  <1>2. WithheldOnlyHandlerWrites'
    BY DEF WithheldOnlyHandlerWrites, Own
  <1> QED
    BY <1>1, <1>2

\* MarkInv and WithheldOnlyHandlerWrites are kept by every step: a marker is
\* stored with the CAS value of a handler's own store and no other, so what is
\* found under the CAS value of a mutation is a handler's store.
LEMMA MarkStep ==
    ASSUME FilterInv, [Next]_vars
    PROVE  MarkInv' /\ WithheldOnlyHandlerWrites'
  <1> USE FilterAssumption
  <1> USE DEF FilterInv
  <1>1. ASSUME NEW k \in Keys, NEW op \in {"set", "del"}, UserWrite(k, op)
        PROVE  MarkInv' /\ WithheldOnlyHandlerWrites'
    <2>1. /\ Len(log) \in Nat /\ Len(log') = Len(log) + 1
          /\ \A c \in 1 .. Len(log) : log'[c] = log[c]
      BY <1>1, MutateGrows DEF UserWrite
    <2>2. \A a \in Apps : \A c \in cas[a] : c = 0 \/ Own(a, c)'
      BY <2>1, CasKept
    <2> QED
      BY <1>1, <2>1, <2>2, GrowKeepsMarks DEF UserWrite, history
  <1>2. ASSUME NEW a \in Apps, NEW c \in 1 .. Len(log), FeedPush(a, c)
        PROVE  MarkInv' /\ WithheldOnlyHandlerWrites'
    BY <1>2 DEF FeedPush, MarkInv, WithheldOnlyHandlerWrites, StoredBy, Own, buckets, history
  <1>3. ASSUME NEW a \in Apps, Receive(a)
        PROVE  MarkInv' /\ WithheldOnlyHandlerWrites'
    <2>1. \A x \in Apps : pc'[x] = "skip" => pc[x] = "skip" /\ ev'[x] = ev[x]
      BY <1>3 DEF Receive, TypeOK
    <2> QED
      BY <1>3, <2>1, SameLog DEF Receive, MarkInv, buckets, history
  <1>4. ASSUME NEW a \in Apps, CheckCas(a)
        PROVE  MarkInv' /\ WithheldOnlyHandlerWrites'
    <2>1. pc'[a] = "skip" => ev[a] \in markers[MetadataBucket[a]] /\ ev[a] # 0
      BY <1>4 DEF CheckCas, TypeOK, RangeInv
    <2>2. pc'[a] = "skip" => StoredBy(MetadataBucket[a], ev[a])
      BY <2>1 DEF MarkInv
    <2>3. \A x \in Apps : pc'[x] = "skip" => StoredBy(MetadataBucket[x], ev[x])
      BY <1>4, <2>2 DEF CheckCas, TypeOK, MarkInv
    <2>4. log' = log /\ markers' = markers /\ ignored' = ignored /\ cas' = cas /\ ev' = ev
      BY <1>4 DEF CheckCas, buckets, history
    <2>5. \A x \in Apps : \A c \in cas[x] : c = 0 \/ Own(x, c)
      BY DEF MarkInv
    <2> QED
      BY <2>3, <2>4, <2>5, SameMarkers
  <1>5. ASSUME NEW a \in Apps, SkipDelete(a)
        PROVE  MarkInv' /\ WithheldOnlyHandlerWrites'
    <2>1. \A b \in Buckets : markers'[b] \subseteq markers[b]
      <3>1. CASE markers' = [markers EXCEPT ![MetadataBucket[a]] = @ \ {ev[a]}]
        BY <3>1 DEF TypeOK
      <3>2. CASE UNCHANGED markers
        BY <3>2
      <3> QED
        BY <1>5, <3>1, <3>2 DEF SkipDelete
    <2>2. /\ log' = log /\ cas' = cas
          /\ \A x \in Apps : pc'[x] = "skip" => pc[x] = "skip" /\ ev'[x] = ev[x]
      BY <1>5 DEF SkipDelete, TypeOK
    <2>3. \A x \in Apps : \A c \in ignored'[x] : c \in ignored[x] \/ (x = a /\ c = ev[a])
      BY <1>5 DEF SkipDelete, TypeOK
    <2>4. \E b \in Apps : MetadataBucket[b] = MetadataBucket[a] /\ Own(b, ev[a])
      BY <1>5 DEF SkipDelete, MarkInv, StoredBy
    <2>5. \A x \in Apps : \A c \in ignored'[x] :
            \E b \in Apps : MetadataBucket[b] = MetadataBucket[x] /\ Own(b, c)
      BY <2>3, <2>4 DEF WithheldOnlyHandlerWrites
    <2> QED
      BY <2>1, <2>2, <2>5, SameLog DEF MarkInv
  <1>6. ASSUME NEW a \in Apps, CallHandler(a)
        PROVE  MarkInv' /\ WithheldOnlyHandlerWrites'
    <2>1. /\ log' = log /\ markers' = markers /\ ignored' = ignored /\ cas' = cas /\ ev' = ev
          /\ pc' = [pc EXCEPT ![a] = "running"]
      BY <1>6 DEF CallHandler, buckets
    <2>2. \A x \in Apps : pc'[x] = "skip" => pc[x] = "skip"
      BY <2>1 DEF TypeOK
    <2> QED
      BY <2>1, <2>2, SameLog
  <1>7. ASSUME NEW a \in Apps, NEW t \in Callers, OtherCall(a, t)
        PROVE  MarkInv' /\ WithheldOnlyHandlerWrites'
    BY <1>7 DEF OtherCall, MarkInv, WithheldOnlyHandlerWrites, StoredBy, Own, buckets, history
  <1>8. ASSUME NEW a \in Apps, NEW k \in Keys, BucketSet(a, k)
        PROVE  MarkInv' /\ WithheldOnlyHandlerWrites'
    <2>0. UNCHANGED <<markers, ev, pc, ignored>>
      BY <1>8 DEF BucketSet, history
    <2>1. CASE Mutate(k, "set", a)
      <3>1. /\ Len(log) \in Nat /\ Len(log') = Len(log) + 1
            /\ \A c \in 1 .. Len(log) : log'[c] = log[c]
            /\ log'[Len(log) + 1] = [key |-> k, op |-> "set", by |-> a]
        BY <2>1, MutateGrows
      <3>2. \A x \in Apps : \A c \in cas[x] : c = 0 \/ Own(x, c)'
        BY <3>1, CasKept
      <3>3. log'[Len(log) + 1].by = a /\ log'[Len(log) + 1].op = "set"
        BY <3>1
      <3>4. \A x \in Apps : \A c \in cas'[x] : c = 0 \/ Own(x, c)'
        <4>1. CASE cas' = [cas EXCEPT ![a] = {0}]
          BY <3>2, <4>1 DEF TypeOK
        <4>2. CASE cas' = [cas EXCEPT ![a] = {Len(log) + 1}]
          BY <3>1, <3>2, <3>3, <4>2 DEF TypeOK, Own
        <4> QED
          BY <1>8, <4>1, <4>2 DEF BucketSet
      <3> QED
        BY <2>0, <3>1, <3>4, GrowKeepsMarks
    <2>2. CASE ~ Mutate(k, "set", a)
      <3>1. log' = log /\ cas' = [cas EXCEPT ![a] = {0}]
        BY <1>8, <2>2 DEF BucketSet
      <3> QED
        <4>1. \A x \in Apps : \A c \in cas'[x] : c = 0 \/ c \in cas[x]
          BY <3>1 DEF TypeOK
        <4>2. /\ \A x \in Apps : \A c \in cas[x] : c = 0 \/ Own(x, c)
              /\ \A x \in Apps : pc[x] = "skip" => StoredBy(MetadataBucket[x], ev[x])
          BY DEF MarkInv
        <4>3. \A x \in Apps : \A c \in cas'[x] : c = 0 \/ Own(x, c)
          BY <4>1, <4>2
        <4> QED
          BY <2>0, <3>1, <4>2, <4>3, SameMarkers
    <2> QED
      BY <2>1, <2>2
  <1>9. ASSUME NEW a \in Apps, NEW k \in Keys, BucketDelete(a, k)
        PROVE  MarkInv' /\ WithheldOnlyHandlerWrites'
    <2>1. /\ Len(log) \in Nat /\ Len(log') = Len(log) + 1
          /\ \A c \in 1 .. Len(log) : log'[c] = log[c]
      BY <1>9, MutateGrows DEF BucketDelete
    <2>2. \A x \in Apps : \A c \in cas[x] : c = 0 \/ Own(x, c)'
      BY <2>1, CasKept
    <2> QED
      BY <1>9, <2>1, <2>2, GrowKeepsMarks DEF BucketDelete, history
  <1>10. ASSUME NEW a \in Apps, StoreMarker(a)
        PROVE  MarkInv' /\ WithheldOnlyHandlerWrites'
    <2>1. \A b \in Buckets : \A c \in markers'[b] :
            c = 0 \/ (c \in 1 .. Len(log) /\ StoredBy(b, c))
      <3>1. \A c \in cas[a] :
              c = 0 \/ (c \in 1 .. Len(log) /\ StoredBy(MetadataBucket[a], c))
        BY DEF MarkInv, RangeInv, StoredBy
      <3>2. CASE markers' = [markers EXCEPT ![MetadataBucket[a]] = @ \cup cas[a]]
        BY <3>1, <3>2 DEF TypeOK, MarkInv
      <3>3. CASE UNCHANGED markers
        BY <3>3 DEF MarkInv
      <3> QED
        BY <1>10, <3>2, <3>3 DEF StoreMarker
    <2> QED
      <3>1. /\ cas' = [cas EXCEPT ![a] = {}] /\ cas \in [Apps -> SUBSET Nat]
            /\ UNCHANGED <<log, ev, pc, ignored>>
        BY <1>10 DEF StoreMarker, TypeOK, history
      <3>2. \A x \in Apps : cas'[x] \subseteq cas[x]
        BY <3>1
      <3>3. MarkInv'
        BY <2>1, <3>1, <3>2 DEF MarkInv, StoredBy, Own
      <3>4. WithheldOnlyHandlerWrites'
        BY <3>1 DEF WithheldOnlyHandlerWrites, Own
      <3> QED
        BY <3>3, <3>4
  <1>11. ASSUME NEW a \in Apps, HandlerReturn(a)
        PROVE  MarkInv' /\ WithheldOnlyHandlerWrites'
    <2>1. \A x \in Apps : pc'[x] = "skip" => pc[x] = "skip" /\ ev'[x] = ev[x]
      <3>1. CASE inside[a] = "worker"
        BY <1>11, <3>1 DEF HandlerReturn, TypeOK
      <3>2. CASE inside[a] # "worker"
        BY <1>11, <3>2 DEF HandlerReturn, TypeOK
      <3> QED
        BY <3>1, <3>2
    <2> QED
      BY <1>11, <2>1, SameLog DEF HandlerReturn, MarkInv, buckets, history
  <1>12. ASSUME Restart
        PROVE  MarkInv' /\ WithheldOnlyHandlerWrites'
    BY <1>12 DEF Restart, MarkInv, WithheldOnlyHandlerWrites, StoredBy, Own, buckets, history
  <1>13. CASE UNCHANGED vars
    BY <1>13 DEF vars, MarkInv, WithheldOnlyHandlerWrites, StoredBy, Own
  <1> QED
    BY <1>1, <1>2, <1>3, <1>4, <1>5, <1>6, <1>7, <1>8, <1>9, <1>10, <1>11,
       <1>12, <1>13 DEF Next, WorkerStep

\* The invariant holds in every reachable state, for every set of
\* applications, every assignment of metadata buckets and every environment.
THEOREM FilterInvariant == Spec => []FilterInv
  <1>1. Init => FilterInv
    BY FilterAssumption
    DEF Init, FilterInv, TypeOK, RangeInv, MarkInv, WithheldOnlyHandlerWrites
  <1>2. FilterInv /\ [Next]_vars => FilterInv'
    BY TypeStep, MarkStep DEF FilterInv
  <1> QED
    BY <1>1, <1>2, PTL DEF Spec

\* Every variable keeps its type: the worker only ever handles a mutation of
\* the source bucket and rch never exceeds its capacity.
THEOREM FilterTypeCorrect == Spec => []TypeOK
  <1>1. FilterInv => TypeOK
    BY DEF FilterInv
  <1> QED
    BY <1>1, FilterInvariant, PTL

\* handleDcpEvent drops nothing but documents stored by handlers that share
\* its metadata bucket, whatever fails, restarts or runs beside the worker.
THEOREM WithheldTheorem == Spec => []WithheldOnlyHandlerWrites
  <1>1. FilterInv => WithheldOnlyHandlerWrites
    BY DEF FilterInv
  <1> QED
    BY <1>1, FilterInvariant, PTL

-----------------------------------------------------------------------------
(* Where the worker is alone.                                              *)

\* A mutation passes an application's stream once: what waits in rch is
\* distinct, was not handled or dropped and is not the one being handled.
OnceAt(a) ==
    /\ \A i \in 1 .. Len(rch[a]) :
         /\ rch[a][i] \in sent[a] /\ rch[a][i] # ev[a]
         /\ rch[a][i] \notin handled[a] /\ rch[a][i] \notin ignored[a]
    /\ \A i, j \in 1 .. Len(rch[a]) : rch[a][i] = rch[a][j] => i = j
    /\ handled[a] \subseteq sent[a] /\ ignored[a] \subseteq sent[a]
    /\ ev[a] # 0 => ev[a] \in sent[a]
    /\ pc[a] \in {"check", "skip", "call"} =>
         ev[a] \notin handled[a] /\ ev[a] \notin ignored[a]

OnceInv == \A a \in Apps : OnceAt(a)

\* Handler code runs only in the worker, so while the worker looks for a
\* marker no store is between its two halves, and every document of the
\* application that was not dropped yet has its marker.
OwnAt(a) ==
    /\ inside[a] = "worker" <=> pc[a] = "running"
    /\ inside[a] \in {"none", "worker"}
    /\ cas[a] # {} => inside[a] = "worker"
    /\ \A c \in 1 .. Len(log) :
         Own(a, c) => c \in markers[MetadataBucket[a]] \cup cas[a] \cup ignored[a]
    /\ pc[a] = "call" => ~ Own(a, ev[a])
    /\ \A c \in handled[a] : ~ Own(a, c)

OwnInv == \A a \in Apps : OwnAt(a)

AloneInv == FilterInv /\ OnceInv /\ OwnInv

\* Without a restart every step keeps OnceInv.
LEMMA OnceStep ==
    ASSUME Alone, FilterInv, OnceInv, [Next]_vars
    PROVE  OnceInv'
  <1> USE FilterAssumption
  <1> USE DEF FilterInv
  <1>1. CASE UNCHANGED <<sent, rch, ev, pc, handled, ignored>>
    BY <1>1 DEF OnceInv, OnceAt
  <1>2. ASSUME NEW a \in Apps, NEW c \in 1 .. Len(log), FeedPush(a, c)
        PROVE  OnceInv'
    <2>1. /\ c \in sent'[a] /\ sent[a] \subseteq sent'[a] /\ c \notin sent[a] /\ c # 0
          /\ \A x \in Apps : x # a => sent'[x] = sent[x] /\ rch'[x] = rch[x]
          /\ UNCHANGED <<ev, pc, handled, ignored>>
      BY <1>2 DEF FeedPush, TypeOK, history
    <2>2. /\ Len(rch[a]) \in Nat /\ Len(rch'[a]) = Len(rch[a]) + 1
          /\ \A i \in 1 .. Len(rch[a]) : rch'[a][i] = rch[a][i]
          /\ rch'[a][Len(rch[a]) + 1] = c
      BY <1>2 DEF FeedPush, TypeOK
    <2>3. ASSUME NEW x \in Apps, x # a
          PROVE  OnceAt(x)'
      BY <2>1, <2>3 DEF OnceInv, OnceAt
    <2>4. OnceAt(a)'
      <3>0. OnceAt(a)
        BY DEF OnceInv
      <3>1. \A i \in 1 .. Len(rch'[a]) : i \in 1 .. Len(rch[a]) \/ i = Len(rch[a]) + 1
        BY <2>2
      <3>2. \A i \in 1 .. Len(rch'[a]) :
              /\ rch'[a][i] \in sent'[a] /\ rch'[a][i] # ev[a]
              /\ rch'[a][i] \notin handled[a] /\ rch'[a][i] \notin ignored[a]
        BY <2>1, <2>2, <3>0, <3>1 DEF OnceAt
      <3>3. \A i, j \in 1 .. Len(rch'[a]) : rch'[a][i] = rch'[a][j] => i = j
        <4> SUFFICES ASSUME NEW i \in 1 .. Len(rch'[a]), NEW j \in 1 .. Len(rch'[a]),
                            rch'[a][i] = rch'[a][j]
                     PROVE  i = j
          OBVIOUS
        <4>1. \A k \in 1 .. Len(rch[a]) : rch'[a][k] = rch[a][k] /\ rch[a][k] # c
          BY <2>1, <2>2, <3>0 DEF OnceAt
        <4>2. \A k, l \in 1 .. Len(rch[a]) : rch[a][k] = rch[a][l] => k = l
          BY <3>0 DEF OnceAt
        <4>3. CASE i \in 1 .. Len(rch[a]) /\ j \in 1 .. Len(rch[a])
          BY <4>1, <4>2, <4>3
        <4>4. CASE i = Len(rch[a]) + 1 \/ j = Len(rch[a]) + 1
          BY <4>1, <4>4, <2>2, <3>1
        <4> QED
          BY <3>1, <4>3, <4>4
      <3> QED
        BY <2>1, <3>0, <3>2, <3>3 DEF OnceAt
    <2> QED
      BY <2>3, <2>4 DEF OnceInv, OnceAt
  <1>3. ASSUME NEW a \in Apps, Receive(a)
        PROVE  OnceInv'
    <2>1. /\ rch[a] \in Seq(Nat) /\ rch[a] # <<>>
          /\ Len(rch[a]) \in Nat /\ Len(rch[a]) >= 1
          /\ Head(rch[a]) = rch[a][1] /\ Len(Tail(rch[a])) = Len(rch[a]) - 1
          /\ \A i \in 1 .. Len(Tail(rch[a])) : Tail(rch[a])[i] = rch[a][i + 1]
      <3>1. rch[a] \in Seq(Nat) /\ rch[a] # <<>>
        BY <1>3 DEF Receive, TypeOK
      <3> QED
        BY <3>1, HeadTail
    <2>2. /\ rch'[a] = Tail(rch[a]) /\ ev'[a] = rch[a][1]
          /\ \A x \in Apps : x # a => rch'[x] = rch[x] /\ ev'[x] = ev[x] /\ pc'[x] = pc[x]
          /\ UNCHANGED <<sent, handled, ignored>>
      BY <1>3, <2>1 DEF Receive, TypeOK, history
    <2>3. ASSUME NEW x \in Apps, x # a
          PROVE  OnceAt(x)'
      BY <2>2, <2>3 DEF OnceInv, OnceAt
    <2>4. OnceAt(a)'
      <3>1. OnceAt(a)
        BY DEF OnceInv
      <3>2. \A i \in 1 .. Len(rch'[a]) :
              /\ i + 1 \in 1 .. Len(rch[a]) /\ i + 1 # 1 /\ i \in Nat
              /\ rch'[a][i] = rch[a][i + 1]
        BY <2>1, <2>2
      <3>3. 1 \in 1 .. Len(rch[a])
        BY <2>1
      <3>4. \A i \in 1 .. Len(rch'[a]) : rch'[a][i] # ev'[a]
        BY <2>2, <3>1, <3>2, <3>3 DEF OnceAt
      <3>5. \A i, j \in 1 .. Len(rch'[a]) : rch'[a][i] = rch'[a][j] => i = j
        <4> SUFFICES ASSUME NEW i \in 1 .. Len(rch'[a]), NEW j \in 1 .. Len(rch'[a]),
                            rch'[a][i] = rch'[a][j]
                     PROVE  i = j
          OBVIOUS
        <4>1. i + 1 = j + 1
          BY <3>1, <3>2 DEF OnceAt
        <4> QED
          BY <3>2, <4>1
      <3>6. \A i \in 1 .. Len(rch'[a]) : /\ rch'[a][i] \in sent[a]
                                         /\ rch'[a][i] \notin handled[a] /\ rch'[a][i] \notin ignored[a]
        BY <3>1, <3>2 DEF OnceAt
      <3>7. ev'[a] \in sent[a] /\ ev'[a] \notin handled[a] /\ ev'[a] \notin ignored[a]
        BY <2>2, <3>1, <3>3 DEF OnceAt
      <3> QED
        BY <2>2, <3>1, <3>4, <3>5, <3>6, <3>7 DEF OnceAt
    <2> QED
      BY <2>3, <2>4 DEF OnceInv
  <1>4. ASSUME NEW a \in Apps, CheckCas(a)
        PROVE  OnceInv'
    <2>1. /\ pc[a] = "check" /\ \E p \in {"skip", "call"} : pc' = [pc EXCEPT ![a] = p]
          /\ UNCHANGED <<sent, rch, ev, handled, ignored>>
      BY <1>4 DEF CheckCas, stream, history
    <2>2. \A x \in Apps : pc'[x] \in {"check", "skip", "call"} => pc[x] \in {"check", "skip", "call"}
      BY <2>1 DEF TypeOK
    <2> QED
      BY <2>1, <2>2 DEF OnceInv, OnceAt
  <1>5. ASSUME NEW a \in Apps, SkipDelete(a)
        PROVE  OnceInv'
    <2>1. /\ pc[a] = "skip" /\ UNCHANGED <<sent, rch, handled>>
          /\ ignored' = [ignored EXCEPT ![a] = @ \cup {ev[a]}]
          /\ ev' = [ev EXCEPT ![a] = 0]
          /\ pc' = [pc EXCEPT ![a] = "select"]
      BY <1>5 DEF SkipDelete, stream
    <2>2. /\ ignored'[a] = ignored[a] \cup {ev[a]} /\ ev'[a] = 0 /\ pc'[a] = "select"
          /\ \A x \in Apps : x # a => ignored'[x] = ignored[x] /\ ev'[x] = ev[x] /\ pc'[x] = pc[x]
      BY <2>1 DEF TypeOK
    <2>3. ev[a] # 0 /\ \A i \in 1 .. Len(rch[a]) : rch[a][i] # 0
      BY <2>1 DEF RangeInv
    <2>4. ASSUME NEW x \in Apps, x # a
          PROVE  OnceAt(x)'
      BY <2>1, <2>2, <2>4 DEF OnceInv, OnceAt
    <2>5. OnceAt(a)'
      <3>1. OnceAt(a)
        BY DEF OnceInv
      <3>2. /\ ignored'[a] \subseteq sent[a]
            /\ \A i \in 1 .. Len(rch[a]) : rch[a][i] \notin ignored'[a] /\ rch[a][i] # ev'[a]
        BY <2>1, <2>2, <2>3, <3>1 DEF OnceAt
      <3> QED
        BY <2>1, <2>2, <3>1, <3>2 DEF OnceAt
    <2> QED
      BY <2>4, <2>5 DEF OnceInv
  <1>6. ASSUME NEW a \in Apps, CallHandler(a)
        PROVE  OnceInv'
    <2>1. /\ pc[a] = "call" /\ UNCHANGED <<sent, rch, ev, ignored>>
          /\ handled' = [handled EXCEPT ![a] = @ \cup {ev[a]}]
          /\ pc' = [pc EXCEPT ![a] = "running"]
      BY <1>6 DEF CallHandler, stream
    <2>2. /\ handled'[a] = handled[a] \cup {ev[a]} /\ pc'[a] = "running"
          /\ \A x \in Apps : x # a => handled'[x] = handled[x] /\ pc'[x] = pc[x]
      BY <2>1 DEF TypeOK
    <2>3. ev[a] # 0
      BY <2>1 DEF RangeInv
    <2>4. ASSUME NEW x \in Apps, x # a
          PROVE  OnceAt(x)'
      BY <2>1, <2>2, <2>4 DEF OnceInv, OnceAt
    <2>5. OnceAt(a)'
      <3>1. OnceAt(a)
        BY DEF OnceInv
      <3>2. /\ handled'[a] \subseteq sent[a]
            /\ \A i \in 1 .. Len(rch[a]) : rch[a][i] \notin handled'[a]
        BY <2>1, <2>2, <2>3, <3>1 DEF OnceAt
      <3> QED
        BY <2>1, <2>2, <3>1, <3>2 DEF OnceAt
    <2> QED
      BY <2>4, <2>5 DEF OnceInv
  <1>7. ASSUME NEW a \in Apps, HandlerReturn(a)
        PROVE  OnceInv'
    <2>1. CASE inside[a] = "worker"
      <3>1. /\ UNCHANGED <<sent, rch, handled, ignored>>
            /\ ev' = [ev EXCEPT ![a] = 0]
            /\ pc' = [pc EXCEPT ![a] = "select"]
        BY <1>7, <2>1 DEF HandlerReturn, stream, history
      <3>2. \A i \in 1 .. Len(rch[a]) : rch[a][i] # 0
        BY DEF RangeInv
      <3>3. /\ ev'[a] = 0 /\ pc'[a] = "select"
            /\ \A x \in Apps : x # a => ev'[x] = ev[x] /\ pc'[x] = pc[x]
        BY <3>1 DEF TypeOK
      <3> QED
        BY <3>1, <3>2, <3>3 DEF OnceInv, OnceAt
    <2>2. CASE inside[a] # "worker"
      BY <1>7, <2>2 DEF HandlerReturn, TypeOK, OnceInv, OnceAt, stream, history
    <2> QED
      BY <2>1, <2>2
  <1>8. ~ Restart
    BY DEF Alone, Restart, TypeOK
  <1>9. ASSUME NEW k \in Keys, NEW op \in {"set", "del"}, UserWrite(k, op)
        PROVE  OnceInv'
    BY <1>1, <1>9 DEF UserWrite, stream, history
  <1>10. ASSUME NEW a \in Apps, NEW k \in Keys, BucketSet(a, k) \/ BucketDelete(a, k)
        PROVE  OnceInv'
    BY <1>1, <1>10 DEF BucketSet, BucketDelete, stream, history
  <1>11. ASSUME NEW a \in Apps, StoreMarker(a)
        PROVE  OnceInv'
    BY <1>1, <1>11 DEF StoreMarker, stream, history
  <1>12. ASSUME NEW a \in Apps, NEW t \in Callers, OtherCall(a, t)
        PROVE  OnceInv'
    BY <1>1, <1>12 DEF OtherCall, stream, history
  <1>13. CASE UNCHANGED vars
    BY <1>1, <1>13 DEF vars
  <1> QED
    BY <1>2, <1>3, <1>4, <1>5, <1>6, <1>7, <1>8, <1>9, <1>10, <1>11,
       <1>12, <1>13 DEF Next, WorkerStep

\* A mutation of the source bucket keeps OwnInv, if a document an application
\* stores is in its cas afterwards.
LEMMA GrowKeepsOwn ==
    ASSUME TypeOK, RangeInv, OwnInv,
           Len(log) \in Nat, Len(log') = Len(log) + 1,
           \A c \in 1 .. Len(log) : log'[c] = log[c],
           UNCHANGED <<markers, ev, pc, inside, handled, ignored>>,
           \A x \in Apps : /\ cas[x] \subseteq cas'[x]
                           /\ cas'[x] # {} => inside[x] = "worker",
           \A x \in Apps : (log'[Len(log) + 1].by = x /\ log'[Len(log) + 1].op = "set")
                             => Len(log) + 1 \in cas'[x]
    PROVE  OwnInv'
  <1> SUFFICES ASSUME NEW a \in Apps PROVE OwnAt(a)'
    BY DEF OwnInv
  <1>0. OwnAt(a)
    BY DEF OwnInv
  <1>1. \A c \in 1 .. Len(log') : c \in 1 .. Len(log) \/ c = Len(log) + 1
    OBVIOUS
  <1>2. \A c \in 1 .. Len(log') :
          Own(a, c)' => c \in markers[MetadataBucket[a]] \cup cas'[a] \cup ignored[a]
    <2>1. ASSUME NEW c \in 1 .. Len(log), Own(a, c)'
          PROVE  c \in markers[MetadataBucket[a]] \cup cas'[a] \cup ignored[a]
      <3>1. Own(a, c)
        BY <2>1 DEF Own
      <3>2. c \in markers[MetadataBucket[a]] \cup cas[a] \cup ignored[a]
        BY <1>0, <3>1 DEF OwnAt
      <3>3. cas[a] \subseteq cas'[a]
        OBVIOUS
      <3> QED
        BY <3>2, <3>3
    <2>2. ASSUME NEW c, c = Len(log) + 1, Own(a, c)'
          PROVE  c \in cas'[a]
      BY <2>2 DEF Own
    <2> QED
      BY <1>1, <2>1, <2>2
  <1>3. pc[a] = "call" => ~ Own(a, ev[a])'
    BY <1>0 DEF TypeOK, RangeInv, OwnAt, Own
  <1>4. \A c \in handled[a] : ~ Own(a, c)'
    BY <1>0 DEF RangeInv, OwnAt, Own
  <1> QED
    BY <1>0, <1>2, <1>3, <1>4 DEF OwnAt

\* Where the worker is alone every step keeps OwnInv.
LEMMA OwnStep ==
    ASSUME Alone, AloneInv, [Next]_vars
    PROVE  OwnInv'
  <1> USE FilterAssumption
  <1> USE DEF AloneInv, FilterInv
  <1>1. CASE UNCHANGED <<log, markers, ev, pc, inside, cas, handled, ignored>>
    BY <1>1 DEF OwnInv, OwnAt, Own
  <1>2. ASSUME NEW a \in Apps, NEW c \in 1 .. Len(log), FeedPush(a, c)
        PROVE  OwnInv'
    BY <1>1, <1>2 DEF FeedPush, buckets, history
  <1>3. ASSUME NEW a \in Apps, Receive(a)
        PROVE  OwnInv'
    <2>1. rch[a] \in Seq(Nat) /\ rch[a] # <<>>
      BY <1>3 DEF Receive, TypeOK
    <2>2. /\ pc[a] = "select" /\ ev'[a] = Head(rch[a])
          /\ pc'[a] = IF log[Head(rch[a])].op = "set" THEN "check" ELSE "call"
          /\ \A x \in Apps : x # a => ev'[x] = ev[x] /\ pc'[x] = pc[x]
          /\ UNCHANGED <<log, markers, inside, cas, handled, ignored>>
      BY <1>3 DEF Receive, TypeOK, buckets, history
    <2> QED
      BY <2>2 DEF OwnInv, OwnAt, Own
  <1>4. ASSUME NEW a \in Apps, CheckCas(a)
        PROVE  OwnInv'
    <2>1. /\ pc[a] = "check" /\ pc'[a] \in {"skip", "call"}
          /\ pc'[a] = "call" => ev[a] \notin markers[MetadataBucket[a]]
          /\ \A x \in Apps : x # a => pc'[x] = pc[x]
          /\ UNCHANGED <<log, markers, ev, inside, cas, handled, ignored>>
      BY <1>4 DEF CheckCas, Alone, TypeOK, buckets, history
    <2>2. cas[a] = {} /\ ev[a] \notin ignored[a] /\ ev[a] \in 1 .. Len(log)
      <3>1. cas[a] = {}
        BY <2>1 DEF OwnInv, OwnAt
      <3>2. ev[a] \notin ignored[a]
        BY <2>1 DEF OnceInv, OnceAt
      <3>3. ev[a] \in 1 .. Len(log)
        BY <2>1 DEF TypeOK, RangeInv
      <3> QED
        BY <3>1, <3>2, <3>3
    <2>3. pc'[a] = "call" => ~ Own(a, ev[a])
      BY <2>1, <2>2 DEF OwnInv, OwnAt
    <2> QED
      BY <2>1, <2>3 DEF OwnInv, OwnAt, Own
  <1>5. ASSUME NEW a \in Apps, SkipDelete(a)
        PROVE  OwnInv'
    <2>1. /\ markers' = [markers EXCEPT ![MetadataBucket[a]] = @ \ {ev[a]}]
          /\ pc[a] = "skip" /\ pc'[a] = "select"
          /\ ignored'[a] = ignored[a] \cup {ev[a]}
          /\ \A x \in Apps : x # a =>
               ignored'[x] = ignored[x] /\ ev'[x] = ev[x] /\ pc'[x] = pc[x]
          /\ UNCHANGED <<log, inside, cas, handled>>
      BY <1>5 DEF SkipDelete, Alone, TypeOK
    <2>2. \A x \in Apps : x # a => markers'[MetadataBucket[x]] = markers[MetadataBucket[x]]
      BY <2>1 DEF Alone, TypeOK
    <2>3. markers'[MetadataBucket[a]] = markers[MetadataBucket[a]] \ {ev[a]}
      BY <2>1 DEF TypeOK
    <2>4. ASSUME NEW x \in Apps, x # a
          PROVE  OwnAt(x)'
      BY <2>1, <2>2, <2>4 DEF OwnInv, OwnAt, Own
    <2>5. OwnAt(a)'
      BY <2>1, <2>3 DEF OwnInv, OwnAt, Own
    <2> QED
      BY <2>4, <2>5 DEF OwnInv
  <1>6. ASSUME NEW a \in Apps, CallHandler(a)
        PROVE  OwnInv'
    <2>1. /\ pc[a] = "call" /\ pc'[a] = "running" /\ inside'[a] = "worker"
          /\ handled'[a] = handled[a] \cup {ev[a]}
          /\ \A x \in Apps : x # a =>
               handled'[x] = handled[x] /\ pc'[x] = pc[x] /\ inside'[x] = inside[x]
          /\ UNCHANGED <<log, markers, ev, cas, ignored>>
      BY <1>6 DEF CallHandler, TypeOK, buckets
    <2>2. ASSUME NEW x \in Apps, x # a
          PROVE  OwnAt(x)'
      BY <2>1, <2>2 DEF OwnInv, OwnAt, Own
    <2>3. OwnAt(a)'
      BY <2>1 DEF OwnInv, OwnAt, Own
    <2> QED
      BY <2>2, <2>3 DEF OwnInv
  <1>7. ASSUME NEW a \in Apps, HandlerReturn(a)
        PROVE  OwnInv'
    <2>1. inside[a] = "worker"
      BY <1>7 DEF HandlerReturn, OwnInv, OwnAt
    <2>2. /\ cas[a] = {} /\ pc'[a] = "select" /\ inside'[a] = "none"
          /\ \A x \in Apps : x # a =>
               ev'[x] = ev[x] /\ pc'[x] = pc[x] /\ inside'[x] = inside[x]
          /\ UNCHANGED <<log, markers, cas, handled, ignored>>
      BY <1>7, <2>1 DEF HandlerReturn, TypeOK, buckets, history
    <2>3. ASSUME NEW x \in Apps, x # a
          PROVE  OwnAt(x)'
      BY <2>2, <2>3 DEF OwnInv, OwnAt, Own
    <2>4. OwnAt(a)'
      BY <2>2 DEF OwnInv, OwnAt, Own
    <2> QED
      BY <2>3, <2>4 DEF OwnInv
  <1>8. ~ Restart
    BY DEF Alone, Restart, TypeOK
  <1>9. ASSUME NEW k \in Keys, NEW op \in {"set", "del"}, UserWrite(k, op)
        PROVE  OwnInv'
    <2>1. Mutate(k, op, User)
          /\ UNCHANGED <<markers, ev, pc, inside, cas, handled, ignored>>
      BY <1>9 DEF UserWrite, history
    <2>2. /\ Len(log) \in Nat /\ Len(log') = Len(log) + 1
          /\ \A c \in 1 .. Len(log) : log'[c] = log[c]
          /\ log'[Len(log) + 1].by = User
      <3>1. log'[Len(log) + 1] = [key |-> k, op |-> op, by |-> User]
        BY <2>1, MutateGrows
      <3>2. /\ Len(log) \in Nat /\ Len(log') = Len(log) + 1
            /\ \A c \in 1 .. Len(log) : log'[c] = log[c]
        BY <2>1, MutateGrows
      <3> QED
        BY <3>1, <3>2
    <2>3. \A x \in Apps : cas[x] # {} => inside[x] = "worker"
      BY DEF OwnInv, OwnAt
    <2> QED
      BY <2>1, <2>2, <2>3, GrowKeepsOwn
  <1>10. ASSUME NEW a \in Apps, NEW k \in Keys, BucketSet(a, k)
        PROVE  OwnInv'
    <2>1. /\ Mutate(k, "set", a)
          /\ cas[a] = {} /\ inside[a] # "none"
          /\ cas' = [cas EXCEPT ![a] = {Len(log) + 1}]
          /\ UNCHANGED <<markers, ev, pc, inside, handled, ignored>>
      BY <1>10 DEF BucketSet, Alone, history
    <2>2. /\ Len(log) \in Nat /\ Len(log') = Len(log) + 1
          /\ \A c \in 1 .. Len(log) : log'[c] = log[c]
          /\ log'[Len(log) + 1].by = a
      <3>1. log'[Len(log) + 1] = [key |-> k, op |-> "set", by |-> a]
        BY <2>1, MutateGrows
      <3>2. log'[Len(log) + 1].by = a
        BY <3>1
      <3>3. /\ Len(log) \in Nat /\ Len(log') = Len(log) + 1
            /\ \A c \in 1 .. Len(log) : log'[c] = log[c]
        BY <2>1, MutateGrows
      <3> QED
        BY <3>2, <3>3
    <2>3. \A x \in Apps : /\ cas[x] \subseteq cas'[x]
                          /\ cas'[x] # {} => inside[x] = "worker"
      BY <2>1 DEF OwnInv, OwnAt, TypeOK
    <2>4. Len(log) + 1 \in cas'[a]
      BY <2>1 DEF TypeOK
    <2> QED
      BY <2>1, <2>2, <2>3, <2>4, GrowKeepsOwn
  <1>11. ASSUME NEW a \in Apps, NEW k \in Keys, BucketDelete(a, k)
        PROVE  OwnInv'
    <2>1. Mutate(k, "del", a)
          /\ UNCHANGED <<markers, ev, pc, inside, cas, handled, ignored>>
      BY <1>11 DEF BucketDelete, history
    <2>2. /\ Len(log) \in Nat /\ Len(log') = Len(log) + 1
          /\ \A c \in 1 .. Len(log) : log'[c] = log[c]
          /\ log'[Len(log) + 1].op = "del"
      <3>1. log'[Len(log) + 1] = [key |-> k, op |-> "del", by |-> a]
        BY <2>1, MutateGrows
      <3>2. /\ Len(log) \in Nat /\ Len(log') = Len(log) + 1
            /\ \A c \in 1 .. Len(log) : log'[c] = log[c]
        BY <2>1, MutateGrows
      <3> QED
        BY <3>1, <3>2
    <2>3. \A x \in Apps : cas[x] # {} => inside[x] = "worker"
      BY DEF OwnInv, OwnAt
    <2> QED
      BY <2>1, <2>2, <2>3, GrowKeepsOwn
  <1>12. ASSUME NEW a \in Apps, StoreMarker(a)
        PROVE  OwnInv'
    <2>1. /\ markers' = [markers EXCEPT ![MetadataBucket[a]] = @ \cup cas[a]]
          /\ cas' = [cas EXCEPT ![a] = {}]
          /\ UNCHANGED <<log, ev, pc, inside, handled, ignored>>
      BY <1>12 DEF StoreMarker, Alone, history
    <2>2. /\ \A x \in Apps : markers[MetadataBucket[x]] \subseteq markers'[MetadataBucket[x]]
          /\ cas[a] \subseteq markers'[MetadataBucket[a]]
      BY <2>1 DEF TypeOK
    <2>3. cas'[a] = {} /\ \A x \in Apps : x # a => cas'[x] = cas[x]
      BY <2>1 DEF TypeOK
    <2>4. ASSUME NEW x \in Apps
          PROVE  OwnAt(x)'
      <3>1. OwnAt(x)
        BY DEF OwnInv
      <3>2. \A c \in 1 .. Len(log) :
              Own(x, c) => c \in markers'[MetadataBucket[x]] \cup cas'[x] \cup ignored[x]
        BY <2>2, <2>3, <3>1 DEF OwnAt
      <3>3. cas'[x] # {} => inside[x] = "worker"
        BY <2>3, <3>1 DEF OwnAt
      <3> QED
        BY <2>1, <3>1, <3>2, <3>3 DEF OwnAt, Own
    <2> QED
      BY <2>4 DEF OwnInv
  <1>13. \A a \in Apps : \A t \in Callers : ~ OtherCall(a, t)
    BY DEF Alone
  <1>14. CASE UNCHANGED vars
    BY <1>1, <1>14 DEF vars
  <1> QED
    BY <1>2, <1>3, <1>4, <1>5, <1>6, <1>7, <1>8, <1>9, <1>10, <1>11,
       <1>12, <1>13, <1>14 DEF Next, WorkerStep

\* The initial states satisfy the two invariants.
LEMMA AloneInit == Init => OnceInv /\ OwnInv
  <1> SUFFICES ASSUME Init
               PROVE  OnceInv /\ OwnInv
    OBVIOUS
  <1>1. \A a \in Apps : /\ ev[a] = 0 /\ pc[a] = "select" /\ inside[a] = "none"
                        /\ cas[a] = {} /\ handled[a] = {} /\ ignored[a] = {}
    BY DEF Init
  <1>2. 1 .. Len(log) = {} /\ \A a \in Apps : 1 .. Len(rch[a]) = {}
    <2>1. log = <<>> /\ \A a \in Apps : rch[a] = <<>>
      BY DEF Init
    <2>2. 1 .. Len(<<>>) = {}
      OBVIOUS
    <2> QED
      BY <2>1, <2>2
  <1>3. OnceInv
    BY <1>1, <1>2 DEF OnceInv, OnceAt
  <1>4. OwnInv
    BY <1>1, <1>2 DEF OwnInv, OwnAt
  <1> QED
    BY <1>3, <1>4

\* With the worker alone, AloneInv holds in every reachable state.
THEOREM AloneInvariant == Alone /\ Spec => []AloneInv
  <1> SUFFICES ASSUME Alone PROVE Spec => []AloneInv
    OBVIOUS
  <1>1. Init => OnceInv /\ OwnInv
    BY AloneInit
  <1>2. FilterInv /\ FilterInv' /\ OnceInv /\ OwnInv /\ [Next]_vars => OnceInv' /\ OwnInv'
    BY OnceStep, OwnStep DEF AloneInv
  <1>3. FilterInv /\ OnceInv /\ OwnInv => AloneInv
    BY DEF AloneInv
  <1> QED
    BY <1>1, <1>2, <1>3, FilterInvariant, PTL DEF Spec

\* With the worker alone, no handler is called for a document its own
\* application stored: the filter of handleDcpEvent does what it is for.
THEOREM NoSelfTriggerTheorem == Alone /\ Spec => []NoSelfTrigger
  <1>1. AloneInv => NoSelfTrigger
    BY DEF AloneInv, OwnInv, OwnAt, NoSelfTrigger
  <1> QED
    BY <1>1, AloneInvariant, PTL

\* A step of the filter is a step of EventDelivery or changes nothing there.
LEMMA DeliveryStep ==
    ASSUME Alone, AloneInv, [Next]_vars
    PROVE  [Delivery!Next]_(Delivery!vars)
  <1> USE FilterAssumption
  <1> USE DEF AloneInv, FilterInv
  <1>1. CASE UNCHANGED <<log, handled, ignored>>
    BY <1>1 DEF Delivery!vars
  <1>2. ASSUME NEW k \in Keys, NEW op \in {"set", "del"}, NEW who \in Apps \cup {User},
               Mutate(k, op, who), UNCHANGED <<handled, ignored>>
        PROVE  Delivery!Next
    <2>1. [key |-> k, op |-> op, by |-> who] \in Delivery!Mutation
      BY DEF Delivery!Mutation
    <2>2. Delivery!Write([key |-> k, op |-> op, by |-> who])
      BY <1>2 DEF Mutate, Delivery!Write
    <2> QED
      BY <2>1, <2>2 DEF Delivery!Next
  <1>3. ASSUME NEW a \in Apps, SkipDelete(a)
        PROVE  Delivery!Next
    <2>1. /\ pc[a] = "skip" /\ UNCHANGED <<log, handled>>
          /\ ignored' = [ignored EXCEPT ![a] = @ \cup {ev[a]}]
      BY <1>3 DEF SkipDelete
    <2>2. ev[a] \in 1 .. Len(log)
      BY <2>1 DEF TypeOK, RangeInv
    <2>3. ev[a] \notin handled[a] \cup ignored[a]
      BY <2>1 DEF OnceInv, OnceAt
    <2>4. Own(a, ev[a])
      BY <2>1 DEF MarkInv, StoredBy, Alone
    <2>5. Delivery!Ignore(a, ev[a])
      BY <2>1, <2>2, <2>3, <2>4 DEF Delivery!Ignore, Delivery!Open, Delivery!Own, Own
    <2> QED
      BY <2>2, <2>5 DEF Delivery!Next
  <1>4. ASSUME NEW a \in Apps, CallHandler(a)
        PROVE  Delivery!Next
    <2>1. /\ pc[a] = "call" /\ UNCHANGED <<log, ignored>>
          /\ handled' = [handled EXCEPT ![a] = @ \cup {ev[a]}]
      BY <1>4 DEF CallHandler, buckets
    <2>2. ev[a] \in 1 .. Len(log)
      BY <2>1 DEF TypeOK, RangeInv
    <2>3. ev[a] \notin handled[a] \cup ignored[a]
      BY <2>1 DEF OnceInv, OnceAt
    <2>4. ~ Own(a, ev[a])
      BY <2>1 DEF OwnInv, OwnAt
    <2>5. Delivery!Handle(a, ev[a])
      BY <2>1, <2>2, <2>3, <2>4 DEF Delivery!Handle, Delivery!Open, Delivery!Own, Own
    <2> QED
      BY <2>2, <2>5 DEF Delivery!Next
  <1>5. ASSUME NEW k \in Keys, NEW op \in {"set", "del"}, UserWrite(k, op)
        PROVE  Delivery!Next
    BY <1>2, <1>5 DEF UserWrite, history
  <1>6. ASSUME NEW a \in Apps, NEW k \in Keys, BucketSet(a, k)
        PROVE  Delivery!Next
    BY <1>2, <1>6 DEF BucketSet, Alone, history
  <1>7. ASSUME NEW a \in Apps, NEW k \in Keys, BucketDelete(a, k)
        PROVE  Delivery!Next
    BY <1>2, <1>7 DEF BucketDelete, history
  <1>8. ASSUME NEW a \in Apps,
               \/ \E c \in 1 .. Len(log) : FeedPush(a, c)
               \/ Receive(a) \/ CheckCas(a) \/ StoreMarker(a) \/ HandlerReturn(a)
               \/ \E t \in Callers : OtherCall(a, t)
        PROVE  UNCHANGED <<log, handled, ignored>>
    BY <1>8
    DEF FeedPush, Receive, CheckCas, StoreMarker, HandlerReturn, OtherCall, buckets, history
  <1>9. Restart \/ UNCHANGED vars => UNCHANGED <<log, handled, ignored>>
    BY DEF Restart, vars, buckets, history
  <1> QED
    BY <1>1, <1>3, <1>4, <1>5, <1>6, <1>7, <1>8, <1>9 DEF Next, WorkerStep

\* With the worker alone, MutationFilter implements EventDelivery: a mutation
\* is handled at most once, never by the application that stored it, and no
\* other mutation is dropped.
THEOREM DeliveryTheorem == Alone /\ Spec => DeliveryKept
  <1> SUFFICES ASSUME Alone PROVE Spec => DeliveryKept
    OBVIOUS
  <1>1. Init => Delivery!Init
    BY DEF Init, Delivery!Init
  <1>2. AloneInv /\ [Next]_vars => [Delivery!Next]_(Delivery!vars)
    BY DeliveryStep
  <1> QED
    BY <1>1, <1>2, AloneInvariant, PTL DEF Spec, DeliveryKept, Delivery!Spec
=============================================================================
