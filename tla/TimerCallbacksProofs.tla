------------------------ MODULE TimerCallbacksProofs ------------------------
(***************************************************************************)
(* Proofs about timers, for any documents, times, numbers of registrations *)
(* and speeds of the goroutine.                                            *)
(***************************************************************************)
EXTENDS TimerCallbacks, FiniteSetTheorems, TLAPS

\* Most leaves are first-order and need no arithmetic: Zenon goes first.
USE ZenonT(4), SMTT(30), ZenonT(20)

\* TypeOK, and what it needs to be inductive: the loop over the keys runs with
\* no registerCallback under way except inside a callback.
TInv ==
    /\ TypeOK
    /\ tpc = "call" => reg = NoReg
    /\ tpc = "js" => idx <= Len(value)
    /\ tpc \in {"idle", "get", "send"} => idx = 1

\* The types hold at the start.
LEMMA TInvInit == Init => TInv
<1> SUFFICES ASSUME Init
             PROVE  TInv
  OBVIOUS
<1>1. slot \in [Times -> Seq(Docs) \cup {NoSlot}]
  BY DEF Init
<1>2. value = <<>> /\ idx = 1 /\ Len(value) = 0 /\ value \in Seq(Docs)
  BY DEF Init
<1>3. now \in Start .. Start + MaxTicks /\ docID \in Nat
  BY TimerAssumption DEF Init
<1>4. blob \in [Docs -> Times \cup {0}]
  BY DEF Init
<1>5. due \in BOOLEAN /\ tick \in BOOLEAN
  BY Zenon DEF Init
<1> QED
  BY <1>1, <1>2, <1>3, <1>4, <1>5 DEF Init, TInv, TypeOK

\* The steps of registerCallback and of the handler around it keep the types.
LEMMA TInvRegister ==
  ASSUME TInv,
         \/ \E d \in Docs, v \in Values : RegisterCallback(d, v)
         \/ RegisterStep \/ HandlerReturn
  PROVE  TInv'
<1> USE DEF clock, timer, history
<1>1. ASSUME NEW d \in Docs, NEW v \in Values, RegisterCallback(d, v)
      PROVE  TInv'
  <2>1. /\ reg' = [doc |-> d, val |-> v, ts |-> ConvertToISO8601(v), at |-> now, step |-> "set"]
        /\ ConvertToISO8601(v) \in Times
        /\ UNCHANGED <<env, now, due, tick, slot, blob, tpc, docID, value, idx>>
    BY <1>1 DEF RegisterCallback
  <2>2. /\ holder' \in {"handler", "timer"}
        /\ (holder' = "timer") <=> (holder = "timer")
        /\ tpc # "call"
    BY <1>1 DEF RegisterCallback, TInv, TypeOK
  <2>3. reg'.doc = d /\ reg'.ts = ConvertToISO8601(v) /\ reg'.step = "set"
    BY <2>1
  <2> HIDE DEF ConvertToISO8601
  <2> QED
    BY <2>1, <2>2, <2>3 DEF TInv, TypeOK
<1>2. CASE RegSetBlob
  <2>1. reg'.doc = reg.doc /\ reg'.ts = reg.ts /\ reg'.step = "get"
    BY <1>2 DEF RegSetBlob, TInv, TypeOK
  <2> QED
    BY <1>2, <2>1 DEF RegSetBlob, TInv, TypeOK
<1>3. CASE RegGetMarker
  BY <1>3 DEF RegGetMarker, TInv, TypeOK
<1>4. CASE RegAddMarker
  BY <1>4 DEF RegAddMarker, TInv, TypeOK
<1>5. CASE RegAppend
  BY <1>5 DEF RegAppend, TInv, TypeOK
<1>6. CASE HandlerReturn
  BY <1>6 DEF HandlerReturn, TInv, TypeOK
<1> QED
  BY <1>1, <1>2, <1>3, <1>4, <1>5, <1>6 DEF RegisterStep

\* The clock, the ticker and the timer goroutine keep the types.
LEMMA TInvTimer ==
  ASSUME TInv, Second \/ Fire \/ TimerStep
  PROVE  TInv'
<1> USE DEF clock, timer, history
<1>1. CASE Second
  BY <1>1, TimerAssumption DEF Second, TInv, TypeOK
<1>2. CASE Fire
  BY <1>2 DEF Fire, TInv, TypeOK
<1>3. CASE TakeTick
  <2>1. now - 2 \in Nat
    BY TimerAssumption DEF TInv, TypeOK
  <2> QED
    BY <1>3, <2>1 DEF TakeTick, NewISO8601, TInv, TypeOK
<1>4. CASE BucketGet
  BY <1>4 DEF BucketGet, TInv, TypeOK
<1>5. CASE SendTimerCallback
  BY <1>5 DEF SendTimerCallback, TInv, TypeOK
<1>6. CASE CallNext
  BY <1>6 DEF CallNext, TInv, TypeOK
<1>7. CASE CallbackReturn
  BY <1>7 DEF CallbackReturn, TInv, TypeOK
<1>8. CASE PurgeMarker
  BY <1>8 DEF PurgeMarker, TInv, TypeOK
<1>9. CASE PurgeBlobs
  <2>1. CASE idx <= Len(value)
    <3>1. value[idx] \in Docs /\ blob' = [blob EXCEPT ![value[idx]] = 0] /\ idx' = idx + 1
      BY <1>9, <2>1 DEF PurgeBlobs, TInv, TypeOK
    <3>2. blob' \in [Docs -> Times \cup {0}] /\ idx' \in 1 .. Len(value) + 1
      BY <2>1, <3>1 DEF TInv, TypeOK
    <3> QED
      BY <1>9, <2>1, <3>2 DEF PurgeBlobs, TInv, TypeOK
  <2>2. CASE ~ (idx <= Len(value))
    BY <1>9, <2>2 DEF PurgeBlobs, TInv, TypeOK
  <2> QED
    BY <2>1, <2>2
<1> QED
  BY <1>1, <1>2, <1>3, <1>4, <1>5, <1>6, <1>7, <1>8, <1>9 DEF TimerStep

\* Every step keeps the types.
LEMMA TInvNext ==
  ASSUME TInv, [Next]_vars
  PROVE  TInv'
<1>1. CASE UNCHANGED vars
  BY <1>1 DEF vars, TInv, TypeOK
<1> QED
  BY <1>1, TInvRegister, TInvTimer DEF Next

\* The timer goroutine calls callbacks with the isolate's Locker only, and never
\* leaves the keys it fetched.
THEOREM TimerTypeCorrect == Spec => []TypeOK
<1>1. TInv => TypeOK
  BY DEF TInv
<1> QED
  BY <1>1, TInvInit, TInvNext, PTL DEF Spec

-----------------------------------------------------------------------------
(* The callback of a second is the one registered for it.                  *)

Known(rs, d, t) == \E j \in 1 .. Len(rs) : rs[j].doc = d /\ rs[j].ts = t

RegRecord ==
    [doc : Docs, val : Nat, ts : Times, at : Nat, step : {"set", "get", "add", "append"}]

Pending(r, d, t) == r # NoReg /\ r.doc = d /\ r.ts = t

\* With every document registered once: what the markers, the fetched keys and
\* the blobs hold was registered, a blob perhaps by the call under way.
FInv ==
    /\ regs \in Seq([doc : Docs, ts : Times, at : Nat])
    /\ fired \in Seq([doc : Docs, ts : Nat, blob : Nat])
    /\ reg # NoReg => reg \in RegRecord
    /\ tpc \in {"idle", "get"} => value = <<>>
    /\ env.fresh =>
          /\ \A i, j \in 1 .. Len(regs) : regs[i].doc = regs[j].doc => i = j
          /\ reg # NoReg => \A j \in 1 .. Len(regs) : regs[j].doc # reg.doc
          /\ \A t \in Times : slot[t] # NoSlot =>
                 \A i \in 1 .. Len(slot[t]) : Known(regs, slot[t][i], t)
          /\ \A i \in 1 .. Len(value) : Known(regs, value[i], docID)
          /\ \A d \in Docs : blob[d] # 0 => Known(regs, d, blob[d]) \/ Pending(reg, d, blob[d])
    /\ RightCallback

\* The invariant holds at the start.
LEMMA FInvInit == Init => FInv
<1> SUFFICES ASSUME Init
             PROVE  FInv
  OBVIOUS
<1>1. regs = <<>> /\ fired = <<>> /\ value = <<>> /\ reg = NoReg
  BY DEF Init
<1>2. Len(regs) = 0 /\ Len(fired) = 0 /\ Len(value) = 0
  BY <1>1
<1>3. (\A t \in Times : slot[t] = NoSlot) /\ (\A d \in Docs : blob[d] = 0)
  BY DEF Init
<1> QED
  BY <1>1, <1>2, <1>3 DEF FInv, RightCallback

\* registerCallback begins, stores the blob and looks for the marker.
LEMMA FInvRegister ==
  ASSUME TInv, FInv,
         \/ \E d \in Docs, v \in Values : RegisterCallback(d, v)
         \/ RegSetBlob \/ RegGetMarker \/ RegAddMarker \/ HandlerReturn
  PROVE  FInv'
<1> USE DEF clock, timer, history
<1>1. ASSUME NEW d \in Docs, NEW v \in Values, RegisterCallback(d, v)
      PROVE  FInv'
  <2>1. /\ reg = NoReg
        /\ reg' = [doc |-> d, val |-> v, ts |-> ConvertToISO8601(v), at |-> now, step |-> "set"]
        /\ ConvertToISO8601(v) \in Times
        /\ env.fresh => \A i \in 1 .. Len(regs) : regs[i].doc # d
        /\ UNCHANGED <<env, slot, blob, tpc, docID, value, regs, fired>>
    BY <1>1 DEF RegisterCallback
  <2>2. v \in Nat /\ now \in Nat
    BY TimerAssumption DEF TInv, TypeOK
  <2>3. reg' \in RegRecord /\ reg'.doc = d
    BY <2>1, <2>2 DEF RegRecord
  <2> HIDE DEF ConvertToISO8601
  <2>5. \A e, t : ~ Pending(reg, e, t)
    BY <2>1 DEF Pending
  <2> QED
    BY <2>1, <2>3, <2>5 DEF FInv, RightCallback
<1>2. CASE RegSetBlob
  <2>1. /\ reg # NoReg /\ reg \in RegRecord
        /\ blob' = [blob EXCEPT ![reg.doc] = reg.ts] /\ reg' = [reg EXCEPT !.step = "get"]
        /\ UNCHANGED <<env, slot, tpc, docID, value, regs, fired>>
    BY <1>2 DEF RegSetBlob, FInv
  <2>2. reg' \in RegRecord /\ reg'.doc = reg.doc /\ reg'.ts = reg.ts /\ reg' # NoReg
    BY <2>1, TimerAssumption DEF RegRecord
  <2>3. \A e, t : Pending(reg', e, t) = Pending(reg, e, t)
    BY <2>1, <2>2 DEF Pending
  <2>4. \A e \in Docs : e # reg.doc => blob'[e] = blob[e]
    BY <2>1 DEF TInv, TypeOK
  <2>5. reg.doc \in Docs /\ blob'[reg.doc] = reg.ts
    BY <2>1 DEF RegRecord, TInv, TypeOK
  <2>6. Pending(reg, reg.doc, reg.ts)
    BY <2>1 DEF Pending
  <2>7. ASSUME env.fresh, NEW e \in Docs, blob'[e] # 0
        PROVE  Known(regs', e, blob'[e]) \/ Pending(reg', e, blob'[e])
    <3>1. CASE e = reg.doc
      BY <3>1, <2>3, <2>5, <2>6
    <3>2. CASE e # reg.doc
      <4>1. Known(regs, e, blob[e]) \/ Pending(reg, e, blob[e])
        BY <3>2, <2>4, <2>7 DEF FInv
      <4> QED
        BY <4>1, <3>2, <2>1, <2>3, <2>4
    <3> QED
      BY <3>1, <3>2
  <2> QED
    BY <2>1, <2>2, <2>3, <2>7 DEF FInv, RightCallback
<1>3. CASE RegGetMarker \/ RegAddMarker
  <2>1. /\ reg # NoReg /\ reg \in RegRecord
        /\ \E p \in {"add", "append"} : reg' = [reg EXCEPT !.step = p]
        /\ UNCHANGED <<env, blob, tpc, docID, value, regs, fired>>
    BY <1>3 DEF RegGetMarker, RegAddMarker, FInv
  <2>2. reg' \in RegRecord /\ reg'.doc = reg.doc /\ reg'.ts = reg.ts /\ reg' # NoReg
    BY <2>1, TimerAssumption DEF RegRecord
  <2>3. \A e, t : Pending(reg', e, t) = Pending(reg, e, t)
    BY <2>1, <2>2 DEF Pending
  <2>4. \A t \in Times : slot'[t] = slot[t] \/ slot'[t] = <<>>
    BY <1>3 DEF RegGetMarker, RegAddMarker, TInv, TypeOK
  <2>5. ASSUME env.fresh, NEW t \in Times, slot'[t] # NoSlot, NEW i \in 1 .. Len(slot'[t])
        PROVE  Known(regs', slot'[t][i], t)
    <3>1. slot'[t] = slot[t]
      BY <2>4, <2>5
    <3>2. Known(regs, slot[t][i], t)
      BY <3>1, <2>5 DEF FInv
    <3> QED
      BY <3>1, <3>2, <2>1
  <2> QED
    BY <2>1, <2>2, <2>3, <2>5 DEF FInv, RightCallback
<1>4. CASE HandlerReturn
  BY <1>4 DEF HandlerReturn, FInv, RightCallback
<1> QED
  BY <1>1, <1>2, <1>3, <1>4

\* registerCallback ends: its document becomes known, for its second.
LEMMA FInvAppend == TInv /\ FInv /\ RegAppend => FInv'
<1> SUFFICES ASSUME TInv, FInv, RegAppend
             PROVE  FInv'
  OBVIOUS
<1> DEFINE new == [doc |-> reg.doc, ts |-> reg.ts, at |-> reg.at]
<1>1. /\ reg # NoReg /\ reg \in RegRecord /\ reg' = NoReg
      /\ regs' = Append(regs, new)
      /\ slot' = [slot EXCEPT ![reg.ts] = IF @ = NoSlot THEN @ ELSE Append(@, reg.doc)]
      /\ UNCHANGED <<env, blob, tpc, docID, value, fired>>
  BY DEF RegAppend, FInv, clock, timer
<1>2. reg.doc \in Docs /\ reg.ts \in Times /\ reg.at \in Nat
  BY <1>1 DEF RegRecord
<1>3. /\ regs \in Seq([doc : Docs, ts : Times, at : Nat])
      /\ new \in [doc : Docs, ts : Times, at : Nat]
  BY <1>2 DEF FInv
<1>4. /\ regs' \in Seq([doc : Docs, ts : Times, at : Nat])
      /\ Len(regs') = Len(regs) + 1 /\ Len(regs) \in Nat
      /\ \A j \in 1 .. Len(regs) : regs'[j] = regs[j]
      /\ regs'[Len(regs) + 1] = new
  BY <1>1, <1>3
<1>5. new.doc = reg.doc /\ new.ts = reg.ts
  OBVIOUS
<1> HIDE DEF new
<1>6. ASSUME NEW d, NEW t, Known(regs, d, t)
      PROVE  Known(regs', d, t)
  BY <1>4, <1>6 DEF Known
<1>7. Known(regs', reg.doc, reg.ts)
  BY <1>4, <1>5 DEF Known
<1>8. ASSUME env.fresh, NEW i \in 1 .. Len(regs'), NEW j \in 1 .. Len(regs'),
             regs'[i].doc = regs'[j].doc
      PROVE  i = j
  <2>1. \A k \in 1 .. Len(regs) : regs'[k] = regs[k] /\ regs[k].doc # reg.doc
    BY <1>1, <1>4, <1>8 DEF FInv
  <2>2. i \in 1 .. Len(regs) \/ i = Len(regs) + 1
    BY <1>4
  <2>3. j \in 1 .. Len(regs) \/ j = Len(regs) + 1
    BY <1>4
  <2>4. \A k, l \in 1 .. Len(regs) : regs[k].doc = regs[l].doc => k = l
    BY <1>8 DEF FInv
  <2>5. CASE i \in 1 .. Len(regs) /\ j \in 1 .. Len(regs)
    BY <1>8, <2>1, <2>4, <2>5
  <2>6. CASE i = Len(regs) + 1 /\ j \in 1 .. Len(regs)
    BY <1>4, <1>5, <1>8, <2>1, <2>6
  <2>7. CASE i \in 1 .. Len(regs) /\ j = Len(regs) + 1
    BY <1>4, <1>5, <1>8, <2>1, <2>7
  <2> QED
    BY <2>2, <2>3, <2>5, <2>6, <2>7
<1>9. ASSUME env.fresh, NEW t \in Times, slot'[t] # NoSlot, NEW i \in 1 .. Len(slot'[t])
      PROVE  Known(regs', slot'[t][i], t)
  <2>1. CASE slot'[t] = slot[t]
    <3>1. Known(regs, slot[t][i], t)
      BY <2>1, <1>9 DEF FInv
    <3> QED
      BY <3>1, <2>1, <1>6
  <2>2. CASE slot'[t] # slot[t]
    <3>1. slot \in [Times -> Seq(Docs) \cup {NoSlot}]
      BY DEF TInv, TypeOK
    <3>2. t = reg.ts /\ slot[t] # NoSlot /\ slot'[t] = Append(slot[t], reg.doc)
      BY <3>1, <2>2, <1>1, <1>2
    <3>3. slot[t] \in Seq(Docs)
      BY <3>1, <3>2
    <3>4. Len(slot[t]) \in Nat /\ Len(slot'[t]) = Len(slot[t]) + 1
      BY <3>2, <3>3, <1>2
    <3>5. CASE i = Len(slot[t]) + 1
      <4>1. slot'[t][i] = reg.doc
        BY <3>2, <3>3, <3>5, <1>2
      <4> QED
        BY <4>1, <3>2, <1>7
    <3>6. CASE i \in 1 .. Len(slot[t])
      <4>1. slot'[t][i] = slot[t][i]
        BY <3>2, <3>3, <3>6, <1>2
      <4>2. Known(regs, slot[t][i], t)
        BY <3>2, <3>6, <1>9 DEF FInv
      <4> QED
        BY <4>1, <4>2, <1>6
    <3> QED
      BY <3>4, <3>5, <3>6
  <2> QED
    BY <2>1, <2>2
<1>10. ASSUME env.fresh, NEW d \in Docs, blob[d] # 0
       PROVE  Known(regs', d, blob[d])
  <2>1. Known(regs, d, blob[d]) \/ Pending(reg, d, blob[d])
    BY <1>10 DEF FInv
  <2>2. CASE Known(regs, d, blob[d])
    BY <2>2, <1>6
  <2>3. CASE Pending(reg, d, blob[d])
    BY <2>3, <1>7 DEF Pending
  <2> QED
    BY <2>1, <2>2, <2>3
<1>11. ASSUME env.fresh, NEW i \in 1 .. Len(value)
       PROVE  Known(regs', value[i], docID)
  BY <1>6, <1>11 DEF FInv
<1> QED
  BY <1>1, <1>4, <1>8, <1>9, <1>10, <1>11 DEF FInv, RightCallback

\* The timer goroutine and the clock: what is fetched was in the marker, what
\* is fired was fetched, and a document is known for one second only.
LEMMA FInvTimer == TInv /\ FInv /\ (Second \/ Fire \/ TimerStep) => FInv'
<1> SUFFICES ASSUME TInv, FInv, Second \/ Fire \/ TimerStep
             PROVE  FInv'
  OBVIOUS
<1> USE DEF clock, timer, history
<1>1. CASE Second \/ Fire \/ SendTimerCallback \/ CallbackReturn
  BY <1>1 DEF Second, Fire, SendTimerCallback, CallbackReturn, FInv, RightCallback
<1>2. CASE TakeTick
  <2>1. value = <<>> /\ Len(value) = 0
    BY <1>2 DEF TakeTick, FInv
  <2>2. UNCHANGED <<env, slot, blob, reg, value, regs, fired>> /\ tpc = "idle"
    BY <1>2 DEF TakeTick
  <2>3. value' = <<>> /\ \A i \in 1 .. Len(value') : Known(regs', value'[i], docID')
    BY <2>1, <2>2
  <2> QED
    BY <2>2, <2>3 DEF FInv, RightCallback
<1>3. CASE BucketGet
  <2>1. /\ tpc' = "send" /\ UNCHANGED <<env, slot, blob, reg, docID, regs, fired>>
        /\ \/ docID \in Times /\ slot[docID] # NoSlot /\ value' = slot[docID]
           \/ value' = <<>>
    BY <1>3 DEF BucketGet
  <2>2. ASSUME env.fresh, NEW i \in 1 .. Len(value')
        PROVE  Known(regs', value'[i], docID')
    BY <2>1, <2>2 DEF FInv
  <2> QED
    BY <2>1, <2>2 DEF FInv, RightCallback
<1>4. CASE CallNext
  <2>1. UNCHANGED <<env, slot, blob, reg, docID, value, regs>> /\ tpc' \in {"js", "purge"}
    BY <1>4 DEF CallNext
  <2>2. CASE fired' = fired
    BY <2>1, <2>2 DEF FInv, RightCallback
  <2>3. CASE fired' # fired
    <3>0. PICK d : d = value[idx]
      OBVIOUS
    <3> DEFINE f == [doc |-> d, ts |-> docID, blob |-> blob[d]]
    <3>1. idx <= Len(value) /\ blob[d] # 0 /\ fired' = Append(fired, f) /\ reg = NoReg
      BY <1>4, <2>3, <3>0 DEF CallNext, TInv
    <3>2. idx \in 1 .. Len(value) /\ d \in Docs /\ docID \in Nat
      BY <3>0, <3>1 DEF TInv, TypeOK
    <3>3. blob[d] \in Nat
      BY <3>2, TimerAssumption DEF TInv, TypeOK
    <3>4. f \in [doc : Docs, ts : Nat, blob : Nat] /\ f.ts = docID /\ f.blob = blob[d]
      BY <3>2, <3>3
    <3> HIDE DEF f
    <3>5. /\ fired' \in Seq([doc : Docs, ts : Nat, blob : Nat])
          /\ Len(fired) \in Nat /\ Len(fired') = Len(fired) + 1
          /\ fired'[Len(fired) + 1] = f
          /\ \A i \in 1 .. Len(fired) : fired'[i] = fired[i]
      BY <3>1, <3>4 DEF FInv
    <3>6. ASSUME env.fresh
          PROVE  blob[d] = docID
      <4>1. Known(regs, d, docID)
        BY <3>0, <3>2, <3>6 DEF FInv
      <4>2. Known(regs, d, blob[d])
        BY <3>1, <3>2, <3>6 DEF FInv, Pending
      <4> QED
        BY <4>1, <4>2, <3>6 DEF FInv, Known
    <3>7. RightCallback'
      <4> SUFFICES ASSUME env.fresh, NEW i \in 1 .. Len(fired')
                   PROVE  fired'[i].blob = fired'[i].ts
        BY <2>1 DEF RightCallback
      <4>1. CASE i = Len(fired) + 1
        BY <4>1, <3>4, <3>5, <3>6
      <4>2. CASE i \in 1 .. Len(fired)
        <5>1. fired[i].blob = fired[i].ts
          BY <4>2 DEF FInv, RightCallback
        <5> QED
          BY <5>1, <4>2, <3>5
      <4> QED
        BY <4>1, <4>2, <3>5
    <3> QED
      BY <2>1, <3>5, <3>7 DEF FInv
  <2> QED
    BY <2>2, <2>3
<1>5. CASE PurgeMarker
  <2>1. tpc' = "blobs" /\ UNCHANGED <<env, blob, reg, docID, value, regs, fired>>
    BY <1>5 DEF PurgeMarker
  <2>2. \A t \in Times : slot'[t] = slot[t] \/ slot'[t] = NoSlot
    BY <1>5 DEF PurgeMarker, TInv, TypeOK
  <2>3. ASSUME env.fresh, NEW t \in Times, slot'[t] # NoSlot, NEW i \in 1 .. Len(slot'[t])
        PROVE  Known(regs', slot'[t][i], t)
    <3>1. slot'[t] = slot[t]
      BY <2>2, <2>3
    <3>2. Known(regs, slot[t][i], t)
      BY <3>1, <2>3 DEF FInv
    <3> QED
      BY <3>1, <3>2, <2>1
  <2> QED
    BY <2>1, <2>3 DEF FInv, RightCallback
<1>6. CASE PurgeBlobs
  <2>1. UNCHANGED <<env, slot, reg, docID, regs, fired>>
    BY <1>6 DEF PurgeBlobs
  <2>2. (value' = value /\ tpc' = "blobs") \/ value' = <<>>
    BY <1>6 DEF PurgeBlobs
  <2>3. \A d \in Docs : blob'[d] = blob[d] \/ blob'[d] = 0
    BY <1>6 DEF PurgeBlobs, TInv, TypeOK
  <2>4. ASSUME env.fresh, NEW d \in Docs, blob'[d] # 0
        PROVE  Known(regs', d, blob'[d]) \/ Pending(reg', d, blob'[d])
    <3>1. blob'[d] = blob[d]
      BY <2>3, <2>4
    <3>2. Known(regs, d, blob[d]) \/ Pending(reg, d, blob[d])
      BY <3>1, <2>4 DEF FInv
    <3> QED
      BY <3>1, <3>2, <2>1
  <2>5. ASSUME env.fresh, NEW i \in 1 .. Len(value')
        PROVE  Known(regs', value'[i], docID')
    BY <2>1, <2>2, <2>5 DEF FInv
  <2>6. tpc' \in {"idle", "get"} => value' = <<>>
    BY <2>2
  <2> QED
    BY <2>1, <2>4, <2>5, <2>6 DEF FInv, RightCallback
<1> QED
  BY <1>1, <1>2, <1>3, <1>4, <1>5, <1>6 DEF TimerStep

\* Every step keeps what the markers and the blobs hold registered.
LEMMA FInvNext == TInv /\ FInv /\ [Next]_vars => FInv'
<1> SUFFICES ASSUME TInv, FInv, [Next]_vars
             PROVE  FInv'
  OBVIOUS
<1>1. CASE UNCHANGED vars
  BY <1>1 DEF vars, clock, timer, history, FInv, RightCallback
<1>2. CASE Next
  BY <1>2, FInvRegister, FInvAppend, FInvTimer DEF Next, RegisterStep
<1> QED
  BY <1>1, <1>2

\* RightCallback for every number of documents, registrations and seconds:
\* with every document registered once, the callback SendTimerCallback calls
\* for a second is the one registerCallback stored for that second.
THEOREM RightCallbackTheorem == Spec => []RightCallback
<1>1. FInv => RightCallback
  BY DEF FInv
<1> QED
  BY <1>1, TInvInit, TInvNext, FInvInit, FInvNext, PTL DEF Spec

-----------------------------------------------------------------------------
(* What the steps do to the markers, the blobs and the calls.              *)

\* The keys in the marker of a second, none if there is no marker.
Keys(t) == IF slot[t] = NoSlot THEN <<>> ELSE slot[t]

Holds(s, d) == \E i \in 1 .. Len(s) : s[i] = d

\* A marker holds document keys.
LEMMA KeysType ==
  ASSUME TInv, NEW t \in Times
  PROVE  Keys(t) \in Seq(Docs)
BY DEF TInv, TypeOK, Keys

\* A blob holds a time.
LEMMA BlobType ==
  ASSUME TInv, NEW d \in Docs
  PROVE  blob[d] \in Nat
BY TimerAssumption DEF TInv, TypeOK

\* The elements of the sequences that stand for markers and histories.
LEMMA SeqElement ==
  ASSUME NEW S, NEW s \in Seq(S), NEW i \in 1 .. Len(s)
  PROVE  s[i] \in S
OBVIOUS

\* A registration is of a document for a second.
LEMMA RegsType ==
  ASSUME FInv, NEW i \in 1 .. Len(regs)
  PROVE  regs[i].doc \in Docs /\ regs[i].ts \in Times /\ regs[i].ts \in Nat /\ regs[i].at \in Nat
<1>1. regs \in Seq([doc : Docs, ts : Times, at : Nat])
  BY DEF FInv
<1>2. regs[i] \in [doc : Docs, ts : Times, at : Nat]
  BY <1>1, SeqElement
<1> QED
  BY <1>2, TimerAssumption

\* Only the append of registerCallback adds a key to a marker.
LEMMA KeysStep ==
  ASSUME TInv, FInv, [Next]_vars, NEW t \in Times, NEW d, Holds(Keys(t), d)'
  PROVE  Holds(Keys(t), d) \/ (RegAppend /\ d = reg.doc /\ t = reg.ts)
<1> USE DEF clock, timer, history
<1>1. slot \in [Times -> Seq(Docs) \cup {NoSlot}]
  BY DEF TInv, TypeOK
<1>2. CASE slot'[t] = slot[t]
  BY <1>2 DEF Keys, Holds
<1>3. CASE slot'[t] = <<>> \/ slot'[t] = NoSlot
  BY <1>3 DEF Keys, Holds
<1>4. CASE RegAppend /\ slot'[t] # slot[t]
  <2>1. reg \in RegRecord
    BY <1>4 DEF RegAppend, FInv
  <2>2. t = reg.ts /\ slot[t] # NoSlot /\ slot'[t] = Append(slot[t], reg.doc)
    BY <1>1, <1>4, <2>1 DEF RegAppend, RegRecord
  <2>3. slot[t] \in Seq(Docs)
    BY <1>1, <2>2
  <2>4. /\ Len(slot[t]) \in Nat /\ Len(slot'[t]) = Len(slot[t]) + 1
        /\ \A i \in 1 .. Len(slot[t]) : slot'[t][i] = slot[t][i]
        /\ slot'[t][Len(slot[t]) + 1] = reg.doc
    BY <2>1, <2>2, <2>3 DEF RegRecord
  <2>5. slot'[t] # NoSlot => Keys(t)' = slot'[t]
    BY DEF Keys
  <2>6. slot'[t] # NoSlot
    BY DEF Keys, Holds
  <2>7. PICK i \in 1 .. Len(slot'[t]) : slot'[t][i] = d
    BY <2>5, <2>6 DEF Holds
  <2>8. CASE i \in 1 .. Len(slot[t])
    BY <2>2, <2>4, <2>7, <2>8 DEF Holds, Keys
  <2>9. CASE i = Len(slot[t]) + 1
    BY <1>4, <2>2, <2>4, <2>7, <2>9
  <2> QED
    BY <2>4, <2>8, <2>9
<1>5. \/ slot'[t] = slot[t] \/ slot'[t] = <<>> \/ slot'[t] = NoSlot
      \/ RegAppend
  <2>1. CASE RegAddMarker
    BY <1>1, <2>1 DEF RegAddMarker
  <2>2. CASE PurgeMarker
    BY <1>1, <2>2 DEF PurgeMarker
  <2>3. CASE ~ RegAddMarker /\ ~ PurgeMarker /\ ~ RegAppend
    <3>1. slot' = slot
      BY <2>3 DEF Next, RegisterCallback, RegisterStep, RegSetBlob, RegGetMarker, HandlerReturn,
             Second, Fire, TimerStep, TakeTick, BucketGet, SendTimerCallback, CallNext,
             CallbackReturn, PurgeBlobs, vars
    <3> QED
      BY <3>1
  <2> QED
    BY <2>1, <2>2, <2>3
<1> QED
  BY <1>2, <1>3, <1>4, <1>5

\* A callback that was called stays called.
LEMMA FiredKept ==
  ASSUME TInv, FInv, [Next]_vars, NEW d, NEW t, Fired(d, t) # {}
  PROVE  Fired(d, t)' # {}
<1> USE DEF clock, timer, history
<1>1. CASE fired' = fired
  BY <1>1 DEF Fired
<1>2. CASE CallNext /\ fired' # fired
  <2>1. PICK f : fired' = Append(fired, f)
    BY <1>2 DEF CallNext
  <2>2. PICK i \in 1 .. Len(fired) : fired[i].doc = d /\ fired[i].ts = t
    BY DEF Fired
  <2>3. fired \in Seq([doc : Docs, ts : Nat, blob : Nat])
    BY DEF FInv
  <2>4. i \in 1 .. Len(fired') /\ fired'[i] = fired[i]
    BY <2>1, <2>2, <2>3
  <2> QED
    BY <2>2, <2>4 DEF Fired
<1>3. CallNext \/ fired' = fired
  BY DEF Next, RegisterCallback, RegisterStep, RegSetBlob, RegGetMarker, RegAddMarker, RegAppend,
         HandlerReturn, Second, Fire, TimerStep, TakeTick, BucketGet, SendTimerCallback,
         CallbackReturn, PurgeMarker, PurgeBlobs, vars
<1> QED
  BY <1>1, <1>2, <1>3

\* A blob disappears only when processTimerEvent deletes the blobs of the keys
\* it fetched.
LEMMA BlobKept ==
  ASSUME TInv, FInv, [Next]_vars, reg # NoReg => reg.ts # 0,
         NEW d \in Docs, blob[d] # 0, blob'[d] = 0
  PROVE  tpc = "blobs" /\ Holds(value, d) /\ UNCHANGED <<slot, reg, regs>>
<1> USE DEF clock, timer, history
<1>1. blob \in [Docs -> Times \cup {0}]
  BY DEF TInv, TypeOK
<1>2. CASE RegSetBlob
  <2>1. reg \in RegRecord
    BY <1>2 DEF RegSetBlob, FInv
  <2> QED
    BY <1>1, <1>2, <2>1 DEF RegSetBlob, RegRecord
<1>3. CASE PurgeBlobs
  <2>1. idx <= Len(value) /\ blob' = [blob EXCEPT ![value[idx]] = 0]
    BY <1>3 DEF PurgeBlobs
  <2>2. idx \in 1 .. Len(value) /\ value[idx] = d
    BY <1>1, <2>1 DEF TInv, TypeOK
  <2> QED
    BY <1>3, <2>2 DEF PurgeBlobs, Holds
<1>4. RegSetBlob \/ PurgeBlobs \/ blob' = blob
  BY DEF Next, RegisterCallback, RegisterStep, RegGetMarker, RegAddMarker, RegAppend,
         HandlerReturn, Second, Fire, TimerStep, TakeTick, BucketGet, SendTimerCallback, CallNext,
         CallbackReturn, PurgeMarker, vars
<1> QED
  BY <1>2, <1>3, <1>4

\* With every document registered once, a key is in one marker only and the
\* document of the call under way in none.
LEMMA OneMarker ==
  ASSUME TInv, FInv, env.fresh
  PROVE  /\ \A t \in Times : \A d : Holds(Keys(t), d) => Known(regs, d, t)
         /\ \A d : Holds(value, d) => Known(regs, d, docID)
         /\ reg # NoReg => \A t : ~ Known(regs, reg.doc, t)
         /\ \A d, t, u : Known(regs, d, t) /\ Known(regs, d, u) => t = u
<1>1. ASSUME NEW t \in Times, NEW d, Holds(Keys(t), d)
      PROVE  Known(regs, d, t)
  BY <1>1 DEF FInv, Holds, Keys
<1>2. ASSUME NEW d, Holds(value, d)
      PROVE  Known(regs, d, docID)
  BY <1>2 DEF FInv, Holds
<1>3. reg # NoReg => \A t : ~ Known(regs, reg.doc, t)
  BY DEF FInv, Known
<1>4. ASSUME NEW d, NEW t, NEW u, Known(regs, d, t), Known(regs, d, u)
      PROVE  t = u
  <2>1. PICK j \in 1 .. Len(regs) : regs[j].doc = d /\ regs[j].ts = t
    BY <1>4 DEF Known
  <2>2. PICK k \in 1 .. Len(regs) : regs[k].doc = d /\ regs[k].ts = u
    BY <1>4 DEF Known
  <2>3. j = k
    BY <2>1, <2>2 DEF FInv
  <2> QED
    BY <2>1, <2>2, <2>3
<1> QED
  BY <1>1, <1>2, <1>3, <1>4

-----------------------------------------------------------------------------
(* What is purged has been called.                                         *)

\* The keys of value whose callbacks have been called.
Called(i) ==
    \/ tpc \in {"call", "js"} /\ i < idx
    \/ tpc = "js" /\ i = idx
    \/ tpc = "purge"

\* With every document registered once: a key in a marker and a key that was
\* fetched have their blobs until the marker is deleted, so that the loop of
\* SendTimerCallback reaches every key.
PInv ==
    /\ reg # NoReg => reg.ts # 0
    /\ env.fresh =>
          /\ reg # NoReg /\ reg.step # "set" => blob[reg.doc] # 0
          /\ \A t \in Times, d \in Docs : Holds(Keys(t), d) => blob[d] # 0
          /\ tpc \in {"send", "call", "js", "purge"} =>
                 \A d \in Docs : Holds(value, d) => blob[d] # 0
          /\ tpc = "blobs" => \A t \in Times, d \in Docs : ~ (Holds(value, d) /\ Holds(Keys(t), d))
          /\ \A i \in 1 .. Len(value) : Called(i) => Fired(value[i], docID) # {}
    /\ PurgedOnceProcessed

\* The invariant holds at the start.
LEMMA PInvInit == Init => PInv
<1> SUFFICES ASSUME Init
             PROVE  PInv
  OBVIOUS
<1>1. reg = NoReg /\ tpc = "idle" /\ Len(value) = 0 /\ purged = {}
  BY DEF Init
<1>2. \A t \in Times : Keys(t) = <<>>
  BY DEF Init, Keys
<1>3. \A t \in Times : \A d : ~ Holds(Keys(t), d)
  BY <1>2 DEF Holds
<1> QED
  BY <1>1, <1>3 DEF PInv, PurgedOnceProcessed

\* Every key in a marker, and the document of the call under way once its blob
\* is stored, has a blob.
LEMMA PInvBlobs ==
  ASSUME TInv, FInv, PInv, [Next]_vars
  PROVE  /\ (reg # NoReg => reg.ts # 0)'
         /\ env.fresh =>
              /\ (reg # NoReg /\ reg.step # "set" => blob[reg.doc] # 0)'
              /\ \A t \in Times, d \in Docs : Holds(Keys(t), d)' => blob'[d] # 0
<1> USE DEF clock, timer, history
<1>0. reg # NoReg => reg.ts # 0 /\ reg \in RegRecord
  BY DEF PInv, FInv
<1>1. (reg # NoReg => reg.ts # 0)'
  <2>1. ASSUME NEW d \in Docs, NEW v \in Values, RegisterCallback(d, v)
        PROVE  reg'.ts # 0
    <3>1. v \in Nat /\ v # 0 /\ now \in Nat
      BY <2>1, TimerAssumption DEF RegisterCallback, TInv, TypeOK
    <3> QED
      BY <2>1, <3>1, SMTT(30) DEF RegisterCallback, ConvertToISO8601
  <2>2. \/ \E d \in Docs, v \in Values : RegisterCallback(d, v)
        \/ RegSetBlob \/ RegGetMarker \/ RegAddMarker \/ reg' = NoReg \/ reg' = reg
    BY DEF Next, RegisterStep, RegAppend, HandlerReturn, Second, Fire, TimerStep, TakeTick,
           BucketGet, SendTimerCallback, CallNext, CallbackReturn, PurgeMarker, PurgeBlobs, vars
  <2>3. CASE RegSetBlob \/ RegGetMarker \/ RegAddMarker
    <3>1. reg # NoReg /\ \E p : reg' = [reg EXCEPT !.step = p]
      BY <2>3 DEF RegSetBlob, RegGetMarker, RegAddMarker
    <3> QED
      BY <3>1, <1>0 DEF RegRecord
  <2> QED
    BY <2>1, <2>2, <2>3, <1>0
<1>2. ASSUME env.fresh, reg' # NoReg, reg'.step # "set"
      PROVE  blob'[reg'.doc] # 0
  <2>1. CASE RegSetBlob
    BY <2>1, <1>0 DEF RegSetBlob, RegRecord, TInv, TypeOK
  <2>2. CASE ~ RegSetBlob
    <3>1. CASE RegGetMarker \/ RegAddMarker
      <4>1. reg # NoReg /\ reg.step # "set" /\ blob' = blob /\ \E p : reg' = [reg EXCEPT !.step = p]
        BY <3>1 DEF RegGetMarker, RegAddMarker
      <4>2. reg'.doc = reg.doc
        BY <4>1, <1>0 DEF RegRecord
      <4> QED
        BY <4>1, <4>2, <1>2 DEF PInv
    <3>2. CASE reg' = reg
      <4>1. reg.doc \in Docs /\ blob[reg.doc] # 0
        BY <3>2, <1>0, <1>2 DEF PInv, RegRecord
      <4>2. ~ Holds(value, reg.doc)
        BY <3>2, <1>2, OneMarker
      <4> QED
        BY <3>2, <4>1, <4>2, <1>0, BlobKept
    <3>3. RegGetMarker \/ RegAddMarker \/ reg' = reg
      <4>1. ASSUME NEW d \in Docs, NEW v \in Values, RegisterCallback(d, v)
            PROVE  FALSE
        <5>1. reg'.step = "set"
          BY <4>1 DEF RegisterCallback
        <5> QED
          BY <5>1, <1>2
      <4> QED
        BY <2>2, <4>1, <1>2 DEF Next, RegisterStep, RegAppend, HandlerReturn, Second, Fire, TimerStep,
           TakeTick, BucketGet, SendTimerCallback, CallNext, CallbackReturn, PurgeMarker,
           PurgeBlobs, vars
    <3> QED
      BY <3>1, <3>2, <3>3
  <2> QED
    BY <2>1, <2>2
<1>3. ASSUME env.fresh, NEW t \in Times, NEW d \in Docs, Holds(Keys(t), d)'
      PROVE  blob'[d] # 0
  <2>1. CASE Holds(Keys(t), d)
    <3>1. blob[d] # 0 /\ ~ (tpc = "blobs" /\ Holds(value, d))
      BY <2>1, <1>3 DEF PInv
    <3> QED
      BY <3>1, <1>0, BlobKept
  <2>2. CASE RegAppend /\ d = reg.doc
    BY <2>2, <1>3 DEF PInv, RegAppend
  <2> QED
    BY <2>1, <2>2, <1>3, KeysStep
<1> QED
  BY <1>1, <1>2, <1>3

\* The keys that were fetched keep their blobs until the marker is deleted, and
\* are in no marker afterwards.
LEMMA PInvFetched ==
  ASSUME TInv, FInv, PInv, [Next]_vars, env.fresh
  PROVE  /\ (tpc \in {"send", "call", "js", "purge"} =>
                 \A d \in Docs : Holds(value, d) => blob[d] # 0)'
         /\ (tpc = "blobs" =>
                 \A t \in Times, d \in Docs : ~ (Holds(value, d) /\ Holds(Keys(t), d)))'
<1> USE DEF clock, timer, history
<1>0. reg # NoReg => reg.ts # 0
  BY DEF PInv
<1>1. ASSUME tpc' \in {"send", "call", "js", "purge"}, NEW d \in Docs, Holds(value, d)'
      PROVE  blob'[d] # 0
  <2>1. CASE BucketGet
    <3>1. docID \in Times /\ Holds(Keys(docID), d) /\ blob' = blob
      BY <2>1, <1>1 DEF BucketGet, Holds, Keys
    <3> QED
      BY <3>1 DEF PInv
  <2>2. CASE tpc \in {"send", "call", "js", "purge"} /\ value' = value
    <3>1. blob[d] # 0
      BY <2>2, <1>1 DEF PInv, Holds
    <3> QED
      BY <2>2, <3>1, <1>0, BlobKept
  <2>3. BucketGet \/ (tpc \in {"send", "call", "js", "purge"} /\ value' = value)
    BY <1>1 DEF Next, RegisterCallback, RegisterStep, RegSetBlob, RegGetMarker, RegAddMarker,
           RegAppend, HandlerReturn, Second, Fire, TimerStep, TakeTick, SendTimerCallback,
           CallNext, CallbackReturn, PurgeMarker, PurgeBlobs, vars
  <2> QED
    BY <2>1, <2>2, <2>3
<1>2. ASSUME tpc' = "blobs", NEW t \in Times, NEW d \in Docs, Holds(value, d)', Holds(Keys(t), d)'
      PROVE  FALSE
  <2>1. value' = value /\ (PurgeMarker \/ tpc = "blobs")
    BY <1>2 DEF Next, RegisterCallback, RegisterStep, RegSetBlob, RegGetMarker, RegAddMarker,
           RegAppend, HandlerReturn, Second, Fire, TimerStep, TakeTick, BucketGet,
           SendTimerCallback, CallNext, CallbackReturn, PurgeBlobs, PurgeMarker, vars
  <2>2. Holds(value, d)
    BY <2>1, <1>2 DEF Holds
  <2>3. Known(regs, d, docID)
    BY <2>2, OneMarker
  <2>4. CASE PurgeMarker
    <3>1. Holds(Keys(t), d)
      BY <2>4, <1>2, KeysStep DEF PurgeMarker, RegAppend
    <3>2. t = docID
      BY <3>1, <2>3, OneMarker
    <3>3. slot'[t] = NoSlot
      BY <3>2, <2>4 DEF PurgeMarker, TInv, TypeOK
    <3> QED
      BY <3>3, <1>2 DEF Keys, Holds
  <2>5. CASE tpc = "blobs"
    <3>1. ~ Holds(Keys(t), d)
      BY <2>2, <2>5 DEF PInv
    <3>2. RegAppend /\ d = reg.doc
      BY <3>1, <1>2, KeysStep
    <3> QED
      BY <3>2, <2>3, OneMarker DEF RegAppend
  <2> QED
    BY <2>1, <2>4, <2>5
<1> QED
  BY <1>1, <1>2

\* SendTimerCallback leaves its loop only after the last key.
LEMMA PInvCalled ==
  ASSUME TInv, FInv, PInv, [Next]_vars, env.fresh
  PROVE  (\A i \in 1 .. Len(value) : Called(i) => Fired(value[i], docID) # {})'
<1> USE DEF clock, timer, history
<1> SUFFICES ASSUME NEW i \in 1 .. Len(value'), Called(i)'
             PROVE  Fired(value[i], docID)' # {}
  OBVIOUS
<1>1. ASSUME value' = value, docID' = docID, Called(i)
      PROVE  Fired(value[i], docID)' # {}
  <2>1. Fired(value[i], docID) # {}
    BY <1>1 DEF PInv
  <2>2. PICK d, t : d = value[i] /\ t = docID
    OBVIOUS
  <2>3. Fired(d, t)' # {}
    BY <2>1, <2>2, FiredKept
  <2> QED
    BY <1>1, <2>2, <2>3 DEF Fired
<1>2. CASE SendTimerCallback
  <2>1. CASE value = <<>>
    BY <1>2, <2>1 DEF SendTimerCallback
  <2>2. CASE value # <<>>
    BY <1>2, <2>2 DEF SendTimerCallback, Called
  <2> QED
    BY <2>1, <2>2
<1>3. CASE CallNext
  <2>1. value' = value /\ docID' = docID /\ idx' = idx /\ tpc = "call"
    BY <1>3 DEF CallNext
  <2>2. CASE idx <= Len(value)
    <3>1. idx \in 1 .. Len(value) /\ value[idx] \in Docs
      BY <2>2 DEF TInv, TypeOK
    <3>2. blob[value[idx]] # 0
      BY <2>1, <3>1 DEF PInv, Holds
    <3>3. tpc' = "js" /\ fired' = Append(fired, [doc |-> value[idx], ts |-> docID, blob |-> blob[value[idx]]])
      BY <1>3, <2>2, <3>2 DEF CallNext
    <3>4. CASE i = idx
      <4>0. PICK f : f = [doc |-> value[idx], ts |-> docID, blob |-> blob[value[idx]]]
        OBVIOUS
      <4>1. fired \in Seq([doc : Docs, ts : Nat, blob : Nat]) /\ f.doc = value[idx] /\ f.ts = docID
        BY <4>0 DEF FInv
      <4>2. fired' = Append(fired, f)
        BY <3>3, <4>0
      <4>3. f \in [doc : Docs, ts : Nat, blob : Nat]
        <5>1. PICK d \in Docs : d = value[idx]
          BY <3>1
        <5>2. docID \in Nat
          BY DEF TInv, TypeOK
        <5>3. blob[d] \in Nat
          BY BlobType
        <5> QED
          BY <4>0, <5>1, <5>2, <5>3
      <4>4. Len(fired') = Len(fired) + 1 /\ Len(fired) \in Nat /\ fired'[Len(fired) + 1] = f
        BY <4>1, <4>2, <4>3
      <4>5. Len(fired) + 1 \in Fired(value[i], docID)'
        BY <3>4, <4>1, <4>4, <2>1 DEF Fired
      <4> QED
        BY <4>5
    <3>5. CASE i # idx
      <4>1. i < idx
        BY <2>1, <3>1, <3>3, <3>5 DEF Called
      <4> QED
        BY <4>1, <2>1, <1>1 DEF Called
    <3> QED
      BY <3>4, <3>5
  <2>3. CASE ~ (idx <= Len(value))
    <3>1. i < idx
      BY <2>1, <2>3 DEF TInv, TypeOK
    <3> QED
      BY <3>1, <2>1, <1>1 DEF Called
  <2> QED
    BY <2>2, <2>3
<1>4. CASE CallbackReturn
  <2>1. value' = value /\ docID' = docID /\ idx' = idx + 1 /\ tpc = "js" /\ tpc' = "call"
    BY <1>4 DEF CallbackReturn
  <2>2. i <= idx
    BY <2>1 DEF Called, TInv, TypeOK
  <2> QED
    BY <2>1, <2>2, <1>1 DEF Called, TInv, TypeOK
<1>5. CASE ~ SendTimerCallback /\ ~ CallNext /\ ~ CallbackReturn
  <2>1. UNCHANGED <<value, docID, idx, tpc>>
    BY <1>5 DEF Called, Next, RegisterCallback, RegisterStep, RegSetBlob, RegGetMarker,
           RegAddMarker, RegAppend, HandlerReturn, Second, Fire, TimerStep, TakeTick, BucketGet,
           PurgeMarker, PurgeBlobs, vars
  <2> QED
    BY <2>1, <1>1 DEF Called
<1> QED
  BY <1>2, <1>3, <1>4, <1>5

\* Every step keeps the invariant.
LEMMA PInvNext == TInv /\ FInv /\ PInv /\ [Next]_vars => PInv'
<1> SUFFICES ASSUME TInv, FInv, PInv, [Next]_vars
             PROVE  PInv'
  OBVIOUS
<1> USE DEF clock, timer, history
<1>1. env' = env
  BY DEF Next, RegisterCallback, RegisterStep, RegSetBlob, RegGetMarker, RegAddMarker, RegAppend,
         HandlerReturn, Second, Fire, TimerStep, TakeTick, BucketGet, SendTimerCallback, CallNext,
         CallbackReturn, PurgeMarker, PurgeBlobs, vars
<1>2. ASSUME env.fresh, NEW p \in purged', NEW i \in 1 .. Len(p.keys)
      PROVE  Fired(p.keys[i], p.ts)' # {}
  <2>1. CASE p \in purged
    <3>1. Fired(p.keys[i], p.ts) # {}
      BY <2>1, <1>2 DEF PInv, PurgedOnceProcessed
    <3> QED
      BY <3>1, FiredKept
  <2>2. CASE p \notin purged
    <3>1. PurgeMarker
      BY <2>2, <1>2 DEF Next, RegisterCallback, RegisterStep, RegSetBlob, RegGetMarker,
         RegAddMarker, RegAppend, HandlerReturn, Second, Fire, TimerStep, TakeTick, BucketGet,
         SendTimerCallback, CallNext, CallbackReturn, PurgeBlobs, vars
    <3>2. p = [ts |-> docID, keys |-> value] /\ tpc = "purge"
      BY <2>2, <3>1, <1>2 DEF PurgeMarker
    <3>3. p.ts = docID /\ p.keys = value
      BY <3>2
    <3>4. Fired(p.keys[i], p.ts) # {}
      BY <3>2, <3>3, <1>2 DEF PInv, Called
    <3> QED
      BY <3>4, FiredKept
  <2> QED
    BY <2>1, <2>2
<1>3. PurgedOnceProcessed'
  BY <1>1, <1>2 DEF PurgedOnceProcessed
<1> QED
  BY <1>1, <1>3, PInvBlobs, PInvFetched, PInvCalled DEF PInv

\* PurgedOnceProcessed for every number of documents, registrations and
\* seconds and every speed of the goroutine: with every document registered
\* once, processTimerEvent deletes a marker and its blobs only after it has
\* called the callback of every key it fetched from it.
THEOREM PurgedOnceProcessedTheorem == Spec => []PurgedOnceProcessed
<1>1. PInv => PurgedOnceProcessed
  BY DEF PInv
<1> QED
  BY <1>1, TInvInit, TInvNext, FInvInit, FInvNext, PInvInit, PInvNext, PTL DEF Spec

-----------------------------------------------------------------------------
(* No callback is missed.                                                  *)

\* The turn of a second is not over.
Open(t) ==
    \/ now <= t + 1
    \/ now = t + 2 /\ (due \/ tick)
    \/ tpc = "get" /\ docID = t

\* Where the key of a registration can be: called, in a marker whose turn is
\* not over, or fetched and not reached yet.
Awaits(d, t) ==
    \/ Fired(d, t) # {}
    \/ Open(t) /\ Holds(Keys(t), d)
    \/ /\ docID = t /\ tpc \in {"send", "call", "js"}
       /\ \E j \in idx .. Len(value) : value[j] = d

\* The goroutine looks at seconds that are two seconds old, at the latest one
\* of a prompt goroutine.  A registerCallback for a later second appends its key
\* before the turn of that second begins.
MInv ==
    /\ docID + 2 <= now
    /\ reg # NoReg => reg.at <= now /\ now <= reg.at + RegLag
    /\ env.prompt => /\ tick => tpc = "idle" /\ ~ due
                     /\ tpc # "idle" /\ due => docID + 2 < now
    /\ reg # NoReg /\ reg.step = "append" /\ reg.ts > reg.at => slot[reg.ts] # NoSlot
    /\ env.prompt /\ env.fresh =>
          \A i \in 1 .. Len(regs) : regs[i].ts > regs[i].at => Awaits(regs[i].doc, regs[i].ts)

\* The invariant holds at the start.
LEMMA MInvInit == Init => MInv
<1> SUFFICES ASSUME Init
             PROVE  MInv
  OBVIOUS
<1>1. Len(regs) = 0 /\ reg = NoReg /\ tpc = "idle" /\ tick = FALSE
  BY DEF Init
<1>2. docID + 2 <= now
  BY TimerAssumption DEF Init
<1> QED
  BY <1>1, <1>2 DEF MInv

\* The clock, the ticker and the speeds assumed of the two threads.
LEMMA MInvClock ==
  ASSUME TInv, FInv, MInv, [Next]_vars
  PROVE  /\ (docID + 2 <= now)'
         /\ (reg # NoReg => reg.at <= now /\ now <= reg.at + RegLag)'
         /\ (env.prompt => /\ tick => tpc = "idle" /\ ~ due
                           /\ tpc # "idle" /\ due => docID + 2 < now)'
<1> USE DEF clock, timer, history
<1>0. now \in Nat /\ docID \in Nat /\ RegLag \in Nat /\ now >= 2
  BY TimerAssumption DEF TInv, TypeOK
<1>1. reg # NoReg => reg \in RegRecord /\ reg.at \in Nat
  BY DEF FInv, RegRecord
<1>2. CASE Second
  BY <1>0, <1>1, <1>2 DEF Second, MInv
<1>3. CASE Fire
  BY <1>3 DEF Fire, MInv
<1>4. CASE TakeTick
  BY <1>0, <1>4 DEF TakeTick, NewISO8601, MInv
<1>5. CASE ~ Second /\ ~ Fire /\ ~ TakeTick
  <2>1. UNCHANGED <<env, now, due, tick, docID>> /\ (tpc = "idle" => tpc' = "idle")
    BY <1>5 DEF Next, RegisterCallback, RegisterStep, RegSetBlob, RegGetMarker, RegAddMarker,
           RegAppend, HandlerReturn, TimerStep, BucketGet, SendTimerCallback, CallNext,
           CallbackReturn, PurgeMarker, PurgeBlobs, vars
  <2>2. ASSUME reg' # NoReg
        PROVE  reg'.at <= now /\ now <= reg'.at + RegLag
    <3>1. ASSUME NEW d \in Docs, NEW v \in Values, RegisterCallback(d, v)
          PROVE  reg'.at <= now /\ now <= reg'.at + RegLag
      <4>1. reg'.at = now
        BY <3>1 DEF RegisterCallback
      <4> QED
        BY <4>1, <1>0
    <3>2. CASE RegSetBlob \/ RegGetMarker \/ RegAddMarker
      <4>1. reg # NoReg /\ \E q : reg' = [reg EXCEPT !.step = q]
        BY <3>2 DEF RegSetBlob, RegGetMarker, RegAddMarker
      <4>2. reg'.at = reg.at
        BY <4>1, <1>1 DEF RegRecord
      <4> QED
        BY <4>1, <4>2 DEF MInv
    <3>3. CASE reg' = reg
      BY <2>2, <3>3 DEF MInv
    <3> QED
      BY <3>1, <3>2, <3>3, <2>2, <1>5 DEF Next, RegisterStep, RegAppend, HandlerReturn, TimerStep,
         BucketGet, SendTimerCallback, CallNext, CallbackReturn, PurgeMarker, PurgeBlobs, vars
  <2>3. env.prompt => /\ tick => tpc' = "idle" /\ ~ due
                      /\ tpc' # "idle" /\ due => docID + 2 < now
    BY <2>1 DEF MInv
  <2> QED
    BY <2>1, <2>2, <2>3 DEF MInv
<1> QED
  BY <1>2, <1>3, <1>4, <1>5

\* The turn of a second that is at most one second old, or whose tick is still
\* to come, is not what the goroutine deletes.
LEMMA OpenKept ==
  ASSUME TInv, MInv, PurgeMarker, env.prompt, NEW t \in Times, Open(t)
  PROVE  t # docID
<1>1. now \in Nat /\ docID \in Nat
  BY TimerAssumption DEF TInv, TypeOK
<1>2. tpc = "purge" /\ t \in Nat
  BY TimerAssumption DEF PurgeMarker
<1>3. docID + 2 <= now /\ ~ tick /\ (due => docID + 2 < now)
  BY <1>2 DEF MInv
<1> QED
  BY <1>1, <1>2, <1>3 DEF Open

\* registerCallback for a later second finds the marker it has made or found:
\* the goroutine does not come to that second while the call is under way.
LEMMA MInvMarker ==
  ASSUME TInv, FInv, MInv, [Next]_vars, RegLag <= 2
  PROVE  (reg # NoReg /\ reg.step = "append" /\ reg.ts > reg.at => slot[reg.ts] # NoSlot)'
<1> USE DEF clock, timer, history
<1> SUFFICES ASSUME reg' # NoReg, reg'.step = "append", reg'.ts > reg'.at
             PROVE  slot'[reg'.ts] # NoSlot
  OBVIOUS
<1>0. now \in Nat /\ docID \in Nat /\ RegLag \in Nat /\ docID + 2 <= now
  BY TimerAssumption DEF TInv, TypeOK, MInv
<1>1. slot \in [Times -> Seq(Docs) \cup {NoSlot}]
  BY DEF TInv, TypeOK
<1>2. reg # NoReg => reg \in RegRecord /\ reg.at \in Nat /\ reg.ts \in Times /\ reg.ts \in Nat
  BY TimerAssumption DEF FInv, RegRecord
<1>3. CASE RegGetMarker
  BY <1>2, <1>3 DEF RegGetMarker, RegRecord
<1>4. CASE RegAddMarker
  <2>1. reg'.ts = reg.ts /\ reg # NoReg
    BY <1>2, <1>4 DEF RegAddMarker, RegRecord
  <2>2. slot'[reg.ts] = IF slot[reg.ts] = NoSlot THEN <<>> ELSE slot[reg.ts]
    BY <1>1, <1>2, <1>4, <2>1 DEF RegAddMarker
  <2>3. slot'[reg.ts] \in Seq(Docs)
    BY <1>1, <1>2, <2>1, <2>2
  <2> QED
    BY <2>1, <2>3, NoSlotAssumption
<1>5. CASE PurgeMarker
  <2>1. reg' = reg /\ reg # NoReg /\ reg.ts # docID
    BY <1>0, <1>2, <1>5 DEF PurgeMarker, MInv
  <2> QED
    BY <1>1, <1>2, <1>5, <2>1 DEF PurgeMarker, MInv
<1>6. CASE ~ RegGetMarker /\ ~ RegAddMarker /\ ~ PurgeMarker
  <2>1. reg' = reg /\ slot' = slot
    <3>1. ASSUME NEW d \in Docs, NEW v \in Values, RegisterCallback(d, v)
          PROVE  FALSE
      BY <3>1 DEF RegisterCallback
    <3>2. CASE RegSetBlob
      BY <1>2, <3>2 DEF RegSetBlob, RegRecord
    <3> QED
      BY <3>1, <3>2, <1>6 DEF Next, RegisterStep, RegAppend, HandlerReturn, Second, Fire,
         TimerStep, TakeTick, BucketGet, SendTimerCallback, CallNext, CallbackReturn, PurgeBlobs,
         vars
  <2> QED
    BY <2>1 DEF MInv
<1> QED
  BY <1>3, <1>4, <1>5, <1>6

\* A key in a marker whose turn is not over stays there until BucketGet fetches
\* it for that second.
LEMMA KeyKept ==
  ASSUME TInv, FInv, MInv, [Next]_vars, env.prompt, NEW t \in Times, NEW d,
         Open(t), Holds(Keys(t), d)
  PROVE  Holds(Keys(t), d)'
<1> USE DEF clock, timer, history
<1>1. slot \in [Times -> Seq(Docs) \cup {NoSlot}] /\ slot[t] # NoSlot
  BY DEF TInv, TypeOK, Holds, Keys
<1>2. PICK i \in 1 .. Len(slot[t]) : slot[t][i] = d
  BY <1>1 DEF Holds, Keys
<1>3. CASE slot'[t] = slot[t]
  BY <1>1, <1>2, <1>3 DEF Holds, Keys
<1>4. CASE RegAppend /\ slot'[t] # slot[t]
  <2>1. reg \in RegRecord
    BY <1>4 DEF RegAppend, FInv
  <2>2. slot'[t] = Append(slot[t], reg.doc) /\ slot[t] \in Seq(Docs) /\ reg.doc \in Docs
    BY <1>1, <1>4, <2>1 DEF RegAppend, RegRecord
  <2>3. i \in 1 .. Len(slot'[t]) /\ slot'[t][i] = d
    BY <1>2, <2>2
  <2>4. slot'[t] # NoSlot
    <3>1. slot'[t] \in Seq(Docs)
      BY <2>2
    <3> QED
      BY <3>1, NoSlotAssumption
  <2> QED
    BY <2>3, <2>4 DEF Holds, Keys
<1>5. RegAppend \/ slot'[t] = slot[t]
  <2>1. CASE RegAddMarker
    BY <1>1, <2>1 DEF RegAddMarker
  <2>2. CASE PurgeMarker
    <3>1. t # docID
      BY <2>2, OpenKept
    <3> QED
      BY <1>1, <2>2, <3>1 DEF PurgeMarker
  <2>3. CASE ~ RegAddMarker /\ ~ PurgeMarker /\ ~ RegAppend
    <3>1. slot' = slot
      BY <2>3 DEF Next, RegisterCallback, RegisterStep, RegSetBlob, RegGetMarker, HandlerReturn,
             Second, Fire, TimerStep, TakeTick, BucketGet, SendTimerCallback, CallNext,
             CallbackReturn, PurgeBlobs, vars
    <3> QED
      BY <3>1
  <2> QED
    BY <2>1, <2>2, <2>3
<1> QED
  BY <1>3, <1>4, <1>5

\* The turn of a second ends only when its marker is fetched.
LEMMA OpenStep ==
  ASSUME TInv, MInv, [Next]_vars, env.prompt, NEW t \in Times, Open(t)
  PROVE  Open(t)' \/ (BucketGet /\ docID = t)
<1> USE DEF clock, timer, history
<1>0. now \in Nat /\ docID \in Nat /\ t \in Nat /\ (tick => tpc = "idle" /\ ~ due)
  BY TimerAssumption DEF TInv, TypeOK, MInv
<1>1. CASE Second
  BY <1>0, <1>1 DEF Second, Open
<1>2. CASE Fire
  BY <1>0, <1>2 DEF Fire, Open
<1>3. CASE TakeTick
  BY <1>0, <1>3 DEF TakeTick, NewISO8601, Open
<1>4. CASE BucketGet
  BY <1>4 DEF BucketGet, Open
<1>5. CASE ~ Second /\ ~ Fire /\ ~ TakeTick /\ ~ BucketGet
  <2>1. UNCHANGED <<now, due, tick, docID>> /\ (tpc = "get" => tpc' = "get")
    BY <1>5 DEF Next, RegisterCallback, RegisterStep, RegSetBlob, RegGetMarker, RegAddMarker,
           RegAppend, HandlerReturn, TimerStep, SendTimerCallback, CallNext, CallbackReturn,
           PurgeMarker, PurgeBlobs, vars
  <2> QED
    BY <2>1 DEF Open
<1> QED
  BY <1>1, <1>2, <1>3, <1>4, <1>5

\* A key that was fetched stays ahead of the loop until it is called.
LEMMA FetchedStep ==
  ASSUME TInv, FInv, PInv, [Next]_vars, env.fresh, tpc \in {"send", "call", "js"},
         NEW d, NEW j \in idx .. Len(value), value[j] = d
  PROVE  \/ Fired(d, docID) # {}
         \/ /\ tpc' \in {"send", "call", "js"} /\ docID' = docID
            /\ \E k \in idx' .. Len(value') : value'[k] = d
<1> USE DEF clock, timer, history
<1>0. idx \in 1 .. Len(value) + 1 /\ Len(value) \in Nat /\ value \in Seq(Docs)
  BY DEF TInv, TypeOK
<1>1. CASE SendTimerCallback
  BY <1>0, <1>1 DEF SendTimerCallback, TInv
<1>2. CASE CallNext
  <2>1. idx \in 1 .. Len(value)
    BY <1>0
  <2>2. value[idx] \in Docs /\ tpc = "call"
    BY <1>0, <1>2, <2>1 DEF CallNext
  <2>3. blob[value[idx]] # 0
    BY <2>1, <2>2 DEF PInv, Holds
  <2> QED
    BY <1>2, <2>1, <2>3 DEF CallNext
<1>3. CASE CallbackReturn
  <2>1. CASE j = idx
    BY <1>0, <1>3, <2>1 DEF CallbackReturn, PInv, Called
  <2>2. CASE j # idx
    BY <1>0, <1>3, <2>2 DEF CallbackReturn
  <2> QED
    BY <2>1, <2>2
<1>4. CASE ~ SendTimerCallback /\ ~ CallNext /\ ~ CallbackReturn
  <2>1. UNCHANGED <<tpc, docID, idx, value>>
    BY <1>4 DEF Next, RegisterCallback, RegisterStep, RegSetBlob, RegGetMarker, RegAddMarker,
           RegAppend, HandlerReturn, Second, Fire, TimerStep, TakeTick, BucketGet, PurgeMarker,
           PurgeBlobs, vars
  <2> QED
    BY <2>1
<1> QED
  BY <1>1, <1>2, <1>3, <1>4

\* A registration is not lost once it is made.
LEMMA AwaitsKept ==
  ASSUME TInv, FInv, PInv, MInv, [Next]_vars, env.prompt, env.fresh,
         NEW t \in Times, NEW d, Awaits(d, t)
  PROVE  Awaits(d, t)'
<1> USE DEF clock, timer, history
<1>1. CASE Fired(d, t) # {}
  BY <1>1, FiredKept DEF Awaits
<1>2. CASE Open(t) /\ Holds(Keys(t), d)
  <2>1. CASE Open(t)'
    BY <1>2, <2>1, KeyKept DEF Awaits
  <2>2. CASE BucketGet /\ docID = t
    <3>1. tpc' = "send" /\ docID' = t /\ value' = Keys(t) /\ idx' = idx /\ tpc = "get"
      BY <2>2 DEF BucketGet, Keys
    <3>2. idx = 1
      BY <3>1 DEF TInv
    <3>3. \E j \in idx' .. Len(value') : value'[j] = d
      BY <1>2, <3>1, <3>2 DEF Holds
    <3> QED
      BY <3>1, <3>3 DEF Awaits
  <2> QED
    BY <1>2, <2>1, <2>2, OpenStep
<1>3. CASE /\ docID = t /\ tpc \in {"send", "call", "js"}
           /\ \E j \in idx .. Len(value) : value[j] = d
  <2>1. CASE Fired(d, docID) # {}
    BY <1>3, <2>1, FiredKept DEF Awaits
  <2>2. CASE /\ tpc' \in {"send", "call", "js"} /\ docID' = docID
             /\ \E k \in idx' .. Len(value') : value'[k] = d
    BY <1>3, <2>2 DEF Awaits
  <2> QED
    BY <1>3, <2>1, <2>2, FetchedStep
<1> QED
  BY <1>1, <1>2, <1>3 DEF Awaits

\* Every step keeps the invariant.
LEMMA MInvNext ==
  ASSUME TInv, FInv, PInv, MInv, [Next]_vars, RegLag <= 2
  PROVE  MInv'
<1> USE DEF clock, timer, history
<1>1. env' = env
  BY DEF Next, RegisterCallback, RegisterStep, RegSetBlob, RegGetMarker, RegAddMarker, RegAppend,
         HandlerReturn, Second, Fire, TimerStep, TakeTick, BucketGet, SendTimerCallback, CallNext,
         CallbackReturn, PurgeMarker, PurgeBlobs, vars
<1>2. ASSUME env.prompt, env.fresh, NEW i \in 1 .. Len(regs'), regs'[i].ts > regs'[i].at
      PROVE  Awaits(regs[i].doc, regs[i].ts)'
  <2>0. regs \in Seq([doc : Docs, ts : Times, at : Nat])
    BY DEF FInv
  <2>1. ASSUME i \in 1 .. Len(regs), regs'[i] = regs[i]
        PROVE  Awaits(regs[i].doc, regs[i].ts)'
    <3>1. PICK d, t : d = regs[i].doc /\ t = regs[i].ts
      OBVIOUS
    <3>2. t \in Times
      BY <2>1, <3>1, RegsType
    <3>4. Awaits(d, t)
      BY <1>2, <2>1, <3>1 DEF MInv
    <3>3. Awaits(d, t)'
      BY <1>2, <3>2, <3>4, AwaitsKept
    <3> QED
      BY <2>1, <3>1, <3>3
  <2>2. CASE RegAppend
    <3>1. reg # NoReg /\ reg \in RegRecord
      BY <2>2 DEF RegAppend, FInv
    <3>2. PICK new : new = [doc |-> reg.doc, ts |-> reg.ts, at |-> reg.at]
      OBVIOUS
    <3>3. /\ new \in [doc : Docs, ts : Times, at : Nat] /\ regs' = Append(regs, new)
          /\ new.doc = reg.doc /\ new.ts = reg.ts /\ new.at = reg.at
      BY <2>2, <3>1, <3>2 DEF RegAppend, RegRecord
    <3>4. CASE i = Len(regs) + 1
      <4>1. regs'[i] = new
        BY <2>0, <3>3, <3>4
      <4>2. reg.ts > reg.at /\ reg.ts \in Times /\ reg.ts \in Nat /\ reg.at \in Nat
        BY <1>2, <3>1, <3>3, <4>1, TimerAssumption DEF RegRecord
      <4>3. now <= reg.ts + 1 /\ now' = now
        BY <2>2, <3>1, <4>2, TimerAssumption DEF MInv, TInv, TypeOK, RegAppend
      <4>4. slot[reg.ts] # NoSlot
        BY <2>2, <3>1, <4>2 DEF MInv, RegAppend
      <4>5. /\ slot[reg.ts] \in Seq(Docs) /\ reg.doc \in Docs
            /\ slot'[reg.ts] = Append(slot[reg.ts], reg.doc)
        BY <2>2, <3>1, <4>2, <4>4 DEF RegAppend, RegRecord, TInv, TypeOK
      <4>6. slot'[reg.ts] # NoSlot
        <5>1. slot'[reg.ts] \in Seq(Docs)
          BY <4>5
        <5> QED
          BY <5>1, NoSlotAssumption
      <4>7. PICK d, t : d = reg.doc /\ t = reg.ts
        OBVIOUS
      <4>8. Holds(Keys(t), d)'
        <5>1. Keys(t)' = slot'[t] /\ slot'[t] = Append(slot[t], d)
          BY <4>5, <4>6, <4>7 DEF Keys
        <5>2. slot[t] \in Seq(Docs) /\ d \in Docs
          BY <4>5, <4>7
        <5>3. Len(slot[t]) + 1 \in 1 .. Len(slot'[t]) /\ slot'[t][Len(slot[t]) + 1] = d
          BY <5>1, <5>2
        <5> QED
          BY <5>1, <5>3 DEF Holds
      <4>9. Open(t)'
        BY <4>3, <4>7 DEF Open
      <4>10. Awaits(d, t)'
        BY <4>8, <4>9 DEF Awaits
      <4> QED
        BY <3>3, <4>1, <4>7, <4>10
    <3>5. CASE i # Len(regs) + 1
      <4>1. i \in 1 .. Len(regs) /\ regs'[i] = regs[i]
        BY <2>0, <3>3, <3>5
      <4> QED
        BY <4>1, <2>1
    <3> QED
      BY <3>4, <3>5
  <2>3. CASE ~ RegAppend
    <3>1. regs' = regs
      BY <2>3 DEF Next, RegisterCallback, RegisterStep, RegSetBlob, RegGetMarker, RegAddMarker,
         HandlerReturn, Second, Fire, TimerStep, TakeTick, BucketGet, SendTimerCallback, CallNext,
         CallbackReturn, PurgeMarker, PurgeBlobs, vars
    <3> QED
      BY <3>1, <2>1
  <2> QED
    BY <2>2, <2>3
<1> QED
  BY <1>1, <1>2, MInvClock, MInvMarker DEF MInv

\* NoMissedCallback for every number of documents, registrations and seconds:
\* if every tick is served in time, documents are registered once and a
\* registerCallback takes at most two seconds, the delay of two seconds is
\* enough for processTimerEvent to call every callback registered for a later
\* second.
THEOREM NoMissedCallbackTheorem ==
  ASSUME RegLag <= 2
  PROVE  Spec => []NoMissedCallback
<1>1. TInv /\ FInv /\ MInv => NoMissedCallback
  <2> SUFFICES ASSUME TInv, FInv, MInv, NEW i \in 1 .. Len(regs), env.prompt, env.fresh,
                      regs[i].ts > regs[i].at, now > regs[i].ts + 2, tpc = "idle"
               PROVE  Fired(regs[i].doc, regs[i].ts) # {}
    BY DEF NoMissedCallback
  <2>1. Awaits(regs[i].doc, regs[i].ts)
    BY DEF MInv
  <2>2. now \in Nat /\ regs[i].ts \in Nat
    BY RegsType, TimerAssumption DEF TInv, TypeOK
  <2>3. ~ Open(regs[i].ts)
    BY <2>2 DEF Open
  <2> QED
    BY <2>1, <2>3 DEF Awaits
<1>2. TInv /\ FInv /\ PInv /\ MInv /\ [Next]_vars => MInv'
  BY MInvNext
<1> QED
  BY <1>1, <1>2, TInvInit, TInvNext, FInvInit, FInvNext, PInvInit, PInvNext, MInvInit, PTL DEF Spec

-----------------------------------------------------------------------------
(* No callback is called more often than it was registered.                *)

\* The positions of a key in a sequence of keys, from the m-th on.
Occ(s, m, d) == {i \in m .. Len(s) : s[i] = d}

\* The keys of second t are in value, and its marker does not count any more.
Fetched(t) == docID = t /\ tpc \in {"send", "call", "js", "purge"}

\* The calls of a callback that are still to come for a second, if nothing more
\* is registered for it.
ToCall(d, t) ==
    IF Fetched(t) THEN Occ(value, IF tpc = "js" THEN idx + 1 ELSE idx, d)
    ELSE Occ(Keys(t), 1, d)

\* What was called and what is still to be called was registered.
CInv ==
    \A d \in Docs, t \in Times :
        Cardinality(Fired(d, t)) + Cardinality(ToCall(d, t)) <= Cardinality(Registered(d, t))

\* The positions of a key are finitely many.
LEMMA OccFinite ==
  ASSUME NEW s \in Seq(Docs), NEW m \in Nat, NEW d
  PROVE  IsFiniteSet(Occ(s, m, d))
<1>1. Len(s) \in Int /\ m \in Int
  OBVIOUS
<1>2. IsFiniteSet(m .. Len(s))
  BY <1>1, FS_Interval
<1>3. Occ(s, m, d) \subseteq m .. Len(s)
  BY DEF Occ
<1> QED
  BY <1>2, <1>3, FS_Subset

\* The counts are numbers.
LEMMA CountsFinite ==
  ASSUME TInv, FInv, NEW d \in Docs, NEW t \in Times
  PROVE  /\ IsFiniteSet(Fired(d, t)) /\ Cardinality(Fired(d, t)) \in Nat
         /\ IsFiniteSet(ToCall(d, t)) /\ Cardinality(ToCall(d, t)) \in Nat
         /\ IsFiniteSet(Registered(d, t)) /\ Cardinality(Registered(d, t)) \in Nat
<1>1. Len(fired) \in Int /\ Len(regs) \in Int /\ 1 \in Int
  BY DEF FInv
<1>2. IsFiniteSet(Fired(d, t))
  <2>1. Fired(d, t) \subseteq 1 .. Len(fired)
    BY DEF Fired
  <2> QED
    BY <1>1, <2>1, FS_Interval, FS_Subset
<1>3. IsFiniteSet(Registered(d, t))
  <2>1. Registered(d, t) \subseteq 1 .. Len(regs)
    BY DEF Registered
  <2> QED
    BY <1>1, <2>1, FS_Interval, FS_Subset
<1>4. IsFiniteSet(ToCall(d, t))
  <2>1. Keys(t) \in Seq(Docs) /\ value \in Seq(Docs) /\ idx \in Nat /\ idx + 1 \in Nat
    BY KeysType DEF TInv, TypeOK
  <2>2. IsFiniteSet(Occ(Keys(t), 1, d)) /\ IsFiniteSet(Occ(value, idx, d))
        /\ IsFiniteSet(Occ(value, idx + 1, d))
    BY <2>1, OccFinite
  <2> QED
    BY <2>2 DEF ToCall
<1> QED
  BY <1>2, <1>3, <1>4, FS_CardinalityType

\* Except for the append of registerCallback and a call of a callback, a step
\* changes neither what was called nor what was registered, and adds nothing
\* to what is to be called.
LEMMA ToCallQuiet ==
  ASSUME TInv, FInv, [Next]_vars, ~ RegAppend, fired' = fired,
         NEW d \in Docs, NEW t \in Times
  PROVE  /\ ToCall(d, t)' \subseteq ToCall(d, t)
         /\ Fired(d, t)' = Fired(d, t) /\ Registered(d, t)' = Registered(d, t)
<1> USE DEF clock, timer, history
<1>1. Fired(d, t)' = Fired(d, t) /\ Registered(d, t)' = Registered(d, t)
  <2>1. regs' = regs
    BY DEF Next, RegisterCallback, RegisterStep, RegSetBlob, RegGetMarker, RegAddMarker,
         HandlerReturn, Second, Fire, TimerStep, TakeTick, BucketGet, SendTimerCallback, CallNext,
         CallbackReturn, PurgeMarker, PurgeBlobs, vars
  <2> QED
    BY <2>1 DEF Fired, Registered
<1>2. slot \in [Times -> Seq(Docs) \cup {NoSlot}]
  BY DEF TInv, TypeOK
<1>3. CASE RegAddMarker
  <2>1. Keys(t)' = Keys(t)
    BY <1>2, <1>3 DEF RegAddMarker, Keys
  <2> QED
    BY <1>1, <1>3, <2>1 DEF RegAddMarker, ToCall, Fetched, Occ
<1>4. CASE BucketGet
  <2>1. CASE docID = t
    BY <1>1, <1>4, <2>1 DEF BucketGet, ToCall, Fetched, Keys, TInv, Occ
  <2>2. CASE docID # t
    BY <1>1, <1>4, <2>2 DEF BucketGet, ToCall, Fetched, Keys, Occ
  <2> QED
    BY <2>1, <2>2
<1>5. CASE SendTimerCallback
  BY <1>1, <1>5 DEF SendTimerCallback, ToCall, Fetched, Keys, TInv, Occ
<1>6. CASE CallNext
  <2>1. tpc = "call" /\ tpc' = "purge" /\ UNCHANGED <<slot, docID, value, idx>>
    <3>1. CASE idx <= Len(value) /\ blob[value[idx]] # 0
      <4>1. PICK f : fired' = Append(fired, f)
        BY <1>6, <3>1 DEF CallNext
      <4>2. fired \in Seq([doc : Docs, ts : Nat, blob : Nat])
        BY DEF FInv
      <4>3. Len(fired') = Len(fired) + 1 /\ Len(fired) \in Nat
        BY <4>1, <4>2
      <4> QED
        BY <4>3
    <3> QED
      BY <1>6, <3>1 DEF CallNext
  <2> QED
    BY <1>1, <2>1 DEF ToCall, Fetched, Keys, Occ
<1>7. CASE CallbackReturn
  BY <1>1, <1>7 DEF CallbackReturn, ToCall, Fetched, Keys, Occ
<1>8. CASE PurgeMarker
  <2>1. CASE docID = t
    <3>1. Keys(t)' = <<>>
      BY <1>2, <1>8, <2>1 DEF PurgeMarker, Keys
    <3>2. ToCall(d, t)' = {}
      BY <1>8, <3>1 DEF PurgeMarker, ToCall, Fetched, Occ
    <3> QED
      BY <1>1, <3>2
  <2>2. CASE docID # t
    <3>1. Keys(t)' = Keys(t)
      BY <1>2, <1>8, <2>2 DEF PurgeMarker, Keys
    <3> QED
      BY <1>1, <1>8, <2>2, <3>1 DEF PurgeMarker, ToCall, Fetched, Occ
  <2> QED
    BY <2>1, <2>2
<1>9. CASE TakeTick \/ PurgeBlobs
  BY <1>1, <1>9 DEF TakeTick, PurgeBlobs, ToCall, Fetched, Keys, Occ
<1>10. CASE ~ (RegAddMarker \/ TimerStep)
  <2>1. UNCHANGED <<slot, tpc, docID, value, idx>>
    BY <1>10 DEF Next, RegisterCallback, RegisterStep, RegSetBlob, RegGetMarker, HandlerReturn,
         Second, Fire, vars
  <2> QED
    BY <1>1, <2>1 DEF ToCall, Fetched, Keys, Occ
<1> QED
  BY <1>3, <1>4, <1>5, <1>6, <1>7, <1>8, <1>9, <1>10 DEF TimerStep

\* The append of registerCallback adds one registration and at most one call
\* to come, both for the same document and second.
LEMMA ToCallAppend ==
  ASSUME TInv, FInv, RegAppend, NEW d \in Docs, NEW t \in Times
  PROVE  /\ Fired(d, t)' = Fired(d, t)
         /\ \/ /\ ToCall(d, t)' \subseteq ToCall(d, t)
               /\ Registered(d, t)' = Registered(d, t)
            \/ /\ \E k : ToCall(d, t)' \subseteq ToCall(d, t) \cup {k}
               /\ \E k : /\ k \notin Registered(d, t)
                         /\ Registered(d, t)' = Registered(d, t) \cup {k}
<1> USE DEF clock, timer, history
<1>0. reg # NoReg /\ reg \in RegRecord /\ reg.doc \in Docs
  BY DEF RegAppend, FInv, RegRecord
<1>1. Fired(d, t)' = Fired(d, t)
  BY DEF RegAppend, Fired
<1>2. PICK new : new = [doc |-> reg.doc, ts |-> reg.ts, at |-> reg.at]
  OBVIOUS
<1>3. /\ new \in [doc : Docs, ts : Times, at : Nat] /\ regs' = Append(regs, new)
      /\ new.doc = reg.doc /\ new.ts = reg.ts
  BY <1>0, <1>2 DEF RegAppend, RegRecord
<1>4. regs \in Seq([doc : Docs, ts : Times, at : Nat])
  BY DEF FInv
<1>5. /\ Len(regs) \in Nat /\ Len(regs') = Len(regs) + 1 /\ regs'[Len(regs) + 1] = new
      /\ \A i \in 1 .. Len(regs) : regs'[i] = regs[i]
  BY <1>3, <1>4
<1>6. slot \in [Times -> Seq(Docs) \cup {NoSlot}] /\ value' = value /\ UNCHANGED <<tpc, docID, idx>>
  BY DEF TInv, TypeOK, RegAppend
<1>7. Fetched(t)' = Fetched(t)
  BY <1>6 DEF Fetched
<1>8. CASE d = reg.doc /\ t = reg.ts
  <2>1. /\ Len(regs) + 1 \notin Registered(d, t)
        /\ Registered(d, t)' = Registered(d, t) \cup {Len(regs) + 1}
    BY <1>3, <1>5, <1>8 DEF Registered
  <2>2. \E k : ToCall(d, t)' \subseteq ToCall(d, t) \cup {k}
    <3>1. CASE Fetched(t) \/ Keys(t)' = Keys(t)
      BY <1>6, <1>7, <3>1 DEF ToCall, Occ
    <3>2. CASE ~ Fetched(t) /\ Keys(t)' # Keys(t)
      <4>1. slot[t] # NoSlot /\ slot'[t] = Append(slot[t], d) /\ slot[t] \in Seq(Docs)
        BY <1>6, <1>8, <3>2 DEF RegAppend, Keys
      <4>2. Keys(t) = slot[t] /\ Keys(t)' = slot'[t]
        <5>1. slot'[t] \in Seq(Docs)
          BY <4>1
        <5> QED
          BY <4>1, <5>1, NoSlotAssumption DEF Keys
      <4>3. /\ Len(slot'[t]) = Len(slot[t]) + 1 /\ Len(slot[t]) \in Nat
            /\ \A i \in 1 .. Len(slot[t]) : slot'[t][i] = slot[t][i]
        BY <4>1
      <4>4. Occ(slot'[t], 1, d) \subseteq Occ(slot[t], 1, d) \cup {Len(slot[t]) + 1}
        BY <4>3 DEF Occ
      <4>5. ToCall(d, t) = Occ(slot[t], 1, d)
        BY <3>2, <4>2 DEF ToCall
      <4>6. ToCall(d, t)' = Occ(slot'[t], 1, d)
        BY <3>2, <4>2, <1>7 DEF ToCall, Occ
      <4> QED
        BY <4>4, <4>5, <4>6
    <3> QED
      BY <3>1, <3>2
  <2> QED
    BY <1>1, <2>1, <2>2
<1>9. CASE ~ (d = reg.doc /\ t = reg.ts)
  <2>1. Registered(d, t)' = Registered(d, t)
    BY <1>3, <1>5, <1>9 DEF Registered
  <2>2. ToCall(d, t)' \subseteq ToCall(d, t)
    <3>1. CASE Fetched(t) \/ Keys(t)' = Keys(t)
      BY <1>6, <1>7, <3>1 DEF ToCall, Occ
    <3>2. CASE ~ Fetched(t) /\ Keys(t)' # Keys(t)
      <4>1. slot[t] # NoSlot /\ slot'[t] = Append(slot[t], reg.doc) /\ slot[t] \in Seq(Docs) /\ t = reg.ts
        BY <1>6, <3>2 DEF RegAppend, Keys
      <4>2. Keys(t) = slot[t] /\ Keys(t)' = slot'[t]
        <5>1. slot'[t] \in Seq(Docs)
          BY <1>0, <4>1
        <5> QED
          BY <4>1, <5>1, NoSlotAssumption DEF Keys
      <4>3. /\ Len(slot'[t]) = Len(slot[t]) + 1 /\ Len(slot[t]) \in Nat
            /\ \A i \in 1 .. Len(slot[t]) : slot'[t][i] = slot[t][i]
            /\ slot'[t][Len(slot[t]) + 1] # d
        BY <1>0, <1>9, <4>1
      <4>4. Occ(slot'[t], 1, d) \subseteq Occ(slot[t], 1, d)
        BY <4>3 DEF Occ
      <4>5. ToCall(d, t) = Occ(slot[t], 1, d)
        BY <3>2, <4>2 DEF ToCall
      <4>6. ToCall(d, t)' = Occ(slot'[t], 1, d)
        BY <3>2, <4>2, <1>7 DEF ToCall, Occ
      <4> QED
        BY <4>4, <4>5, <4>6
    <3> QED
      BY <3>1, <3>2
  <2> QED
    BY <1>1, <2>1, <2>2
<1> QED
  BY <1>8, <1>9

\* A call of a callback is one of the calls that were to come.
LEMMA ToCallCalls ==
  ASSUME TInv, FInv, CallNext, fired' # fired, NEW d \in Docs, NEW t \in Times
  PROVE  /\ Registered(d, t)' = Registered(d, t)
         /\ \/ /\ ToCall(d, t)' \subseteq ToCall(d, t)
               /\ Fired(d, t)' = Fired(d, t)
            \/ /\ \E k \in ToCall(d, t) : ToCall(d, t)' = ToCall(d, t) \ {k}
               /\ \E k : k \notin Fired(d, t) /\ Fired(d, t)' = Fired(d, t) \cup {k}
<1> USE DEF clock, timer, history
<1>0. PICK e : e = value[idx]
  OBVIOUS
<1>1. PICK f : f = [doc |-> e, ts |-> docID, blob |-> blob[e]]
  OBVIOUS
<1>2. /\ tpc = "call" /\ tpc' = "js" /\ fired' = Append(fired, f) /\ idx <= Len(value)
      /\ UNCHANGED <<slot, docID, value, idx, regs>>
  BY <1>0, <1>1 DEF CallNext
<1>3. idx \in 1 .. Len(value) /\ e \in Docs /\ docID \in Nat
  BY <1>0, <1>2 DEF TInv, TypeOK
<1>4. blob[e] \in Nat
  BY <1>3, BlobType
<1>5. f \in [doc : Docs, ts : Nat, blob : Nat] /\ f.doc = e /\ f.ts = docID
  BY <1>1, <1>3, <1>4
<1>6. fired \in Seq([doc : Docs, ts : Nat, blob : Nat])
  BY DEF FInv
<1>7. /\ Len(fired) \in Nat /\ Len(fired') = Len(fired) + 1 /\ fired'[Len(fired) + 1] = f
      /\ \A i \in 1 .. Len(fired) : fired'[i] = fired[i]
  BY <1>2, <1>5, <1>6
<1>8. Registered(d, t)' = Registered(d, t)
  BY <1>2 DEF Registered
<1>f. ASSUME NEW i
      PROVE  i \in Fired(d, t)' <=> \/ i \in Fired(d, t)
                                    \/ i = Len(fired) + 1 /\ d = e /\ t = docID
  <2>1. i \in 1 .. Len(fired') <=> i \in 1 .. Len(fired) \/ i = Len(fired) + 1
    BY <1>7
  <2>2. i \in 1 .. Len(fired) => fired'[i] = fired[i] /\ i # Len(fired) + 1
    BY <1>7
  <2>3. i = Len(fired) + 1 => fired'[i].doc = e /\ fired'[i].ts = docID
    BY <1>5, <1>7
  <2> QED
    BY <2>1, <2>2, <2>3 DEF Fired
<1>9. CASE d = e /\ t = docID
  <2>1. Len(fired) + 1 \notin Fired(d, t) /\ Fired(d, t)' = Fired(d, t) \cup {Len(fired) + 1}
    <3>1. Len(fired) + 1 \notin 1 .. Len(fired)
      BY <1>7
    <3> QED
      BY <1>f, <1>9, <3>1 DEF Fired
  <2>2. ToCall(d, t) = Occ(value, idx, d)
    BY <1>2, <1>9 DEF ToCall, Fetched
  <2>3. ToCall(d, t)' = Occ(value, idx + 1, d)
    BY <1>2, <1>9 DEF ToCall, Fetched, Occ
  <2>4. idx \in Occ(value, idx, d) /\ Occ(value, idx + 1, d) = Occ(value, idx, d) \ {idx}
    BY <1>0, <1>3, <1>9 DEF Occ, TInv, TypeOK
  <2> QED
    BY <1>8, <2>1, <2>2, <2>3, <2>4
<1>10. CASE ~ (d = e /\ t = docID)
  <2>1. Fired(d, t)' = Fired(d, t)
    <3>1. \A i : i \in Fired(d, t)' <=> i \in Fired(d, t)
      BY <1>f, <1>10
    <3> QED
      BY <3>1 DEF Fired
  <2>2. CASE t = docID
    <3>1. ToCall(d, t) = Occ(value, idx, d)
      BY <1>2, <2>2 DEF ToCall, Fetched
    <3>2. ToCall(d, t)' = Occ(value, idx + 1, d)
      BY <1>2, <2>2 DEF ToCall, Fetched, Occ
    <3>3. Occ(value, idx + 1, d) \subseteq Occ(value, idx, d)
      BY <1>3 DEF Occ
    <3> QED
      BY <1>8, <2>1, <3>1, <3>2, <3>3
  <2>3. CASE t # docID
    <3>1. ToCall(d, t)' = ToCall(d, t)
      BY <1>2, <2>3 DEF ToCall, Fetched, Occ, Keys
    <3> QED
      BY <1>8, <2>1, <3>1
  <2> QED
    BY <2>2, <2>3
<1> QED
  BY <1>9, <1>10

\* Every step keeps the invariant.
LEMMA CInvNext == TInv /\ FInv /\ CInv /\ [Next]_vars => CInv'
<1> SUFFICES ASSUME TInv, FInv, CInv, [Next]_vars, NEW d \in Docs, NEW t \in Times
             PROVE  (Cardinality(Fired(d, t)) + Cardinality(ToCall(d, t)) <= Cardinality(Registered(d, t)))'
  BY DEF CInv
<1> USE DEF clock, timer, history
<1> DEFINE F == Fired(d, t)  C == ToCall(d, t)  R == Registered(d, t)
<1>1. /\ IsFiniteSet(F) /\ IsFiniteSet(C) /\ IsFiniteSet(R)
      /\ Cardinality(F) \in Nat /\ Cardinality(C) \in Nat /\ Cardinality(R) \in Nat
      /\ Cardinality(F) + Cardinality(C) <= Cardinality(R)
  BY CountsFinite DEF CInv
<1>3. CallNext \/ fired' = fired
  BY DEF Next, RegisterCallback, RegisterStep, RegSetBlob, RegGetMarker, RegAddMarker, RegAppend,
         HandlerReturn, Second, Fire, TimerStep, TakeTick, BucketGet, SendTimerCallback,
         CallbackReturn, PurgeMarker, PurgeBlobs, vars
<1> HIDE DEF F, C, R
<1>4. ASSUME NEW D, IsFiniteSet(D), C' \subseteq D
      PROVE  Cardinality(C') \in Nat /\ Cardinality(C') <= Cardinality(D)
  BY <1>4, FS_Subset, FS_CardinalityType
<1>5. CASE C' \subseteq C /\ F' = F /\ R' = R
  <2>1. Cardinality(C') \in Nat /\ Cardinality(C') <= Cardinality(C)
    BY <1>1, <1>4, <1>5
  <2>2. Cardinality(F') + Cardinality(C') <= Cardinality(R')
    BY <1>1, <1>5, <2>1
  <2> QED
    BY <2>2 DEF F, C, R
<1>6. CASE /\ F' = F
           /\ \E k : C' \subseteq C \cup {k}
           /\ \E k : k \notin R /\ R' = R \cup {k}
  <2>1. PICK k : C' \subseteq C \cup {k}
    BY <1>6
  <2>2. /\ IsFiniteSet(C \cup {k}) /\ Cardinality(C \cup {k}) \in Nat
        /\ Cardinality(C \cup {k}) <= Cardinality(C) + 1
    <3>1. IsFiniteSet(C \cup {k})
      BY <1>1, FS_AddElement
    <3>2. Cardinality(C \cup {k}) = Cardinality(C) \/ Cardinality(C \cup {k}) = Cardinality(C) + 1
      BY <1>1, FS_AddElement
    <3> QED
      BY <1>1, <3>1, <3>2
  <2>3. Cardinality(C') \in Nat /\ Cardinality(C') <= Cardinality(C \cup {k})
    BY <2>1, <2>2, <1>4
  <2>4. Cardinality(R') = Cardinality(R) + 1
    BY <1>1, <1>6, FS_AddElement
  <2>5. Cardinality(F') + Cardinality(C') <= Cardinality(R')
    BY <1>1, <1>6, <2>2, <2>3, <2>4
  <2> QED
    BY <2>5 DEF F, C, R
<1>7. CASE /\ R' = R
           /\ \E k \in C : C' = C \ {k}
           /\ \E k : k \notin F /\ F' = F \cup {k}
  <2>1. Cardinality(F') = Cardinality(F) + 1
    BY <1>1, <1>7, FS_AddElement
  <2>2. Cardinality(C') = Cardinality(C) - 1
    BY <1>1, <1>7, FS_RemoveElement
  <2>3. Cardinality(F') + Cardinality(C') <= Cardinality(R')
    BY <1>1, <1>7, <2>1, <2>2
  <2> QED
    BY <2>3 DEF F, C, R
<1>8. CASE RegAppend
  BY <1>5, <1>6, <1>8, ToCallAppend DEF F, C, R
<1>9. CASE CallNext /\ fired' # fired
  BY <1>5, <1>7, <1>9, ToCallCalls DEF F, C, R
<1>10. CASE ~ RegAppend /\ fired' = fired
  BY <1>5, <1>10, ToCallQuiet DEF F, C, R
<1> QED
  BY <1>3, <1>8, <1>9, <1>10

\* FiresBounded for every number of documents, registrations and seconds:
\* however slow the goroutine is and however often documents are registered,
\* no callback is called more often for a second than it was registered.
THEOREM FiresBoundedTheorem == Spec => []FiresBounded
<1>1. Init => CInv
  <2> SUFFICES ASSUME Init, NEW d \in Docs, NEW t \in Times
               PROVE  Cardinality(Fired(d, t)) + Cardinality(ToCall(d, t)) <= Cardinality(Registered(d, t))
    BY DEF CInv
  <2>1. Fired(d, t) = {} /\ Registered(d, t) = {}
    BY DEF Init, Fired, Registered
  <2>2. ToCall(d, t) = {}
    BY DEF Init, ToCall, Fetched, Keys, Occ
  <2>3. Cardinality({}) = 0
    BY FS_EmptySet
  <2> QED
    BY <2>1, <2>2, <2>3
<1>2. TInv /\ FInv /\ CInv => FiresBounded
  <2> SUFFICES ASSUME TInv, FInv, CInv, NEW d \in Docs, NEW t \in Times
               PROVE  Cardinality(Fired(d, t)) <= Cardinality(Registered(d, t))
    BY DEF FiresBounded
  <2>1. Cardinality(Fired(d, t)) + Cardinality(ToCall(d, t)) <= Cardinality(Registered(d, t))
    BY DEF CInv
  <2> QED
    BY <2>1, CountsFinite
<1> QED
  BY <1>1, <1>2, TInvInit, TInvNext, FInvInit, FInvNext, CInvNext, PTL DEF Spec
=============================================================================
