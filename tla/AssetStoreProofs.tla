-------------------------- MODULE AssetStoreProofs --------------------------
(***************************************************************************)
(* Proofs about AssetStore: the loop over assetList stays within the array *)
(* it shares with app.Assets, and the bucket only changes as the request   *)
(* asks, for lists of any length; a request with one deletion at most does *)
(* what it says.                                                           *)
(***************************************************************************)
EXTENDS AssetStore, TLAPS

USE SMTT(20), ZenonT(30)

\* A list is a sequence of assets with a length.
ListOf(n) ==
    /\ n \in Nat
    /\ request \in [1 .. n -> Assets]
    /\ Len(request) = n
    /\ arr \in [1 .. n -> Listed(request)]
    /\ Len(arr) = n

\* What the properties need: an asset's operation is the one that was sent,
\* or it was an addition that has been done.
AInv ==
    /\ \E n \in Nat : ListOf(n)
    /\ len \in 0 .. Len(arr)
    /\ index \in 0 .. Len(arr)
    /\ pc \in {"loop", "done", "panic"}
    /\ bucket \subseteq Listed(request)
    /\ wanted \in [Assets -> {"none", "add", "delete"}]
    /\ op \in [Assets -> {"none", "add", "delete"}]
    /\ \A x \in Assets : op[x] = wanted[x] \/ (wanted[x] = "add" /\ op[x] = "none")
    /\ BucketOnlyAsAsked

\* A function on 1 .. n is a sequence of length n.
LEMMA LenOfFunction ==
  ASSUME NEW S, NEW n \in Nat, NEW s \in [1 .. n -> S]
  PROVE  s \in Seq(S) /\ Len(s) = n
  OBVIOUS

\* The invariant holds when the request arrives.
LEMMA AInvInit == Init => AInv
<1> SUFFICES ASSUME Init
             PROVE  AInv
  OBVIOUS
<1>1. PICK n \in 0 .. MaxLen : request \in [1 .. n -> Assets]
  BY DEF Init, Lists
<1>2. n \in Nat
  BY AssetAssumption
<1>3. Len(request) = n /\ arr = request
  BY <1>1, <1>2, LenOfFunction DEF Init
<1>4. request \in [1 .. n -> Listed(request)]
  BY <1>1 DEF Listed
<1>5. ListOf(n)
  BY <1>1, <1>2, <1>3, <1>4 DEF ListOf
<1>6. Listed(request) \subseteq Assets
  BY <1>1 DEF Listed
<1>7. /\ op = wanted /\ wanted \in [Assets -> {"none", "add", "delete"}]
      /\ bucket = {x \in Listed(request) : wanted[x] # "add"}
      /\ len = Len(request) /\ index = 0 /\ pc = "loop"
  BY DEF Init
<1>8. BucketOnlyAsAsked
  BY <1>7 DEF BucketOnlyAsAsked
<1> QED
  BY <1>2, <1>3, <1>5, <1>7, <1>8 DEF AInv

\* Every step of the loop keeps the invariant.
LEMMA AInvNext == AInv /\ [Next]_vars => AInv'
<1> SUFFICES ASSUME AInv, [Next]_vars
             PROVE  AInv'
  OBVIOUS
<1> USE DEF input
<1>1. PICK n \in Nat : ListOf(n)
  BY DEF AInv
<1>2. Listed(request) \subseteq Assets
  BY <1>1 DEF ListOf, Listed
<1>3. ASSUME NEW o, Visiting(o)
      PROVE  /\ Current \in Listed(request) /\ op[Current] = o /\ pc = "loop"
             /\ index + 1 \in 1 .. n
  <2>1. index < Len(arr) /\ op[Current] = o /\ pc = "loop" /\ index \in 0 .. Len(arr)
    BY <1>3 DEF Visiting, AInv
  <2>2. index + 1 \in 1 .. n
    BY <2>1, <1>1 DEF ListOf
  <2> QED
    BY <2>1, <2>2, <1>1 DEF ListOf, Current
<1>4. ASSUME UNCHANGED <<request, wanted, arr>>
      PROVE  \E m \in Nat : ListOf(m)'
  BY <1>1, <1>4 DEF ListOf, Listed
<1>5. CASE UNCHANGED vars
  BY <1>4, <1>5 DEF vars, AInv, BucketOnlyAsAsked, Listed
<1>6. CASE Keep
  <2>1. index' \in 0 .. Len(arr)
    BY <1>1, <1>3, <1>6 DEF Keep, ListOf
  <2> QED
    BY <2>1, <1>4, <1>6 DEF Keep, AInv, BucketOnlyAsAsked, Listed
<1>7. CASE NoInfo
  BY <1>4, <1>7 DEF NoInfo, AInv, BucketOnlyAsAsked, Listed
<1>8. CASE WriteFile
  BY <1>4, <1>8 DEF WriteFile, AInv, BucketOnlyAsAsked, Listed
<1>9. CASE Add
  <2>1. /\ Current \in Listed(request) /\ op[Current] = "add" /\ index + 1 \in 1 .. n
        /\ Current \in Assets
    BY <1>2, <1>3, <1>9 DEF Add
  <2>2. wanted[Current] = "add"
    BY <2>1 DEF AInv
  <2>3. /\ bucket' = bucket \cup {Current} /\ op' = [op EXCEPT ![Current] = "none"]
        /\ index' = index + 1 /\ UNCHANGED <<request, wanted, arr, len, pc>>
    BY <1>9 DEF Add
  <2>4. Listed(request)' = Listed(request)
    BY <2>3 DEF Listed
  <2>5. BucketOnlyAsAsked'
    BY <1>2, <2>1, <2>2, <2>3, <2>4 DEF AInv, BucketOnlyAsAsked
  <2>6. index' \in 0 .. Len(arr)
    BY <2>1, <2>3, <1>1 DEF ListOf
  <2> QED
    BY <1>4, <2>1, <2>2, <2>3, <2>4, <2>5, <2>6 DEF AInv
<1>10. CASE Delete \/ DeletePanics
  <2>1. /\ Current \in Listed(request) /\ op[Current] = "delete" /\ index + 1 \in 1 .. n
        /\ Current \in Assets
    BY <1>2, <1>3, <1>10 DEF Delete, DeletePanics
  <2>2. wanted[Current] = "delete"
    BY <2>1 DEF AInv
  <2>3. /\ bucket' = bucket \ {Current} /\ UNCHANGED <<request, wanted, op>>
        /\ arr' \in {ShiftDown, arr}
        /\ len' \in {len, 0} \/ (len > 1 /\ len' = len - 1)
        /\ index' \in {index, index + 1} /\ pc' \in {pc, "panic"}
    BY <1>10 DEF Delete, DeletePanics
  <2>4. Listed(request)' = Listed(request)
    BY <2>3 DEF Listed
  <2>5. BucketOnlyAsAsked'
    BY <1>2, <2>1, <2>2, <2>3, <2>4 DEF AInv, BucketOnlyAsAsked
  <2>6. len \in 0 .. n /\ index \in 0 .. n
    BY <1>1 DEF AInv, ListOf
  <2>7. ShiftDown \in [1 .. n -> Listed(request)]
    BY <1>1, <2>6 DEF ShiftDown, ListOf
  <2>8. arr' \in [1 .. n -> Listed(request)]
    BY <1>1, <2>3, <2>7 DEF ListOf
  <2>9. ListOf(n)'
    BY <1>1, <2>3, <2>4, <2>8, LenOfFunction DEF ListOf
  <2>10. len' \in 0 .. Len(arr') /\ index' \in 0 .. Len(arr')
    BY <2>1, <2>3, <2>6, <2>9 DEF ListOf
  <2> QED
    BY <2>3, <2>4, <2>5, <2>9, <2>10 DEF AInv
<1> QED
  BY <1>5, <1>6, <1>7, <1>8, <1>9, <1>10 DEF Next

\* The loop and app.Assets stay within the array for lists of any length.
THEOREM AssetTypeCorrect == Spec => []TypeOK
<1>1. AInv => TypeOK
  <2> SUFFICES ASSUME AInv
               PROVE  TypeOK
    OBVIOUS
  <2>1. PICK n \in Nat : ListOf(n)
    BY DEF AInv
  <2>2. Listed(request) \subseteq Assets /\ DOMAIN request = 1 .. n
    BY <2>1 DEF ListOf, Listed
  <2> QED
    BY <2>1, <2>2 DEF AInv, TypeOK, ListOf
<1> QED
  BY <1>1, AInvInit, AInvNext, PTL DEF Spec

\* However the deletions shift the array under the loop of storeAppSetup, the
\* bucket loses and gains only what the request names for it, and every
\* addition that is stored as done has been done.
THEOREM AssetBucketTheorem == Spec => []BucketOnlyAsAsked
<1>1. AInv => BucketOnlyAsAsked
  BY DEF AInv
<1> QED
  BY <1>1, AInvInit, AInvNext, PTL DEF Spec

-----------------------------------------------------------------------------
(* One deletion.                                                           *)

\* At most one deletion, and every addition before it.
OneDeletion ==
    \A i, j \in DOMAIN request :
        wanted[request[i]] = "delete" /\ i < j => wanted[request[j]] = "none"

Deletes(p) == p \in DOMAIN request /\ wanted[request[p]] = "delete"

\* The array is as it was sent until the loop is past the deletion, and from then on
\* as ShiftDown left it; what the loop has passed is done.
Shifted(p) ==
    /\ len = Len(request) - 1
    /\ request[p] \notin bucket
    /\ \A i \in DOMAIN request :
          arr[i] = IF i < p \/ i = Len(request) THEN request[i] ELSE request[i + 1]

OInv ==
    known /\ OneDeletion =>
        /\ pc # "panic"
        /\ \A j \in DOMAIN request : j <= index /\ wanted[request[j]] = "add" => op[request[j]] = "none"
        /\ \A p : Deletes(p) /\ p <= index => Shifted(p)
        /\ (\A p : Deletes(p) => index < p) => arr = request /\ len = Len(request)
        /\ pc = "done" => index = Len(request) /\ file = SubSeq(arr, 1, len)

\* The asset of an iteration: before the deletion it is the one that was sent in
\* this place, after it one that the loop leaves alone.
LEMMA Visited ==
  ASSUME AInv, OInv, known, OneDeletion, NEW o, Visiting(o), o # "none"
  PROVE  /\ \A p : Deletes(p) => index < p
         /\ arr = request /\ len = Len(request)
         /\ index + 1 \in DOMAIN request
         /\ wanted[request[index + 1]] = o
<1>1. PICK n \in Nat : ListOf(n)
  BY DEF AInv
<1>2. index \in 0 .. n /\ index < n /\ op[arr[index + 1]] = o /\ index + 1 \in 1 .. n
  BY <1>1 DEF Visiting, Current, AInv, ListOf
<1>3. DOMAIN request = 1 .. n /\ Len(request) = n /\ \A i \in 1 .. n : request[i] \in Assets
  BY <1>1 DEF ListOf
<1>4. \A x \in Assets : op[x] # "none" => op[x] = wanted[x]
  BY DEF AInv
<1>5. ASSUME NEW p, Deletes(p), p <= index
      PROVE  FALSE
  <2>1. Shifted(p) /\ p \in 1 .. n /\ wanted[request[p]] = "delete"
    BY <1>3, <1>5 DEF OInv, Deletes
  <2>2. PICK j \in 1 .. n : arr[index + 1] = request[j] /\ p < j
    <3>1. CASE index + 1 = n
      BY <1>2, <1>3, <1>5, <2>1, <3>1 DEF Shifted
    <3>2. CASE index + 1 < n
      <4>1. arr[index + 1] = request[(index + 1) + 1] /\ (index + 1) + 1 \in 1 .. n /\ p < (index + 1) + 1
        BY <1>2, <1>3, <1>5, <2>1, <3>2 DEF Shifted
      <4> QED
        BY <4>1
    <3> QED
      BY <1>2, <3>1, <3>2
  <2>3. wanted[request[j]] = "none"
    BY <1>3, <2>1, <2>2 DEF OneDeletion
  <2> QED
    BY <1>2, <1>3, <1>4, <2>2, <2>3
<1>6. ASSUME NEW p, Deletes(p)
      PROVE  index < p
  BY <1>2, <1>3, <1>5, <1>6 DEF Deletes
<1>7. arr = request /\ len = Len(request)
  BY <1>6 DEF OInv
<1> QED
  BY <1>2, <1>3, <1>4, <1>6, <1>7

\* Every step of the loop keeps OInv.
LEMMA OInvNext == AInv /\ OInv /\ [Next]_vars => OInv'
<1> SUFFICES ASSUME AInv, OInv, [Next]_vars
             PROVE  OInv'
  OBVIOUS
<1>1. PICK n \in Nat : ListOf(n)
  BY DEF AInv
<1>2. /\ DOMAIN request = 1 .. n /\ Len(request) = n /\ \A i \in 1 .. n : request[i] \in Assets
      /\ Len(arr) = n /\ index \in 0 .. n
      /\ DOMAIN arr = 1 .. n
  BY <1>1 DEF ListOf, AInv
<1>3. \A x \in Assets : op[x] = wanted[x] \/ (wanted[x] = "add" /\ op[x] = "none")
  BY DEF AInv
<1>4. request' = request /\ wanted' = wanted /\ known' = known
  BY DEF Next, vars, input, Keep, NoInfo, Add, Delete, DeletePanics, WriteFile
<1>5. OneDeletion' = OneDeletion /\ \A p : Deletes(p)' = Deletes(p)
  BY <1>4 DEF OneDeletion, Deletes
<1> SUFFICES ASSUME known, OneDeletion
             PROVE  /\ pc' # "panic"
                    /\ \A j \in DOMAIN request :
                          j <= index' /\ wanted[request[j]] = "add" => op'[request[j]] = "none"
                    /\ \A p : Deletes(p) /\ p <= index' => Shifted(p)'
                    /\ (\A p : Deletes(p) => index' < p) => arr' = request /\ len' = Len(request)
                    /\ pc' = "done" => index' = Len(request) /\ file' = SubSeq(arr', 1, len')
  BY <1>4, <1>5 DEF OInv
<1>6. /\ pc # "panic"
      /\ \A j \in 1 .. n : j <= index /\ wanted[request[j]] = "add" => op[request[j]] = "none"
      /\ \A p : Deletes(p) /\ p <= index => Shifted(p)
      /\ (\A p : Deletes(p) => index < p) => arr = request /\ len = Len(request)
      /\ pc = "done" => index = Len(request) /\ file = SubSeq(arr, 1, len)
  BY <1>2 DEF OInv
<1>7. CASE UNCHANGED vars
  BY <1>2, <1>6, <1>7 DEF vars, Shifted
<1>8. CASE Keep
  <2>1. /\ pc = "loop" /\ index < n /\ op[arr[index + 1]] = "none" /\ index' = index + 1
        /\ UNCHANGED <<arr, len, op, bucket, file, pc>>
    BY <1>2, <1>8 DEF Keep, Visiting, Current
  <2>2. \A p : Shifted(p)' = Shifted(p)
    BY <1>4, <2>1 DEF Shifted
  <2>3. CASE \A p : Deletes(p) => index < p
    <3>1. arr = request /\ len = Len(request)
      BY <1>6, <2>3
    <3>2. \A p : Deletes(p) => index' < p
      <4> SUFFICES ASSUME NEW p, Deletes(p), ~ (index + 1 < p)
                   PROVE  FALSE
        BY <2>1
      <4>1. p = index + 1
        BY <1>2, <2>3 DEF Deletes
      <4> QED
        BY <1>2, <1>3, <2>1, <3>1, <4>1 DEF Deletes
    <3>3. \A p : Deletes(p) => ~ (p <= index')
      BY <1>2, <2>1, <3>2 DEF Deletes
    <3>4. \A j \in 1 .. n : j <= index' => j <= index \/ j = index + 1
      BY <1>2, <2>1
    <3> QED
      BY <1>2, <1>6, <2>1, <3>1, <3>2, <3>3, <3>4
  <2>4. CASE \E p : Deletes(p) /\ ~ (index < p)
    <3>1. PICK p : Deletes(p) /\ p <= index
      BY <1>2, <2>4 DEF Deletes
    <3>2. \A j \in 1 .. n : p < j => wanted[request[j]] = "none"
      BY <1>2, <3>1 DEF OneDeletion, Deletes
    <3>3. \A j \in 1 .. n : j <= index' => j <= index \/ p < j
      BY <1>2, <2>1, <3>1 DEF Deletes
    <3>4. \A q : Deletes(q) => q <= index
      <4> SUFFICES ASSUME NEW q, Deletes(q), ~ (q <= index)
                   PROVE  FALSE
        OBVIOUS
      <4>1. q \in 1 .. n /\ p < q
        BY <1>2, <3>1 DEF Deletes
      <4> QED
        BY <3>2, <4>1 DEF Deletes
    <3>5. ~ (\A q : Deletes(q) => index' < q)
      BY <1>2, <2>1, <3>1 DEF Deletes
    <3> QED
      BY <1>2, <1>6, <2>1, <2>2, <3>2, <3>3, <3>4, <3>5
  <2> QED
    BY <2>3, <2>4
<1>9. CASE NoInfo
  BY <1>9 DEF NoInfo
<1>10. CASE Add
  <2>1. /\ Visiting("add") /\ index' = index + 1
        /\ op' = [op EXCEPT ![Current] = "none"]
        /\ UNCHANGED <<arr, len, file, pc>> /\ pc = "loop"
    BY <1>10 DEF Add, Visiting
  <2>2. /\ \A p : Deletes(p) => index < p
        /\ arr = request /\ len = Len(request)
        /\ index + 1 \in 1 .. n
        /\ wanted[request[index + 1]] = "add"
    BY <1>2, <2>1, Visited
  <2>3. \A p : Deletes(p) => index' < p
    <3> SUFFICES ASSUME NEW p, Deletes(p), ~ (index + 1 < p)
                 PROVE  FALSE
      BY <2>1
    <3>1. p = index + 1
      BY <1>2, <2>2 DEF Deletes
    <3> QED
      BY <2>2, <3>1 DEF Deletes
  <2>4. Current = request[index + 1] /\ Current \in Assets
    BY <1>2, <2>2 DEF Current
  <2>5. \A x \in Assets : op'[x] = op[x] \/ op'[x] = "none"
    BY <2>1 DEF AInv
  <2>6. op'[request[index + 1]] = "none"
    BY <2>1, <2>4 DEF AInv
  <2>7. \A j \in 1 .. n : j <= index' => j <= index \/ j = index + 1
    BY <1>2, <2>1
  <2>8. \A p : Deletes(p) => ~ (p <= index')
    BY <1>2, <2>1, <2>3 DEF Deletes
  <2> QED
    BY <1>2, <1>6, <2>1, <2>2, <2>3, <2>5, <2>6, <2>7, <2>8
<1>11. CASE Delete \/ DeletePanics
  <2>1. Visiting("delete") /\ pc = "loop" /\ op' = op
    BY <1>11 DEF Delete, DeletePanics, Visiting
  <2>2. /\ \A p : Deletes(p) => index < p
        /\ arr = request /\ len = Len(request)
        /\ index + 1 \in 1 .. n
        /\ wanted[request[index + 1]] = "delete"
    BY <1>2, <2>1, Visited
  <2>3. ~ DeletePanics
    BY <1>2, <2>2 DEF DeletePanics
  <2>4. /\ bucket' = bucket \ {request[index + 1]}
        /\ arr' = IF len > 1 THEN ShiftDown ELSE arr
        /\ len' = IF len > 1 THEN len - 1 ELSE 0
        /\ index' = index + 1
        /\ UNCHANGED <<pc, file>>
    BY <1>11, <2>2, <2>3 DEF Delete, Current
  <2>5. len' = n - 1
    BY <1>2, <2>2, <2>4
  <2>a. PICK d : d = index + 1
    OBVIOUS
  <2>6. Shifted(d)'
    <3>1. ASSUME NEW i \in 1 .. n
          PROVE  arr'[i] = IF i < d \/ i = n THEN request[i] ELSE request[i + 1]
      BY <1>2, <2>2, <2>4, <2>a DEF ShiftDown
    <3>2. request[d] \notin bucket'
      BY <2>4, <2>a
    <3> QED
      BY <1>2, <1>4, <2>5, <3>1, <3>2 DEF Shifted
  <2>7. Deletes(d) /\ \A p : Deletes(p) => p = d
    <3>1. Deletes(d)
      BY <1>2, <2>2, <2>a DEF Deletes
    <3>2. ASSUME NEW p, Deletes(p), p # d
          PROVE  FALSE
      <4>1. p \in 1 .. n /\ index + 1 < p
        BY <1>2, <2>2, <2>a, <3>2 DEF Deletes
      <4> QED
        BY <1>2, <2>2, <3>2, <4>1 DEF OneDeletion, Deletes
    <3> QED
      BY <3>1, <3>2
  <2>8. \A j \in 1 .. n : j <= index' => j <= index \/ j = index + 1
    BY <1>2, <2>4
  <2>9. ~ (index' < d)
    BY <1>2, <2>4, <2>a
  <2>10. \A j \in 1 .. n : j <= index' /\ wanted[request[j]] = "add" => op'[request[j]] = "none"
    BY <1>6, <2>1, <2>2, <2>8
  <2> QED
    BY <1>2, <2>1, <2>4, <2>6, <2>7, <2>9, <2>10
<1>12. CASE WriteFile
  <2>1. /\ pc' = "done" /\ index = n /\ file' = SubSeq(arr, 1, len)
        /\ UNCHANGED <<arr, len, index, op, bucket>>
    BY <1>2, <1>12 DEF WriteFile
  <2>2. \A p : Shifted(p)' = Shifted(p)
    BY <1>4, <2>1 DEF Shifted
  <2> QED
    BY <1>2, <1>6, <2>1, <2>2
<1> QED
  BY <1>7, <1>8, <1>9, <1>10, <1>11, <1>12 DEF Next

\* At the end the file, the bucket and the operations are as the request asks.
LEMMA DoneAsRequested ==
  ASSUME AInv, OInv, known, OneDeletion, pc = "done"
  PROVE  AsRequested
<1>1. PICK n \in Nat : ListOf(n)
  BY DEF AInv
<1>2. /\ DOMAIN request = 1 .. n /\ Len(request) = n /\ \A i \in 1 .. n : request[i] \in Assets
      /\ Len(arr) = n /\ arr \in [1 .. n -> Listed(request)] /\ arr \in Seq(Listed(request))
  BY <1>1, LenOfFunction DEF ListOf
<1>3. index = n /\ file = SubSeq(arr, 1, len)
  BY <1>2 DEF OInv
<1>4. len \in 0 .. n
  BY <1>2 DEF AInv
<1>5. DOMAIN file = 1 .. len /\ \A i \in 1 .. len : file[i] = arr[i]
  BY <1>2, <1>3, <1>4
<1>6. \A i \in KeptAt : op[request[i]] = "none"
  BY <1>2, <1>3 DEF OInv, KeptAt, AInv
<1>7. bucket \subseteq Listed(request)
  BY DEF AInv
<1>8. Kept \subseteq bucket
  <2> SUFFICES ASSUME NEW i \in KeptAt
               PROVE  request[i] \in bucket
    BY DEF Kept
  <2>1. i \in 1 .. n /\ wanted[request[i]] \in {"none", "add"} /\ request[i] \in Listed(request)
    BY <1>2 DEF KeptAt, AInv, Listed
  <2> QED
    BY <1>6, <2>1 DEF AInv, BucketOnlyAsAsked
<1>9. CASE \A p : ~ Deletes(p)
  <2>1. arr = request /\ len = n
    BY <1>2, <1>9 DEF OInv
  <2>2. KeptAt = 1 .. n
    BY <1>2, <1>9 DEF KeptAt, Deletes
  <2>3. [i \in 1 .. n |-> i] \in [DOMAIN file -> KeptAt]
    BY <1>5, <2>1, <2>2
  <2>4. FileListsKept
    BY <1>5, <2>1, <2>2, <2>3 DEF FileListsKept
  <2>5. bucket = Kept
    BY <1>2, <1>7, <1>8, <2>2 DEF Kept, Listed
  <2> QED
    BY <1>6, <2>4, <2>5 DEF AsRequested, Kept
<1>10. ASSUME NEW p, Deletes(p)
       PROVE  AsRequested
  <2>1. p \in 1 .. n /\ wanted[request[p]] = "delete"
    BY <1>2, <1>10 DEF Deletes
  <2>2. Shifted(p)
    BY <1>2, <1>3, <1>10, <2>1 DEF OInv
  <2>3. ASSUME NEW i \in 1 .. n, i # p
        PROVE  wanted[request[i]] # "delete"
    <3>1. CASE p < i
      BY <1>2, <2>1, <3>1 DEF OneDeletion
    <3>2. CASE i < p
      BY <1>2, <2>1, <3>2 DEF OneDeletion
    <3> QED
      BY <2>1, <2>3, <3>1, <3>2
  <2>4. KeptAt = (1 .. n) \ {p}
    BY <1>2, <2>1, <2>3 DEF KeptAt
  <2>5. len = n - 1
    BY <1>2, <2>2 DEF Shifted
  <2>6. PICK at : at = [i \in 1 .. len |-> IF i < p THEN i ELSE i + 1]
    OBVIOUS
  <2>7. at \in [DOMAIN file -> KeptAt]
    BY <1>5, <2>1, <2>4, <2>5, <2>6
  <2>8. \A i, j \in 1 .. len : i < j => at[i] < at[j]
    BY <2>1, <2>5, <2>6
  <2>9. ASSUME NEW k \in KeptAt
        PROVE  \E i \in 1 .. len : at[i] = k
    <3>1. k \in 1 .. n /\ k # p
      BY <2>4
    <3>2. CASE k < p
      <4>1. k \in 1 .. len /\ at[k] = k
        BY <2>1, <2>5, <2>6, <3>1, <3>2
      <4> QED
        BY <4>1
    <3>3. CASE p < k
      <4>1. k - 1 \in 1 .. len /\ at[k - 1] = k
        BY <2>1, <2>5, <2>6, <3>1, <3>3
      <4> QED
        BY <4>1
    <3> QED
      BY <2>1, <3>1, <3>2, <3>3
  <2>10. ASSUME NEW i \in 1 .. len
         PROVE  file[i] = request[at[i]]
    <3>1. i \in 1 .. n /\ i # n /\ file[i] = arr[i]
      BY <1>5, <2>1, <2>5
    <3>2. CASE i < p
      <4>1. arr[i] = request[i] /\ at[i] = i
        BY <1>2, <2>2, <2>6, <3>1, <3>2 DEF Shifted
      <4> QED
        BY <3>1, <4>1
    <3>3. CASE ~ (i < p)
      <4>1. arr[i] = request[i + 1] /\ at[i] = i + 1
        BY <1>2, <2>2, <2>6, <3>1, <3>3 DEF Shifted
      <4> QED
        BY <3>1, <4>1
    <3> QED
      BY <3>2, <3>3
  <2>11. FileListsKept
    <3> SUFFICES /\ \A i, j \in DOMAIN file : i < j => at[i] < at[j]
                 /\ \A k \in KeptAt : \E i \in DOMAIN file : at[i] = k
                 /\ \A i \in DOMAIN file : file[i] = request[at[i]]
      BY <2>7 DEF FileListsKept
    <3> QED
      BY <1>5, <2>8, <2>9, <2>10
  <2>12. bucket \subseteq Kept
    <3> SUFFICES ASSUME NEW x \in bucket
                 PROVE  x \in Kept
      OBVIOUS
    <3>1. PICK i \in 1 .. n : x = request[i]
      BY <1>2, <1>7 DEF Listed
    <3>2. i # p
      BY <2>2, <3>1 DEF Shifted
    <3> QED
      BY <2>4, <3>1, <3>2 DEF Kept
  <2> QED
    BY <1>6, <1>8, <2>11, <2>12 DEF AsRequested, Kept
<1> QED
  BY <1>9, <1>10

\* A request with one deletion at most, and every addition before it, ends as it
\* asks, for lists of any length: the elements that ShiftDown moves under the loop
\* are ones that it leaves alone, and the one that it skips is too.
THEOREM OneDeletionTheorem == Spec => []OneDeletionWorks
<1>1. Init => OInv
  <2> SUFFICES ASSUME Init
               PROVE  OInv
    OBVIOUS
  <2>1. PICK n \in 0 .. MaxLen : request \in [1 .. n -> Assets]
    BY DEF Init, Lists
  <2>2. DOMAIN request = 1 .. n /\ n \in Nat
    BY <2>1, AssetAssumption
  <2>3. index = 0 /\ arr = request /\ len = Len(request) /\ pc = "loop"
    BY DEF Init
  <2>4. \A j \in 1 .. n : ~ (j <= 0)
    BY <2>2
  <2> QED
    BY <2>2, <2>3, <2>4 DEF OInv, Deletes
<1>2. AInv /\ OInv => OneDeletionWorks
  BY DoneAsRequested DEF OneDeletionWorks, OneDeletion, OInv
<1> QED
  BY <1>1, <1>2, AInvInit, AInvNext, OInvNext, PTL DEF Spec
=============================================================================
