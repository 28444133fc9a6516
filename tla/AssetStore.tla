----------------------------- MODULE AssetStore -----------------------------
(***************************************************************************)
(* The loop of storeAppSetup over the static assets of an application: the *)
(* content of an asset marked "add" goes to the application's bucket, an   *)
(* asset marked "delete" is removed from the bucket and from app.Assets,   *)
(* and app is written to ./apps/.                                          *)
(*                                                                         *)
(* assetList and app.Assets are slices of one array, arr: removing from    *)
(* app.Assets shifts the elements that the loop over assetList has still   *)
(* to visit.  An asset is a Go map, so the array holds references, and its *)
(* "operation" is one for all of them.                                     *)
(***************************************************************************)
EXTENDS Integers, Sequences

CONSTANTS
    Assets,   \* asset names
    MaxLen    \* bound on the assets of a request

ASSUME AssetAssumption == MaxLen \in Nat

VARIABLES
    request,  \* the assets as they were sent
    wanted,   \* the operation sent with each asset, "none" if there is none
    known,    \* performAppHTTPSetup has registered the application: info is not nil
    arr,      \* the array under assetList and app.Assets
    len,      \* len(app.Assets)
    index,    \* position of the loop over assetList, from 0 as in the code
    op,       \* the "operation" entry each asset has now
    bucket,   \* assets whose content is in the bucket
    file,     \* ./apps/<app>: the assets in it
    pc        \* "loop", "done", or "panic"

vars == <<request, wanted, known, arr, len, index, op, bucket, file, pc>>

input == <<request, wanted, known>>

\* Lists of different assets, as the editor of the applications sends them.
Lists ==
    {s \in UNION {[1 .. n -> Assets] : n \in 0 .. MaxLen} :
        \A i, j \in DOMAIN s : s[i] = s[j] => i = j}

Listed(s) == {s[i] : i \in DOMAIN s}

Init ==
    /\ request \in Lists
    /\ wanted \in [Assets -> {"none", "add", "delete"}]
    /\ \A x \in Assets \ Listed(request) : wanted[x] = "none"
    /\ known \in BOOLEAN
    /\ arr = request
    /\ len = Len(request)
    /\ index = 0
    /\ op = wanted
    /\ bucket = {x \in Listed(request) : wanted[x] # "add"}
    /\ file = <<>>
    /\ pc = "loop"

\* The asset of this iteration: assetList is as long as the array.
Current == arr[index + 1]

Visiting(o) ==
    /\ pc = "loop"
    /\ index < Len(arr)
    /\ op[Current] = o

Keep ==
    /\ Visiting("none")
    /\ index' = index + 1
    /\ UNCHANGED <<input, arr, len, op, bucket, file, pc>>

\* info is a nil pointer: reading info.bucket panics and net/http ends the
\* request; nothing is written.
NoInfo ==
    /\ Visiting("add") \/ Visiting("delete")
    /\ ~ known
    /\ pc' = "panic"
    /\ UNCHANGED <<input, arr, len, index, op, bucket, file>>

Add ==
    /\ Visiting("add")
    /\ known
    /\ bucket' = bucket \cup {Current}
    /\ op' = [op EXCEPT ![Current] = "none"]
    /\ index' = index + 1
    /\ UNCHANGED <<input, arr, len, file, pc>>

\* Mutant of ShiftDown: the element at index stays.
ShiftDownKeepsFirst ==
    [i \in DOMAIN arr |-> IF index + 1 < i /\ i < len THEN arr[i + 1] ELSE arr[i]]

\* append(app.Assets[:index], app.Assets[index+1:]...) on a list that index
\* lies in: the elements up to len move down and the array keeps its last one.
ShiftDown ==
    [i \in DOMAIN arr |-> IF index < i /\ i < len THEN arr[i + 1] ELSE arr[i]]

\* Mutant of Delete: the key is read after the removal.
DeleteAfterShift ==
    /\ Visiting("delete")
    /\ known
    /\ bucket' = bucket \ {ShiftDown[index + 1]}
    /\ arr' = ShiftDown
    /\ len' = IF len > 1 THEN len - 1 ELSE 0
    /\ index' = index + 1
    /\ UNCHANGED <<input, op, file, pc>>

\* Mutant of Delete: the loop stays at its index and has no case for a short list.
DeleteStays ==
    /\ Visiting("delete")
    /\ known
    /\ len <= 1 \/ index + 1 <= len
    /\ bucket' = bucket \ {Current}
    /\ arr' = ShiftDown
    /\ len' = len - 1
    /\ UNCHANGED <<input, index, op, file, pc>>

\* With one element or none left, app.Assets becomes empty, whatever is in it.
Delete ==
    /\ Visiting("delete")
    /\ known
    /\ len <= 1 \/ index + 1 <= len
    /\ bucket' = bucket \ {Current}
    /\ arr' = IF len > 1 THEN ShiftDown ELSE arr
    /\ len' = IF len > 1 THEN len - 1 ELSE 0
    /\ index' = index + 1
    /\ UNCHANGED <<input, op, file, pc>>

\* app.Assets[index+1:] is out of range.
DeletePanics ==
    /\ Visiting("delete")
    /\ known
    /\ len > 1 /\ index + 1 > len
    /\ bucket' = bucket \ {Current}
    /\ pc' = "panic"
    /\ UNCHANGED <<input, arr, len, index, op, file>>

WriteFile ==
    /\ pc = "loop"
    /\ index = Len(arr)
    /\ file' = SubSeq(arr, 1, len)
    /\ pc' = "done"
    /\ UNCHANGED <<input, arr, len, index, op, bucket>>

Next == Keep \/ NoInfo \/ Add \/ Delete \/ DeletePanics \/ WriteFile

Spec == Init /\ [][Next]_vars

-----------------------------------------------------------------------------
(* Properties                                                              *)

\* app.Assets stays within the array it shares with assetList, and the loop
\* within assetList.
TypeOK ==
    /\ arr \in [DOMAIN request -> Listed(request)]
    /\ len \in 0 .. Len(arr)
    /\ index \in 0 .. Len(arr)
    /\ op \in [Assets -> {"none", "add", "delete"}]
    /\ bucket \subseteq Assets
    /\ pc \in {"loop", "done", "panic"}

\* The positions of the assets that the request wants to keep, and those assets.
KeptAt == {i \in DOMAIN request : wanted[request[i]] # "delete"}
Kept == {request[i] : i \in KeptAt}

\* The file lists the assets to keep, each once, in the order of the request.
FileListsKept ==
    \E at \in [DOMAIN file -> KeptAt] :
        /\ \A i, j \in DOMAIN file : i < j => at[i] < at[j]
        /\ \A k \in KeptAt : \E i \in DOMAIN file : at[i] = k
        /\ \A i \in DOMAIN file : file[i] = request[at[i]]

\* What the request asks for has been done.
AsRequested ==
    /\ pc = "done"
    /\ FileListsKept
    /\ bucket = Kept
    /\ \A x \in Kept : op[x] = "none"

\* Whatever the loop skips or visits twice, the bucket loses no asset that was
\* not to be deleted and gains none that was not to be added, and no asset is
\* stored as done that was not.
BucketOnlyAsAsked ==
    /\ \A x \in Listed(request) : wanted[x] = "none" => x \in bucket
    /\ \A x \in bucket : wanted[x] = "add" => op[x] = "none"
    /\ \A x \in Listed(request) : wanted[x] = "add" /\ op[x] = "none" => x \in bucket

\* A request with one deletion at most, and every addition before it, does
\* what it asks for, if the application is known.
OneDeletionWorks ==
    (/\ known
     /\ \A i, j \in DOMAIN request :
          wanted[request[i]] = "delete" /\ i < j => wanted[request[j]] = "none")
        => pc # "panic" /\ (pc = "done" => AsRequested)

\* "Creating a copy of assets supplied in order to delte entries from there"
\* (http_handlers.go): deleting from the one list does not disturb the loop
\* over the other, so every accepted request ends as it asks.
LoopUndisturbed == known => pc # "panic" /\ (pc = "done" => AsRequested)
=============================================================================
