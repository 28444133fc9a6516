----------------------------- MODULE HttpReply -----------------------------
(***************************************************************************)
(* What a request is promised: each call of a handler is on its own.  It   *)
(* is refused, or it runs, may write to its response, and is answered once *)
(* with what it wrote, whatever other calls do meanwhile.  Calls that are  *)
(* no requests end without an answer.                                      *)
(***************************************************************************)
CONSTANTS
    Calls,      \* calls of handlers
    NoAnswer    \* a call has not been answered

VARIABLES
    stage,      \* "new", "open", "done" or "failed", per call
    wrote,      \* the calls that wrote to their response
    answer      \* per call, the writers of the fields of its answer

vars == <<stage, wrote, answer>>

Init ==
    /\ stage = [c \in Calls |-> "new"]
    /\ wrote = {}
    /\ answer = [c \in Calls |-> NoAnswer]

Start(c) ==
    /\ stage[c] = "new"
    /\ \E s \in {"open", "failed", "done"} : stage' = [stage EXCEPT ![c] = s]
    /\ UNCHANGED <<wrote, answer>>

Write(c) ==
    /\ stage[c] = "open"
    /\ wrote' = wrote \cup {c}
    /\ UNCHANGED <<stage, answer>>

Answer(c) ==
    /\ stage[c] = "open"
    /\ stage' = [stage EXCEPT ![c] = "done"]
    /\ answer' = [answer EXCEPT ![c] = {c} \cap wrote]
    /\ UNCHANGED wrote

End(c) ==
    /\ stage[c] = "open"
    /\ stage' = [stage EXCEPT ![c] = "done"]
    /\ UNCHANGED <<wrote, answer>>

Next == \E c \in Calls : Start(c) \/ Write(c) \/ Answer(c) \/ End(c)

Spec == Init /\ [][Next]_vars
=============================================================================
