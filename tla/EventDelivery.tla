--------------------------- MODULE EventDelivery ---------------------------
(***************************************************************************)
(* What an application is promised about the mutations of its source       *)
(* bucket: each one reaches its handlers at most once, the ones its own    *)
(* handlers wrote never do, and nothing else is ever withheld.             *)
(***************************************************************************)
EXTENDS Naturals, Sequences

CONSTANTS
    Apps,   \* application names
    Keys,   \* document keys
    User    \* the author of a mutation that no handler made

VARIABLES
    log,      \* mutations of the source bucket; the position is the CAS value
    handled,  \* per application, the mutations its handlers were called for
    ignored   \* per application, the mutations withheld from its handlers

vars == <<log, handled, ignored>>

Mutation == [key : Keys, op : {"set", "del"}, by : Apps \cup {User}]

\* A document the handlers of a stored themselves.
Own(a, c) == log[c].by = a /\ log[c].op = "set"

Open(a, c) == c \in 1 .. Len(log) /\ c \notin handled[a] \cup ignored[a]

Init ==
    /\ log = <<>>
    /\ handled = [a \in Apps |-> {}]
    /\ ignored = [a \in Apps |-> {}]

Write(m) ==
    /\ log' = Append(log, m)
    /\ UNCHANGED <<handled, ignored>>

Handle(a, c) ==
    /\ Open(a, c)
    /\ ~ Own(a, c)
    /\ handled' = [handled EXCEPT ![a] = @ \cup {c}]
    /\ UNCHANGED <<log, ignored>>

Ignore(a, c) ==
    /\ Open(a, c)
    /\ Own(a, c)
    /\ ignored' = [ignored EXCEPT ![a] = @ \cup {c}]
    /\ UNCHANGED <<log, handled>>

Next ==
    \/ \E m \in Mutation : Write(m)
    \/ \E a \in Apps : \E c \in 1 .. Len(log) : Handle(a, c) \/ Ignore(a, c)

Spec == Init /\ [][Next]_vars
=============================================================================
