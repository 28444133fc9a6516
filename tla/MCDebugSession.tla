--------------------------- MODULE MCDebugSession ---------------------------
(* Requests and workers for the instance of DebugSession.                  *)
EXTENDS DebugSession, TLC

CONSTANTS w1, w2, r1, r2, a1, a2

CONSTANTS s1, s2

Pair(k1, k2) == [r \in Requests |-> IF r = r1 THEN k1 ELSE k2]

Scene(kinds, workers, sessions, serially, calmly) ==
    [kinds |-> kinds, workers |-> workers, sessions |-> sessions,
     serial |-> serially, calm |-> calmly]

\* Two requests to one worker, of kinds whose responses end the wait and of kinds
\* whose responses do not; requests while a second worker is deployed, in the place
\* of the first or beside it; a session around a request; two sessions.
MCScenes ==
    {Scene(Pair("listbreakpoints", "listbreakpoints"), {w1}, {}, TRUE, TRUE),
     Scene(Pair("setbreakpoint", "evaluate"), {w1}, {}, TRUE, TRUE),
     Scene(Pair("evaluate", "clearbreakpoint"), {w1}, {}, FALSE, TRUE),
     Scene(Pair("setbreakpoint", "continue"), {w1}, {}, FALSE, TRUE),
     Scene(Pair("evaluate", "none"), {w1, w2}, {}, TRUE, TRUE),
     Scene(Pair("listbreakpoints", "lookup"), {w1}, {s1}, TRUE, TRUE),
     Scene(Pair("none", "none"), {w1}, {s1, s2}, TRUE, TRUE),
     Scene(Pair("none", "none"), {w1, w2}, {s1, s2}, TRUE, FALSE)}

\* One application is deployed, the other is not.
MCBoot == [a \in Apps |-> IF a = a1 THEN w1 ELSE Nothing]
=============================================================================
