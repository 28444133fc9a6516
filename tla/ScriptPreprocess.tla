-------------------------- MODULE ScriptPreprocess --------------------------
(***************************************************************************)
(* The two regular-expression passes that WorkerLoad makes over the source *)
(* of an application before V8 compiles it: queue operations become        *)
(* property accesses, n1ql calls become tagged template literals.  A       *)
(* script is a sequence of tokens, among them the pieces that the          *)
(* expressions look for; everything else is a word.                        *)
(***************************************************************************)
EXTENDS Naturals, Sequences, FiniteSetsExt

CONSTANT Vocabulary  \* the words that scripts are written with

EnqueueOpen == "enqueue"
Comma == "comma"
Close == "close"
Quote == "quote"
N1qlOpen == "n1ql"
Newline == "newline"
Back == "backquote"
N1qlTag == "n1ql-template"

Delimiters == {EnqueueOpen, Comma, Close, Quote, N1qlOpen, "[", "]", Back, N1qlTag}
Tokens == Vocabulary \cup Delimiters \cup {Newline}

From(s, p) == SubSeq(s, p, Len(s))

\* The positions after i on the line of i: a dot matches no newline.
RestOfLine(s, i) ==
    {j \in (i + 1)..Len(s) : \A k \in i..j : s[k] # Newline}

-----------------------------------------------------------------------------
(* The expression for enqueue has two greedy stars, so the comma is the    *)
(* last of the line that a parenthesis follows, the parenthesis its last.  *)

Closes(s, i) == {k \in RestOfLine(s, i) : s[k] = Close}
Commas(s, i) == {j \in RestOfLine(s, i) : s[j] = Comma /\ \E k \in Closes(s, i) : k > j}

EnqueueAt(s, p) == {i \in p..Len(s) : s[i] = EnqueueOpen /\ Commas(s, i) # {}}

\* alias[doc] for the call that opens at i, with its comma at j, and closes at k.
AsProperty(s, i, j, k) ==
    SubSeq(s, i + 1, j - 1) \o <<"[">> \o SubSeq(s, j + 1, k - 1) \o <<"]">>

\* The first loop, from position p on: what precedes the leftmost match, the match as
\* alias[doc], and the same for what follows it.
EnqueueRest(s) ==
    LET rest[p \in 1..(Len(s) + 1)] ==
            IF EnqueueAt(s, p) = {} THEN From(s, p)
            ELSE LET i == Min(EnqueueAt(s, p))
                     k == Max(Closes(s, i))
                 IN  SubSeq(s, p, i - 1) \o AsProperty(s, i, Max(Commas(s, i)), k) \o rest[k + 1]
    IN  rest

\* Mutant of Enqueue: an if in place of the while.
EnqueueOnce(s) ==
    IF EnqueueAt(s, 1) = {} THEN s
    ELSE LET i == Min(EnqueueAt(s, 1))
             k == Max(Closes(s, i))
         IN  SubSeq(s, 1, i - 1) \o AsProperty(s, i, Max(Commas(s, i)), k) \o From(s, k + 1)

Enqueue(s) == EnqueueRest(s)[1]

-----------------------------------------------------------------------------
(* The expression for n1ql goes from the leftmost opening to the last      *)
(* closing quote and parenthesis of its line.                              *)

Ends(s, i) == {k \in RestOfLine(s, i) : k < Len(s) /\ s[k] = Quote /\ s[k + 1] = Close}

N1qlAt(s, p) == {i \in p..Len(s) : s[i] = N1qlOpen /\ Ends(s, i) # {}}

\* The template literal for the call that opens at i and whose string ends at k.
AsTemplate(s, i, k) == <<N1qlTag>> \o SubSeq(s, i + 1, k - 1) \o <<Back>>

\* Mutant of N1qlRest: the prefix of a match is not copied.
N1qlNoPrefix(s) ==
    LET rest[p \in 1..(Len(s) + 1)] ==
            IF N1qlAt(s, p) = {} THEN From(s, p)
            ELSE LET i == Min(N1qlAt(s, p))
                     k == Max(Ends(s, i))
                 IN  AsTemplate(s, i, k) \o rest[k + 2]
    IN  rest

\* The second loop, from position p on.
N1qlRest(s) ==
    LET rest[p \in 1..(Len(s) + 1)] ==
            IF N1qlAt(s, p) = {} THEN From(s, p)
            ELSE LET i == Min(N1qlAt(s, p))
                     k == Max(Ends(s, i))
                 IN  SubSeq(s, p, i - 1) \o AsTemplate(s, i, k) \o rest[k + 2]
    IN  rest

N1ql(s) == N1qlRest(s)[1]

\* Both passes.  builtin.js, which is the same for all scripts, follows unchanged.
Preprocess(s) == N1ql(Enqueue(s))

-----------------------------------------------------------------------------
(* The rewriting that the comments ask for: each call by itself, from its  *)
(* opening to the first token that can close it.                           *)

CommasOn(s, i) == {j \in RestOfLine(s, i) : s[j] = Comma}

MeantCall(s, i) ==
    CASE s[i] = EnqueueOpen /\ CommasOn(s, i) # {} /\ Closes(s, i) # {} ->
           LET k == Min(Closes(s, i))
           IN  [text |-> AsProperty(s, i, Min(CommasOn(s, i)), k), next |-> k + 1]
      [] s[i] = N1qlOpen /\ Ends(s, i) # {} ->
           LET k == Min(Ends(s, i))
           IN  [text |-> AsTemplate(s, i, k), next |-> k + 2]
      [] OTHER -> [text |-> <<s[i]>>, next |-> i + 1]

MeantRest(s) ==
    LET rest[p \in 1..(Len(s) + 1)] ==
            IF p > Len(s) THEN <<>>
            ELSE MeantCall(s, p).text \o rest[MeantCall(s, p).next]
    IN  rest

Meant(s) == MeantRest(s)[1]

AtMostOne(positions) == \A x, y \in positions : x = y

\* Calls that the greedy expressions take as they are meant: each the only one of
\* its line, an enqueue with one comma and then one parenthesis, an n1ql with one
\* place where its string can end.
Plain(s) ==
    \A i \in 1..Len(s) : s[i] \in {EnqueueOpen, N1qlOpen} =>
        LET line == RestOfLine(s, i)
        IN  /\ \A j \in line : s[j] \notin {EnqueueOpen, N1qlOpen}
            /\ s[i] = EnqueueOpen =>
                  /\ AtMostOne(Closes(s, i))
                  /\ AtMostOne(CommasOn(s, i))
                  /\ \A j \in CommasOn(s, i), k \in Closes(s, i) : j < k
            /\ s[i] = N1qlOpen => AtMostOne(Ends(s, i))

-----------------------------------------------------------------------------
IsWord(token) == token \notin Delimiters

\* A script without its delimiters: SelectSeq(s, IsWord), from the end.
WordsRest(s) ==
    LET rest[p \in 1..(Len(s) + 1)] ==
            IF p > Len(s) THEN <<>>
            ELSE (IF IsWord(s[p]) THEN <<s[p]>> ELSE <<>>) \o rest[p + 1]
    IN  rest

Words(s) == WordsRest(s)[1]
=============================================================================
