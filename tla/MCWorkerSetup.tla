--------------------------- MODULE MCWorkerSetup ---------------------------
(* Applications, configurations and scripts for the instance of WorkerSetup. *)
EXTENDS WorkerSetup, SequencesExt

CONSTANTS a1, a2, d1, d2

CodeOf(text, top, handlers) == [text |-> text, top |-> top, handlers |-> handlers]
Fine == CodeOf(<<"a">>, "fine", TRUE)

Conf(source, buckets, queues, code) ==
    [source |-> source, buckets |-> buckets, queues |-> queues, code |-> code]

B(alias, name) == [alias |-> alias, name |-> name]
Q(provider, alias, name) == [provider |-> provider, alias |-> alias, name |-> name]

\* One bucket and one queue; a second version of the same application; another one;
\* one that shares the list of the first.
First == Conf("src1", <<B(1, "b1")>>, <<Q(1, 2, "q1")>>, Fine)
Second == Conf("src2", <<B(2, "b2")>>, <<Q(1, 1, "q1")>>, Fine)
Other == Conf("src2", <<B(1, "b2")>>, <<Q(2, 1, "q2")>>, Fine)
Shares == Conf("src2", <<B(1, "b2")>>, <<Q(2, 1, "q1")>>, Fine)

Pair(x, y) == [d \in Setups |-> IF d = d1 THEN x ELSE y]

Scene(apps, stored, setups, waits, slow, refuses) ==
    [app |-> apps, stored |-> stored, setups |-> setups, waits |-> waits, slow |-> slow,
     refuses |-> refuses]

Together ==
    {Scene(Pair(a1, a1), Pair(First, Second), {d1, d2}, TRUE, slow, FALSE) : slow \in BOOLEAN}
    \cup {Scene(Pair(a1, a2), Pair(First, Other), {d1, d2}, waits, TRUE, FALSE)
            : waits \in BOOLEAN}
    \cup {Scene(Pair(a1, a2), Pair(First, Shares), {d1, d2}, TRUE, TRUE, FALSE)}
    \cup {Scene(Pair(a1, a1), Pair(First, Second), {d1, d2}, FALSE, FALSE, FALSE)}

\* Configurations and scripts that are not like the first.
Odd ==
    {Conf("src1", <<>>, <<>>, Fine),
     Conf("src1", <<B(2, "b2"), B(1, "b1"), B(2, "b3")>>, <<Q(1, 3, "q1")>>, Fine),
     Conf("src1", <<B(1, "b1")>>, <<Q(2, 3, "q1"), Q(1, 2, "q2"), Q(2, 2, "q2")>>, Fine),
     Conf("src1", <<B(1, "b1")>>, <<Q(1, 1, "long")>>, Fine),
     Conf("src1", <<B(N1qlAlias, "b1")>>, <<Q(1, 2, "q1")>>, Fine)}
    \cup {Conf("src1", <<B(1, "b1")>>, <<Q(1, 2, "q1")>>, CodeOf(<<"a">>, top, handlers)) :
            top \in {"fine", "syntax", "throws", "alias", "timer"}, handlers \in BOOLEAN}

Single(conf, refuses) ==
    Scene(Pair(a1, a1), Pair(conf, conf), {d1}, TRUE, TRUE, refuses)

\* All scripts of up to four tokens, and scripts of up to three lines, each with
\* calls alone, nested, side by side, or broken off.
Alphabet == {EnqueueOpen, Comma, Close, Quote, N1qlOpen, Newline, "a"}
CallE(x, y) == <<EnqueueOpen, x, Comma, y, Close>>
CallN(x) == <<N1qlOpen, x, Quote, Close>>
Lines ==
    {<<>>, <<"a">>, CallE("a", "b"), CallN("a"), <<"a">> \o CallE("b", "c") \o <<"d">>,
     CallN("a") \o <<"b", Close>>, CallE("a", "b") \o CallE("c", "d"),
     CallN("a") \o CallN("b"), CallE("a", "b") \o <<"c", Close>>,
     <<EnqueueOpen, "a", Comma>> \o CallN("b") \o <<Close>>, <<EnqueueOpen, "a", Comma>>}
Scripts ==
    BoundedSeq(Alphabet, 4)
    \cup {x \o <<Newline>> \o y : x \in Lines, y \in Lines}
    \cup {x \o <<Newline>> \o y \o <<Newline>> \o z : x \in Lines, y \in Lines, z \in Lines}

Texts == {[First EXCEPT !.code = CodeOf(text, "throws", TRUE)] : text \in Scripts}

MCScenes ==
    Together \cup {Single(conf, FALSE) : conf \in Odd \cup Texts} \cup {Single(First, TRUE)}
=============================================================================
