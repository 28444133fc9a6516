--------------------------- MODULE MCAppServices ---------------------------
(* Small instances of AppServices.                                         *)
EXTENDS AppServices, TLC

CONSTANTS a1, a2, c1, c2

MCApps == {a1, a2}
MCCalls == {c1, c2}

\* The first call's mail is plain, the second's has a sign of the form in its
\* subject or in its body.
Texts(sign) ==
    (c1 :> [to |-> <<"you">>, subject |-> <<"hi">>, body |-> <<"text">>]) @@
    (c2 :> [to |-> <<"you">>,
            subject |-> IF sign = "&" THEN <<"a", sign, "b">> ELSE <<"hi">>,
            body |-> IF sign = "=" THEN <<"a", sign, "b">> ELSE <<"text">>])

Scene(apps, stores, mail, patient, kind1, kind2, mailers) ==
    [apps |-> apps, stores |-> stores, mail |-> mail, patient |-> patient,
     kind |-> (c1 :> kind1 @@ c2 :> kind2), mailers |-> mailers, text |-> Texts(IF kind2 = "POST" THEN "&" ELSE "=")]

MCScenes ==
    \* one application, and a redeployment that waits for the one before
    {Scene({a1}, 2, {a1}, TRUE, "GET", "POST", {c2}),
     Scene({a1}, 2, {a1}, TRUE, "GET", "update", {c1, c2})}
    \* the same without mail settings
    \cup {Scene({a1}, 2, {}, TRUE, "GET", "static", {c1})}
    \* two applications
    \cup {Scene({a1, a2}, 3, {a1}, TRUE, "none", "static", {})}
    \* redeployments that overtake each other
    \cup {Scene({a1}, 2, {a1}, FALSE, "none", "none", {})}
=============================================================================
