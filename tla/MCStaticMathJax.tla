-------------------------- MODULE MCStaticMathJax --------------------------
(***************************************************************************)
(* Pages with up to four script tags, or with up to three font rules.      *)
(***************************************************************************)
EXTENDS StaticMathJax

ThreeUrls == {"f.woff", "f.woff2", "own.woff"}
MathJaxUrls == {"f.woff", "f.woff2"}
Beginnings == {<<u, u>> : u \in ThreeUrls} \cup {<<"f.woff", "f.woff2">>}

Plainest ==
    [scripts |-> <<"MathJax.js">>, rules |-> <<>>, message |-> TRUE,
     readable |-> ThreeUrls, writable |-> TRUE]

SomeRules ==
    [url : ThreeUrls \cup {Plain}, inline : {TRUE}]
      \cup {[url |-> "f.woff", inline |-> FALSE], [url |-> NoUrl, inline |-> TRUE]}

SomePages ==
    {[Plainest EXCEPT !.scripts = s] : s \in UNION {[1 .. n -> Script] : n \in 0 .. 4}}
      \cup {[Plainest EXCEPT !.rules = r] : r \in UNION {[1 .. n -> SomeRules] : n \in 0 .. 3}}
      \cup {[Plainest EXCEPT !.message = FALSE], [Plainest EXCEPT !.writable = FALSE],
            [Plainest EXCEPT !.readable = {}, !.rules = <<[url |-> "f.woff", inline |-> TRUE]>>]}

\* Fonts embedded, fonts elsewhere, neither, and files that are not there.
SomeCommandLines ==
    {[embed |-> e, final |-> TRUE, source |-> TRUE, dest |-> TRUE] : e \in BOOLEAN}
      \cup {[embed |-> FALSE, final |-> FALSE, source |-> TRUE, dest |-> TRUE],
            [embed |-> TRUE, final |-> FALSE, source |-> FALSE, dest |-> TRUE],
            [embed |-> TRUE, final |-> FALSE, source |-> TRUE, dest |-> FALSE]}
=============================================================================
