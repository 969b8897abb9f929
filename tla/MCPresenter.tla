---------------------------- MODULE MCPresenter ----------------------------
(***************************************************************************)
(* Three slides, the middle one with a list of two items that fade.        *)
(***************************************************************************)
EXTENDS Presenter

TwoItems == [s \in 0 .. 2 |-> IF s = 1 THEN 2 ELSE 0]
Middle == {1}

\* A deck opened at its first slide, in presenter mode at the second, with the
\* query at the second, and past the last one.
FourStarts ==
    {[hash |-> 0, query |-> "absent", stored |-> FALSE],
     [hash |-> 2, query |-> "absent", stored |-> TRUE],
     [hash |-> 2, query |-> "true", stored |-> FALSE],
     [hash |-> 4, query |-> "false", stored |-> TRUE]}

\* Clicks without touches, and the other way round.
TwoSettings == {[areas |-> TRUE, touch |-> FALSE], [areas |-> FALSE, touch |-> TRUE]}
=============================================================================
