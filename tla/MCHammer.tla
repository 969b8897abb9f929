------------------------------ MODULE MCHammer ------------------------------
(***************************************************************************)
(* Two fingers or two buttons and two places, with the options that the    *)
(* slide deck uses and some that it does not.                              *)
(***************************************************************************)
EXTENDS Hammer

\* Down from one to the other, and left from the other to the one.
TwoPlaces == {[x |-> 0, y |-> 0], [x |-> 1, y |-> 1]}
Defaults == [drag |-> TRUE, drag_vertical |-> TRUE, drag_horizontal |-> TRUE,
             transform |-> TRUE, tap |-> TRUE, tap_double |-> TRUE, hold |-> TRUE]
SomeOptions ==
    {Defaults, [Defaults EXCEPT !.hold = FALSE, !.drag_vertical = FALSE]}
=============================================================================
