------------------------------ MODULE MCBookmarks ------------------------------
(***************************************************************************)
(* Instances of Bookmarks: two lines, of which one can go or be added.   *)
(***************************************************************************)
EXTENDS Bookmarks

CONSTANTS a, b

ShortTexts == {<<a, b>>, <<b>>}
FileSymmetry == Permutations(Files)
=============================================================================
