------------------------------ MODULE MCSkewer ------------------------------
(***************************************************************************)
(* Two pages that load, close and switch skewer on and off, with messages  *)
(* to a handler that always answers and to one that does as it pleases.    *)
(***************************************************************************)
EXTENDS Skewer

SomeTypes == {"ping", "custom"}
=============================================================================
