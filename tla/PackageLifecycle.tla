--------------------------- MODULE PackageLifecycle ---------------------------
(***************************************************************************)
(* What use-package promises of each form, told as the statuses of the     *)
(* table that M-x use-package-report shows: Declared, "the use-package     *)
(* declaration was seen"; Initialized, ":init has been processed";         *)
(* Configured, ":config has been processed (the package is loaded!)".      *)
(***************************************************************************)


CONSTANTS
    Features,   \* the libraries
    Decls,      \* the use-package forms
    Feature,    \* the library a form is about
    After,      \* the libraries its :after names
    Standalone      \* the forms that do without their library

VARIABLES
    stage,      \* the status of each form
    loaded      \* the libraries loaded so far

vars == <<stage, loaded>>

Init ==
    /\ stage = [d \in Decls |-> "none"]
    /\ loaded = {}

Declare(d) ==
    /\ stage[d] = "none"
    /\ stage' = [stage EXCEPT ![d] = "declared"]
    /\ UNCHANGED loaded

Initialize(d) ==
    /\ stage[d] = "declared"
    /\ After[d] \subseteq loaded
    /\ stage' = [stage EXCEPT ![d] = "initialized"]
    /\ UNCHANGED loaded

Load(f) ==
    /\ loaded' = loaded \cup {f}
    /\ UNCHANGED stage

Configure(d) ==
    /\ stage[d] = "initialized"
    /\ d \in Standalone \/ Feature[d] \in loaded
    /\ stage' = [stage EXCEPT ![d] = "configured"]
    /\ UNCHANGED loaded

Next ==
    \/ \E d \in Decls : Declare(d) \/ Initialize(d) \/ Configure(d)
    \/ \E f \in Features : Load(f)

Spec == Init /\ [][Next]_vars
=============================================================================
