--------------------------- MODULE MCMathPreview ---------------------------
(***************************************************************************)
(* Three equations, two of them in one buffer, with every outcome.         *)
(***************************************************************************)
EXTENDS MathPreview, TLC

TwoBuffers == "e1" :> "b1" @@ "e2" :> "b2" @@ "e3" :> "b1"
AllOutcomes ==
    "e1" :> {"image"} @@ "e2" :> {"image", "mismatch"} @@ "e3" :> {"errors", "throws"}
=============================================================================
