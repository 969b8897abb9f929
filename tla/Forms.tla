-------------------------------- MODULE Forms --------------------------------
(***************************************************************************)
(* The vocabulary in which the `use-package' forms of .emacs.d/setup are   *)
(* written down: the tasks a form gives rise to, and the record of what    *)
(* its keywords say.                                                       *)
(***************************************************************************)
EXTENDS Sequences

T(op, arg)  == [op |-> op, arg |-> arg, left |-> 0]

Use(d)      == T("use", d)        \* evaluate the form d
Require(f)  == T("require", f)    \* (require 'f)
Call(d)     == T("call", d)       \* call a command of the package of form d

\* The end of an `ignore-errors' round the file that the form d is in.
EndCatch(d) == T("catch", d)

\* Evaluate the rest of form d once its first n :after features are loaded.
Await(d, n) == [op |-> "await", arg |-> d, left |-> n]

\* (use-package f), no keywords.  The fields are, in the order in which the
\* macro handles the keywords: when and unless the facts :if tests, after the
\* flattened :after, init and config the forms, `require's and commands of
\* those sections, defer "t" for :defer t and "idle" for :defer N, commands
\* whether :commands, :bind, :mode, :interpreter or :hook names a function,
\* initHook whether :hook puts it on after-init-hook.
Form(f) ==
    [feature |-> f, disabled |-> FALSE, when |-> {}, unless |-> {},
     noRequire |-> FALSE, after |-> <<>>, commands |-> FALSE,
     init |-> <<>>, defer |-> "no", demand |-> FALSE, config |-> <<>>,
     initHook |-> FALSE]

\* The shapes most of the forms have.
Deferring(f)  == [Form(f) EXCEPT !.defer = "t"]
Commanding(f) == [Form(f) EXCEPT !.defer = "t", !.commands = TRUE]
Demanding(f)  == [Form(f) EXCEPT !.demand = TRUE]
=============================================================================
