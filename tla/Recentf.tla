-------------------------------- MODULE Recentf --------------------------------
(***************************************************************************)
(* The list of recently visited files, setup-recentf.el.  Every Emacs      *)
(* instance has its own list; the file is shared.  The configuration       *)
(* replaces `recentf-save-list' so that an instance reads the file again   *)
(* and merges before it writes.  There is no lock: another instance may    *)
(* save between the read and the write, and an instance may be killed.     *)
(***************************************************************************)
EXTENDS Naturals, SequencesExt

CONSTANTS
    Instances,  \* Emacs processes, each of which may be started again
    Files,      \* the files there are to visit
    Limit       \* recentf-max-saved-items

ASSUME LimitAssumption == Limit \in Nat \ {0}

VARIABLES
    stage,      \* what an instance is doing
    list,       \* its `recentf-list', most recent first
    copy,       \* its `instance-list', while it saves
    visited,    \* the files visited in its session so far
    saved,      \* whether the file exists
    disk        \* the list in the file

vars == <<stage, list, copy, visited, saved, disk>>

\* "saving" is a save on command, "exiting" one from kill-emacs-hook.
Stages == {"off", "up", "saving", "exiting"}

Init ==
    /\ stage = [i \in Instances |-> "off"]
    /\ list = [i \in Instances |-> <<>>]
    /\ copy = [i \in Instances |-> <<>>]
    /\ visited = [i \in Instances |-> {}]
    /\ saved = FALSE
    /\ disk = <<>>

\* `recentf-load-list' leaves the list alone when the file is not there.
Loaded(old) == IF saved THEN disk ELSE old

\* `recentf-mode' loads the file.
Start(i) ==
    /\ stage[i] = "off"
    /\ stage' = [stage EXCEPT ![i] = "up"]
    /\ list' = [list EXCEPT ![i] = Loaded(@)]
    /\ UNCHANGED <<copy, visited, saved, disk>>

\* `recentf-add-file', on find-file-hook.
Visit(i, f) ==
    /\ stage[i] = "up"
    /\ list' = [list EXCEPT ![i] = <<f>> \o RemoveFirst(@, f)]
    /\ visited' = [visited EXCEPT ![i] = @ \cup {f}]
    /\ UNCHANGED <<stage, copy, saved, disk>>

\* Mutant: the session's list is not set aside.
BeginSaveUncopied(i, next) ==
    /\ stage[i] = "up"
    /\ stage' = [stage EXCEPT ![i] = next]
    /\ list' = [list EXCEPT ![i] = Loaded(@)]
    /\ UNCHANGED <<copy, visited, saved, disk>>

\* `recentf-save-list': the list is set aside and the file read.
BeginSave(i, next) ==
    /\ stage[i] = "up"
    /\ stage' = [stage EXCEPT ![i] = next]
    /\ copy' = [copy EXCEPT ![i] = list[i]]
    /\ list' = [list EXCEPT ![i] = Loaded(@)]
    /\ UNCHANGED <<visited, saved, disk>>

\* Mutant: `push' for `add-to-list'.
MergePushing(old, other) == FoldLeft(LAMBDA l, f : <<f>> \o l, old, other)

\* `recentf-merge-with-default-list': `add-to-list' puts each file that the
\* list does not have at its front, so that the most recent comes out last.
Merge(old, other) ==
    FoldLeft(LAMBDA l, f : IF f \in Range(l) THEN l ELSE <<f>> \o l, old, other)

Saving(i) == stage[i] \in {"saving", "exiting"}

\* After a save the instance goes on, or exits.
Finish(i, merged) ==
    /\ copy' = [copy EXCEPT ![i] = <<>>]
    /\ \/ /\ stage[i] = "saving"
          /\ stage' = [stage EXCEPT ![i] = "up"]
          /\ list' = [list EXCEPT ![i] = merged]
          /\ UNCHANGED visited
       \/ /\ stage[i] = "exiting"
          /\ stage' = [stage EXCEPT ![i] = "off"]
          /\ list' = [list EXCEPT ![i] = <<>>]
          /\ visited' = [visited EXCEPT ![i] = {}]

FirstItems(s) == SubSeq(s, 1, IF Len(s) < Limit THEN Len(s) ELSE Limit)

\* Mutant: the file is written before the lists are merged.
EndSaveUnmerged(i) ==
    /\ Saving(i)
    /\ saved' = TRUE
    /\ disk' = FirstItems(list[i])
    /\ Finish(i, Merge(list[i], copy[i]))

\* The rest of it: merge, and write no more items than the limit, ...
EndSave(i) ==
    LET merged == Merge(list[i], copy[i]) IN
    /\ Saving(i)
    /\ saved' = TRUE
    /\ disk' = FirstItems(merged)
    /\ Finish(i, merged)

\* ... or, should that fail, `warn' and go on.
EndSaveFails(i) ==
    /\ Saving(i)
    /\ Finish(i, Merge(list[i], copy[i]))
    /\ UNCHANGED <<saved, disk>>

\* The process is killed.
Crash(i) ==
    /\ stage[i] # "off"
    /\ stage' = [stage EXCEPT ![i] = "off"]
    /\ list' = [list EXCEPT ![i] = <<>>]
    /\ copy' = [copy EXCEPT ![i] = <<>>]
    /\ visited' = [visited EXCEPT ![i] = {}]
    /\ UNCHANGED <<saved, disk>>

Next ==
    \E i \in Instances :
      \/ Start(i)
      \/ \E f \in Files : Visit(i, f)
      \/ BeginSave(i, "saving") \/ BeginSave(i, "exiting")
      \/ EndSave(i) \/ EndSaveFails(i)
      \/ Crash(i)

Spec == Init /\ [][Next]_vars

-----------------------------------------------------------------------------
Distinct(s) == \A m, n \in DOMAIN s : s[m] = s[n] => m = n

\* Lists of files, none of them twice: neither in memory nor in the file do
\* the merges of several instances' lists repeat a file.
TypeOK ==
    /\ stage \in [Instances -> Stages]
    /\ visited \in [Instances -> SUBSET Files]
    /\ saved \in BOOLEAN
    /\ \A s \in {disk} \cup Range(list) \cup Range(copy) :
         s \in Seq(Files) /\ Distinct(s)
    /\ Len(disk) <= Limit

\* Whatever the other instances write meanwhile, and whether or not its saves
\* succeed, an instance never forgets a file of its session: while it runs, a
\* later save can still put it right.
SessionRemembered ==
    \A i \in Instances : stage[i] # "off" =>
      visited[i] \subseteq Range(list[i]) \cup Range(copy[i])

\* A write that no other write preceded since the read merges: a file of the
\* session, or one that the shared list had, is missing from it only when the
\* limit left no place for it.
Unraced(i) == list[i] = Loaded(list[i])
MergedWhenUnraced ==
    [][\A i \in Instances :
         EndSave(i) /\ Unraced(i) =>
           \/ visited[i] \cup Range(disk) \subseteq Range(disk')
           \/ Len(disk') = Limit]_vars
=============================================================================
