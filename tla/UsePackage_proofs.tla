-------------------------- MODULE UsePackage_proofs --------------------------
(***************************************************************************)
(* Proofs about UsePackage, for any set of forms: types, the order of the  *)
(* sections of a form, the refinement of PackageLifecycle, the fate of     *)
(* forms that wait for one another, the commands that are called, that     *)
(* each form is run once, the functions on after-init-hook, the forms with *)
(* a way in of their own, and the errors that .emacs ignores.              *)
(***************************************************************************)
EXTENDS UsePackage, Folding, SequenceTheorems, FiniteSetTheorems, TLAPS

(***************************************************************************)
(* Tasks and sequences of tasks.                                           *)
(***************************************************************************)

\* The tasks the handlers make are tasks.
LEMMA TaskTypes ==
    /\ \A d \in Decls, op \in DeclOps : T(op, d) \in Task
    /\ \A f \in Features, op \in FeatureOps : T(op, f) \in Task
    /\ \A d \in Decls, n \in Nat : Await(d, n) \in Task
BY DEF T, Await, Task, DeclOps, FeatureOps

\* Use, Require, Call and EndCatch are such tasks.
LEMMA ScriptTaskTypes ==
    /\ \A d \in Decls : Call(d) \in Task
    /\ \A f \in Features : Require(f) \in Task
    /\ ScriptTask \subseteq Task
BY TaskTypes DEF Call, Require, ScriptTask, DeclOps, FeatureOps

\* A task for a form has a form as its argument, one for a library a library.
LEMMA TaskArgs ==
    ASSUME NEW t \in Task
    PROVE  /\ t.op \in DeclOps \cup {"await"} => t.arg \in Decls
           /\ t.op \in FeatureOps => t.arg \in Features
           /\ t.op = "await" => t.left \in Nat
BY DEF Task, DeclOps, FeatureOps

\* Work put in the place of the head task brings in that work, and no more.
LEMMA WorkProperties ==
    ASSUME NEW S, NEW s \in Seq(S), s # <<>>, NEW w \in Seq(S)
    PROVE  /\ w \o Tail(s) \in Seq(S)
           /\ Range(w \o Tail(s)) \subseteq Range(w) \cup Range(s)
<1>1. /\ Tail(s) \in Seq(S)
      /\ Len(Tail(s)) = Len(s) - 1
      /\ \A i \in 1..Len(Tail(s)) : Tail(s)[i] = s[i + 1]
  BY HeadTailProperties
<1>2. Len(s) \in Nat \ {0}
  BY EmptySeq
<1>3. /\ Range(Tail(s)) = {Tail(s)[i] : i \in 1..Len(Tail(s))}
      /\ Range(s) = {s[i] : i \in 1..Len(s)}
  BY <1>1, RangeEquality
<1>4. Range(Tail(s)) \subseteq Range(s)
  BY <1>1, <1>2, <1>3
<1>5. Range(w \o Tail(s)) = Range(w) \cup Range(Tail(s))
  BY <1>1, RangeConcatenation, Zenon
<1>6. w \o Tail(s) \in Seq(S)
  BY <1>1, ConcatProperties, Zenon
<1> QED
  BY <1>4, <1>5, <1>6, Zenon

\* Short sequences, written out.
LEMMA ShortSequences ==
    ASSUME NEW S
    PROVE  /\ <<>> \in Seq(S) /\ Range(<<>>) = {}
           /\ \A a \in S : <<a>> \in Seq(S) /\ Range(<<a>>) = {a}
<1>1. <<>> \in Seq(S) /\ Range(<<>>) = {}
  BY DEF Range
<1>2. \A a \in S : <<a>> \in Seq(S) /\ Range(<<a>>) = {a}
  BY DEF Range
<1> QED
  BY <1>1, <1>2

\* The head task dropped, or replaced by another.
LEMMA DropHead ==
    ASSUME NEW S, NEW s \in Seq(S), s # <<>>
    PROVE  /\ <<>> \o Tail(s) \in Seq(S)
           /\ Range(<<>> \o Tail(s)) \subseteq Range(s)
<1>1. PICK w \in Seq(S) : w = <<>> /\ Range(w) = {}
  BY ShortSequences
<1> QED
  BY <1>1, WorkProperties

LEMMA ReplaceHead ==
    ASSUME NEW S, NEW s \in Seq(S), s # <<>>, NEW e \in S
    PROVE  /\ <<e>> \o Tail(s) \in Seq(S)
           /\ Range(<<e>> \o Tail(s)) \subseteq {e} \cup Range(s)
<1>1. PICK w \in Seq(S) : w = <<e>> /\ Range(w) = {e}
  BY ShortSequences
<1>2. w \o Tail(s) \in Seq(S) /\ Range(w \o Tail(s)) \subseteq Range(w) \cup Range(s)
  BY WorkProperties
<1> QED
  BY <1>1, <1>2

\* What is left of a sequence from some position on.
LEMMA SuffixProperties ==
    ASSUME NEW S, NEW s \in Seq(S), NEW n \in 1..Len(s)
    PROVE  /\ SubSeq(s, n, Len(s)) \in Seq(S)
           /\ Range(SubSeq(s, n, Len(s))) \subseteq Range(s)
<1>1. Len(s) \in Nat /\ \A i \in n..Len(s) : s[i] \in S
  BY ElementOfSeq, LenProperties
<1>2. /\ SubSeq(s, n, Len(s)) \in Seq(S)
      /\ Len(SubSeq(s, n, Len(s))) = Len(s) - n + 1
      /\ \A i \in 1..(Len(s) - n + 1) : SubSeq(s, n, Len(s))[i] = s[n + i - 1]
  BY <1>1, SubSeqProperties
<1>3. /\ Range(SubSeq(s, n, Len(s))) =
           {SubSeq(s, n, Len(s))[i] : i \in 1..(Len(s) - n + 1)}
      /\ Range(s) = {s[i] : i \in 1..Len(s)}
  BY <1>2, RangeEquality
<1> QED
  BY <1>1, <1>2, <1>3

\* A sequence with an element, or two, added at its end.
LEMMA AddedRange ==
    ASSUME NEW S, NEW s \in Seq(S), NEW e \in S
    PROVE  /\ s \o <<e>> \in Seq(S)
           /\ Range(s \o <<e>>) = Range(s) \cup {e}
<1>1. <<e>> \in Seq(S) /\ Range(<<e>>) = {e}
  BY ShortSequences
<1>2. \A u \in Seq(S) : /\ s \o u \in Seq(S)
                        /\ Range(s \o u) = Range(s) \cup Range(u)
  BY ConcatProperties, RangeConcatenation, Zenon
<1> QED
  BY <1>1, <1>2

LEMMA AddedTwoRange ==
    ASSUME NEW S, NEW s \in Seq(S), NEW e \in S, NEW g \in S
    PROVE  /\ s \o <<e, g>> \in Seq(S)
           /\ Range(s \o <<e, g>>) = Range(s) \cup {e, g}
<1>1. <<e, g>> \in Seq(S) /\ Range(<<e, g>>) = {e, g}
  BY DEF Range
<1>2. \A u \in Seq(S) : /\ s \o u \in Seq(S)
                        /\ Range(s \o u) = Range(s) \cup Range(u)
  BY ConcatProperties, RangeConcatenation, Zenon
<1> QED
  BY <1>1, <1>2

LEMMA AppendRange ==
    ASSUME NEW S, NEW s \in Seq(S), NEW e \in S
    PROVE  /\ Append(s, e) \in Seq(S)
           /\ Range(Append(s, e)) = Range(s) \cup {e}
<1>1. Append(s, e) = s \o <<e>>
  BY AppendIsConcat
<1> QED
  BY <1>1, AddedRange

(***************************************************************************)
(* What a handler is promised stays true while things get loaded.          *)
(***************************************************************************)

\* No step unloads a library or takes a section back.
Grows ==
    /\ loaded \subseteq loaded'
    /\ seen \subseteq seen'
    /\ inited \subseteq inited'

\* The features after the n-th stay loaded.
LEMMA AfterLoadedGrows ==
    ASSUME Grows, NEW d, NEW n, AfterLoaded(d, n)
    PROVE  AfterLoaded(d, n)'
BY DEF Grows, AfterLoaded

\* A task that is ready stays so.
LEMMA ReadyGrows ==
    ASSUME Grows, NEW t, Ready(t)
    PROVE  Ready(t)'
<1>1. /\ AfterLoaded(t.arg, t.left) => AfterLoaded(t.arg, t.left)'
      /\ AfterLoaded(t.arg, 0) => AfterLoaded(t.arg, 0)'
  BY AfterLoadedGrows
<1> QED
  BY <1>1 DEF Ready, Grows, Inline, Deferred

\* So does what a waiting task has.
LEMMA StoredGrows ==
    ASSUME Grows, NEW f, NEW t, Stored(f, t)
    PROVE  Stored(f, t)'
<1>1. /\ AfterLoaded(t.arg, t.left + 1) => AfterLoaded(t.arg, t.left + 1)'
      /\ AfterLoaded(t.arg, 0) => AfterLoaded(t.arg, 0)'
  BY AfterLoadedGrows
<1> QED
  BY <1>1 DEF Stored, Grows

\* Only ready work on top of ready work.
LEMMA StackGrows ==
    ASSUME StackReady, Grows, NEW W, \A t \in W : Ready(t)',
           Range(todo') \subseteq W \cup Range(todo)
    PROVE  StackReady'
<1>1. \A t \in Range(todo) : Ready(t)'
  BY ReadyGrows DEF StackReady
<1> QED
  BY <1>1 DEF StackReady

LEMMA StackGrowsByOne ==
    ASSUME StackReady, Grows, NEW t, Ready(t)',
           Range(todo') \subseteq {t} \cup Range(todo)
    PROVE  StackReady'
<1>1. PICK W : W = {t}
  OBVIOUS
<1> QED
  BY <1>1, StackGrows

LEMMA StackShrinks ==
    ASSUME StackReady, Grows, Range(todo') \subseteq Range(todo)
    PROVE  StackReady'
<1>1. PICK W : W = {}
  OBVIOUS
<1> QED
  BY <1>1, StackGrows

\* What was configured in order stays so.
LEMMA SectionOrderGrows ==
    ASSUME SectionOrder, Grows, UNCHANGED configured
    PROVE  SectionOrder'
BY DEF SectionOrder, Grows, Inline, Deferred

\* Queues that do not change stay as they should be.
LEMMA QueuesGrow ==
    ASSUME QueuesReady, Grows, UNCHANGED afterLoad
    PROVE  QueuesReady'
BY StoredGrows DEF QueuesReady

(***************************************************************************)
(* The work the steps start from and the work they add.                    *)
(***************************************************************************)

\* What the assumption on the forms says of one form.
LEMMA DeclTypes ==
    ASSUME NEW d \in Decls
    PROVE  /\ Decl[d].feature \in Features
           /\ Decl[d].after \in Seq(Features)
           /\ Decl[d].init \in Seq(ScriptTask)
           /\ Decl[d].config \in Seq(ScriptTask)
BY DeclAssumption DEF DeclRecord

\* A section's own code has been promised nothing.
LEMMA ScriptReady ==
    /\ \A t \in ScriptTask : Ready(t) /\ Ready(t)'
    /\ \A s \in Seq(ScriptTask) :
         s \in Seq(Task) /\ Range(s) \subseteq ScriptTask
<1>1. \A t \in ScriptTask : Ready(t) /\ Ready(t)'
  BY DEF ScriptTask, Ready
<1>2. \A s \in Seq(ScriptTask) : s \in Seq(Task)
  BY ScriptTaskTypes, SeqMonotonic, Zenon
<1>3. \A s \in Seq(ScriptTask) : Range(s) \subseteq ScriptTask
  BY RangeOfSeq, Zenon
<1> QED
  BY <1>1, <1>2, <1>3

\* The head task is a task, and it is ready.
LEMMA HeadReady ==
    ASSUME IInv, todo # <<>>
    PROVE  /\ todo \in Seq(Task)
           /\ Now \in Task /\ Now \in Range(todo) /\ Ready(Now)
<1>1. todo \in Seq(Task) /\ StackReady
  BY DEF IInv, TypeOK
<1>2. Len(todo) \in Nat \ {0} /\ Range(todo) = {todo[i] : i \in 1..Len(todo)}
  BY <1>1, EmptySeq, RangeEquality
<1>3. 1 \in 1..Len(todo)
  BY <1>2
<1>4. Now \in Task
  BY <1>1, <1>3, ElementOfSeq DEF Now
<1>5. Now \in Range(todo)
  BY <1>2, <1>3 DEF Now
<1> QED
  BY <1>1, <1>4, <1>5 DEF StackReady

\* Everything but the stack is as it was.
OnlyTodo ==
    UNCHANGED <<env, phase, loaded, afterLoad, autoloads, idle, initHook,
                seen, inited, configured, called, lost>>

\* A step that only puts ready work on the stack keeps the invariant.
LEMMA TodoStep ==
    ASSUME IInv, OnlyTodo, todo' \in Seq(Task), NEW W,
           Range(todo') \subseteq W \cup Range(todo), \A t \in W : Ready(t)'
    PROVE  IInv'
<1>1. Grows
  BY DEF OnlyTodo, Grows
<1>2. TypeOK'
  BY DEF IInv, TypeOK, OnlyTodo
<1>3. StackReady'
  BY <1>1, StackGrows DEF IInv
<1>4. QueuesReady'
  BY <1>1, QueuesGrow DEF IInv, OnlyTodo
<1>5. StagesNest' /\ SectionOrder'
  BY <1>1, SectionOrderGrows DEF IInv, OnlyTodo, StagesNest
<1> QED
  BY <1>2, <1>3, <1>4, <1>5 DEF IInv

\* The same, for work that replaces the head task.
LEMMA ExpandStep ==
    ASSUME IInv, OnlyTodo, todo # <<>>,
           NEW w \in Seq(Task), todo' = w \o Tail(todo),
           \A t \in Range(w) : Ready(t)'
    PROVE  IInv'
<1>1. todo \in Seq(Task)
  BY DEF IInv, TypeOK
<1>2. todo' \in Seq(Task) /\ Range(todo') \subseteq Range(w) \cup Range(todo)
  BY <1>1, WorkProperties
<1> QED
  BY <1>2, TodoStep

(***************************************************************************)
(* The steps that only change the stack.                                   *)
(***************************************************************************)

\* Steps that are done with the head task.
LEMMA PopStep ==
    ASSUME IInv, OnlyTodo, todo # <<>>, Expand(<<>>)
    PROVE  IInv'
<1>1. <<>> \in Seq(Task) /\ Range(<<>>) = {}
  BY ShortSequences
<1>2. todo' = <<>> \o Tail(todo)
  BY DEF Expand
<1> QED
  BY <1>1, <1>2, ExpandStep

\* Steps whose head task gives way to one that is ready.
LEMMA ReplaceStep ==
    ASSUME IInv, OnlyTodo, todo # <<>>,
           NEW t \in Task, Ready(t)', todo' = <<t>> \o Tail(todo)
    PROVE  IInv'
<1>1. <<t>> \in Seq(Task) /\ Range(<<t>>) = {t}
  BY ShortSequences
<1> QED
  BY <1>1, ExpandStep

\* Steps whose head task gives way to two that are ready.
LEMMA ReplaceByTwoStep ==
    ASSUME IInv, OnlyTodo, todo # <<>>,
           NEW t \in Task, Ready(t)', NEW u \in Task, Ready(u)',
           todo' = <<t, u>> \o Tail(todo)
    PROVE  IInv'
<1>1. <<t, u>> \in Seq(Task) /\ Range(<<t, u>>) = {t, u}
  BY DEF Range
<1> QED
  BY <1>1, ExpandStep

\* Tasks that go by a library's name have been promised nothing.
LEMMA FeatureReady ==
    \A f : \A op \in FeatureOps : Ready(T(op, f)) /\ Ready(T(op, f))'
BY DEF Ready, T, FeatureOps

\* The package of a form that is ready to be demanded is loaded first.
LEMMA DemandStep == ASSUME IInv, Demand PROVE IInv'
<1>1. /\ todo # <<>> /\ Now.op = "demand" /\ OnlyTodo
      /\ todo' = (IF Decl[Now.arg].feature \in loaded
                  THEN <<T("config", Now.arg)>>
                  ELSE <<T("load", Decl[Now.arg].feature), T("demand", Now.arg)>>)
                 \o Tail(todo)
  BY DEF Demand, Doing, OnlyTodo, Expand
<1>2. Now \in Task /\ Ready(Now)
  BY <1>1, HeadReady
<1>3. PICK d \in Decls : d = Now.arg
  BY <1>1, <1>2, TaskArgs DEF DeclOps
<1>4. d \in seen /\ AfterLoaded(d, 0) /\ d \in inited
  BY <1>1, <1>2, <1>3 DEF Ready
<1>5. Ready(T("demand", d))'
  BY <1>1, <1>4 DEF Ready, T, AfterLoaded, OnlyTodo
<1>6. PICK f \in Features : f = Decl[d].feature
  BY DeclTypes
<1>7. /\ T("config", d) \in Task /\ T("demand", d) \in Task
      /\ T("load", f) \in Task
  BY TaskTypes DEF DeclOps, FeatureOps
<1>8. CASE f \in loaded
  <2>1. Ready(T("config", d))'
    BY <1>1, <1>4, <1>6, <1>8 DEF Ready, T, AfterLoaded, OnlyTodo
  <2>2. todo' = <<T("config", d)>> \o Tail(todo)
    BY <1>1, <1>3, <1>6, <1>8
  <2> QED
    BY <1>1, <1>7, <2>1, <2>2, ReplaceStep
<1>9. CASE f \notin loaded
  <2>1. todo' = <<T("load", f), T("demand", d)>> \o Tail(todo)
    BY <1>1, <1>3, <1>6, <1>9
  <2>2. Ready(T("load", f))'
    BY FeatureReady DEF FeatureOps
  <2> QED
    BY <1>1, <1>5, <1>7, <2>1, <2>2, ReplaceByTwoStep
<1> QED
  BY <1>8, <1>9

\* :config, then the news that it is over.
LEMMA EvalConfigStep == ASSUME IInv, EvalConfig PROVE IInv'
<1>1. /\ todo # <<>> /\ Now.op = "config" /\ OnlyTodo
      /\ todo' = (Decl[Now.arg].config \o <<T("configured", Now.arg)>>)
                 \o Tail(todo)
  BY DEF EvalConfig, Doing, OnlyTodo, Expand
<1>2. Now \in Task /\ Ready(Now)
  BY <1>1, HeadReady
<1>3. PICK d \in Decls : d = Now.arg
  BY <1>1, <1>2, TaskArgs DEF DeclOps
<1>4. Ready(T("configured", d))'
  BY <1>1, <1>2, <1>3 DEF Ready, T, AfterLoaded, OnlyTodo, Inline, Deferred
<1>5. PICK s \in Seq(ScriptTask) : s = Decl[d].config
  BY DeclTypes
<1>6. PICK u \in Task : u = T("configured", d)
  BY TaskTypes DEF DeclOps
<1>7. s \in Seq(Task) /\ \A t \in Range(s) : Ready(t)'
  BY ScriptReady
<1>8. s \o <<u>> \in Seq(Task) /\ Range(s \o <<u>>) = Range(s) \cup {u}
  BY <1>7, AddedRange
<1>9. todo' = (s \o <<u>>) \o Tail(todo)
  BY <1>1, <1>3, <1>5, <1>6
<1> QED
  BY <1>1, <1>4, <1>6, <1>7, <1>8, <1>9, ExpandStep

\* A form is not evaluated, ...
LEMMA SkipUseStep == ASSUME IInv, SkipUse PROVE IInv'
BY PopStep DEF SkipUse, Doing, OnlyTodo

\* ... the end of an `ignore-errors' is reached, ...
LEMMA LeaveCatchStep == ASSUME IInv, LeaveCatch PROVE IInv'
BY PopStep DEF LeaveCatch, Doing, OnlyTodo

\* ... a library is required, ...
LEMMA RequireFeatureStep == ASSUME IInv, RequireFeature PROVE IInv'
<1>1. /\ todo # <<>> /\ Now.op = "require" /\ OnlyTodo
      /\ Expand(IF Now.arg \in loaded THEN <<>> ELSE <<T("load", Now.arg)>>)
  BY DEF RequireFeature, Doing, OnlyTodo
<1>2. Now \in Task
  BY <1>1, HeadReady
<1>3. PICK f \in Features : f = Now.arg
  BY <1>1, <1>2, TaskArgs DEF FeatureOps
<1>4. CASE f \in loaded
  BY <1>1, <1>3, <1>4, PopStep DEF Expand
<1>5. CASE f \notin loaded
  <2>1. T("load", f) \in Task /\ Ready(T("load", f))'
    BY TaskTypes, FeatureReady DEF FeatureOps
  <2> QED
    BY <1>1, <1>3, <1>5, <2>1, ReplaceStep DEF Expand
<1> QED
  BY <1>4, <1>5

\* ... and its file, with the libraries that it requires, loaded.
LEMMA LoadFileStep == ASSUME IInv, LoadFile PROVE IInv'
<1>1. /\ todo # <<>> /\ Now.op = "load" /\ OnlyTodo
      /\ todo' = ([i \in 1..Len(Requires[Now.arg]) |->
                     Require(Requires[Now.arg][i])]
                  \o <<T("provide", Now.arg)>>) \o Tail(todo)
  BY DEF LoadFile, Doing, OnlyTodo, Expand
<1>2. Now \in Task
  BY <1>1, HeadReady
<1>3. PICK f \in Features : f = Now.arg
  BY <1>1, <1>2, TaskArgs DEF FeatureOps
<1>4. PICK r \in Seq(Features) : r = Requires[f]
  BY RequiresAssumption
<1>5. PICK s : s = [i \in 1..Len(r) |-> Require(r[i])]
  OBVIOUS
<1>6. s \in Seq(Task) /\ \A t \in Range(s) : Ready(t)'
  <2>1. Len(r) \in Nat /\ \A i \in 1..Len(r) : r[i] \in Features
    BY LenProperties, ElementOfSeq
  <2>2. \A i \in 1..Len(r) : s[i] \in Task /\ Ready(s[i])'
    BY <1>5, <2>1, TaskTypes, FeatureReady DEF Require, FeatureOps
  <2> QED
    BY <1>5, <2>1, <2>2 DEF Range
<1>7. PICK u \in Task : u = T("provide", f) /\ Ready(u)'
  BY TaskTypes, FeatureReady DEF FeatureOps
<1>8. s \o <<u>> \in Seq(Task) /\ Range(s \o <<u>>) = Range(s) \cup {u}
  BY <1>6, AddedRange
<1>9. todo' = (s \o <<u>>) \o Tail(todo)
  BY <1>1, <1>3, <1>4, <1>5, <1>7
<1> QED
  BY <1>1, <1>6, <1>7, <1>8, <1>9, ExpandStep

(***************************************************************************)
(* The other steps of the evaluation.                                      *)
(***************************************************************************)

\* A step that configures nothing and keeps stack and queues in order.
LEMMA ChangeStep ==
    ASSUME IInv, Grows, TypeOK', StackReady', QueuesReady', StagesNest',
           UNCHANGED configured
    PROVE  IInv'
BY SectionOrderGrows DEF IInv

\* The form itself is evaluated: all of its :after is still to be awaited.
LEMMA EvalUseStep == ASSUME IInv, EvalUse PROVE IInv'
<1>1. /\ todo # <<>> /\ Now.op = "use"
      /\ todo' = <<Await(Now.arg, Len(Decl[Now.arg].after))>> \o Tail(todo)
      /\ seen' = seen \cup {Now.arg}
      /\ UNCHANGED <<env, phase, loaded, afterLoad, autoloads, idle, initHook,
                     inited, configured, called, lost>>
  BY DEF EvalUse, Doing, Expand
<1>2. TypeOK /\ Now \in Task
  BY <1>1, HeadReady DEF IInv
<1>3. PICK d \in Decls : d = Now.arg
  BY <1>1, <1>2, TaskArgs DEF DeclOps
<1>4. Len(Decl[d].after) \in Nat
  BY DeclTypes, LenProperties
<1>5. PICK t \in Task : t = Await(d, Len(Decl[d].after))
  BY <1>4, TaskTypes
<1>6. Ready(t)'
  <2>1. t.op = "await" /\ t.arg = d /\ t.left = Len(Decl[d].after)
    BY <1>5 DEF Await
  <2>2. d \in seen'
    BY <1>1, <1>3
  <2> QED
    BY <1>4, <2>1, <2>2 DEF Ready, AfterLoaded
<1>7. Grows
  BY <1>1 DEF Grows
<1>8. todo' = <<t>> \o Tail(todo)
  BY <1>1, <1>3, <1>5
<1>9. todo' \in Seq(Task) /\ Range(todo') \subseteq {t} \cup Range(todo)
  BY <1>1, <1>2, <1>8, ReplaceHead DEF TypeOK
<1>10. TypeOK'
  BY <1>1, <1>2, <1>3, <1>9 DEF TypeOK
<1>11. StackReady'
  BY <1>6, <1>7, <1>9, StackGrowsByOne DEF IInv
<1>12. QueuesReady'
  BY <1>1, <1>7, QueuesGrow DEF IInv
<1>13. StagesNest'
  BY <1>1 DEF IInv, StagesNest
<1> QED
  BY <1>1, <1>7, <1>10, <1>11, <1>12, <1>13, ChangeStep

\* Whether a task runs now or waits, the stack and the queues stay in order.
LEMMA EvalAfterLoadStep ==
    ASSUME IInv, Grows, todo # <<>>, NEW f \in Features, NEW t \in Task,
           EvalAfterLoad(f, t), Stored(f, t)', f \in loaded => Ready(t)'
    PROVE  /\ todo' \in Seq(Task)
           /\ afterLoad' \in [Features -> Seq(Task)]
           /\ StackReady' /\ QueuesReady'
<1>1. /\ todo \in Seq(Task) /\ afterLoad \in [Features -> Seq(Task)]
      /\ StackReady /\ QueuesReady
  BY DEF IInv, TypeOK
<1>2. CASE f \in loaded
  <2>1. todo' = <<t>> \o Tail(todo) /\ UNCHANGED afterLoad
    BY <1>2 DEF EvalAfterLoad, Expand
  <2>2. todo' \in Seq(Task) /\ Range(todo') \subseteq {t} \cup Range(todo)
    BY <1>1, <2>1, ReplaceHead
  <2>3. StackReady'
    BY <1>1, <1>2, <2>2, StackGrowsByOne
  <2>4. QueuesReady'
    BY <1>1, <2>1, QueuesGrow
  <2> QED
    BY <1>1, <2>1, <2>2, <2>3, <2>4
<1>3. CASE f \notin loaded
  <2>1. /\ todo' = <<>> \o Tail(todo)
        /\ afterLoad' = [afterLoad EXCEPT ![f] = Append(@, t)]
    BY <1>3 DEF EvalAfterLoad, Expand
  <2>3. todo' \in Seq(Task) /\ Range(todo') \subseteq Range(todo)
    BY <1>1, <2>1, DropHead
  <2>4. /\ Append(afterLoad[f], t) \in Seq(Task)
        /\ Range(Append(afterLoad[f], t)) = Range(afterLoad[f]) \cup {t}
    BY <1>1, AppendRange
  <2>5. \A g \in Features :
          afterLoad'[g] = IF g = f THEN Append(afterLoad[f], t) ELSE afterLoad[g]
    BY <1>1, <2>1
  <2>6. afterLoad' \in [Features -> Seq(Task)]
    BY <1>1, <2>1, <2>4
  <2>7. QueuesReady'
    <3> SUFFICES ASSUME NEW g \in Features, NEW u \in Range(afterLoad'[g])
                 PROVE  Stored(g, u)'
      BY DEF QueuesReady
    <3>1. CASE u \in Range(afterLoad[g])
      BY <1>1, <3>1, StoredGrows DEF QueuesReady
    <3>2. CASE g = f /\ u = t
      BY <3>2
    <3> QED
      BY <2>4, <2>5, <3>1, <3>2
  <2>8. StackReady'
    BY <1>1, <2>3, StackShrinks
  <2> QED
    BY <2>3, <2>6, <2>7, <2>8
<1> QED
  BY <1>2, <1>3

\* One feature of :after is dealt with.
LEMMA AwaitAfterStep == ASSUME IInv, AwaitAfter PROVE IInv'
<1>1. /\ todo # <<>> /\ Now.op = "await" /\ Now.left > 0
      /\ EvalAfterLoad(Decl[Now.arg].after[Now.left],
                       Await(Now.arg, Now.left - 1))
      /\ UNCHANGED <<env, phase, loaded, autoloads, idle, initHook, seen,
                     inited, configured, called, lost>>
  BY DEF AwaitAfter, Doing
<1>2. TypeOK /\ Now \in Task /\ Ready(Now)
  BY <1>1, HeadReady DEF IInv
<1>3. PICK d \in Decls, n \in Nat : d = Now.arg /\ n = Now.left
  BY <1>1, <1>2, TaskArgs
<1>4. /\ d \in seen /\ n > 0 /\ n <= Len(Decl[d].after) /\ AfterLoaded(d, n)
      /\ Len(Decl[d].after) \in Nat
  BY <1>1, <1>2, <1>3, DeclTypes, LenProperties DEF Ready
<1>5. PICK f \in Features : f = Decl[d].after[n]
  BY <1>4, DeclTypes, ElementOfSeq
<1>6. PICK t \in Task : t = Await(d, n - 1)
  BY <1>4, TaskTypes
<1>7. t.op = "await" /\ t.arg = d /\ t.left = n - 1
  BY <1>6 DEF Await
<1>8. Grows
  BY <1>1 DEF Grows
<1>9. AfterLoaded(d, n)'
  BY <1>4, <1>8, AfterLoadedGrows
<1>10. Stored(f, t)'
  BY <1>1, <1>4, <1>5, <1>7, <1>9 DEF Stored
<1>11. f \in loaded => Ready(t)'
  BY <1>1, <1>4, <1>5, <1>7, <1>9 DEF Ready, AfterLoaded
<1>12. EvalAfterLoad(f, t)
  BY <1>1, <1>3, <1>5, <1>6
<1>13. /\ todo' \in Seq(Task) /\ afterLoad' \in [Features -> Seq(Task)]
       /\ StackReady' /\ QueuesReady'
  BY <1>1, <1>8, <1>10, <1>11, <1>12, EvalAfterLoadStep
<1>14. TypeOK'
  BY <1>1, <1>2, <1>13 DEF TypeOK
<1>15. StagesNest'
  BY <1>1 DEF IInv, StagesNest
<1> QED
  BY <1>1, <1>8, <1>13, <1>14, <1>15, ChangeStep

\* Every :after is loaded: :init, and what comes after it, is next.
LEMMA EvalBodyStep == ASSUME IInv, EvalBody PROVE IInv'
<1>1. /\ todo # <<>> /\ Now.op = "await" /\ Now.left = 0
      /\ \/ autoloads' = autoloads
         \/ autoloads' = autoloads \cup {Now.arg}
      /\ todo' = (Decl[Now.arg].init
                    \o <<T("settle", Now.arg), T("hook", Now.arg)>>) \o Tail(todo)
      /\ UNCHANGED <<env, phase, loaded, afterLoad, idle, initHook, seen,
                     inited, configured, called, lost>>
  BY DEF EvalBody, Doing, Expand
<1>2. TypeOK /\ Now \in Task /\ Ready(Now)
  BY <1>1, HeadReady DEF IInv
<1>3. PICK d \in Decls : d = Now.arg
  BY <1>1, <1>2, TaskArgs
<1>4. PICK s \in Seq(ScriptTask) : s = Decl[d].init
  BY DeclTypes
<1>5. PICK t \in Task, u \in Task : t = T("settle", d) /\ u = T("hook", d)
  BY TaskTypes DEF DeclOps
<1>6. Ready(t)' /\ Ready(u)'
  BY <1>1, <1>2, <1>3, <1>5 DEF Ready, T, AfterLoaded
<1>7. s \in Seq(Task) /\ \A r \in Range(s) : Ready(r)'
  BY ScriptReady
<1>8. PICK w \in Seq(Task) : w = s \o <<t, u>> /\ Range(w) = Range(s) \cup {t, u}
  <2>1. s \o <<t, u>> \in Seq(Task) /\ Range(s \o <<t, u>>) = Range(s) \cup {t, u}
    BY <1>7, AddedTwoRange
  <2> QED
    BY <2>1
<1>9. \A r \in Range(w) : Ready(r)'
  BY <1>6, <1>7, <1>8
<1>10. todo' = w \o Tail(todo)
  BY <1>1, <1>3, <1>4, <1>5, <1>8
<1>11. todo' \in Seq(Task) /\ Range(todo') \subseteq Range(w) \cup Range(todo)
  <2>1. todo \in Seq(Task)
    BY <1>2 DEF TypeOK
  <2>2. w \o Tail(todo) \in Seq(Task)
        /\ Range(w \o Tail(todo)) \subseteq Range(w) \cup Range(todo)
    BY <1>1, <2>1, WorkProperties
  <2> QED
    BY <1>10, <2>2
<1>12. Grows
  BY <1>1 DEF Grows
<1>13. TypeOK'
  BY <1>1, <1>2, <1>3, <1>11 DEF TypeOK
<1>14. StackReady'
  BY <1>9, <1>11, <1>12, StackGrows DEF IInv
<1>15. QueuesReady' /\ StagesNest'
  BY <1>1, <1>12, QueuesGrow DEF IInv, StagesNest
<1> QED
  BY <1>1, <1>12, <1>13, <1>14, <1>15, ChangeStep

\* :init is over: :config is next, or waits, or the package is demanded.
LEMMA SettleStep == ASSUME IInv, Settle PROVE IInv'
<1>1. /\ todo # <<>> /\ Now.op = "settle"
      /\ inited' = inited \cup {Now.arg}
      /\ idle' = idle \/ idle' = idle \cup {Decl[Now.arg].feature}
      /\ \/ EvalAfterLoad(Decl[Now.arg].feature, T("config", Now.arg))
         \/ /\ todo' = <<T(IF Inline(Now.arg) THEN "config" ELSE "demand", Now.arg)>>
                       \o Tail(todo)
            /\ UNCHANGED afterLoad
      /\ UNCHANGED <<env, phase, loaded, autoloads, initHook, seen,
                     configured, called, lost>>
  BY DEF Settle, Doing, Expand
<1>2. TypeOK /\ Now \in Task /\ Ready(Now)
  BY <1>1, HeadReady DEF IInv
<1>3. PICK d \in Decls : d = Now.arg
  BY <1>1, <1>2, TaskArgs DEF DeclOps
<1>4. Grows
  BY <1>1 DEF Grows
<1>5. d \in seen' /\ d \in inited' /\ AfterLoaded(d, 0)'
  BY <1>1, <1>2, <1>3, <1>4, AfterLoadedGrows DEF Ready
<1>6. PICK f \in Features : f = Decl[d].feature
  BY DeclTypes
<1>7. PICK c \in Task : c = T("config", d)
  BY TaskTypes DEF DeclOps
<1>8. PICK m \in Task : m = T(IF Inline(d) THEN "config" ELSE "demand", d)
  BY TaskTypes DEF DeclOps
<1>9. /\ todo' \in Seq(Task) /\ afterLoad' \in [Features -> Seq(Task)]
      /\ StackReady' /\ QueuesReady'
  <2>1. CASE EvalAfterLoad(f, c)
    <3>1. Stored(f, c)'
      BY <1>5, <1>6, <1>7 DEF Stored, T
    <3>2. f \in loaded => Ready(c)'
      BY <1>4, <1>5, <1>6, <1>7 DEF Ready, T, Grows
    <3> QED
      BY <1>1, <1>4, <2>1, <3>1, <3>2, EvalAfterLoadStep
  <2>2. CASE todo' = <<m>> \o Tail(todo) /\ UNCHANGED afterLoad
    <3>1. Ready(m)'
      <4>1. CASE Inline(d)
        <5>1. Inline(d)'
          BY <4>1 DEF Inline, Deferred
        <5>2. m.op = "config" /\ m.arg = d
          BY <1>8, <4>1 DEF T
        <5> QED
          BY <1>5, <5>1, <5>2 DEF Ready
      <4>2. CASE ~Inline(d)
        BY <1>5, <1>8, <4>2 DEF Ready, T
      <4> QED
        BY <4>1, <4>2
    <3>2. todo' \in Seq(Task) /\ Range(todo') \subseteq {m} \cup Range(todo)
      BY <1>1, <1>2, <2>2, ReplaceHead DEF TypeOK
    <3>3. StackReady'
      BY <1>4, <3>1, <3>2, StackGrowsByOne DEF IInv
    <3>4. QueuesReady' /\ afterLoad' \in [Features -> Seq(Task)]
      BY <1>2, <1>4, <2>2, QueuesGrow DEF IInv, TypeOK
    <3> QED
      BY <3>2, <3>3, <3>4
  <2> QED
    BY <1>1, <1>3, <1>6, <1>7, <1>8, <2>1, <2>2
<1>10. TypeOK'
  BY <1>1, <1>2, <1>3, <1>6, <1>9 DEF TypeOK
<1>11. StagesNest'
  BY <1>1, <1>3, <1>5 DEF IInv, StagesNest
<1> QED
  BY <1>1, <1>4, <1>9, <1>10, <1>11, ChangeStep

\* The features of :after, taken together, are loaded.
LEMMA AfterRange ==
    ASSUME NEW d \in Decls, AfterLoaded(d, 0)
    PROVE  Range(Decl[d].after) \subseteq loaded
<1>1. PICK s \in Seq(Features) : s = Decl[d].after
  BY DeclTypes
<1>2. Range(s) = {s[i] : i \in 1..Len(s)}
  BY RangeEquality
<1>3. \A i \in 1..Len(s) : s[i] \in loaded
  BY <1>1 DEF AfterLoaded
<1> QED
  BY <1>1, <1>2, <1>3

\* :config is over: the form is configured, and in order.
LEMMA ConfigDoneStep == ASSUME IInv, ConfigDone PROVE IInv'
<1>1. /\ todo # <<>> /\ Now.op = "configured"
      /\ configured' = configured \cup {Now.arg}
      /\ todo' = <<>> \o Tail(todo)
      /\ UNCHANGED <<env, phase, loaded, afterLoad, autoloads, idle, initHook,
                     seen, inited, called, lost>>
  BY DEF ConfigDone, Doing, Expand
<1>2. TypeOK /\ Now \in Task /\ Ready(Now)
  BY <1>1, HeadReady DEF IInv
<1>3. PICK d \in Decls : d = Now.arg
  BY <1>1, <1>2, TaskArgs DEF DeclOps
<1>4. /\ d \in inited /\ AfterLoaded(d, 0)
      /\ Inline(d) \/ Decl[d].feature \in loaded
  BY <1>1, <1>2, <1>3 DEF Ready
<1>5. Grows
  BY <1>1 DEF Grows
<1>6. todo' \in Seq(Task) /\ Range(todo') \subseteq Range(todo)
  BY <1>1, <1>2, DropHead DEF TypeOK
<1>7. TypeOK'
  BY <1>1, <1>2, <1>3, <1>6 DEF TypeOK
<1>8. StackReady' /\ QueuesReady'
  BY <1>1, <1>5, <1>6, StackShrinks, QueuesGrow DEF IInv
<1>9. StagesNest'
  BY <1>1, <1>3, <1>4 DEF IInv, StagesNest
<1>10. SectionOrder'
  BY <1>1, <1>3, <1>4, AfterRange DEF IInv, SectionOrder, Inline, Deferred
<1> QED
  BY <1>7, <1>8, <1>9, <1>10 DEF IInv

\* :hook adds to after-init-hook.
LEMMA AddHookStep == ASSUME IInv, AddHook PROVE IInv'
<1>1. /\ todo # <<>> /\ Now.op = "hook"
      /\ initHook' = <<Now.arg>> \o initHook \/ initHook' = initHook
      /\ todo' = <<>> \o Tail(todo)
      /\ UNCHANGED <<env, phase, loaded, afterLoad, autoloads, idle, seen,
                     inited, configured, called, lost>>
  BY DEF AddHook, Doing, Expand
<1>2. TypeOK /\ Now \in Task
  BY <1>1, HeadReady DEF IInv
<1>3. PICK d \in Decls : d = Now.arg
  BY <1>1, <1>2, TaskArgs DEF DeclOps
<1>4. initHook' \in Seq(Decls)
  <2>1. <<d>> \in Seq(Decls) /\ initHook \in Seq(Decls)
    BY <1>2 DEF TypeOK
  <2>2. <<d>> \o initHook \in Seq(Decls)
    BY <2>1, ConcatProperties, Zenon
  <2> QED
    BY <1>1, <1>3, <2>1, <2>2
<1>5. Grows
  BY <1>1 DEF Grows
<1>6. todo' \in Seq(Task) /\ Range(todo') \subseteq Range(todo)
  BY <1>1, <1>2, DropHead DEF TypeOK
<1>7. TypeOK'
  BY <1>1, <1>2, <1>4, <1>6 DEF TypeOK
<1>8. StackReady' /\ QueuesReady' /\ StagesNest'
  BY <1>1, <1>5, <1>6, StackShrinks, QueuesGrow DEF IInv, StagesNest
<1> QED
  BY <1>1, <1>5, <1>7, <1>8, ChangeStep

\* A library is provided: what waited for it is ready.
LEMMA ProvideStep == ASSUME IInv, Provide PROVE IInv'
<1>1. /\ todo # <<>> /\ Now.op = "provide"
      /\ loaded' = loaded \cup {Now.arg}
      /\ todo' = afterLoad[Now.arg] \o Tail(todo)
      /\ afterLoad' = [afterLoad EXCEPT ![Now.arg] = <<>>]
      /\ autoloads' \subseteq autoloads
      /\ UNCHANGED <<env, phase, idle, initHook, seen, inited, configured,
                     called, lost>>
  BY DEF Provide, Doing, Expand
<1>2. TypeOK /\ Now \in Task
  BY <1>1, HeadReady DEF IInv
<1>3. PICK f \in Features : f = Now.arg
  BY <1>1, <1>2, TaskArgs DEF FeatureOps
<1>4. Grows
  BY <1>1 DEF Grows
<1>5. PICK w \in Seq(Task) : w = afterLoad[f]
  BY <1>2 DEF TypeOK
<1>6. ASSUME NEW t \in Range(w) PROVE Ready(t)'
  <2>1. Stored(f, t)
    BY <1>5 DEF IInv, QueuesReady
  <2>2. Stored(f, t)'
    BY <1>4, <2>1, StoredGrows
  <2>3. f \in loaded'
    BY <1>1, <1>3
  <2>4. t.op = "await" => t.left \in Nat /\ t.arg \in Decls
    <3>1. Range(w) \subseteq Task
      BY RangeOfSeq
    <3> QED
      BY <3>1, TaskArgs
  <2>5. CASE t.op = "await"
    <3>1. PICK d \in Decls, n \in Nat : d = t.arg /\ n = t.left
      BY <2>4, <2>5
    <3>2. Len(Decl[d].after) \in Nat
      BY DeclTypes, LenProperties
    <3>3. /\ d \in seen' /\ n < Len(Decl[d].after)
          /\ AfterLoaded(d, n + 1)' /\ f = Decl[d].after[n + 1]
      BY <2>2, <2>5, <3>1 DEF Stored
    <3>4. AfterLoaded(d, n)'
      BY <2>3, <3>2, <3>3 DEF AfterLoaded
    <3> QED
      BY <2>5, <3>1, <3>2, <3>3, <3>4 DEF Ready
  <2>6. CASE t.op # "await"
    BY <2>2, <2>3, <2>6 DEF Stored, Ready
  <2> QED
    BY <2>5, <2>6
<1>7. todo' \in Seq(Task) /\ Range(todo') \subseteq Range(w) \cup Range(todo)
  <2>1. todo \in Seq(Task)
    BY <1>2 DEF TypeOK
  <2>2. /\ w \o Tail(todo) \in Seq(Task)
        /\ Range(w \o Tail(todo)) \subseteq Range(w) \cup Range(todo)
    BY <1>1, <2>1, WorkProperties
  <2> QED
    BY <1>1, <1>3, <1>5, <2>2
<1>8. <<>> \in Seq(Task) /\ Range(<<>>) = {}
  BY ShortSequences
<1>9. \A g \in Features :
        afterLoad'[g] = IF g = f THEN <<>> ELSE afterLoad[g]
  BY <1>1, <1>2, <1>3 DEF TypeOK
<1>10. afterLoad' \in [Features -> Seq(Task)]
  BY <1>1, <1>2, <1>3, <1>8 DEF TypeOK
<1>11. TypeOK'
  BY <1>1, <1>2, <1>3, <1>7, <1>10 DEF TypeOK
<1>12. StackReady'
  BY <1>4, <1>6, <1>7, StackGrows DEF IInv
<1>13. QueuesReady'
  BY <1>4, <1>8, <1>9, StoredGrows DEF IInv, QueuesReady
<1>14. StagesNest'
  BY <1>1 DEF IInv, StagesNest
<1> QED
  BY <1>1, <1>4, <1>11, <1>12, <1>13, <1>14, ChangeStep

\* A command runs, or is the next thing to do once its library is loaded.
LEMMA CallCommandStep == ASSUME IInv, CallCommand PROVE IInv'
<1>1. /\ todo # <<>> /\ Now.op = "call"
      /\ UNCHANGED <<env, phase, loaded, afterLoad, autoloads, idle, initHook,
                     seen, inited, configured, lost>>
      /\ \/ todo' = <<>> \o Tail(todo) /\ called' = called \cup {Now.arg}
         \/ /\ todo' = <<T("load", Decl[Now.arg].feature), Call(Now.arg)>>
                       \o Tail(todo)
            /\ UNCHANGED called
  BY DEF CallCommand, Doing, Expand
<1>2. TypeOK /\ Now \in Task
  BY <1>1, HeadReady DEF IInv
<1>3. PICK d \in Decls : d = Now.arg
  BY <1>1, <1>2, TaskArgs DEF DeclOps
<1>4. CASE todo' = <<>> \o Tail(todo) /\ called' = called \cup {d}
  <2>1. todo' \in Seq(Task) /\ Range(todo') \subseteq Range(todo)
    BY <1>1, <1>2, <1>4, DropHead DEF TypeOK
  <2>2. Grows
    BY <1>1 DEF Grows
  <2>3. TypeOK'
    BY <1>1, <1>2, <1>4, <2>1 DEF TypeOK
  <2>4. StackReady' /\ QueuesReady' /\ StagesNest'
    BY <1>1, <2>1, <2>2, StackShrinks, QueuesGrow DEF IInv, StagesNest
  <2> QED
    BY <1>1, <2>2, <2>3, <2>4, ChangeStep
<1>5. CASE /\ todo' = <<T("load", Decl[d].feature), Call(d)>> \o Tail(todo)
           /\ UNCHANGED called
  <2>1. PICK t \in Task, u \in Task : t = T("load", Decl[d].feature) /\ u = Call(d)
    BY DeclTypes, TaskTypes, ScriptTaskTypes DEF FeatureOps
  <2>2. Ready(t)' /\ Ready(u)'
    BY <2>1, FeatureReady DEF Ready, T, Call, FeatureOps
  <2>3. OnlyTodo
    BY <1>1, <1>5 DEF OnlyTodo
  <2> QED
    BY <1>1, <1>5, <2>1, <2>2, <2>3, ReplaceByTwoStep
<1> QED
  BY <1>1, <1>3, <1>4, <1>5

\* An error: a part of the stack is left, and the rest is written off.
LEMMA SignalStep ==
    ASSUME IInv, Signal,
           UNCHANGED <<env, loaded, afterLoad, autoloads, idle, initHook,
                       seen, inited, configured, called>>
    PROVE  IInv'
<1>1. /\ todo \in Seq(Task) /\ lost \subseteq Task
      /\ phase \in {"init", "error", "after-init", "up"}
  BY DEF IInv, TypeOK
<1>2. Len(todo) \in Nat /\ \A i \in 1..Len(todo) : todo[i] \in Task
  BY <1>1, LenProperties, ElementOfSeq
<1>3. /\ todo' \in Seq(Task) /\ Range(todo') \subseteq Range(todo)
      /\ lost' \subseteq Task
      /\ phase' \in {"init", "error", "after-init", "up"}
  <2>1. CASE /\ Catches # {} /\ UNCHANGED phase
             /\ \E n \in Catches :
                  /\ todo' = SubSeq(todo, n, Len(todo))
                  /\ lost' = lost \cup {todo[i] : i \in 1..(n - 1)}
    <3>1. PICK n \in 1..Len(todo) :
                 /\ todo' = SubSeq(todo, n, Len(todo))
                 /\ lost' = lost \cup {todo[i] : i \in 1..(n - 1)}
      BY <2>1 DEF Catches
    <3>2. todo' \in Seq(Task) /\ Range(todo') \subseteq Range(todo)
      BY <1>1, <3>1, SuffixProperties
    <3>3. lost' \subseteq Task
      BY <1>1, <1>2, <3>1
    <3> QED
      BY <1>1, <2>1, <3>2, <3>3
  <2>2. CASE /\ todo' = <<>> /\ lost' = lost \cup Range(todo)
             /\ phase' = (IF phase = "init" THEN "error" ELSE phase)
    <3>1. PICK w \in Seq(Task) : w = <<>> /\ Range(w) = {}
      BY ShortSequences
    <3>2. Range(todo) \subseteq Task
      BY <1>1, RangeOfSeq
    <3> QED
      BY <1>1, <2>2, <3>1, <3>2
  <2> QED
    BY <2>1, <2>2 DEF Signal
<1>4. Grows
  BY DEF Grows
<1>5. TypeOK'
  BY <1>3 DEF IInv, TypeOK
<1>6. StackReady' /\ QueuesReady' /\ StagesNest'
  BY <1>3, <1>4, StackShrinks, QueuesGrow DEF IInv, StagesNest
<1> QED
  BY <1>4, <1>5, <1>6, ChangeStep

\* Every step of the evaluation keeps the invariant.
LEMMA EvaluateStep == ASSUME IInv, Evaluate PROVE IInv'
<1>1. CASE SkipUse
  BY <1>1, SkipUseStep
<1>2. CASE EvalUse
  BY <1>2, EvalUseStep
<1>3. CASE AwaitAfter
  BY <1>3, AwaitAfterStep
<1>4. CASE EvalBody
  BY <1>4, EvalBodyStep
<1>5. CASE Settle
  BY <1>5, SettleStep
<1>6. CASE InitFails
  BY <1>6, SignalStep DEF InitFails
<1>7. CASE Demand
  BY <1>7, DemandStep
<1>8. CASE EvalConfig
  BY <1>8, EvalConfigStep
<1>9. CASE ConfigDone
  BY <1>9, ConfigDoneStep
<1>10. CASE ConfigFails
  BY <1>10, SignalStep DEF ConfigFails
<1>11. CASE AddHook
  BY <1>11, AddHookStep
<1>12. CASE RequireFeature
  BY <1>12, RequireFeatureStep
<1>13. CASE LoadFile
  BY <1>13, LoadFileStep
<1>14. CASE LoadMissing
  BY <1>14, SignalStep DEF LoadMissing
<1>15. CASE Provide
  BY <1>15, ProvideStep
<1>16. CASE CallCommand
  BY <1>16, CallCommandStep
<1>17. CASE LeaveCatch
  BY <1>17, LeaveCatchStep
<1> QED
  BY <1>1, <1>2, <1>3, <1>4, <1>5, <1>6, <1>7, <1>8, <1>9, <1>10, <1>11,
     <1>12, <1>13, <1>14, <1>15, <1>16, <1>17 DEF Evaluate

(***************************************************************************)
(* Startup and what happens at rest.                                       *)
(***************************************************************************)

\* A step that leaves the forms alone and only starts work that needs nothing.
LEMMA StartStep ==
    ASSUME IInv, todo' \in Seq(Task), \A t \in Range(todo') : Ready(t)',
           phase' \in {"init", "error", "after-init", "up"}, idle' \subseteq idle,
           UNCHANGED <<env, loaded, afterLoad, autoloads, initHook, seen,
                       inited, configured, called, lost>>
    PROVE  IInv'
<1>1. Grows
  BY DEF Grows
<1>2. TypeOK'
  BY DEF IInv, TypeOK
<1>3. StackReady'
  BY DEF StackReady
<1>4. QueuesReady' /\ StagesNest'
  BY <1>1, QueuesGrow DEF IInv, StagesNest
<1> QED
  BY <1>1, <1>2, <1>3, <1>4, ChangeStep

\* Work that is one task, or none.
LEMMA StartOne ==
    ASSUME NEW t \in Task, Ready(t)', todo' = <<t>>
    PROVE  todo' \in Seq(Task) /\ \A u \in Range(todo') : Ready(u)'
<1>1. PICK w \in Seq(Task) : w = <<t>> /\ Range(w) = {t}
  BY ShortSequences
<1> QED
  BY <1>1

LEMMA StartNone ==
    ASSUME todo' = <<>>
    PROVE  todo' \in Seq(Task) /\ \A u \in Range(todo') : Ready(u)'
<1>1. PICK w \in Seq(Task) : w = <<>> /\ Range(w) = {}
  BY ShortSequences
<1> QED
  BY <1>1

\* A command's call needs nothing.
LEMMA CallReady ==
    \A d \in Decls : Call(d) \in Task /\ Ready(Call(d)) /\ Ready(Call(d))'
BY ScriptTaskTypes DEF Ready, Call, T

\* after-init-hook, the debugger and the command loop.
LEMMA StartupStep == ASSUME IInv, Startup PROVE IInv'
<1>1. TypeOK
  BY DEF IInv
<1>2. CASE RunAfterInitHook
  <2>1. /\ todo' = [i \in 1..Len(initHook) |-> Call(initHook[i])]
        /\ phase' = "after-init"
        /\ UNCHANGED <<env, loaded, afterLoad, autoloads, idle, initHook, seen,
                       inited, configured, called, lost>>
    BY <1>2 DEF RunAfterInitHook
  <2>2. Len(initHook) \in Nat /\ \A i \in 1..Len(initHook) : initHook[i] \in Decls
    BY <1>1, LenProperties, ElementOfSeq DEF TypeOK
  <2>3. \A i \in 1..Len(initHook) :
          Call(initHook[i]) \in Task /\ Ready(Call(initHook[i]))'
    BY <2>1, <2>2, CallReady
  <2>4. todo' \in Seq(Task)
    BY <2>1, <2>2, <2>3
  <2>5. \A u \in Range(todo') : Ready(u)'
    BY <2>1, <2>2, <2>3 DEF Range
  <2> QED
    BY <2>1, <2>4, <2>5, StartStep
<1>3. CASE QuitDebugger \/ EnterCommandLoop
  <2>1. todo' = <<>> /\ phase' = "up"
        /\ UNCHANGED <<env, loaded, afterLoad, autoloads, idle, initHook, seen,
                       inited, configured, called, lost>>
    BY <1>3 DEF QuitDebugger, EnterCommandLoop
  <2> QED
    BY <2>1, StartNone, StartStep
<1> QED
  BY <1>2, <1>3 DEF Startup

\* A command of the user's.
LEMMA InvokeStep == ASSUME IInv, NEW d \in Decls, Invoke(d) PROVE IInv'
<1>1. TypeOK
  BY DEF IInv
<1>2. PICK t \in Task : t = Call(d) /\ Ready(t)'
  BY CallReady
<1>3. todo' = <<t>>
  BY <1>2 DEF Invoke
<1> QED
  BY <1>1, <1>2, <1>3, StartOne, StartStep DEF Invoke, TypeOK

\* A library that something else loads.
LEMMA LoadElsewhereStep ==
    ASSUME IInv, NEW f \in Features, LoadElsewhere(f) PROVE IInv'
<1>1. TypeOK
  BY DEF IInv
<1>2. PICK t \in Task : t = T("load", f) /\ Ready(t)'
  BY TaskTypes, FeatureReady DEF FeatureOps
<1>3. todo' = <<t>>
  BY <1>2 DEF LoadElsewhere
<1> QED
  BY <1>1, <1>2, <1>3, StartOne, StartStep DEF LoadElsewhere, TypeOK

\* An idle timer.
LEMMA IdleTimerStep ==
    ASSUME IInv, NEW f \in Features, IdleTimer(f) PROVE IInv'
<1>1. TypeOK
  BY DEF IInv
<1>2. PICK t \in Task : t = Require(f) /\ Ready(t)'
  BY TaskTypes, FeatureReady DEF FeatureOps, Require
<1>3. todo' = <<t>> \/ todo' = <<>>
  BY <1>2 DEF IdleTimer
<1>4. todo' \in Seq(Task) /\ \A u \in Range(todo') : Ready(u)'
  BY <1>2, <1>3, StartOne, StartNone
<1> QED
  BY <1>1, <1>4, StartStep DEF IdleTimer, TypeOK

(***************************************************************************)
(* The invariant, and what follows from it.                                *)
(***************************************************************************)

\* Nothing but .emacs itself is there to be done, and it needs nothing.
LEMMA InitInvariant == Init => IInv
<1> SUFFICES ASSUME Init PROVE IInv
  OBVIOUS
<1>1. PICK s \in Seq(ScriptTask) : s = DotEmacs
  BY DotEmacsAssumption
<1>2. s \in Seq(Task) /\ \A t \in Range(s) : Ready(t)
  BY ScriptReady
<1>3. \A S : <<>> \in Seq(S) /\ Range(<<>>) = {}
  BY ShortSequences
<1>4. TypeOK
  BY <1>1, <1>2, <1>3 DEF Init, TypeOK
<1>5. StackReady
  BY <1>1, <1>2 DEF Init, StackReady
<1>6. QueuesReady /\ StagesNest /\ SectionOrder
  BY <1>3 DEF Init, QueuesReady, StagesNest, SectionOrder
<1> QED
  BY <1>4, <1>5, <1>6 DEF IInv

\* Stuttering changes nothing.
LEMMA StutterStep == ASSUME IInv, UNCHANGED vars PROVE IInv'
BY DEF vars, IInv, TypeOK, StackReady, QueuesReady, StagesNest, SectionOrder,
       Ready, Stored, AfterLoaded, Inline, Deferred

\* Every step keeps it.
LEMMA NextInvariant == IInv /\ [Next]_vars => IInv'
<1> SUFFICES ASSUME IInv, [Next]_vars PROVE IInv'
  OBVIOUS
<1>1. CASE Evaluate
  BY <1>1, EvaluateStep
<1>2. CASE Startup
  BY <1>2, StartupStep
<1>3. CASE \E d \in Decls : Invoke(d)
  BY <1>3, InvokeStep
<1>4. CASE \E f \in Features : LoadElsewhere(f) \/ IdleTimer(f)
  BY <1>4, LoadElsewhereStep, IdleTimerStep
<1>5. CASE UNCHANGED vars
  BY <1>5, StutterStep
<1> QED
  BY <1>1, <1>2, <1>3, <1>4, <1>5 DEF Next

\* The stack, the queues and the sections are always in order, whatever the
\* forms, the libraries they name and the order these are loaded in.
THEOREM Invariance == Spec => []IInv
<1> QED
  BY InitInvariant, NextInvariant, PTL DEF Spec

\* The interpreter's state is always well formed.
THEOREM TypeCorrect == Spec => []TypeOK
<1>1. IInv => TypeOK
  BY DEF IInv
<1> QED
  BY <1>1, Invariance, PTL

\* No :config runs before its form's :init, before a library the form comes
\* :after, or before its own package, for any set of forms whatever.
THEOREM SectionOrderHolds == Spec => []SectionOrder
<1>1. IInv => SectionOrder
  BY DEF IInv
<1> QED
  BY <1>1, Invariance, PTL

(***************************************************************************)
(* PackageLifecycle is implemented.                                        *)
(***************************************************************************)

\* A step that changes neither a status nor `features'.
LEMMA StatusStutter ==
    ASSUME UNCHANGED <<loaded, seen, inited, configured>>
    PROVE  UNCHANGED Lifecycle!vars
BY DEF Lifecycle!vars

\* No form has a status yet.
LEMMA LifecycleInit == Init => Lifecycle!Init
BY DEF Init, Lifecycle!Init

\* The four steps that change one.
LEMMA DeclareStep ==
    ASSUME IInv, EvalUse PROVE [Lifecycle!Next]_(Lifecycle!vars)
<1>1. /\ todo # <<>> /\ Now.op = "use"
      /\ seen' = seen \cup {Now.arg}
      /\ UNCHANGED <<loaded, inited, configured>>
  BY DEF EvalUse, Doing
<1>2. PICK d \in Decls : d = Now.arg
  BY <1>1, HeadReady, TaskArgs DEF DeclOps
<1>3. CASE d \in seen
  BY <1>1, <1>2, <1>3, StatusStutter
<1>4. CASE d \notin seen
  <2>1. d \notin inited /\ d \notin configured
    BY <1>4 DEF IInv, StagesNest
  <2>2. Lifecycle!Declare(d)
    BY <1>1, <1>2, <1>4, <2>1 DEF Lifecycle!Declare
  <2> QED
    BY <2>2 DEF Lifecycle!Next
<1> QED
  BY <1>3, <1>4

LEMMA InitializeStep ==
    ASSUME IInv, Settle PROVE [Lifecycle!Next]_(Lifecycle!vars)
<1>1. /\ todo # <<>> /\ Now.op = "settle"
      /\ inited' = inited \cup {Now.arg}
      /\ UNCHANGED <<loaded, seen, configured>>
  BY DEF Settle, Doing
<1>2. PICK d \in Decls : d = Now.arg
  BY <1>1, HeadReady, TaskArgs DEF DeclOps
<1>3. d \in seen /\ Range(Decl[d].after) \subseteq loaded
  BY <1>1, <1>2, HeadReady, AfterRange DEF Ready
<1>4. CASE d \in inited
  BY <1>1, <1>2, <1>4, StatusStutter
<1>5. CASE d \notin inited
  <2>1. d \notin configured
    BY <1>5 DEF IInv, StagesNest
  <2>2. Lifecycle!Initialize(d)
    BY <1>1, <1>2, <1>3, <1>5, <2>1 DEF Lifecycle!Initialize
  <2> QED
    BY <2>2 DEF Lifecycle!Next
<1> QED
  BY <1>4, <1>5

LEMMA ConfigureStep ==
    ASSUME IInv, ConfigDone PROVE [Lifecycle!Next]_(Lifecycle!vars)
<1>1. /\ todo # <<>> /\ Now.op = "configured"
      /\ configured' = configured \cup {Now.arg}
      /\ UNCHANGED <<loaded, seen, inited>>
  BY DEF ConfigDone, Doing
<1>2. PICK d \in Decls : d = Now.arg
  BY <1>1, HeadReady, TaskArgs DEF DeclOps
<1>3. d \in inited /\ (Inline(d) \/ Decl[d].feature \in loaded)
  BY <1>1, <1>2, HeadReady DEF Ready
<1>4. CASE d \in configured
  BY <1>1, <1>2, <1>4, StatusStutter
<1>5. CASE d \notin configured
  <2>1. Lifecycle!Configure(d)
    BY <1>1, <1>2, <1>3, <1>5 DEF Lifecycle!Configure
  <2> QED
    BY <2>1 DEF Lifecycle!Next
<1> QED
  BY <1>4, <1>5

LEMMA LoadStep ==
    ASSUME IInv, Provide PROVE [Lifecycle!Next]_(Lifecycle!vars)
<1>1. /\ todo # <<>> /\ Now.op = "provide"
      /\ loaded' = loaded \cup {Now.arg}
      /\ UNCHANGED <<seen, inited, configured>>
  BY DEF Provide, Doing
<1>2. PICK f \in Features : f = Now.arg
  BY <1>1, HeadReady, TaskArgs DEF FeatureOps
<1>3. Lifecycle!Load(f)
  BY <1>1, <1>2 DEF Lifecycle!Load
<1> QED
  BY <1>3 DEF Lifecycle!Next

\* Every step is a step of the lifecycle, or changes nothing in it.
LEMMA LifecycleStep ==
    IInv /\ [Next]_vars => [Lifecycle!Next]_(Lifecycle!vars)
<1> SUFFICES ASSUME IInv, [Next]_vars PROVE [Lifecycle!Next]_(Lifecycle!vars)
  OBVIOUS
<1>1. CASE EvalUse
  BY <1>1, DeclareStep
<1>2. CASE Settle
  BY <1>2, InitializeStep
<1>3. CASE ConfigDone
  BY <1>3, ConfigureStep
<1>4. CASE Provide
  BY <1>4, LoadStep
<1>5. CASE SkipUse \/ AwaitAfter \/ EvalBody \/ InitFails \/ Demand
           \/ EvalConfig \/ ConfigFails \/ AddHook \/ RequireFeature
           \/ LoadFile \/ LoadMissing \/ CallCommand \/ LeaveCatch
  BY <1>5, StatusStutter
     DEF SkipUse, AwaitAfter, EvalBody, InitFails, Demand, EvalConfig,
         ConfigFails, AddHook, RequireFeature, LoadFile, LoadMissing,
         CallCommand, LeaveCatch
<1>6. CASE Startup
  BY <1>6, StatusStutter
     DEF Startup, RunAfterInitHook, QuitDebugger, EnterCommandLoop
<1>7. CASE \E d \in Decls : Invoke(d)
  BY <1>7, StatusStutter DEF Invoke
<1>8. CASE \E f \in Features : LoadElsewhere(f) \/ IdleTimer(f)
  BY <1>8, StatusStutter DEF LoadElsewhere, IdleTimer
<1>9. CASE UNCHANGED vars
  BY <1>9, StatusStutter DEF vars
<1> QED
  BY <1>1, <1>2, <1>3, <1>4, <1>5, <1>6, <1>7, <1>8, <1>9 DEF Next, Evaluate

\* For any forms, the handlers implement the lifecycle the report describes.
THEOREM Refinement == Spec => ImplementsLifecycle
<1> QED
  BY LifecycleInit, LifecycleStep, Invariance, PTL
     DEF Spec, ImplementsLifecycle, Lifecycle!Spec

(***************************************************************************)
(* Libraries that wait for one another.                                    *)
(***************************************************************************)

\* Work that may be on the stack when none of C is ever to be loaded.
Avoids(t, C) ==
    /\ t.op \in FeatureOps => t.arg \notin C
    /\ t.op = "demand" => Decl[t.arg].feature \notin C

\* Nothing leads to a library of C: no work, no timer, no command.
Unreached(C) ==
    /\ NeverLoads(C)
    /\ idle \cap C = {}
    /\ \A d \in autoloads : Decl[d].feature \notin C
    /\ \A t \in Range(todo) : Avoids(t, C)

\* Nothing leads there as long as steps add no such work.
LEMMA UnreachedStep ==
    ASSUME NEW C, Unreached(C), IInv, todo # <<>>,
           NEW w \in Seq(Task), todo' = w \o Tail(todo),
           \A t \in Range(w) : Avoids(t, C),
           loaded' \cap C = {}, idle' \cap C = {},
           \A d \in autoloads' : Decl[d].feature \notin C
    PROVE  Unreached(C)'
<1>1. todo \in Seq(Task)
  BY DEF IInv, TypeOK
<1>2. Range(todo') \subseteq Range(w) \cup Range(todo)
  BY <1>1, WorkProperties
<1> QED
  BY <1>2 DEF Unreached, NeverLoads, Avoids, FeatureOps

\* Work of one task, or of none.
LEMMA UnreachedOne ==
    ASSUME NEW C, Unreached(C), IInv, todo # <<>>,
           NEW t \in Task, todo' = <<t>> \o Tail(todo), Avoids(t, C),
           loaded' \cap C = {}, idle' \cap C = {},
           \A d \in autoloads' : Decl[d].feature \notin C
    PROVE  Unreached(C)'
<1>1. PICK w \in Seq(Task) : w = <<t>> /\ Range(w) = {t}
  BY ShortSequences
<1> QED
  BY <1>1, UnreachedStep

LEMMA UnreachedNone ==
    ASSUME NEW C, Unreached(C), IInv, todo # <<>>, todo' = <<>> \o Tail(todo),
           loaded' \cap C = {}, idle' \cap C = {},
           \A d \in autoloads' : Decl[d].feature \notin C
    PROVE  Unreached(C)'
<1>1. PICK w \in Seq(Task) : w = <<>> /\ Range(w) = {}
  BY ShortSequences
<1> QED
  BY <1>1, UnreachedStep

\* Part of the work is left, or new work is begun when there was none.
LEMMA UnreachedLess ==
    ASSUME NEW C, Unreached(C),
           \A t \in Range(todo') : t \in Range(todo) \/ Avoids(t, C),
           loaded' = loaded, idle' \subseteq idle, autoloads' = autoloads
    PROVE  Unreached(C)'
BY DEF Unreached, NeverLoads, Avoids, FeatureOps

\* Tasks about the sections of a form lead nowhere by themselves.
LEMMA AvoidsTypes ==
    ASSUME NEW C
    PROVE  /\ \A d, n : Avoids(Await(d, n), C)
           /\ \A d : \A op \in DeclOps \ {"demand"} : Avoids(T(op, d), C)
           /\ \A d : Decl[d].feature \notin C => Avoids(T("demand", d), C)
           /\ \A f : \A op \in FeatureOps : f \notin C => Avoids(T(op, f), C)
           /\ \A t : t.op \in DeclOps \ {"demand"} => Avoids(t, C)
BY DEF Avoids, Await, T, DeclOps, FeatureOps

\* A form about a library of C whose turn has come only waits to be loaded.
LEMMA StuckForm ==
    ASSUME NEW C, Stuck(C), Unreached(C), NEW d \in Decls, AfterLoaded(d, 0),
           Decl[d].feature \in C
    PROVE  Passive(d)
<1>1. Range(Decl[d].after) \subseteq loaded
  BY AfterRange
<1> QED
  BY <1>1 DEF Stuck, Unreached, NeverLoads

\* The forms' own code requires nothing of C.
LEMMA StuckScript ==
    ASSUME NEW C, Stuck(C), NEW s \in Scripts
    PROVE  \A t \in Range(s) : Avoids(t, C)
<1>1. s \in Seq(ScriptTask)
  BY DotEmacsAssumption, DeclTypes DEF Scripts
<1>2. Range(s) \subseteq ScriptTask
  BY <1>1, ScriptReady
<1>3. \A t \in Range(s) : t.op = "require" => t.arg \notin C
  BY DEF Stuck
<1> QED
  BY <1>2, <1>3 DEF Avoids, ScriptTask, FeatureOps

\* The handlers of a form: they set no timer, define no command and demand
\* nothing for a library of C.
LEMMA StuckEvalBody ==
    ASSUME NEW C, Stuck(C), Unreached(C), IInv, EvalBody PROVE Unreached(C)'
<1>1. /\ todo # <<>> /\ Now.op = "await" /\ Now.left = 0
      /\ \/ autoloads' = autoloads
         \/ Decl[Now.arg].commands /\ autoloads' = autoloads \cup {Now.arg}
      /\ todo' = (Decl[Now.arg].init
                    \o <<T("settle", Now.arg), T("hook", Now.arg)>>) \o Tail(todo)
      /\ UNCHANGED <<loaded, idle>>
  BY DEF EvalBody, Doing, Expand
<1>2. Now \in Task /\ Ready(Now)
  BY <1>1, HeadReady
<1>3. PICK d \in Decls : d = Now.arg
  BY <1>1, <1>2, TaskArgs
<1>4. AfterLoaded(d, 0)
  BY <1>1, <1>2, <1>3 DEF Ready
<1>5. Decl[d].feature \in C => ~Decl[d].commands
  BY <1>4, StuckForm DEF Passive
<1>6. PICK s \in Seq(ScriptTask) : s = Decl[d].init
  BY DeclTypes
<1>7. s \in Seq(Task) /\ \A t \in Range(s) : Avoids(t, C)
  <2>1. s \in Scripts
    BY <1>6 DEF Scripts
  <2> QED
    BY <2>1, ScriptReady, StuckScript
<1>8. PICK t \in Task, u \in Task : t = T("settle", d) /\ u = T("hook", d)
  BY TaskTypes DEF DeclOps
<1>9. Avoids(t, C) /\ Avoids(u, C)
  BY <1>8, AvoidsTypes DEF DeclOps
<1>10. PICK w \in Seq(Task) : w = s \o <<t, u>> /\ Range(w) = Range(s) \cup {t, u}
  <2>1. s \o <<t, u>> \in Seq(Task) /\ Range(s \o <<t, u>>) = Range(s) \cup {t, u}
    BY <1>7, AddedTwoRange
  <2> QED
    BY <2>1
<1>11. todo' = w \o Tail(todo)
  BY <1>1, <1>3, <1>6, <1>8, <1>10
<1>12. \A r \in Range(w) : Avoids(r, C)
  BY <1>7, <1>9, <1>10
<1>13. /\ loaded' \cap C = {} /\ idle' \cap C = {}
       /\ \A e \in autoloads' : Decl[e].feature \notin C
  BY <1>1, <1>3, <1>5 DEF Unreached, NeverLoads
<1> QED
  BY <1>1, <1>11, <1>12, <1>13, UnreachedStep

LEMMA StuckSettle ==
    ASSUME NEW C, Stuck(C), Unreached(C), IInv, Settle PROVE Unreached(C)'
<1>1. /\ todo # <<>> /\ Now.op = "settle"
      /\ \/ idle' = idle
         \/ /\ Decl[Now.arg].defer = "idle"
            /\ idle' = idle \cup {Decl[Now.arg].feature}
      /\ \/ todo' = <<>> \o Tail(todo)
         \/ todo' = <<T("config", Now.arg)>> \o Tail(todo)
         \/ ~Deferred(Now.arg) /\ todo' = <<T("demand", Now.arg)>> \o Tail(todo)
      /\ UNCHANGED <<loaded, autoloads>>
  BY DEF Settle, Doing, Expand, EvalAfterLoad
<1>2. Now \in Task /\ Ready(Now)
  BY <1>1, HeadReady
<1>3. PICK d \in Decls : d = Now.arg
  BY <1>1, <1>2, TaskArgs DEF DeclOps
<1>4. AfterLoaded(d, 0)
  BY <1>1, <1>2, <1>3 DEF Ready
<1>5. Decl[d].feature \in C => Deferred(d) /\ Decl[d].defer # "idle"
  BY <1>4, StuckForm DEF Passive
<1>6. /\ loaded' \cap C = {} /\ idle' \cap C = {}
      /\ \A e \in autoloads' : Decl[e].feature \notin C
  BY <1>1, <1>3, <1>5 DEF Unreached, NeverLoads
<1>7. CASE todo' = <<>> \o Tail(todo)
  BY <1>1, <1>6, <1>7, UnreachedNone
<1>8. CASE todo' = <<T("config", d)>> \o Tail(todo)
  <2>1. PICK t \in Task : t = T("config", d) /\ Avoids(t, C)
    BY TaskTypes, AvoidsTypes DEF DeclOps
  <2> QED
    BY <1>1, <1>6, <1>8, <2>1, UnreachedOne
<1>9. CASE ~Deferred(d) /\ todo' = <<T("demand", d)>> \o Tail(todo)
  <2>1. PICK t \in Task : t = T("demand", d) /\ Avoids(t, C)
    BY <1>5, <1>9, TaskTypes, AvoidsTypes DEF DeclOps
  <2> QED
    BY <1>1, <1>6, <1>9, <2>1, UnreachedOne
<1> QED
  BY <1>1, <1>3, <1>7, <1>8, <1>9

\* What was demanded is not in C.
LEMMA StuckDemand ==
    ASSUME NEW C, Stuck(C), Unreached(C), IInv, Demand PROVE Unreached(C)'
<1>1. /\ todo # <<>> /\ Now.op = "demand"
      /\ \/ todo' = <<T("config", Now.arg)>> \o Tail(todo)
         \/ todo' = <<T("load", Decl[Now.arg].feature), T("demand", Now.arg)>>
                    \o Tail(todo)
      /\ UNCHANGED <<loaded, idle, autoloads>>
  BY DEF Demand, Doing, Expand
<1>2. Now \in Task /\ Now \in Range(todo)
  BY <1>1, HeadReady
<1>3. PICK d \in Decls : d = Now.arg
  BY <1>1, <1>2, TaskArgs DEF DeclOps
<1>4. PICK f \in Features : f = Decl[d].feature
  BY DeclTypes
<1>5. f \notin C
  BY <1>1, <1>2, <1>3, <1>4 DEF Unreached, Avoids
<1>6. /\ loaded' \cap C = {} /\ idle' \cap C = {}
      /\ \A e \in autoloads' : Decl[e].feature \notin C
  BY <1>1 DEF Unreached, NeverLoads
<1>7. CASE todo' = <<T("config", d)>> \o Tail(todo)
  <2>1. PICK t \in Task : t = T("config", d) /\ Avoids(t, C)
    BY TaskTypes, AvoidsTypes DEF DeclOps
  <2> QED
    BY <1>1, <1>6, <1>7, <2>1, UnreachedOne
<1>8. CASE todo' = <<T("load", f), T("demand", d)>> \o Tail(todo)
  <2>1. PICK t \in Task, u \in Task : t = T("load", f) /\ u = T("demand", d)
    BY TaskTypes DEF DeclOps, FeatureOps
  <2>2. Avoids(t, C) /\ Avoids(u, C)
    BY <1>4, <1>5, <2>1, AvoidsTypes DEF FeatureOps
  <2>3. PICK w \in Seq(Task) : w = <<t, u>> /\ Range(w) = {t, u}
    <3>1. <<t, u>> \in Seq(Task) /\ Range(<<t, u>>) = {t, u}
      BY DEF Range
    <3> QED
      BY <3>1
  <2> QED
    BY <1>1, <1>6, <1>8, <2>1, <2>2, <2>3, UnreachedStep
<1> QED
  BY <1>1, <1>3, <1>4, <1>7, <1>8

LEMMA StuckEvalConfig ==
    ASSUME NEW C, Stuck(C), Unreached(C), IInv, EvalConfig PROVE Unreached(C)'
<1>1. /\ todo # <<>> /\ Now.op = "config"
      /\ todo' = (Decl[Now.arg].config \o <<T("configured", Now.arg)>>)
                 \o Tail(todo)
      /\ UNCHANGED <<loaded, idle, autoloads>>
  BY DEF EvalConfig, Doing, Expand
<1>2. PICK d \in Decls : d = Now.arg
  BY <1>1, HeadReady, TaskArgs DEF DeclOps
<1>3. PICK s \in Seq(ScriptTask) : s = Decl[d].config
  BY DeclTypes
<1>4. s \in Seq(Task) /\ \A t \in Range(s) : Avoids(t, C)
  <2>1. s \in Scripts
    BY <1>3 DEF Scripts
  <2> QED
    BY <2>1, ScriptReady, StuckScript
<1>5. PICK u \in Task : u = T("configured", d) /\ Avoids(u, C)
  BY TaskTypes, AvoidsTypes DEF DeclOps
<1>6. s \o <<u>> \in Seq(Task) /\ Range(s \o <<u>>) = Range(s) \cup {u}
  BY <1>4, AddedRange
<1>7. todo' = (s \o <<u>>) \o Tail(todo)
  BY <1>1, <1>2, <1>3, <1>5
<1>8. /\ loaded' \cap C = {} /\ idle' \cap C = {}
      /\ \A e \in autoloads' : Decl[e].feature \notin C
  BY <1>1 DEF Unreached, NeverLoads
<1> QED
  BY <1>1, <1>4, <1>5, <1>6, <1>7, <1>8, UnreachedStep

\* Libraries outside C require nothing of C, ...
LEMMA StuckLoadFile ==
    ASSUME NEW C, Stuck(C), Unreached(C), IInv, LoadFile PROVE Unreached(C)'
<1>1. /\ todo # <<>> /\ Now.op = "load"
      /\ todo' = ([i \in 1..Len(Requires[Now.arg]) |->
                     Require(Requires[Now.arg][i])]
                  \o <<T("provide", Now.arg)>>) \o Tail(todo)
      /\ UNCHANGED <<loaded, idle, autoloads>>
  BY DEF LoadFile, Doing, Expand
<1>2. Now \in Task /\ Now \in Range(todo)
  BY <1>1, HeadReady
<1>3. PICK f \in Features : f = Now.arg
  BY <1>1, <1>2, TaskArgs DEF FeatureOps
<1>4. f \notin C
  BY <1>1, <1>2, <1>3 DEF Unreached, Avoids, FeatureOps
<1>5. PICK r \in Seq(Features) : r = Requires[f]
  BY RequiresAssumption
<1>6. PICK s : s = [i \in 1..Len(r) |-> Require(r[i])]
  OBVIOUS
<1>7. s \in Seq(Task) /\ \A t \in Range(s) : Avoids(t, C)
  <2>1. Len(r) \in Nat /\ \A i \in 1..Len(r) : r[i] \in Features
    BY LenProperties, ElementOfSeq
  <2>2. Range(r) = {r[i] : i \in 1..Len(r)}
    BY RangeEquality
  <2>3. \A i \in 1..Len(r) : r[i] \notin C
    BY <1>4, <1>5, <2>2 DEF Stuck
  <2>4. \A i \in 1..Len(r) : s[i] \in Task /\ Avoids(s[i], C)
    BY <1>6, <2>1, <2>3, TaskTypes, AvoidsTypes DEF Require, FeatureOps
  <2> QED
    BY <1>6, <2>1, <2>4 DEF Range
<1>8. PICK u \in Task : u = T("provide", f) /\ Avoids(u, C)
  BY <1>4, TaskTypes, AvoidsTypes DEF FeatureOps
<1>9. s \o <<u>> \in Seq(Task) /\ Range(s \o <<u>>) = Range(s) \cup {u}
  BY <1>7, AddedRange
<1>10. todo' = (s \o <<u>>) \o Tail(todo)
  BY <1>1, <1>3, <1>5, <1>6, <1>8
<1>11. /\ loaded' \cap C = {} /\ idle' \cap C = {}
       /\ \A e \in autoloads' : Decl[e].feature \notin C
  BY <1>1 DEF Unreached, NeverLoads
<1> QED
  BY <1>1, <1>7, <1>8, <1>9, <1>10, <1>11, UnreachedStep

\* ... and what waits for a library is the rest of a form.
LEMMA StuckProvide ==
    ASSUME NEW C, Stuck(C), Unreached(C), IInv, Provide PROVE Unreached(C)'
<1>1. /\ todo # <<>> /\ Now.op = "provide"
      /\ loaded' = loaded \cup {Now.arg}
      /\ todo' = afterLoad[Now.arg] \o Tail(todo)
      /\ autoloads' \subseteq autoloads
      /\ UNCHANGED idle
  BY DEF Provide, Doing, Expand
<1>2. Now \in Task /\ Now \in Range(todo)
  BY <1>1, HeadReady
<1>3. PICK f \in Features : f = Now.arg
  BY <1>1, <1>2, TaskArgs DEF FeatureOps
<1>4. f \notin C
  BY <1>1, <1>2, <1>3 DEF Unreached, Avoids, FeatureOps
<1>5. PICK w \in Seq(Task) : w = afterLoad[f]
  BY DEF IInv, TypeOK
<1>6. \A t \in Range(w) : Avoids(t, C)
  BY <1>5 DEF IInv, QueuesReady, Stored, Avoids, FeatureOps
<1>7. /\ loaded' \cap C = {} /\ idle' \cap C = {}
      /\ \A e \in autoloads' : Decl[e].feature \notin C
  BY <1>1, <1>3, <1>4 DEF Unreached, NeverLoads
<1>8. todo' = w \o Tail(todo)
  BY <1>1, <1>3, <1>5
<1> QED
  BY <1>1, <1>6, <1>7, <1>8, UnreachedStep

\* No command of a library of C is defined, so none is called.
LEMMA StuckCallCommand ==
    ASSUME NEW C, Stuck(C), Unreached(C), IInv, CallCommand PROVE Unreached(C)'
<1>1. /\ todo # <<>> /\ Now.op = "call"
      /\ Decl[Now.arg].feature \in loaded \/ Now.arg \in autoloads
      /\ \/ todo' = <<>> \o Tail(todo)
         \/ todo' = <<T("load", Decl[Now.arg].feature), Call(Now.arg)>> \o Tail(todo)
      /\ UNCHANGED <<loaded, idle, autoloads>>
  BY DEF CallCommand, Doing, Expand
<1>2. PICK d \in Decls : d = Now.arg
  BY <1>1, HeadReady, TaskArgs DEF DeclOps
<1>3. /\ loaded' \cap C = {} /\ idle' \cap C = {}
      /\ \A e \in autoloads' : Decl[e].feature \notin C
  BY <1>1 DEF Unreached, NeverLoads
<1>4. CASE todo' = <<>> \o Tail(todo)
  BY <1>1, <1>3, <1>4, UnreachedNone
<1>5. CASE todo' = <<T("load", Decl[d].feature), Call(d)>> \o Tail(todo)
  <2>1. PICK t \in Task, u \in Task : t = T("load", Decl[d].feature) /\ u = Call(d)
    BY DeclTypes, TaskTypes, ScriptTaskTypes DEF FeatureOps
  <2>2. Decl[d].feature \notin C
    BY <1>1, <1>2 DEF Unreached, NeverLoads
  <2>3. Avoids(t, C) /\ Avoids(u, C)
    BY <2>1, <2>2, AvoidsTypes DEF FeatureOps, DeclOps, Call
  <2>4. PICK w \in Seq(Task) : w = <<t, u>> /\ Range(w) = {t, u}
    <3>1. <<t, u>> \in Seq(Task) /\ Range(<<t, u>>) = {t, u}
      BY DEF Range
    <3> QED
      BY <3>1
  <2> QED
    BY <1>1, <1>3, <1>5, <2>1, <2>3, <2>4, UnreachedStep
<1> QED
  BY <1>1, <1>2, <1>4, <1>5

\* One task gives way to another, or to none.
LEMMA StuckReplace ==
    ASSUME NEW C, Stuck(C), Unreached(C), IInv,
           EvalUse \/ AwaitAfter \/ RequireFeature
    PROVE  Unreached(C)'
<1>1. /\ todo # <<>> /\ UNCHANGED <<loaded, idle, autoloads>>
      /\ Now \in Task /\ Now \in Range(todo) /\ Ready(Now)
  BY HeadReady DEF EvalUse, AwaitAfter, RequireFeature, Doing
<1>2. /\ loaded' \cap C = {} /\ idle' \cap C = {}
      /\ \A e \in autoloads' : Decl[e].feature \notin C
  BY <1>1 DEF Unreached, NeverLoads
<1>3. CASE todo' = <<>> \o Tail(todo)
  BY <1>1, <1>2, <1>3, UnreachedNone
<1>4. ASSUME NEW t \in Task, Avoids(t, C), todo' = <<t>> \o Tail(todo)
      PROVE  Unreached(C)'
  BY <1>1, <1>2, <1>4, UnreachedOne
<1>5. CASE EvalUse
  <2>1. Now.op = "use" /\ todo' = <<Await(Now.arg, Len(Decl[Now.arg].after))>>
                                  \o Tail(todo)
    BY <1>5 DEF EvalUse, Doing, Expand
  <2>2. PICK d \in Decls : d = Now.arg
    BY <1>1, <2>1, TaskArgs DEF DeclOps
  <2>3. Len(Decl[d].after) \in Nat
    BY DeclTypes, LenProperties
  <2>4. PICK t \in Task : t = Await(d, Len(Decl[d].after)) /\ Avoids(t, C)
    BY <2>3, TaskTypes, AvoidsTypes
  <2> QED
    BY <1>4, <2>1, <2>2, <2>4
<1>6. CASE AwaitAfter
  <2>1. /\ Now.op = "await" /\ Now.left > 0
        /\ \/ todo' = <<Await(Now.arg, Now.left - 1)>> \o Tail(todo)
           \/ todo' = <<>> \o Tail(todo)
    BY <1>6 DEF AwaitAfter, Doing, EvalAfterLoad, Expand
  <2>2. PICK d \in Decls, n \in Nat : d = Now.arg /\ n = Now.left
    BY <1>1, <2>1, TaskArgs
  <2>3. n - 1 \in Nat
    BY <2>1, <2>2
  <2>4. PICK t \in Task : t = Await(d, n - 1) /\ Avoids(t, C)
    BY <2>3, TaskTypes, AvoidsTypes
  <2> QED
    BY <1>3, <1>4, <2>1, <2>2, <2>4
<1>7. CASE RequireFeature
  <2>1. /\ Now.op = "require"
        /\ \/ todo' = <<T("load", Now.arg)>> \o Tail(todo)
           \/ todo' = <<>> \o Tail(todo)
    BY <1>7 DEF RequireFeature, Doing, Expand
  <2>2. PICK f \in Features : f = Now.arg
    BY <1>1, <2>1, TaskArgs DEF FeatureOps
  <2>3. f \notin C
    BY <1>1, <2>1, <2>2 DEF Unreached, Avoids, FeatureOps
  <2>4. PICK t \in Task : t = T("load", f) /\ Avoids(t, C)
    BY <2>3, TaskTypes, AvoidsTypes DEF FeatureOps
  <2> QED
    BY <1>3, <1>4, <2>1, <2>2, <2>4
<1> QED
  BY <1>5, <1>6, <1>7

\* One task is done with.
LEMMA StuckPop ==
    ASSUME NEW C, Unreached(C), IInv,
           SkipUse \/ ConfigDone \/ AddHook \/ LeaveCatch
    PROVE  Unreached(C)'
<1>1. /\ todo # <<>> /\ todo' = <<>> \o Tail(todo)
      /\ UNCHANGED <<loaded, idle, autoloads>>
  BY DEF SkipUse, ConfigDone, AddHook, LeaveCatch, Doing, Expand
<1>2. /\ loaded' \cap C = {} /\ idle' \cap C = {}
      /\ \A e \in autoloads' : Decl[e].feature \notin C
  BY <1>1 DEF Unreached, NeverLoads
<1> QED
  BY <1>1, <1>2, UnreachedNone

\* An error leaves a part of the stack.
LEMMA StuckSignal ==
    ASSUME NEW C, Unreached(C), IInv, Signal, UNCHANGED <<loaded, idle, autoloads>>
    PROVE  Unreached(C)'
<1>1. todo \in Seq(Task)
  BY DEF IInv, TypeOK
<1>2. Range(todo') \subseteq Range(todo)
  <2>1. CASE \E n \in Catches : todo' = SubSeq(todo, n, Len(todo))
    BY <1>1, <2>1, SuffixProperties DEF Catches
  <2>2. CASE todo' = <<>>
    BY <2>2, ShortSequences
  <2> QED
    BY <2>1, <2>2 DEF Signal
<1> QED
  BY <1>2, UnreachedLess

\* What happens at rest.
LEMMA StuckAtRest ==
    ASSUME NEW C, Stuck(C), Unreached(C), IInv,
           \/ Startup
           \/ \E d \in Decls : Invoke(d)
           \/ \E f \in Features : LoadElsewhere(f) \/ IdleTimer(f)
    PROVE  Unreached(C)'
<1>1. /\ loaded' = loaded /\ idle' \subseteq idle /\ autoloads' = autoloads
      /\ \A t \in Range(todo') : Avoids(t, C)
  <2>1. CASE RunAfterInitHook
    <3>1. /\ todo' = [i \in 1..Len(initHook) |-> Call(initHook[i])]
          /\ UNCHANGED <<loaded, idle, autoloads, initHook>>
      BY <2>1 DEF RunAfterInitHook
    <3>2. \A d : Avoids(Call(d), C)
      BY AvoidsTypes DEF Call, DeclOps
    <3> QED
      BY <3>1, <3>2 DEF Range
  <2>2. ASSUME todo' = <<>> PROVE \A t \in Range(todo') : Avoids(t, C)
    BY <2>2, ShortSequences
  <2>3. ASSUME NEW t \in Task, todo' = <<t>>, Avoids(t, C)
        PROVE  \A u \in Range(todo') : Avoids(u, C)
    <3>1. PICK w \in Seq(Task) : w = <<t>> /\ Range(w) = {t}
      BY ShortSequences
    <3> QED
      BY <2>3, <3>1
  <2>4. CASE QuitDebugger \/ EnterCommandLoop
    BY <2>2, <2>4 DEF QuitDebugger, EnterCommandLoop
  <2>5. CASE \E d \in Decls : Invoke(d)
    <3>1. PICK d \in Decls : Invoke(d)
      BY <2>5
    <3>2. PICK t \in Task : t = Call(d) /\ Avoids(t, C)
      BY ScriptTaskTypes, AvoidsTypes DEF Call, DeclOps
    <3>3. todo' = <<t>>
      BY <3>1, <3>2 DEF Invoke
    <3> QED
      BY <2>3, <3>1, <3>2, <3>3 DEF Invoke
  <2>6. CASE \E f \in Features : LoadElsewhere(f)
    <3>1. PICK f \in Features : LoadElsewhere(f)
      BY <2>6
    <3>2. f \notin C
      BY <3>1 DEF LoadElsewhere, Stuck
    <3>3. PICK t \in Task : t = T("load", f) /\ Avoids(t, C)
      BY <3>2, TaskTypes, AvoidsTypes DEF FeatureOps
    <3>4. todo' = <<t>>
      BY <3>1, <3>3 DEF LoadElsewhere
    <3> QED
      BY <2>3, <3>1, <3>3, <3>4 DEF LoadElsewhere
  <2>7. CASE \E f \in Features : IdleTimer(f)
    <3>1. PICK f \in Features : IdleTimer(f)
      BY <2>7
    <3>2. f \notin C
      BY <3>1 DEF IdleTimer, Unreached
    <3>3. PICK t \in Task : t = Require(f) /\ Avoids(t, C)
      BY <3>2, TaskTypes, AvoidsTypes DEF FeatureOps, Require
    <3>4. todo' = <<>> \/ todo' = <<t>>
      BY <3>1, <3>3 DEF IdleTimer
    <3> QED
      BY <2>2, <2>3, <3>1, <3>3, <3>4 DEF IdleTimer
  <2> QED
    BY <2>1, <2>4, <2>5, <2>6, <2>7 DEF Startup
<1> QED
  BY <1>1, UnreachedLess

\* No step leads to a library of C.
LEMMA StuckStep ==
    ASSUME NEW C, Stuck(C)
    PROVE  IInv /\ Unreached(C) /\ [Next]_vars => Unreached(C)'
<1> SUFFICES ASSUME IInv, Unreached(C), [Next]_vars PROVE Unreached(C)'
  OBVIOUS
<1>1. CASE EvalBody
  BY <1>1, StuckEvalBody
<1>2. CASE Settle
  BY <1>2, StuckSettle
<1>3. CASE Demand
  BY <1>3, StuckDemand
<1>4. CASE EvalConfig
  BY <1>4, StuckEvalConfig
<1>5. CASE LoadFile
  BY <1>5, StuckLoadFile
<1>6. CASE Provide
  BY <1>6, StuckProvide
<1>7. CASE CallCommand
  BY <1>7, StuckCallCommand
<1>8. CASE EvalUse \/ AwaitAfter \/ RequireFeature
  BY <1>8, StuckReplace
<1>9. CASE SkipUse \/ ConfigDone \/ AddHook \/ LeaveCatch
  BY <1>9, StuckPop
<1>10. CASE InitFails \/ ConfigFails \/ LoadMissing
  BY <1>10, StuckSignal DEF InitFails, ConfigFails, LoadMissing
<1>11. CASE \/ Startup
            \/ \E d \in Decls : Invoke(d)
            \/ \E f \in Features : LoadElsewhere(f) \/ IdleTimer(f)
  BY <1>11, StuckAtRest
<1>12. CASE UNCHANGED vars
  BY <1>12 DEF vars, Unreached, NeverLoads, Avoids
<1> QED
  BY <1>1, <1>2, <1>3, <1>4, <1>5, <1>6, <1>7, <1>8, <1>9, <1>10, <1>11, <1>12
     DEF Next, Evaluate

\* Nothing but .emacs itself is there to be done.
LEMMA StuckInit ==
    ASSUME NEW C, Stuck(C) PROVE Init => Unreached(C)
<1> SUFFICES ASSUME Init PROVE Unreached(C)
  OBVIOUS
<1>1. DotEmacs \in Scripts
  BY DEF Scripts
<1>2. \A t \in Range(DotEmacs) : Avoids(t, C)
  BY <1>1, StuckScript
<1> QED
  BY <1>2 DEF Init, Unreached, NeverLoads

\* Libraries whose forms wait for one another, and that nothing else loads, are
\* never loaded, whichever they are: not in any order in which the rest is, nor by a
\* command, a hook or an idle timer.
THEOREM CirclesForever == Spec => []CirclesStay
<1> DEFINE SInv == \A C \in Circles : Unreached(C)
<1>1. Init => SInv
  BY StuckInit DEF Circles
<1>2. IInv /\ SInv /\ [Next]_vars => SInv'
  BY StuckStep DEF Circles
<1>3. SInv => CirclesStay
  BY DEF CirclesStay, Unreached
<1> HIDE DEF SInv
<1> QED
  BY <1>1, <1>2, <1>3, Invariance, PTL DEF Spec

(***************************************************************************)
(* Commands that are called are defined.                                   *)
(***************************************************************************)

\* A command of form d's package is there, or an autoload for it is.
Bound(d) == d \in autoloads \/ Decl[d].feature \in loaded

\* What calls a command, or is to put one on a hook, may do so.
Callable(t) ==
    /\ t.op = "call" => Bound(t.arg)
    /\ t.op = "hook" /\ Decl[t.arg].initHook => Bound(t.arg)

AllCallable ==
    /\ \A t \in Range(todo) : Callable(t)
    /\ \A d \in Range(initHook) : Bound(d)

\* No step leaves a command undefined that was defined.
StaysBound == \A d : Bound(d) => Bound(d)'

\* Steps that leave `features' and the autoloads alone.
LEMMA BoundSame ==
    ASSUME UNCHANGED <<loaded, autoloads>> PROVE StaysBound
BY DEF StaysBound, Bound

\* What could be called still can.
LEMMA CallableGrows ==
    ASSUME StaysBound, NEW t, Callable(t) PROVE Callable(t)'
BY DEF StaysBound, Callable

\* Only tasks whose commands are defined are added.
LEMMA CallableStep ==
    ASSUME AllCallable, StaysBound, NEW W, \A t \in W : Callable(t)',
           Range(todo') \subseteq W \cup Range(todo), initHook' = initHook
    PROVE  AllCallable'
<1>1. \A t \in Range(todo) : Callable(t)'
  BY CallableGrows DEF AllCallable
<1>2. \A d \in Range(initHook) : Bound(d)'
  BY DEF AllCallable, StaysBound
<1> QED
  BY <1>1, <1>2 DEF AllCallable

\* Tasks that call nothing.
LEMMA CallableTypes ==
    /\ \A t : t.op \notin {"call", "hook"} => Callable(t) /\ Callable(t)'
    /\ \A d, n : Callable(Await(d, n)) /\ Callable(Await(d, n))'
    /\ \A d : \A op \in (DeclOps \cup FeatureOps) \ {"call", "hook"} :
         Callable(T(op, d)) /\ Callable(T(op, d))'
BY DEF Callable, Await, T, DeclOps, FeatureOps

\* The head task gives way to work whose commands are defined.
LEMMA CallableWork ==
    ASSUME AllCallable, StaysBound, IInv, todo # <<>>, NEW w \in Seq(Task),
           todo' = w \o Tail(todo), \A t \in Range(w) : Callable(t)',
           initHook' = initHook
    PROVE  AllCallable'
<1>1. todo \in Seq(Task)
  BY DEF IInv, TypeOK
<1>2. Range(todo') \subseteq Range(w) \cup Range(todo)
  BY <1>1, WorkProperties
<1> QED
  BY <1>2, CallableStep

\* The same for a head that gives way to one task, to two, or to none.
LEMMA CallableOne ==
    ASSUME AllCallable, StaysBound, IInv, todo # <<>>, NEW t \in Task,
           todo' = <<t>> \o Tail(todo), Callable(t)', initHook' = initHook
    PROVE  AllCallable'
<1>1. PICK w \in Seq(Task) : w = <<t>> /\ Range(w) = {t}
  BY ShortSequences
<1> QED
  BY <1>1, CallableWork

LEMMA CallableTwo ==
    ASSUME AllCallable, StaysBound, IInv, todo # <<>>, NEW t \in Task, NEW u \in Task,
           todo' = <<t, u>> \o Tail(todo), Callable(t)', Callable(u)',
           initHook' = initHook
    PROVE  AllCallable'
<1>1. PICK w \in Seq(Task) : w = <<t, u>> /\ Range(w) = {t, u}
  <2>1. <<t, u>> \in Seq(Task) /\ Range(<<t, u>>) = {t, u}
    BY DEF Range
  <2> QED
    BY <2>1
<1> QED
  BY <1>1, CallableWork

LEMMA CallableNone ==
    ASSUME AllCallable, StaysBound, IInv, todo # <<>>, todo' = <<>> \o Tail(todo),
           initHook' = initHook
    PROVE  AllCallable'
<1>1. PICK w \in Seq(Task) : w = <<>> /\ Range(w) = {}
  BY ShortSequences
<1> QED
  BY <1>1, CallableWork

\* Steps that take a task away, or change it for one that calls nothing.
LEMMA CallablePops ==
    ASSUME AllCallable, IInv, SkipUse \/ ConfigDone \/ LeaveCatch
    PROVE  AllCallable'
<1>1. /\ todo # <<>> /\ todo' = <<>> \o Tail(todo) /\ initHook' = initHook
      /\ UNCHANGED <<loaded, autoloads>>
  BY DEF SkipUse, ConfigDone, LeaveCatch, Doing, Expand
<1> QED
  BY <1>1, BoundSame, CallableNone

\* Being evaluated, and waiting, call nothing.
LEMMA CallableEvalUse == ASSUME AllCallable, IInv, EvalUse PROVE AllCallable'
<1>1. /\ todo # <<>> /\ Now.op = "use" /\ initHook' = initHook
      /\ UNCHANGED <<loaded, autoloads>>
      /\ todo' = <<Await(Now.arg, Len(Decl[Now.arg].after))>> \o Tail(todo)
  BY DEF EvalUse, Doing, Expand
<1>2. PICK d \in Decls : d = Now.arg
  BY <1>1, HeadReady, TaskArgs DEF DeclOps
<1>3. Len(Decl[d].after) \in Nat
  BY DeclTypes, LenProperties
<1>4. PICK t \in Task : t = Await(d, Len(Decl[d].after)) /\ Callable(t)'
  BY <1>3, TaskTypes, CallableTypes
<1> QED
  BY <1>1, <1>2, <1>4, BoundSame, CallableOne

LEMMA CallableAwaitAfter == ASSUME AllCallable, IInv, AwaitAfter PROVE AllCallable'
<1>1. /\ todo # <<>> /\ Now.op = "await" /\ Now.left > 0 /\ initHook' = initHook
      /\ UNCHANGED <<loaded, autoloads>>
      /\ \/ todo' = <<Await(Now.arg, Now.left - 1)>> \o Tail(todo)
         \/ todo' = <<>> \o Tail(todo)
  BY DEF AwaitAfter, Doing, EvalAfterLoad, Expand
<1>2. PICK d \in Decls, n \in Nat : d = Now.arg /\ n = Now.left
  BY <1>1, HeadReady, TaskArgs
<1>3. n - 1 \in Nat
  BY <1>1, <1>2
<1>4. PICK t \in Task : t = Await(d, n - 1) /\ Callable(t)'
  BY <1>3, TaskTypes, CallableTypes
<1> QED
  BY <1>1, <1>2, <1>4, BoundSame, CallableOne, CallableNone

LEMMA CallableRequire == ASSUME AllCallable, IInv, RequireFeature PROVE AllCallable'
<1>1. /\ todo # <<>> /\ Now.op = "require" /\ initHook' = initHook
      /\ UNCHANGED <<loaded, autoloads>>
      /\ \/ todo' = <<T("load", Now.arg)>> \o Tail(todo)
         \/ todo' = <<>> \o Tail(todo)
  BY DEF RequireFeature, Doing, Expand
<1>2. PICK f \in Features : f = Now.arg
  BY <1>1, HeadReady, TaskArgs DEF FeatureOps
<1>4. PICK t \in Task : t = T("load", f) /\ Callable(t)'
  BY TaskTypes, CallableTypes DEF FeatureOps
<1> QED
  BY <1>1, <1>2, <1>4, BoundSame, CallableOne, CallableNone

\* The autoloads of a form come before its :init and its hook.
LEMMA CallableEvalBody ==
    ASSUME OwnCommands, AllCallable, IInv, EvalBody PROVE AllCallable'
<1>1. /\ todo # <<>> /\ Now.op = "await" /\ initHook' = initHook
      /\ loaded' = loaded
      /\ autoloads' =
            IF Decl[Now.arg].commands /\ ~Decl[Now.arg].demand
               /\ Decl[Now.arg].feature \notin loaded
            THEN autoloads \cup {Now.arg} ELSE autoloads
      /\ todo' = (Decl[Now.arg].init
                    \o <<T("settle", Now.arg), T("hook", Now.arg)>>) \o Tail(todo)
  BY DEF EvalBody, Doing, Expand
<1>2. PICK d \in Decls : d = Now.arg
  BY <1>1, HeadReady, TaskArgs
<1>3. StaysBound
  BY <1>1 DEF StaysBound, Bound
<1>4. Decl[d].commands /\ ~Decl[d].demand => Bound(d)'
  BY <1>1, <1>2 DEF Bound
<1>5. PICK s \in Seq(ScriptTask) : s = Decl[d].init
  BY DeclTypes
<1>6. s \in Seq(Task) /\ Range(s) \subseteq ScriptTask
  BY ScriptReady
<1>7. ASSUME NEW t \in Range(s) PROVE Callable(t)'
  <2>1. t.op # "hook"
    BY <1>6 DEF ScriptTask
  <2>2. t.op = "call" => t.arg = d /\ Decl[d].commands /\ ~Decl[d].demand
    BY <1>5 DEF OwnCommands
  <2>3. t.op = "call" => t.arg = d /\ Bound(d)'
    BY <1>4, <2>2
  <2> QED
    BY <2>1, <2>3 DEF Callable
<1>8. PICK t \in Task, u \in Task : t = T("settle", d) /\ u = T("hook", d)
  BY TaskTypes DEF DeclOps
<1>9. Callable(t)'
  BY <1>8, CallableTypes DEF DeclOps
<1>10. Callable(u)'
  <2>1. u.op = "hook" /\ u.arg = d
    BY <1>8 DEF T
  <2>2. Decl[d].initHook => Bound(d)'
    BY <1>4 DEF OwnCommands
  <2> QED
    BY <2>1, <2>2 DEF Callable
<1>11. PICK w \in Seq(Task) : w = s \o <<t, u>> /\ Range(w) = Range(s) \cup {t, u}
  <2>1. s \o <<t, u>> \in Seq(Task) /\ Range(s \o <<t, u>>) = Range(s) \cup {t, u}
    BY <1>6, AddedTwoRange
  <2> QED
    BY <2>1
<1>12. todo' = w \o Tail(todo)
  BY <1>1, <1>2, <1>5, <1>8, <1>11
<1>13. \A r \in Range(w) : Callable(r)'
  BY <1>7, <1>9, <1>10, <1>11
<1> QED
  BY <1>1, <1>3, <1>12, <1>13, CallableWork

\* Nor does what settles or demands a form.
LEMMA CallableSettle == ASSUME AllCallable, IInv, Settle PROVE AllCallable'
<1>1. /\ todo # <<>> /\ Now.op = "settle" /\ initHook' = initHook
      /\ UNCHANGED <<loaded, autoloads>>
      /\ \/ todo' = <<>> \o Tail(todo)
         \/ todo' = <<T("config", Now.arg)>> \o Tail(todo)
         \/ todo' = <<T("demand", Now.arg)>> \o Tail(todo)
  BY DEF Settle, Doing, Expand, EvalAfterLoad
<1>2. PICK d \in Decls : d = Now.arg
  BY <1>1, HeadReady, TaskArgs DEF DeclOps
<1>3. PICK c \in Task, m \in Task : c = T("config", d) /\ m = T("demand", d)
  BY TaskTypes DEF DeclOps
<1>4. Callable(c)' /\ Callable(m)'
  BY <1>3, CallableTypes DEF DeclOps
<1> QED
  BY <1>1, <1>2, <1>3, <1>4, BoundSame, CallableOne, CallableNone

LEMMA CallableDemand == ASSUME AllCallable, IInv, Demand PROVE AllCallable'
<1>1. /\ todo # <<>> /\ Now.op = "demand" /\ initHook' = initHook
      /\ UNCHANGED <<loaded, autoloads>>
      /\ \/ todo' = <<T("config", Now.arg)>> \o Tail(todo)
         \/ todo' = <<T("load", Decl[Now.arg].feature), T("demand", Now.arg)>>
                    \o Tail(todo)
  BY DEF Demand, Doing, Expand
<1>2. PICK d \in Decls : d = Now.arg
  BY <1>1, HeadReady, TaskArgs DEF DeclOps
<1>3. PICK c \in Task, m \in Task : c = T("config", d) /\ m = T("demand", d)
  BY TaskTypes DEF DeclOps
<1>4. PICK l \in Task : l = T("load", Decl[d].feature)
  BY DeclTypes, TaskTypes DEF FeatureOps
<1>5. Callable(c)' /\ Callable(m)' /\ Callable(l)'
  BY <1>3, <1>4, CallableTypes DEF DeclOps, FeatureOps
<1>6. CASE todo' = <<c>> \o Tail(todo)
  BY <1>1, <1>5, <1>6, BoundSame, CallableOne
<1>7. CASE todo' = <<l, m>> \o Tail(todo)
  BY <1>1, <1>5, <1>7, BoundSame, CallableTwo
<1> QED
  BY <1>1, <1>2, <1>3, <1>4, <1>6, <1>7

\* When :config runs, the package is loaded, or the form needs none.
LEMMA CallableEvalConfig ==
    ASSUME OwnCommands, AllCallable, IInv, EvalConfig PROVE AllCallable'
<1>1. /\ todo # <<>> /\ Now.op = "config" /\ initHook' = initHook
      /\ UNCHANGED <<loaded, autoloads>>
      /\ todo' = (Decl[Now.arg].config \o <<T("configured", Now.arg)>>)
                 \o Tail(todo)
  BY DEF EvalConfig, Doing, Expand
<1>2. PICK d \in Decls : d = Now.arg
  BY <1>1, HeadReady, TaskArgs DEF DeclOps
<1>3. Inline(d) \/ Decl[d].feature \in loaded
  BY <1>1, <1>2, HeadReady DEF Ready
<1>4. PICK s \in Seq(ScriptTask) : s = Decl[d].config
  BY DeclTypes
<1>5. s \in Seq(Task) /\ Range(s) \subseteq ScriptTask
  BY ScriptReady
<1>6. ASSUME NEW t \in Range(s) PROVE Callable(t)'
  <2>1. t.op # "hook"
    BY <1>5 DEF ScriptTask
  <2>2. t.op = "call" => t.arg = d /\ ~Inline(d)
    BY <1>4 DEF OwnCommands
  <2>3. t.op = "call" => t.arg = d /\ Bound(d)'
    BY <1>1, <1>3, <2>2 DEF Bound
  <2> QED
    BY <2>1, <2>3 DEF Callable
<1>7. PICK u \in Task : u = T("configured", d) /\ Callable(u)'
  BY TaskTypes, CallableTypes DEF DeclOps
<1>8. PICK w \in Seq(Task) : w = s \o <<u>> /\ Range(w) = Range(s) \cup {u}
  <2>1. s \o <<u>> \in Seq(Task) /\ Range(s \o <<u>>) = Range(s) \cup {u}
    BY <1>5, AddedRange
  <2> QED
    BY <2>1
<1>9. todo' = w \o Tail(todo)
  BY <1>1, <1>2, <1>4, <1>7, <1>8
<1> QED
  BY <1>1, <1>6, <1>7, <1>8, <1>9, BoundSame, CallableWork

\* Nor does a library while it is loaded.
LEMMA CallableLoadFile == ASSUME AllCallable, IInv, LoadFile PROVE AllCallable'
<1>1. /\ todo # <<>> /\ Now.op = "load" /\ initHook' = initHook
      /\ UNCHANGED <<loaded, autoloads>>
      /\ todo' = ([i \in 1..Len(Requires[Now.arg]) |->
                     Require(Requires[Now.arg][i])]
                  \o <<T("provide", Now.arg)>>) \o Tail(todo)
  BY DEF LoadFile, Doing, Expand
<1>2. PICK f \in Features : f = Now.arg
  BY <1>1, HeadReady, TaskArgs DEF FeatureOps
<1>3. PICK r \in Seq(Features) : r = Requires[f]
  BY RequiresAssumption
<1>4. PICK s : s = [i \in 1..Len(r) |-> Require(r[i])]
  OBVIOUS
<1>5. s \in Seq(Task) /\ \A t \in Range(s) : Callable(t)'
  <2>1. Len(r) \in Nat /\ \A i \in 1..Len(r) : r[i] \in Features
    BY LenProperties, ElementOfSeq
  <2>2. \A i \in 1..Len(r) : s[i] \in Task /\ Callable(s[i])'
    BY <1>4, <2>1, TaskTypes, CallableTypes DEF Require, FeatureOps
  <2> QED
    BY <1>4, <2>1, <2>2 DEF Range
<1>6. PICK u \in Task : u = T("provide", f) /\ Callable(u)'
  BY TaskTypes, CallableTypes DEF FeatureOps
<1>7. PICK w \in Seq(Task) : w = s \o <<u>> /\ Range(w) = Range(s) \cup {u}
  <2>1. s \o <<u>> \in Seq(Task) /\ Range(s \o <<u>>) = Range(s) \cup {u}
    BY <1>5, AddedRange
  <2> QED
    BY <2>1
<1>8. todo' = w \o Tail(todo)
  BY <1>1, <1>2, <1>3, <1>4, <1>6, <1>7
<1> QED
  BY <1>1, <1>5, <1>6, <1>7, <1>8, BoundSame, CallableWork

\* A library replaces the autoloads of its own commands only.
LEMMA CallableProvide == ASSUME AllCallable, IInv, Provide PROVE AllCallable'
<1>1. /\ todo # <<>> /\ Now.op = "provide" /\ initHook' = initHook
      /\ loaded' = loaded \cup {Now.arg}
      /\ todo' = afterLoad[Now.arg] \o Tail(todo)
      /\ autoloads' = {d \in autoloads : Decl[d].feature # Now.arg}
  BY DEF Provide, Doing, Expand
<1>2. PICK f \in Features : f = Now.arg
  BY <1>1, HeadReady, TaskArgs DEF FeatureOps
<1>3. StaysBound
  BY <1>1 DEF StaysBound, Bound
<1>4. PICK w \in Seq(Task) : w = afterLoad[f]
  BY DEF IInv, TypeOK
<1>5. \A t \in Range(w) : Callable(t)'
  <2>1. \A t \in Range(w) : t.op \in {"await", "config"}
    BY <1>4 DEF IInv, QueuesReady, Stored
  <2> QED
    BY <2>1, CallableTypes
<1>6. todo' = w \o Tail(todo)
  BY <1>1, <1>2, <1>4
<1> QED
  BY <1>1, <1>3, <1>5, <1>6, CallableWork

\* A command that loads its library is called again afterwards.
LEMMA CallableCall == ASSUME AllCallable, IInv, CallCommand PROVE AllCallable'
<1>1. /\ todo # <<>> /\ Now.op = "call" /\ initHook' = initHook
      /\ UNCHANGED <<loaded, autoloads>>
      /\ \/ todo' = <<>> \o Tail(todo)
         \/ todo' = <<T("load", Decl[Now.arg].feature), Call(Now.arg)>> \o Tail(todo)
  BY DEF CallCommand, Doing, Expand
<1>2. PICK d \in Decls : d = Now.arg
  BY <1>1, HeadReady, TaskArgs DEF DeclOps
<1>3. Bound(d)
  BY <1>1, <1>2, HeadReady DEF AllCallable, Callable
<1>4. PICK l \in Task, u \in Task : l = T("load", Decl[d].feature) /\ u = Call(d)
  BY DeclTypes, TaskTypes, ScriptTaskTypes DEF FeatureOps
<1>5. Callable(l)'
  BY <1>4, CallableTypes DEF FeatureOps
<1>6. Callable(u)'
  <2>1. u.op = "call" /\ u.arg = d
    BY <1>4 DEF Call, T
  <2>2. Bound(d)'
    BY <1>1, <1>3 DEF Bound
  <2> QED
    BY <2>1, <2>2 DEF Callable
<1>7. CASE todo' = <<>> \o Tail(todo)
  BY <1>1, <1>7, BoundSame, CallableNone
<1>8. CASE todo' = <<l, u>> \o Tail(todo)
  BY <1>1, <1>5, <1>6, <1>8, BoundSame, CallableTwo
<1> QED
  BY <1>1, <1>2, <1>4, <1>7, <1>8

\* A function is put on after-init-hook once its autoload is there.
LEMMA CallableAddHook == ASSUME AllCallable, IInv, AddHook PROVE AllCallable'
<1>1. /\ todo # <<>> /\ Now.op = "hook" /\ todo' = <<>> \o Tail(todo)
      /\ UNCHANGED <<loaded, autoloads>>
      /\ \/ initHook' = initHook
         \/ Decl[Now.arg].initHook /\ initHook' = <<Now.arg>> \o initHook
  BY DEF AddHook, Doing, Expand
<1>2. PICK d \in Decls : d = Now.arg
  BY <1>1, HeadReady, TaskArgs DEF DeclOps
<1>3. todo \in Seq(Task) /\ initHook \in Seq(Decls)
  BY DEF IInv, TypeOK
<1>4. Decl[d].initHook => Bound(d)
  BY <1>1, <1>2, HeadReady DEF AllCallable, Callable
<1>5. Range(todo') \subseteq Range(todo)
  BY <1>1, <1>3, DropHead
<1>6. StaysBound
  BY <1>1, BoundSame
<1>7. \A t \in Range(todo') : Callable(t)'
  BY <1>5, <1>6, CallableGrows DEF AllCallable
<1>8. \A e \in Range(initHook) : Bound(e)'
  BY <1>6 DEF AllCallable, StaysBound
<1>9. CASE initHook' = initHook
  BY <1>7, <1>8, <1>9 DEF AllCallable
<1>10. CASE Decl[d].initHook /\ initHook' = <<d>> \o initHook
  <2>1. PICK one \in Seq(Decls) : one = <<d>> /\ Range(one) = {d}
    BY ShortSequences
  <2>2. \A h \in Seq(Decls) : Range(one \o h) = Range(one) \cup Range(h)
    BY RangeConcatenation, Zenon
  <2>3. Range(initHook') = {d} \cup Range(initHook)
    BY <1>3, <1>10, <2>1, <2>2
  <2>4. Bound(d)'
    BY <1>4, <1>6, <1>10 DEF StaysBound
  <2> QED
    BY <1>7, <1>8, <2>3, <2>4 DEF AllCallable
<1> QED
  BY <1>1, <1>2, <1>9, <1>10

\* An error only takes work away.
LEMMA CallableSignal ==
    ASSUME AllCallable, IInv, Signal, UNCHANGED <<loaded, autoloads, initHook>>
    PROVE  AllCallable'
<1>1. todo \in Seq(Task)
  BY DEF IInv, TypeOK
<1>2. Range(todo') \subseteq Range(todo)
  <2>1. CASE \E n \in Catches : todo' = SubSeq(todo, n, Len(todo))
    BY <1>1, <2>1, SuffixProperties DEF Catches
  <2>2. CASE todo' = <<>>
    BY <2>2, ShortSequences
  <2> QED
    BY <2>1, <2>2 DEF Signal
<1>3. PICK W : W = {}
  OBVIOUS
<1> QED
  BY <1>2, <1>3, BoundSame, CallableStep

\* What starts at rest is one call of an autoloaded command, or calls nothing;
\* the hook holds defined commands only.
LEMMA CallableAtRest ==
    ASSUME AllCallable, IInv,
           \/ Startup
           \/ \E d \in Decls : Invoke(d)
           \/ \E f \in Features : LoadElsewhere(f) \/ IdleTimer(f)
    PROVE  AllCallable'
<1>1. initHook' = initHook /\ UNCHANGED <<loaded, autoloads>>
  BY DEF Startup, RunAfterInitHook, QuitDebugger, EnterCommandLoop, Invoke,
         LoadElsewhere, IdleTimer
<1>2. ASSUME todo' = <<>> PROVE \A t \in Range(todo') : Callable(t)'
  BY <1>2, ShortSequences
<1>3. ASSUME NEW t \in Task, todo' = <<t>>, Callable(t)'
      PROVE  \A u \in Range(todo') : Callable(u)'
  <2>1. PICK w \in Seq(Task) : w = <<t>> /\ Range(w) = {t}
    BY ShortSequences
  <2> QED
    BY <1>3, <2>1
<1>4. \A d : Bound(d) => Callable(Call(d))'
  BY <1>1 DEF Callable, Call, T, Bound
<1>5. \A t \in Range(todo') : Callable(t)'
  <2>1. CASE RunAfterInitHook
    <3>1. todo' = [i \in 1..Len(initHook) |-> Call(initHook[i])]
      BY <2>1 DEF RunAfterInitHook
    <3>2. initHook \in Seq(Decls)
      BY DEF IInv, TypeOK
    <3>3. Range(initHook) = {initHook[i] : i \in 1..Len(initHook)}
      BY <3>2, RangeEquality
    <3>4. \A i \in 1..Len(initHook) : Bound(initHook[i])
      BY <3>3 DEF AllCallable
    <3> SUFFICES ASSUME NEW t \in Range(todo') PROVE Callable(t)'
      OBVIOUS
    <3>5. PICK i \in 1..Len(initHook) : t = Call(initHook[i])
      BY <3>1 DEF Range
    <3>6. PICK d : d = initHook[i] /\ Bound(d)
      BY <3>4
    <3> QED
      BY <1>4, <3>5, <3>6
  <2>2. CASE QuitDebugger \/ EnterCommandLoop
    BY <1>2, <2>2 DEF QuitDebugger, EnterCommandLoop
  <2>3. ASSUME NEW d \in Decls, Invoke(d) PROVE \A t \in Range(todo') : Callable(t)'
    <3>1. todo' = <<Call(d)>> /\ Bound(d)
      BY <2>3 DEF Invoke, Bound
    <3>2. PICK t \in Task : t = Call(d) /\ Callable(t)'
      BY <1>4, <3>1, ScriptTaskTypes
    <3> QED
      BY <1>3, <3>1, <3>2
  <2>4. ASSUME NEW f \in Features, LoadElsewhere(f)
        PROVE  \A t \in Range(todo') : Callable(t)'
    <3>1. PICK t \in Task : t = T("load", f) /\ Callable(t)'
      BY TaskTypes, CallableTypes DEF FeatureOps
    <3>2. todo' = <<t>>
      BY <2>4, <3>1 DEF LoadElsewhere
    <3> QED
      BY <1>3, <3>1, <3>2
  <2>5. ASSUME NEW f \in Features, IdleTimer(f)
        PROVE  \A t \in Range(todo') : Callable(t)'
    <3>1. PICK t \in Task : t = Require(f) /\ Callable(t)'
      BY TaskTypes, CallableTypes DEF FeatureOps, Require
    <3>2. todo' = <<>> \/ todo' = <<t>>
      BY <2>5, <3>1 DEF IdleTimer
    <3> QED
      BY <1>2, <1>3, <3>1, <3>2
  <2> QED
    BY <2>1, <2>2, <2>3, <2>4, <2>5 DEF Startup
<1>6. PICK W : W = Range(todo')
  OBVIOUS
<1> QED
  BY <1>1, <1>5, <1>6, BoundSame, CallableStep

\* No step calls, or hooks, a command that is not defined.
LEMMA CallableNext ==
    ASSUME OwnCommands PROVE IInv /\ AllCallable /\ [Next]_vars => AllCallable'
<1> SUFFICES ASSUME IInv, AllCallable, [Next]_vars PROVE AllCallable'
  OBVIOUS
<1>1. CASE SkipUse \/ ConfigDone \/ LeaveCatch
  BY <1>1, CallablePops
<1>2. CASE EvalUse
  BY <1>2, CallableEvalUse
<1>3. CASE AwaitAfter
  BY <1>3, CallableAwaitAfter
<1>4. CASE EvalBody
  BY <1>4, CallableEvalBody
<1>5. CASE Settle
  BY <1>5, CallableSettle
<1>6. CASE Demand
  BY <1>6, CallableDemand
<1>7. CASE EvalConfig
  BY <1>7, CallableEvalConfig
<1>8. CASE AddHook
  BY <1>8, CallableAddHook
<1>9. CASE RequireFeature
  BY <1>9, CallableRequire
<1>10. CASE LoadFile
  BY <1>10, CallableLoadFile
<1>11. CASE Provide
  BY <1>11, CallableProvide
<1>12. CASE CallCommand
  BY <1>12, CallableCall
<1>13. CASE InitFails \/ ConfigFails \/ LoadMissing
  BY <1>13, CallableSignal DEF InitFails, ConfigFails, LoadMissing
<1>14. CASE \/ Startup
            \/ \E d \in Decls : Invoke(d)
            \/ \E f \in Features : LoadElsewhere(f) \/ IdleTimer(f)
  BY <1>14, CallableAtRest
<1>15. CASE UNCHANGED vars
  BY <1>15 DEF vars, AllCallable, Callable, Bound
<1> QED
  BY <1>1, <1>2, <1>3, <1>4, <1>5, <1>6, <1>7, <1>8, <1>9, <1>10, <1>11,
     <1>12, <1>13, <1>14, <1>15 DEF Next, Evaluate

\* .emacs itself calls nothing.
LEMMA CallableInit == ASSUME OwnCommands PROVE Init => AllCallable
<1> SUFFICES ASSUME Init PROVE AllCallable
  OBVIOUS
<1>1. todo = DotEmacs /\ Range(initHook) = {}
  BY ShortSequences DEF Init
<1>2. Range(DotEmacs) \subseteq ScriptTask
  BY DotEmacsAssumption, ScriptReady
<1>3. \A t \in Range(DotEmacs) : t.op \notin {"call", "hook"}
  BY <1>2 DEF OwnCommands, ScriptTask
<1> QED
  BY <1>1, <1>3, CallableTypes DEF AllCallable

\* When forms call only commands of their own, where they have autoloads or
\* have been loaded, no command is ever called that is not defined: not by a
\* hook, after an error, nor while the library replaces its autoloads.
THEOREM CommandsAlwaysBound ==
    ASSUME OwnCommands
    PROVE  Spec => []CommandsBound
<1>1. Init => AllCallable
  BY CallableInit
<1>2. IInv /\ AllCallable /\ [Next]_vars => AllCallable'
  BY CallableNext
<1>3. IInv /\ AllCallable => CommandsBound
  <2> SUFFICES ASSUME IInv, AllCallable, Doing("call") PROVE Bound(Now.arg)
    BY DEF CommandsBound, Bound
  <2>1. todo # <<>> /\ Now.op = "call"
    BY DEF Doing
  <2>2. Now \in Range(todo)
    BY <2>1, HeadReady
  <2> QED
    BY <2>1, <2>2 DEF AllCallable, Callable
<1> QED
  BY <1>1, <1>2, <1>3, Invariance, PTL DEF Spec

(***************************************************************************)
(* Every form is evaluated once, and its work goes on in one place.        *)
(***************************************************************************)

\* A task of S is in the sequence s; no two are.
Has(S, s)    == \E i \in DOMAIN s : s[i] \in S
Single(S, s) == \A i, j \in DOMAIN s : s[i] \in S /\ s[j] \in S => i = j

\* A task of S is on the stack or waits; at most one does either.
Somewhere(S) == Has(S, todo) \/ \E f \in Features : Has(S, afterLoad[f])
Alone(S) ==
    /\ Single(S, todo)
    /\ \A f \in Features : Single(S, afterLoad[f])
    /\ \A f \in Features : Has(S, afterLoad[f]) => ~Has(S, todo)
    /\ \A f, g \in Features : Has(S, afterLoad[f]) /\ Has(S, afterLoad[g]) => f = g

\* The tasks form d goes through, without the first, before :init, and before
\* :config.
Work(d)   == {t \in Task : t.arg = d /\ (t.op = "use" \/ Continues(t, d))}
Cont(d)   == {t \in Task : Continues(t, d)}
Awaits(d) == {t \in Task : t.arg = d /\ t.op = "await"}
Early(d)  == {t \in Task : Continues(t, d) /\ t.op # "configured"}

\* The code of a section has been put on the stack, or never will be.
InitOpen(d)   == d \in seen /\ ~Somewhere(Awaits(d))
ConfigOpen(d) == d \in seen /\ ~Somewhere(Early(d))

Unwound(d) == \E t \in lost : Continues(t, d)

\* The section that evaluates d, if there is one, has been opened.
Reached(d) ==
    \A c \in Decls :
      /\ Use(d) \in Range(Decl[c].init) => InitOpen(c)
      /\ Use(d) \in Range(Decl[c].config) => ConfigOpen(c)

Tidy(d) ==
    /\ Alone(Work(d))
    /\ Somewhere({Use(d)}) => d \notin seen
    /\ Somewhere(Cont(d)) <=> d \in seen /\ d \notin configured /\ ~Unwound(d)
    /\ Unwound(d) => d \in seen
    /\ Somewhere({Use(d)}) \/ d \in seen => Reached(d)

AllTidy == \A d \in Decls : Tidy(d)
NoneLeft == \A f \in loaded : afterLoad[f] = <<>>

(***************************************************************************)
(* Tasks in sequences.                                                     *)
(***************************************************************************)

\* In a set of elements, in terms of what the sequence holds.
LEMMA HasRange ==
    ASSUME NEW S, NEW s
    PROVE  Has(S, s) <=> Range(s) \cap S # {}
BY DEF Has, Range

\* The head and the rest.
LEMMA HeadAndRest ==
    ASSUME NEW S, NEW s \in Seq(Task), s # <<>>
    PROVE  /\ Has(S, s) <=> s[1] \in S \/ Has(S, Tail(s))
           /\ Single(S, s) <=>
                Single(S, Tail(s)) /\ ~(s[1] \in S /\ Has(S, Tail(s)))
<1>1. /\ Tail(s) \in Seq(Task) /\ Len(s) \in Nat /\ Len(s) # 0
      /\ Len(Tail(s)) = Len(s) - 1
      /\ \A i \in 1 .. Len(s) - 1 : Tail(s)[i] = s[i + 1]
  BY HeadTailProperties, LenProperties, EmptySeq
<1>2. PICK n \in Nat : n = Len(s) - 1
  <2>1. Len(s) - 1 \in Nat
    BY <1>1
  <2> QED
    BY <2>1
<1>3. PICK r : r = Tail(s)
  OBVIOUS
<1>4. /\ DOMAIN s = 1 .. n + 1 /\ DOMAIN r = 1 .. n
      /\ \A i \in 1 .. n : r[i] = s[i + 1]
  <2>1. r \in Seq(Task) /\ Len(r) = n /\ Len(s) = n + 1
    BY <1>1, <1>2, <1>3
  <2>2. DOMAIN s = 1 .. n + 1 /\ DOMAIN r = 1 .. n
    BY <2>1, LenProperties
  <2> QED
    BY <1>1, <1>2, <1>3, <2>2
<1>5. Has(S, s) <=> s[1] \in S \/ Has(S, r)
  <2>1. ASSUME NEW i \in 1 .. n + 1, s[i] \in S PROVE s[1] \in S \/ Has(S, r)
    <3>1. CASE i = 1
      BY <2>1, <3>1
    <3>2. CASE i # 1
      <4>1. i - 1 \in 1 .. n /\ r[i - 1] = s[i]
        BY <1>4, <3>2
      <4> QED
        BY <1>4, <2>1, <4>1 DEF Has
    <3> QED
      BY <3>1, <3>2
  <2>2. ASSUME Has(S, r) PROVE Has(S, s)
    <3>1. PICK i \in 1 .. n : r[i] \in S
      BY <1>4, <2>2 DEF Has
    <3>2. i + 1 \in 1 .. n + 1 /\ s[i + 1] \in S
      BY <1>4, <3>1
    <3> QED
      BY <1>4, <3>2 DEF Has
  <2>3. s[1] \in S => Has(S, s)
    <3>1. 1 \in 1 .. n + 1
      OBVIOUS
    <3> QED
      BY <1>4, <3>1 DEF Has
  <2> QED
    BY <1>4, <2>1, <2>2, <2>3 DEF Has
<1>6. ASSUME Single(S, s) PROVE Single(S, r)
  <2> SUFFICES ASSUME NEW i \in 1 .. n, NEW j \in 1 .. n, r[i] \in S, r[j] \in S
               PROVE  i = j
    BY <1>4 DEF Single
  <2>1. /\ i + 1 \in 1 .. n + 1 /\ j + 1 \in 1 .. n + 1
        /\ s[i + 1] \in S /\ s[j + 1] \in S
    BY <1>4
  <2>2. i + 1 = j + 1
    BY <1>4, <1>6, <2>1 DEF Single
  <2> QED
    BY <2>2
<1>7. ASSUME Single(S, s), s[1] \in S, Has(S, r) PROVE FALSE
  <2>1. PICK i \in 1 .. n : r[i] \in S
    BY <1>4, <1>7 DEF Has
  <2>2. i + 1 \in 1 .. n + 1 /\ s[i + 1] \in S /\ 1 \in 1 .. n + 1
    BY <1>4, <2>1
  <2>3. i + 1 = 1
    BY <1>4, <1>7, <2>2 DEF Single
  <2> QED
    BY <2>3
<1>8. ASSUME Single(S, r), ~(s[1] \in S /\ Has(S, r)) PROVE Single(S, s)
  <2> SUFFICES ASSUME NEW i \in 1 .. n + 1, NEW j \in 1 .. n + 1, s[i] \in S, s[j] \in S
               PROVE  i = j
    BY <1>4 DEF Single
  <2>1. ASSUME NEW k \in 1 .. n + 1, s[k] \in S, k # 1
        PROVE  k - 1 \in 1 .. n /\ r[k - 1] \in S /\ s[1] \notin S
    <3>1. k - 1 \in 1 .. n /\ r[k - 1] = s[k]
      BY <1>4, <2>1
    <3>2. Has(S, r)
      BY <1>4, <2>1, <3>1 DEF Has
    <3> QED
      BY <1>8, <2>1, <3>1, <3>2
  <2>2. CASE i = 1 \/ j = 1
    BY <2>1, <2>2
  <2>3. CASE i # 1 /\ j # 1
    <3>1. /\ i - 1 \in 1 .. n /\ j - 1 \in 1 .. n
          /\ r[i - 1] \in S /\ r[j - 1] \in S
      BY <2>1, <2>3
    <3>2. i - 1 = j - 1
      BY <1>4, <1>8, <3>1 DEF Single
    <3> QED
      BY <3>2
  <2> QED
    BY <2>2, <2>3
<1> QED
  BY <1>3, <1>5, <1>6, <1>7, <1>8

\* Two sequences, one after the other.
LEMMA Joined ==
    ASSUME NEW S, NEW s \in Seq(Task), NEW r \in Seq(Task)
    PROVE  /\ Has(S, s \o r) <=> Has(S, s) \/ Has(S, r)
           /\ Single(S, s \o r) <=>
                Single(S, s) /\ Single(S, r) /\ ~(Has(S, s) /\ Has(S, r))
<1>1. PICK u : u = s \o r
  OBVIOUS
<1>2. PICK m \in Nat, n \in Nat : m = Len(s) /\ n = Len(r)
  BY LenProperties
<1>3. /\ DOMAIN s = 1 .. m /\ DOMAIN r = 1 .. n /\ DOMAIN u = 1 .. m + n
      /\ \A i \in 1 .. m : u[i] = s[i]
      /\ \A i \in 1 .. n : u[m + i] = r[i]
  <2>1. u \in Seq(Task) /\ Len(u) = m + n
    BY <1>1, <1>2, ConcatProperties
  <2>2. \A i \in 1 .. m + n : u[i] = IF i <= m THEN s[i] ELSE r[i - m]
    BY <1>1, <1>2, ConcatProperties
  <2>3. ASSUME NEW i \in 1 .. n PROVE u[m + i] = r[i]
    <3>1. m + i \in 1 .. m + n /\ ~(m + i <= m) /\ m + i - m = i
      OBVIOUS
    <3> QED
      BY <2>2, <3>1
  <2> QED
    BY <1>2, <2>1, <2>2, <2>3, LenProperties
<1>4. ASSUME NEW k \in 1 .. m + n
      PROVE  k \in 1 .. m \/ (k - m \in 1 .. n /\ k = m + (k - m))
  OBVIOUS
<1>5. Has(S, u) <=> Has(S, s) \/ Has(S, r)
  <2>1. ASSUME Has(S, u) PROVE Has(S, s) \/ Has(S, r)
    <3>1. PICK k \in 1 .. m + n : u[k] \in S
      BY <1>3, <2>1 DEF Has
    <3>2. CASE k \in 1 .. m
      BY <1>3, <3>1, <3>2 DEF Has
    <3>3. CASE k - m \in 1 .. n /\ k = m + (k - m)
      BY <1>3, <3>1, <3>3 DEF Has
    <3> QED
      BY <1>4, <3>2, <3>3
  <2>2. ASSUME Has(S, s) PROVE Has(S, u)
    <3>1. PICK k \in 1 .. m : s[k] \in S
      BY <1>3, <2>2 DEF Has
    <3> QED
      BY <1>3, <3>1 DEF Has
  <2>3. ASSUME Has(S, r) PROVE Has(S, u)
    <3>1. PICK k \in 1 .. n : r[k] \in S
      BY <1>3, <2>3 DEF Has
    <3>2. m + k \in 1 .. m + n
      OBVIOUS
    <3> QED
      BY <1>3, <3>1, <3>2 DEF Has
  <2> QED
    BY <2>1, <2>2, <2>3
<1>6. ASSUME Single(S, u) PROVE Single(S, s)
  <2> SUFFICES ASSUME NEW i \in 1 .. m, NEW j \in 1 .. m, s[i] \in S, s[j] \in S
               PROVE  i = j
    BY <1>3 DEF Single
  <2>1. i \in 1 .. m + n /\ j \in 1 .. m + n /\ u[i] \in S /\ u[j] \in S
    BY <1>3
  <2> QED
    BY <1>3, <1>6, <2>1 DEF Single
<1>7. ASSUME Single(S, u) PROVE Single(S, r)
  <2> SUFFICES ASSUME NEW i \in 1 .. n, NEW j \in 1 .. n, r[i] \in S, r[j] \in S
               PROVE  i = j
    BY <1>3 DEF Single
  <2>1. /\ m + i \in 1 .. m + n /\ m + j \in 1 .. m + n
        /\ u[m + i] \in S /\ u[m + j] \in S
    BY <1>3
  <2>2. m + i = m + j
    BY <1>3, <1>7, <2>1 DEF Single
  <2> QED
    BY <2>2
<1>8. ASSUME Single(S, u), Has(S, s), Has(S, r) PROVE FALSE
  <2>1. PICK i \in 1 .. m : s[i] \in S
    BY <1>3, <1>8 DEF Has
  <2>2. PICK j \in 1 .. n : r[j] \in S
    BY <1>3, <1>8 DEF Has
  <2>3. /\ i \in 1 .. m + n /\ m + j \in 1 .. m + n
        /\ u[i] \in S /\ u[m + j] \in S
    BY <1>3, <2>1, <2>2
  <2>4. i = m + j
    BY <1>3, <1>8, <2>3 DEF Single
  <2> QED
    BY <2>4
<1>9. ASSUME Single(S, s), Single(S, r), ~(Has(S, s) /\ Has(S, r)) PROVE Single(S, u)
  <2> SUFFICES ASSUME NEW i \in 1 .. m + n, NEW j \in 1 .. m + n, u[i] \in S, u[j] \in S
               PROVE  i = j
    BY <1>3 DEF Single
  <2>1. ASSUME NEW k \in 1 .. m, u[k] \in S PROVE s[k] \in S /\ Has(S, s)
    BY <1>3, <2>1 DEF Has
  <2>2. ASSUME NEW k \in 1 .. m + n, u[k] \in S, k - m \in 1 .. n
        PROVE  r[k - m] \in S /\ Has(S, r)
    <3>1. k = m + (k - m)
      OBVIOUS
    <3> QED
      BY <1>3, <2>2, <3>1 DEF Has
  <2>3. CASE i \in 1 .. m /\ j \in 1 .. m
    BY <1>3, <1>9, <2>1, <2>3 DEF Single
  <2>4. CASE i - m \in 1 .. n /\ j - m \in 1 .. n
    <3>1. i - m = j - m
      BY <1>3, <1>9, <2>2, <2>4 DEF Single
    <3> QED
      BY <3>1
  <2> QED
    BY <1>4, <1>9, <2>1, <2>2, <2>3, <2>4
<1> QED
  BY <1>1, <1>5, <1>6, <1>7, <1>8, <1>9

\* What is left of a sequence, and what was cut off.
LEMMA CutOff ==
    ASSUME NEW S, NEW s \in Seq(Task), NEW n \in 1 .. Len(s), Single(S, s)
    PROVE  /\ Single(S, SubSeq(s, n, Len(s)))
           /\ Has(S, s) <=> \/ Has(S, SubSeq(s, n, Len(s)))
                            \/ \E i \in 1 .. (n - 1) : s[i] \in S
           /\ ~(/\ Has(S, SubSeq(s, n, Len(s)))
                /\ \E i \in 1 .. (n - 1) : s[i] \in S)
<1>1. PICK m \in Nat : m = Len(s) /\ DOMAIN s = 1 .. m
  BY LenProperties
<1>2. \A i \in n .. m : s[i] \in Task
  BY <1>1, ElementOfSeq
<1>3. PICK r : r = SubSeq(s, n, m)
  OBVIOUS
<1>4. /\ DOMAIN r = 1 .. (m - n + 1)
      /\ \A i \in 1 .. (m - n + 1) : r[i] = s[n + i - 1]
  <2>1. /\ r \in Seq(Task) /\ Len(r) = m - n + 1
        /\ \A i \in 1 .. (m - n + 1) : r[i] = s[n + i - 1]
    BY <1>1, <1>2, <1>3, SubSeqProperties
  <2> QED
    BY <2>1, LenProperties
<1>5. \A i \in 1 .. (m - n + 1) : n + i - 1 \in 1 .. m
  BY <1>1
<1>6. Single(S, r)
  <2> SUFFICES ASSUME NEW i \in 1 .. (m - n + 1), NEW j \in 1 .. (m - n + 1),
                      r[i] \in S, r[j] \in S
               PROVE  i = j
    BY <1>4 DEF Single
  <2>1. n + i - 1 = n + j - 1
    BY <1>1, <1>4, <1>5 DEF Single
  <2> QED
    BY <1>1, <2>1
<1>7. ASSUME NEW i \in 1 .. m, s[i] \in S
      PROVE  Has(S, r) \/ i \in 1 .. (n - 1)
  <2>1. CASE i < n
    BY <1>1, <2>1
  <2>2. CASE ~(i < n)
    <3>1. i - n + 1 \in 1 .. (m - n + 1) /\ n + (i - n + 1) - 1 = i
      BY <1>1, <2>2
    <3>2. r[i - n + 1] = s[i]
      BY <1>4, <3>1
    <3> QED
      BY <1>4, <1>7, <3>1, <3>2 DEF Has
  <2> QED
    BY <2>1, <2>2
<1>8. ASSUME Has(S, r)
      PROVE  Has(S, s) /\ \A i \in 1 .. (n - 1) : s[i] \notin S
  <2>1. PICK k \in 1 .. (m - n + 1) : r[k] \in S
    BY <1>4, <1>8 DEF Has
  <2>2. n + k - 1 \in 1 .. m /\ s[n + k - 1] \in S
    BY <1>4, <1>5, <2>1
  <2>3. ASSUME NEW i \in 1 .. (n - 1), s[i] \in S PROVE FALSE
    <3>1. i \in 1 .. m /\ i # n + k - 1
      BY <1>1
    <3> QED
      BY <1>1, <2>2, <2>3, <3>1 DEF Single
  <2> QED
    BY <1>1, <2>2, <2>3 DEF Has
<1>9. ASSUME NEW i \in 1 .. (n - 1), s[i] \in S PROVE Has(S, s)
  <2>1. i \in 1 .. m
    BY <1>1
  <2> QED
    BY <1>1, <1>9, <2>1 DEF Has
<1> QED
  BY <1>1, <1>3, <1>6, <1>7, <1>8, <1>9 DEF Has

\* A part of S is alone when S is.
LEMMA Fewer ==
    ASSUME NEW S, NEW R \in SUBSET S
    PROVE  /\ \A s : (Has(R, s) => Has(S, s)) /\ (Single(S, s) => Single(R, s))
           /\ Alone(S) => Alone(R)
           /\ Somewhere(R) => Somewhere(S)
<1>1. \A s : (Has(R, s) => Has(S, s)) /\ (Single(S, s) => Single(R, s))
  BY DEF Has, Single
<1> QED
  BY <1>1 DEF Alone, Somewhere

\* Short sequences.
LEMMA HasShort ==
    ASSUME NEW S
    PROVE  /\ ~Has(S, <<>>) /\ Single(S, <<>>)
           /\ \A t : (Has(S, <<t>>) <=> t \in S) /\ Single(S, <<t>>)
<1>1. ~Has(S, <<>>) /\ Single(S, <<>>)
  BY DEF Has, Single
<1>2. ASSUME NEW t PROVE (Has(S, <<t>>) <=> t \in S) /\ Single(S, <<t>>)
  <2>1. PICK s : s = <<t>> /\ DOMAIN s = 1 .. 1 /\ s[1] = t
    <3>1. DOMAIN <<t>> = 1 .. 1 /\ <<t>>[1] = t
      OBVIOUS
    <3> QED
      BY <3>1
  <2>2. \A i \in 1 .. 1 : i = 1
    OBVIOUS
  <2>3. (Has(S, s) <=> t \in S) /\ Single(S, s)
    BY <2>1, <2>2 DEF Has, Single
  <2> QED
    BY <2>1, <2>3
<1> QED
  BY <1>1, <1>2

(***************************************************************************)
(* What a step does to the tasks of a set.                                 *)
(***************************************************************************)

\* The head task has given way to the tasks in A: at most one is of S, and
\* then the head was, or none was there.
Replaced(S, A) ==
    /\ Alone(S)'
    /\ Somewhere(S)' <=> A \cap S # {} \/ (Somewhere(S) /\ Now \notin S)

\* The head is alone, if it is of S.
LEMMA HeadAlone ==
    ASSUME IInv, todo # <<>>, NEW S, Alone(S)
    PROVE  /\ Tail(todo) \in Seq(Task)
           /\ Has(S, todo) <=> Now \in S \/ Has(S, Tail(todo))
           /\ Single(S, Tail(todo))
           /\ Now \in S => ~Has(S, Tail(todo))
           /\ Now \in S => \A f \in Features : ~Has(S, afterLoad[f])
<1>1. todo \in Seq(Task)
  BY DEF IInv, TypeOK
<1>2. Tail(todo) \in Seq(Task)
  BY <1>1, HeadTailProperties
<1>3. Single(S, todo)
  BY DEF Alone
<1>4. /\ Has(S, todo) <=> Now \in S \/ Has(S, Tail(todo))
      /\ Single(S, Tail(todo)) /\ ~(Now \in S /\ Has(S, Tail(todo)))
  BY <1>1, <1>3, HeadAndRest DEF Now
<1> QED
  BY <1>2, <1>4 DEF Alone

\* Work takes the place of the head on the stack.
LEMMA HeadReplaced ==
    ASSUME IInv, todo # <<>>, NEW w \in Seq(Task), todo' = w \o Tail(todo),
           afterLoad' = afterLoad, NEW S, Alone(S), Single(S, w),
           Range(w) \cap S # {} => Now \in S \/ ~Somewhere(S)
    PROVE  Replaced(S, Range(w))
<1>1. PICK r \in Seq(Task) : r = Tail(todo)
  BY HeadAlone
<1>2. /\ Has(S, todo) <=> Now \in S \/ Has(S, r)
      /\ Single(S, r)
      /\ Now \in S => ~Has(S, r)
      /\ Now \in S => \A f \in Features : ~Has(S, afterLoad[f])
  BY <1>1, HeadAlone
<1>3. PICK s : s = todo'
  OBVIOUS
<1>4. /\ Has(S, s) <=> Has(S, w) \/ Has(S, r)
      /\ Single(S, s) <=>
           Single(S, w) /\ Single(S, r) /\ ~(Has(S, w) /\ Has(S, r))
  BY <1>1, <1>3, Joined
<1>5. Has(S, w) <=> Range(w) \cap S # {}
  BY HasRange
<1>6. Has(S, w) => ~Has(S, r) /\ \A f \in Features : ~Has(S, afterLoad[f])
  BY <1>2, <1>5 DEF Somewhere
<1>7. PICK q : q = afterLoad /\ q = afterLoad'
  OBVIOUS
<1>8. /\ Single(S, s)
      /\ \A f \in Features : Has(S, q[f]) => ~Has(S, s)
  BY <1>2, <1>4, <1>6, <1>7 DEF Alone
<1>9. Alone(S)'
  BY <1>3, <1>7, <1>8 DEF Alone
<1>10. Somewhere(S)' <=> Has(S, w) \/ (Somewhere(S) /\ Now \notin S)
  BY <1>2, <1>3, <1>4, <1>6, <1>7 DEF Somewhere
<1> QED
  BY <1>5, <1>9, <1>10 DEF Replaced

\* Work goes to a queue instead.
LEMMA HeadQueued ==
    ASSUME IInv, todo # <<>>, NEW f \in Features, NEW t \in Task,
           todo' = <<>> \o Tail(todo),
           afterLoad' = [afterLoad EXCEPT ![f] = Append(@, t)], NEW S, Alone(S),
           t \in S => Now \in S \/ ~Somewhere(S)
    PROVE  Replaced(S, {t})
<1>1. PICK r \in Seq(Task) : r = Tail(todo)
  BY HeadAlone
<1>2. /\ Has(S, todo) <=> Now \in S \/ Has(S, r)
      /\ Single(S, r)
      /\ Now \in S => ~Has(S, r)
      /\ Now \in S => \A g \in Features : ~Has(S, afterLoad[g])
  BY <1>1, HeadAlone
<1>3. PICK s : s = todo'
  OBVIOUS
<1>4. /\ Has(S, s) <=> Has(S, r)
      /\ Single(S, s) <=> Single(S, r)
  <2>1. PICK e \in Seq(Task) : e = <<>> /\ ~Has(S, e) /\ Single(S, e)
    BY ShortSequences, HasShort
  <2> QED
    BY <1>1, <1>3, <2>1, Joined
<1>5. afterLoad \in [Features -> Seq(Task)]
  BY DEF IInv, TypeOK
<1>6. PICK q \in [Features -> Seq(Task)] : q = afterLoad
  BY <1>5
<1>7. PICK p : p = afterLoad'
  OBVIOUS
<1>8. \A g \in Features : p[g] = IF g = f THEN Append(q[f], t) ELSE q[g]
  BY <1>6, <1>7
<1>9. PICK one \in Seq(Task) : one = <<t>> /\ (Has(S, one) <=> t \in S) /\ Single(S, one)
  BY ShortSequences, HasShort
<1>10. Append(q[f], t) = q[f] \o one
  BY <1>6, <1>9, AppendIsConcat
<1>11. /\ Has(S, p[f]) <=> Has(S, q[f]) \/ t \in S
       /\ Single(S, p[f]) <=> Single(S, q[f]) /\ ~(Has(S, q[f]) /\ t \in S)
  <2>1. PICK b \in Seq(Task) : b = q[f]
    BY <1>6
  <2>2. p[f] = b \o one
    BY <1>8, <1>10, <2>1
  <2>3. /\ Has(S, b \o one) <=> Has(S, b) \/ Has(S, one)
        /\ Single(S, b \o one) <=>
             Single(S, b) /\ Single(S, one) /\ ~(Has(S, b) /\ Has(S, one))
    BY <1>9, <2>1, Joined
  <2> QED
    BY <1>9, <2>1, <2>2, <2>3
<1>12. \A g \in Features : g # f => p[g] = q[g]
  BY <1>8
<1>13. t \in S => ~Has(S, r) /\ \A g \in Features : ~Has(S, q[g])
  BY <1>2, <1>6 DEF Somewhere
<1>14. /\ \A g \in Features : Single(S, q[g])
       /\ \A g \in Features : Has(S, q[g]) => ~Has(S, r)
       /\ \A g, h \in Features : Has(S, q[g]) /\ Has(S, q[h]) => g = h
  BY <1>2, <1>6 DEF Alone
<1>15. Alone(S)'
  <2>1. Single(S, s)
    BY <1>2, <1>4
  <2>2. \A g \in Features : Single(S, p[g])
    BY <1>11, <1>12, <1>13, <1>14
  <2>3. \A g \in Features : Has(S, p[g]) => ~Has(S, s)
    BY <1>4, <1>11, <1>12, <1>13, <1>14
  <2>4. \A g, h \in Features : Has(S, p[g]) /\ Has(S, p[h]) => g = h
    BY <1>11, <1>12, <1>13, <1>14
  <2> QED
    BY <1>3, <1>7, <2>1, <2>2, <2>3, <2>4 DEF Alone
<1>16. Somewhere(S)' <=> t \in S \/ (Somewhere(S) /\ Now \notin S)
  <2>1. Somewhere(S)' <=> Has(S, s) \/ \E g \in Features : Has(S, p[g])
    BY <1>3, <1>7 DEF Somewhere
  <2>2. Somewhere(S) <=> Now \in S \/ Has(S, r) \/ \E g \in Features : Has(S, q[g])
    BY <1>2, <1>6 DEF Somewhere
  <2>3. (\E g \in Features : Has(S, p[g])) <=> t \in S \/ \E g \in Features : Has(S, q[g])
    BY <1>11, <1>12
  <2> QED
    BY <1>2, <1>4, <1>6, <2>1, <2>2, <2>3
<1>17. {t} \cap S # {} <=> t \in S
  OBVIOUS
<1> QED
  BY <1>15, <1>16, <1>17 DEF Replaced

\* Put off or not, the head has given way to one task.
LEMMA HeadAfterLoad ==
    ASSUME IInv, todo # <<>>, NEW f \in Features, NEW t \in Task,
           EvalAfterLoad(f, t), NEW S, Alone(S),
           t \in S => Now \in S \/ ~Somewhere(S)
    PROVE  Replaced(S, {t})
<1>1. CASE f \in loaded
  <2>1. PICK w \in Seq(Task) : w = <<t>> /\ Range(w) = {t} /\ Single(S, w)
    BY ShortSequences, HasShort
  <2>2. todo' = w \o Tail(todo) /\ afterLoad' = afterLoad
    BY <1>1, <2>1 DEF EvalAfterLoad, Expand
  <2>3. Replaced(S, Range(w))
    BY <2>1, <2>2, HeadReplaced
  <2> QED
    BY <2>1, <2>3
<1>2. CASE f \notin loaded
  <2>1. todo' = <<>> \o Tail(todo)
        /\ afterLoad' = [afterLoad EXCEPT ![f] = Append(@, t)]
    BY <1>2 DEF EvalAfterLoad, Expand
  <2> QED
    BY <2>1, HeadQueued
<1> QED
  BY <1>1, <1>2

\* Tasks go from a queue to the stack.
LEMMA QueueRuns ==
    ASSUME IInv, todo # <<>>, NEW f \in Features,
           todo' = afterLoad[f] \o Tail(todo),
           afterLoad' = [afterLoad EXCEPT ![f] = <<>>],
           NEW S, Alone(S), Now \notin S
    PROVE  Alone(S)' /\ (Somewhere(S)' <=> Somewhere(S))
<1>1. PICK r \in Seq(Task) : r = Tail(todo)
  BY HeadAlone
<1>2. (Has(S, todo) <=> Has(S, r)) /\ Single(S, r)
  BY <1>1, HeadAlone
<1>3. PICK s : s = todo'
  OBVIOUS
<1>4. afterLoad \in [Features -> Seq(Task)]
  BY DEF IInv, TypeOK
<1>5. PICK q \in [Features -> Seq(Task)] : q = afterLoad
  BY <1>4
<1>6. PICK p : p = afterLoad'
  OBVIOUS
<1>7. \A g \in Features : p[g] = IF g = f THEN <<>> ELSE q[g]
  BY <1>5, <1>6
<1>8. /\ Has(S, s) <=> Has(S, q[f]) \/ Has(S, r)
      /\ Single(S, s) <=>
           Single(S, q[f]) /\ Single(S, r) /\ ~(Has(S, q[f]) /\ Has(S, r))
  BY <1>1, <1>3, <1>5, Joined
<1>9. PICK e : e = <<>> /\ ~Has(S, e) /\ Single(S, e)
  BY HasShort
<1>10. p[f] = e /\ \A g \in Features : g # f => p[g] = q[g]
  BY <1>7, <1>9
<1>11. /\ \A g \in Features : Single(S, q[g])
       /\ \A g \in Features : Has(S, q[g]) => ~Has(S, r)
       /\ \A g, h \in Features : Has(S, q[g]) /\ Has(S, q[h]) => g = h
  BY <1>2, <1>5 DEF Alone
<1>12. Alone(S)'
  <2>1. Single(S, s)
    BY <1>2, <1>8, <1>11
  <2>2. \A g \in Features : Single(S, p[g])
    BY <1>9, <1>10, <1>11
  <2>3. \A g \in Features : Has(S, p[g]) => ~Has(S, s)
    BY <1>8, <1>9, <1>10, <1>11
  <2>4. \A g, h \in Features : Has(S, p[g]) /\ Has(S, p[h]) => g = h
    BY <1>9, <1>10, <1>11
  <2> QED
    BY <1>3, <1>6, <2>1, <2>2, <2>3, <2>4 DEF Alone
<1>13. Somewhere(S)' <=> Has(S, s) \/ \E g \in Features : Has(S, p[g])
  BY <1>3, <1>6 DEF Somewhere
<1>14. Somewhere(S) <=> Has(S, r) \/ \E g \in Features : Has(S, q[g])
  BY <1>2, <1>5 DEF Somewhere
<1>15. Somewhere(S)' <=> Somewhere(S)
  BY <1>8, <1>9, <1>10, <1>13, <1>14
<1> QED
  BY <1>12, <1>15

\* An error writes off what it unwinds past, and no more.
LEMMA SignalLoses ==
    ASSUME IInv, Signal, afterLoad' = afterLoad
    PROVE  \E L \in SUBSET Task :
             /\ lost' = lost \cup L
             /\ \A S : Alone(S) =>
                  /\ Alone(S)'
                  /\ Somewhere(S) <=> Somewhere(S)' \/ L \cap S # {}
                  /\ ~(Somewhere(S)' /\ L \cap S # {})
<1>1. todo \in Seq(Task)
  BY DEF IInv, TypeOK
<1>2. PICK q : q = afterLoad /\ q = afterLoad'
  OBVIOUS
<1>3. PICK s : s = todo'
  OBVIOUS
<1>4. ASSUME NEW L, NEW S, Alone(S), Single(S, s),
             Has(S, todo) <=> Has(S, s) \/ L \cap S # {},
             ~(Has(S, s) /\ L \cap S # {})
      PROVE  /\ Alone(S)'
             /\ Somewhere(S) <=> Somewhere(S)' \/ L \cap S # {}
             /\ ~(Somewhere(S)' /\ L \cap S # {})
  <2>1. /\ \A g \in Features : Single(S, q[g])
        /\ \A g \in Features : Has(S, q[g]) => ~Has(S, todo)
        /\ \A g, h \in Features : Has(S, q[g]) /\ Has(S, q[h]) => g = h
    BY <1>2, <1>4 DEF Alone
  <2>2. Alone(S)'
    BY <1>2, <1>3, <1>4, <2>1 DEF Alone
  <2>3. /\ Somewhere(S) <=> Has(S, todo) \/ \E g \in Features : Has(S, q[g])
        /\ Somewhere(S)' <=> Has(S, s) \/ \E g \in Features : Has(S, q[g])
    BY <1>2, <1>3 DEF Somewhere
  <2> QED
    BY <1>4, <2>1, <2>2, <2>3
<1>5. CASE \E n \in Catches : /\ todo' = SubSeq(todo, n, Len(todo))
                              /\ lost' = lost \cup {todo[i] : i \in 1..(n - 1)}
  <2>1. PICK n \in 1 .. Len(todo) : /\ todo' = SubSeq(todo, n, Len(todo))
                                    /\ lost' = lost \cup {todo[i] : i \in 1..(n - 1)}
    BY <1>5 DEF Catches
  <2>2. PICK L : L = {todo[i] : i \in 1..(n - 1)}
    OBVIOUS
  <2>3. L \subseteq Task
    BY <1>1, <2>2, LenProperties, ElementOfSeq
  <2>4. ASSUME NEW S, Alone(S)
        PROVE  /\ Alone(S)'
               /\ Somewhere(S) <=> Somewhere(S)' \/ L \cap S # {}
               /\ ~(Somewhere(S)' /\ L \cap S # {})
    <3>1. Single(S, todo)
      BY <2>4 DEF Alone
    <3>2. L \cap S # {} <=> \E i \in 1 .. (n - 1) : todo[i] \in S
      BY <2>2
    <3>3. /\ Single(S, s)
          /\ Has(S, todo) <=> Has(S, s) \/ L \cap S # {}
          /\ ~(Has(S, s) /\ L \cap S # {})
      BY <1>1, <1>3, <2>1, <3>1, <3>2, CutOff
    <3> QED
      BY <1>4, <2>4, <3>3
  <2> QED
    BY <2>1, <2>2, <2>3, <2>4
<1>6. CASE todo' = <<>> /\ lost' = lost \cup Range(todo)
  <2>1. PICK L : L = Range(todo)
    OBVIOUS
  <2>2. L \subseteq Task
    BY <1>1, <2>1, RangeOfSeq
  <2>3. ASSUME NEW S, Alone(S)
        PROVE  /\ Alone(S)'
               /\ Somewhere(S) <=> Somewhere(S)' \/ L \cap S # {}
               /\ ~(Somewhere(S)' /\ L \cap S # {})
    <3>1. ~Has(S, s) /\ Single(S, s)
      BY <1>3, <1>6, HasShort
    <3>2. Has(S, todo) <=> L \cap S # {}
      BY <2>1, HasRange
    <3> QED
      BY <1>4, <2>3, <3>1, <3>2
  <2> QED
    BY <1>6, <2>1, <2>2, <2>3
<1> QED
  BY <1>5, <1>6 DEF Signal

\* When nothing was to be done, work outside S is begun.
LEMMA RestStarts ==
    ASSUME todo = <<>>, afterLoad' = afterLoad, NEW S, Alone(S), ~Has(S, todo')
    PROVE  Alone(S)' /\ (Somewhere(S)' <=> Somewhere(S))
<1>1. PICK q : q = afterLoad /\ q = afterLoad'
  OBVIOUS
<1>2. PICK s : s = todo'
  OBVIOUS
<1>3. ~Has(S, s) /\ Single(S, s) /\ ~Has(S, todo)
  BY <1>2, HasShort DEF Has, Single
<1>4. Alone(S)'
  BY <1>1, <1>2, <1>3 DEF Alone
<1> QED
  BY <1>1, <1>2, <1>3, <1>4 DEF Somewhere

(***************************************************************************)
(* The tasks of a form.                                                    *)
(***************************************************************************)

\* How the sets of a form's tasks lie in one another, and apart from others'.
LEMMA WorkSets ==
    ASSUME NEW d \in Decls
    PROVE  /\ Use(d) \in Task /\ Use(d) \in Work(d) /\ Use(d) \notin Cont(d)
           /\ {Use(d)} \subseteq Work(d) /\ Cont(d) \subseteq Work(d)
           /\ Early(d) \subseteq Cont(d) /\ Awaits(d) \subseteq Early(d)
           /\ Work(d) \subseteq Task /\ Work(d) = {Use(d)} \cup Cont(d)
           /\ \A c \in Decls : c # d => Work(c) \cap Work(d) = {}
<1>1. Use(d) \in Task
  BY TaskTypes DEF Use, DeclOps
<1>2. Use(d).op = "use" /\ Use(d).arg = d
  BY DEF Use, T
<1>3. ASSUME NEW t \in Task, t.op = "use", t.arg = d PROVE t = Use(d)
  BY <1>3 DEF Task, Use, T, FeatureOps
<1> QED
  BY <1>1, <1>2, <1>3 DEF Work, Cont, Early, Awaits, Continues

\* The first task of a form is there, or one of the others.
LEMMA SomeWork ==
    ASSUME NEW d \in Decls
    PROVE  Somewhere(Work(d)) <=> Somewhere({Use(d)}) \/ Somewhere(Cont(d))
<1>1. PICK U, C : U = {Use(d)} /\ C = Cont(d) /\ Work(d) = U \cup C
  BY WorkSets
<1>2. \A s : Has(U \cup C, s) <=> Has(U, s) \/ Has(C, s)
  BY DEF Has
<1> QED
  BY <1>1, <1>2 DEF Somewhere

\* When the head is of S, no other task is.
LEMMA OnlyHead ==
    ASSUME IInv, todo # <<>>, NEW S, Alone(S), Now \in S, NEW R \in SUBSET S
    PROVE  Somewhere(R) <=> Now \in R
<1>1. Alone(R) /\ \A s : Has(R, s) => Has(S, s)
  BY Fewer
<1>2. Has(R, todo) <=> Now \in R \/ Has(R, Tail(todo))
  BY <1>1, HeadAlone
<1>3. ~Has(S, Tail(todo)) /\ \A f \in Features : ~Has(S, afterLoad[f])
  BY HeadAlone
<1> QED
  BY <1>1, <1>2, <1>3 DEF Somewhere

\* The head is somewhere.
LEMMA HeadSomewhere ==
    ASSUME IInv, todo # <<>>, NEW S, Now \in S
    PROVE  Somewhere(S)
<1>1. 1 \in DOMAIN todo
  BY HeadReady, EmptySeq, LenProperties
<1> QED
  BY <1>1 DEF Somewhere, Has, Now

\* What becomes of the tasks of each form when the head gives way to A.
Gives(A) ==
    \A d \in Decls : \A S \in SUBSET Work(d) :
      Alone(S) /\ (A \cap S # {} => Now \in S \/ ~Somewhere(S)) => Replaced(S, A)

\* Work put on the stack, and work put off, gives what Gives says.
LEMMA GivesWork ==
    ASSUME IInv, todo # <<>>, NEW w \in Seq(Task), todo' = w \o Tail(todo),
           afterLoad' = afterLoad, \A d \in Decls : Single(Work(d), w)
    PROVE  Gives(Range(w))
<1> SUFFICES ASSUME NEW d \in Decls, NEW S \in SUBSET Work(d), Alone(S),
                    Range(w) \cap S # {} => Now \in S \/ ~Somewhere(S)
             PROVE  Replaced(S, Range(w))
  BY DEF Gives
<1>1. Single(S, w)
  BY Fewer
<1> QED
  BY <1>1, HeadReplaced

LEMMA GivesAfterLoad ==
    ASSUME IInv, todo # <<>>, NEW f \in Features, NEW t \in Task,
           EvalAfterLoad(f, t)
    PROVE  Gives({t})
<1> SUFFICES ASSUME NEW d \in Decls, NEW S \in SUBSET Work(d), Alone(S),
                    {t} \cap S # {} => Now \in S \/ ~Somewhere(S)
             PROVE  Replaced(S, {t})
  BY DEF Gives
<1>1. t \in S => Now \in S \/ ~Somewhere(S)
  OBVIOUS
<1> QED
  BY <1>1, HeadAfterLoad

\* A step that moves no task of a form keeps all as it is.
LEMMA TidyQuiet ==
    ASSUME AllTidy, UNCHANGED <<seen, configured, lost>>,
           \A d \in Decls : \A S \in SUBSET Work(d) :
             Alone(S) => Alone(S)' /\ (Somewhere(S)' <=> Somewhere(S))
    PROVE  AllTidy'
<1> SUFFICES ASSUME NEW d \in Decls PROVE Tidy(d)'
  BY DEF AllTidy
<1>1. ASSUME NEW c \in Decls
      PROVE  /\ Alone(Work(c))'
             /\ Somewhere({Use(c)})' <=> Somewhere({Use(c)})
             /\ Somewhere(Cont(c))' <=> Somewhere(Cont(c))
             /\ Somewhere(Early(c))' <=> Somewhere(Early(c))
             /\ Somewhere(Awaits(c))' <=> Somewhere(Awaits(c))
  <2>1. Alone(Work(c))
    BY DEF AllTidy, Tidy
  <2>2. \A S \in SUBSET Work(c) : Alone(S)' /\ (Somewhere(S)' <=> Somewhere(S))
    BY <2>1, Fewer
  <2>3. PICK U, C, E, W : /\ U = {Use(c)} /\ C = Cont(c) /\ E = Early(c)
                          /\ W = Awaits(c)
    OBVIOUS
  <2>4. /\ U \in SUBSET Work(c) /\ C \in SUBSET Work(c)
        /\ E \in SUBSET Work(c) /\ W \in SUBSET Work(c)
    BY <2>3, WorkSets
  <2>5. Work(c) \in SUBSET Work(c)
    OBVIOUS
  <2> QED
    BY <2>2, <2>3, <2>4, <2>5
<1>2. \A c \in Decls : /\ InitOpen(c) => InitOpen(c)'
                       /\ ConfigOpen(c) => ConfigOpen(c)'
  BY <1>1 DEF InitOpen, ConfigOpen
<1>3. Reached(d) => Reached(d)'
  BY <1>2 DEF Reached
<1>4. Unwound(d)' <=> Unwound(d)
  BY DEF Unwound
<1> QED
  BY <1>1, <1>3, <1>4 DEF AllTidy, Tidy

\* The work of form e goes on: from the head to a later task t, and with the
\* code of a section of e if that is what t comes after.
LEMMA TidyOn ==
    ASSUME AllTidy, IInv, todo # <<>>, UNCHANGED <<seen, configured, lost>>,
           NEW e \in Decls, Now \in Cont(e), NEW A, NEW t \in Cont(e),
           A \cap Cont(e) = {t},
           \A d \in Decls : d # e => A \cap Cont(d) = {},
           Gives(A),
           t \in Awaits(e) => Now \in Awaits(e),
           t \in Early(e) => Now \in Early(e),
           \A d \in Decls : Use(d) \in A =>
             /\ d \notin seen /\ ~Somewhere({Use(d)})
             /\ \A c \in Decls :
                  /\ Use(d) \in Range(Decl[c].init) => c = e /\ t \notin Awaits(e)
                  /\ Use(d) \in Range(Decl[c].config) => c = e /\ t \notin Early(e)
    PROVE  AllTidy'
<1>1. Tidy(e) /\ \A d \in Decls : Tidy(d)
  BY DEF AllTidy
<1>2. Alone(Work(e)) /\ Now \in Work(e)
  BY <1>1, WorkSets DEF Tidy
<1>3. /\ Somewhere(Cont(e))
      /\ Somewhere(Awaits(e)) <=> Now \in Awaits(e)
      /\ Somewhere(Early(e)) <=> Now \in Early(e)
      /\ ~Somewhere({Use(e)})
  <2>1. \A R \in SUBSET Work(e) : Somewhere(R) <=> Now \in R
    BY <1>2, OnlyHead
  <2>2. Now # Use(e)
    BY WorkSets
  <2>3. PICK U, C, E, W : /\ U = {Use(e)} /\ C = Cont(e) /\ E = Early(e)
                          /\ W = Awaits(e)
    OBVIOUS
  <2>4. /\ U \in SUBSET Work(e) /\ C \in SUBSET Work(e)
        /\ E \in SUBSET Work(e) /\ W \in SUBSET Work(e)
    BY <2>3, WorkSets
  <2>5. Now \in C /\ Now \notin U
    BY <2>2, <2>3
  <2> QED
    BY <2>1, <2>3, <2>4, <2>5
<1>4. e \in seen
  BY <1>1, <1>3 DEF Tidy
<1>5. Use(e) \notin A
  BY <1>4
<1>6. ASSUME NEW d \in Decls, NEW S \in SUBSET Work(d),
             A \cap S # {} => Now \in S \/ ~Somewhere(S)
      PROVE  /\ Alone(S)'
             /\ Somewhere(S)' <=> A \cap S # {} \/ (Somewhere(S) /\ Now \notin S)
  <2>1. Alone(S)
    BY <1>1, Fewer DEF Tidy
  <2> QED
    BY <1>6, <2>1 DEF Gives, Replaced
<1>7. ASSUME NEW d \in Decls, d # e
      PROVE  /\ Alone(Work(d))'
             /\ Somewhere({Use(d)})' <=> Use(d) \in A \/ Somewhere({Use(d)})
             /\ Somewhere(Cont(d))' <=> Somewhere(Cont(d))
             /\ Somewhere(Awaits(d))' <=> Somewhere(Awaits(d))
             /\ Somewhere(Early(d))' <=> Somewhere(Early(d))
  <2>1. Now \notin Work(d)
    BY <1>2, <1>7, WorkSets
  <2>2. ASSUME Use(d) \in A PROVE ~Somewhere(Work(d))
    BY <1>1, <2>2, SomeWork DEF Tidy
  <2>3. A \cap Cont(d) = {}
    BY <1>7
  <2>4. ASSUME NEW S \in SUBSET Work(d)
        PROVE  /\ Alone(S)'
               /\ Somewhere(S)' <=> A \cap S # {} \/ Somewhere(S)
    <3>1. ASSUME A \cap S # {} PROVE ~Somewhere(S)
      <4>1. Use(d) \in A
        BY <2>3, <3>1, WorkSets
      <4> QED
        BY <2>2, <4>1, Fewer
    <3> QED
      BY <1>6, <2>1, <3>1
  <2>5. PICK U, C, E, W : /\ U = {Use(d)} /\ C = Cont(d) /\ E = Early(d)
                          /\ W = Awaits(d)
    OBVIOUS
  <2>6. /\ U \in SUBSET Work(d) /\ C \in SUBSET Work(d)
        /\ E \in SUBSET Work(d) /\ W \in SUBSET Work(d)
        /\ Work(d) \in SUBSET Work(d)
    BY <2>5, WorkSets
  <2>7. /\ A \cap C = {} /\ A \cap E = {} /\ A \cap W = {}
        /\ A \cap U # {} <=> Use(d) \in A
    BY <2>3, <2>5, WorkSets
  <2> QED
    BY <2>4, <2>5, <2>6, <2>7
<1>8. /\ Alone(Work(e))'
      /\ ~Somewhere({Use(e)})'
      /\ Somewhere(Cont(e))'
      /\ Somewhere(Awaits(e))' <=> t \in Awaits(e)
      /\ Somewhere(Early(e))' <=> t \in Early(e)
  <2>1. PICK U, C, E, W : /\ U = {Use(e)} /\ C = Cont(e) /\ E = Early(e)
                          /\ W = Awaits(e)
    OBVIOUS
  <2>2. /\ U \in SUBSET Work(e) /\ C \in SUBSET Work(e)
        /\ E \in SUBSET Work(e) /\ W \in SUBSET Work(e)
        /\ Work(e) \in SUBSET Work(e)
    BY <2>1, WorkSets
  <2>3. A \cap Work(e) = {t} /\ A \cap U = {} /\ A \cap C = {t}
    BY <1>5, <2>1, WorkSets
  <2>4. /\ A \cap E # {} <=> t \in E
        /\ A \cap W # {} <=> t \in W
    BY <2>1, <2>3, WorkSets
  <2>5. /\ Alone(Work(e))'
        /\ Somewhere(U)' <=> A \cap U # {} \/ (Somewhere(U) /\ Now \notin U)
        /\ Somewhere(C)' <=> A \cap C # {} \/ (Somewhere(C) /\ Now \notin C)
        /\ Somewhere(E)' <=> A \cap E # {} \/ (Somewhere(E) /\ Now \notin E)
        /\ Somewhere(W)' <=> A \cap W # {} \/ (Somewhere(W) /\ Now \notin W)
    <3>1. Now \in C
      BY <2>1
    <3>2. A \cap E # {} => Now \in E
      BY <2>1, <2>4
    <3>3. A \cap W # {} => Now \in W
      BY <2>1, <2>4
    <3> QED
      BY <1>2, <1>6, <2>2, <2>3, <3>1, <3>2, <3>3
  <2>6. ~Somewhere(U) /\ (Somewhere(E) <=> Now \in E) /\ (Somewhere(W) <=> Now \in W)
    BY <1>3, <2>1
  <2> QED
    BY <2>1, <2>3, <2>4, <2>5, <2>6
<1>9. ASSUME NEW c \in Decls
      PROVE  /\ InitOpen(c) => InitOpen(c)'
             /\ ConfigOpen(c) => ConfigOpen(c)'
             /\ c = e /\ t \notin Awaits(e) => InitOpen(c)'
             /\ c = e /\ t \notin Early(e) => ConfigOpen(c)'
  <2>1. CASE c = e
    BY <1>3, <1>4, <1>8, <2>1 DEF InitOpen, ConfigOpen
  <2>2. CASE c # e
    BY <1>7, <2>2 DEF InitOpen, ConfigOpen
  <2> QED
    BY <2>1, <2>2
<1> SUFFICES ASSUME NEW d \in Decls PROVE Tidy(d)'
  BY DEF AllTidy
<1>10. Unwound(d)' <=> Unwound(d)
  BY DEF Unwound
<1>11. Alone(Work(d))'
  BY <1>7, <1>8
<1>12. Somewhere({Use(d)})' => d \notin seen /\ (Use(d) \in A \/ Somewhere({Use(d)}))
  <2>1. CASE d = e
    BY <1>8, <2>1
  <2>2. CASE d # e
    BY <1>1, <1>7, <2>2 DEF Tidy
  <2> QED
    BY <2>1, <2>2
<1>13. Somewhere(Cont(d))' <=> Somewhere(Cont(d))
  <2>1. CASE d = e
    BY <1>3, <1>8, <2>1
  <2>2. CASE d # e
    BY <1>7, <2>2
  <2> QED
    BY <2>1, <2>2
<1>14. ASSUME Use(d) \in A PROVE Reached(d)'
  <2>1. \A c \in Decls :
          /\ Use(d) \in Range(Decl[c].init) => c = e /\ t \notin Awaits(e)
          /\ Use(d) \in Range(Decl[c].config) => c = e /\ t \notin Early(e)
    BY <1>14
  <2>2. \A c \in Decls :
          /\ Use(d) \in Range(Decl[c].init) => InitOpen(c)'
          /\ Use(d) \in Range(Decl[c].config) => ConfigOpen(c)'
    BY <1>9, <2>1
  <2> QED
    BY <2>2 DEF Reached
<1>15. Reached(d) => Reached(d)'
  BY <1>9 DEF Reached
<1>16. Somewhere({Use(d)})' \/ d \in seen' => Reached(d)'
  BY <1>1, <1>12, <1>14, <1>15 DEF Tidy
<1> QED
  BY <1>1, <1>10, <1>11, <1>12, <1>13, <1>16 DEF Tidy

\* Neither a task of another form nor a use comes with the next task of e.
LEMMA TidyLinear ==
    ASSUME AllTidy, IInv, todo # <<>>, UNCHANGED <<seen, configured, lost>>,
           NEW e \in Decls, Now \in Cont(e), NEW A, NEW t \in Cont(e),
           A \cap Work(e) = {t},
           \A d \in Decls : d # e => A \cap Work(d) = {},
           Gives(A),
           t \in Awaits(e) => Now \in Awaits(e),
           t \in Early(e) => Now \in Early(e)
    PROVE  AllTidy'
<1>1. A \cap Cont(e) = {t}
  BY WorkSets
<1>2. \A d \in Decls : d # e => A \cap Cont(d) = {}
  BY WorkSets
<1>3. \A d \in Decls : Use(d) \notin A
  <2> SUFFICES ASSUME NEW d \in Decls, Use(d) \in A PROVE FALSE
    OBVIOUS
  <2>1. Use(d) \in Work(d) /\ Use(d) \notin Cont(d)
    BY WorkSets
  <2> QED
    BY <2>1
<1> QED
  BY <1>1, <1>2, <1>3, TidyOn

\* A form is begun: from then on its :after features are awaited.
LEMMA TidyBegins ==
    ASSUME AllTidy, IInv, todo # <<>>, UNCHANGED <<configured, lost>>,
           NEW e \in Decls, Now = Use(e), seen' = seen \cup {e},
           NEW t \in Awaits(e), Gives({t})
    PROVE  AllTidy'
<1>1. Tidy(e) /\ \A d \in Decls : Tidy(d)
  BY DEF AllTidy
<1>2. Somewhere({Use(e)}) /\ e \notin seen /\ Reached(e)
  <2>1. PICK U : U = {Use(e)}
    OBVIOUS
  <2>2. Somewhere(U)
    BY <2>1, HeadSomewhere
  <2> QED
    BY <1>1, <2>1, <2>2 DEF Tidy
<1>3. ~Somewhere(Cont(e)) /\ ~Unwound(e)
  BY <1>1, <1>2 DEF Tidy
<1>4. e \notin configured
  BY <1>2 DEF IInv, StagesNest
<1>5. /\ t \in Cont(e) /\ t \in Early(e) /\ t \in Work(e) /\ t # Use(e)
      /\ Now \in Work(e) /\ Now \notin Cont(e)
  BY WorkSets
<1>6. ASSUME NEW d \in Decls, NEW S \in SUBSET Work(d),
             t \in S => Now \in S \/ ~Somewhere(S)
      PROVE  /\ Alone(S)'
             /\ Somewhere(S)' <=> t \in S \/ (Somewhere(S) /\ Now \notin S)
  <2>1. Alone(S)
    BY <1>1, Fewer DEF Tidy
  <2>2. {t} \cap S # {} <=> t \in S
    OBVIOUS
  <2> QED
    BY <1>6, <2>1, <2>2 DEF Gives, Replaced
<1>7. ASSUME NEW d \in Decls, d # e
      PROVE  /\ Alone(Work(d))'
             /\ Somewhere({Use(d)})' <=> Somewhere({Use(d)})
             /\ Somewhere(Cont(d))' <=> Somewhere(Cont(d))
             /\ Somewhere(Awaits(d))' <=> Somewhere(Awaits(d))
             /\ Somewhere(Early(d))' <=> Somewhere(Early(d))
  <2>1. Now \notin Work(d) /\ t \notin Work(d)
    BY <1>5, <1>7, WorkSets
  <2>2. \A S \in SUBSET Work(d) : Alone(S)' /\ (Somewhere(S)' <=> Somewhere(S))
    BY <1>6, <2>1
  <2>3. PICK U, C, E, W : /\ U = {Use(d)} /\ C = Cont(d) /\ E = Early(d)
                          /\ W = Awaits(d)
    OBVIOUS
  <2>4. /\ U \in SUBSET Work(d) /\ C \in SUBSET Work(d)
        /\ E \in SUBSET Work(d) /\ W \in SUBSET Work(d)
        /\ Work(d) \in SUBSET Work(d)
    BY <2>3, WorkSets
  <2> QED
    BY <2>2, <2>3, <2>4
<1>8. /\ Alone(Work(e))'
      /\ ~Somewhere({Use(e)})'
      /\ Somewhere(Cont(e))'
  <2>1. PICK U, C : U = {Use(e)} /\ C = Cont(e)
    OBVIOUS
  <2>2. U \in SUBSET Work(e) /\ C \in SUBSET Work(e) /\ Work(e) \in SUBSET Work(e)
    BY <2>1, WorkSets
  <2>3. t \notin U /\ t \in C /\ Now \in U /\ ~Somewhere(C)
    BY <1>3, <1>5, <2>1
  <2>4. /\ Alone(Work(e))'
        /\ Somewhere(U)' <=> t \in U \/ (Somewhere(U) /\ Now \notin U)
        /\ Somewhere(C)' <=> t \in C \/ (Somewhere(C) /\ Now \notin C)
    BY <1>5, <1>6, <2>2, <2>3
  <2> QED
    BY <2>1, <2>3, <2>4
<1>9. ASSUME NEW c \in Decls
      PROVE  /\ InitOpen(c) => InitOpen(c)'
             /\ ConfigOpen(c) => ConfigOpen(c)'
  <2>1. CASE c = e
    BY <1>2, <2>1 DEF InitOpen, ConfigOpen
  <2>2. CASE c # e
    BY <1>7, <2>2 DEF InitOpen, ConfigOpen
  <2> QED
    BY <2>1, <2>2
<1> SUFFICES ASSUME NEW d \in Decls PROVE Tidy(d)'
  BY DEF AllTidy
<1>10. Unwound(d)' <=> Unwound(d)
  BY DEF Unwound
<1>11. Reached(d) => Reached(d)'
  BY <1>9 DEF Reached
<1>12. CASE d = e
  BY <1>2, <1>3, <1>4, <1>8, <1>10, <1>11, <1>12 DEF Tidy
<1>13. CASE d # e
  BY <1>1, <1>7, <1>10, <1>11, <1>13 DEF Tidy
<1> QED
  BY <1>12, <1>13

\* A form is passed over, or is done with.
LEMMA TidyEnds ==
    ASSUME AllTidy, IInv, todo # <<>>, UNCHANGED <<seen, lost>>,
           NEW e \in Decls, Gives({}),
           \/ Now = Use(e) /\ configured' = configured
           \/ Now \in Cont(e) /\ configured' = configured \cup {e}
    PROVE  AllTidy'
<1>1. Tidy(e) /\ \A d \in Decls : Tidy(d)
  BY DEF AllTidy
<1>2. Now \in Work(e)
  BY WorkSets
<1>3. ASSUME NEW d \in Decls, NEW S \in SUBSET Work(d)
      PROVE  /\ Alone(S)'
             /\ Somewhere(S)' <=> Somewhere(S) /\ Now \notin S
  <2>1. Alone(S)
    BY <1>1, Fewer DEF Tidy
  <2>2. {} \cap S = {}
    OBVIOUS
  <2> QED
    BY <2>1, <2>2 DEF Gives, Replaced
<1>4. ASSUME NEW d \in Decls
      PROVE  /\ Alone(Work(d))'
             /\ Somewhere({Use(d)})' <=> Somewhere({Use(d)}) /\ Now # Use(d)
             /\ Somewhere(Cont(d))' <=> Somewhere(Cont(d)) /\ Now \notin Cont(d)
             /\ Somewhere(Awaits(d))' => Somewhere(Awaits(d))
             /\ Somewhere(Early(d))' => Somewhere(Early(d))
  <2>1. PICK U, C, E, W : /\ U = {Use(d)} /\ C = Cont(d) /\ E = Early(d)
                          /\ W = Awaits(d)
    OBVIOUS
  <2>2. /\ U \in SUBSET Work(d) /\ C \in SUBSET Work(d)
        /\ E \in SUBSET Work(d) /\ W \in SUBSET Work(d)
        /\ Work(d) \in SUBSET Work(d)
    BY <2>1, WorkSets
  <2> QED
    BY <1>3, <2>1, <2>2
<1> SUFFICES ASSUME NEW d \in Decls PROVE Tidy(d)'
  BY DEF AllTidy
<1>5. \A c \in Decls : /\ InitOpen(c) => InitOpen(c)'
                       /\ ConfigOpen(c) => ConfigOpen(c)'
  BY <1>4 DEF InitOpen, ConfigOpen
<1>6. Reached(d) => Reached(d)'
  BY <1>5 DEF Reached
<1>7. Unwound(d)' <=> Unwound(d)
  BY DEF Unwound
<1>8. CASE d = e
  <2>1. CASE Now = Use(e) /\ configured' = configured
    <3>1. Now \notin Cont(e)
      BY <2>1, WorkSets
    <3> QED
      BY <1>1, <1>4, <1>6, <1>7, <1>8, <2>1, <3>1 DEF Tidy
  <2>2. CASE Now \in Cont(e) /\ configured' = configured \cup {e}
    BY <1>1, <1>4, <1>6, <1>7, <1>8, <2>2 DEF Tidy
  <2> QED
    BY <2>1, <2>2
<1>9. CASE d # e
  <2>1. Now \notin Cont(d) /\ Now # Use(d)
    BY <1>2, <1>9, WorkSets
  <2>2. d \in configured' <=> d \in configured
    BY <1>9
  <2> QED
    BY <1>1, <1>4, <1>6, <1>7, <2>1, <2>2 DEF Tidy
<1> QED
  BY <1>8, <1>9

\* An error: the forms whose work is unwound past are so marked.
LEMMA TidySignal ==
    ASSUME AllTidy, IInv, Signal, UNCHANGED <<seen, configured, afterLoad>>
    PROVE  AllTidy'
<1>1. \A d \in Decls : Tidy(d)
  BY DEF AllTidy
<1>2. PICK L \in SUBSET Task :
        /\ lost' = lost \cup L
        /\ \A S : Alone(S) =>
             /\ Alone(S)'
             /\ Somewhere(S) <=> Somewhere(S)' \/ L \cap S # {}
             /\ ~(Somewhere(S)' /\ L \cap S # {})
  BY SignalLoses
<1>3. ASSUME NEW d \in Decls
      PROVE  /\ Alone(Work(d))'
             /\ Somewhere({Use(d)})' => Somewhere({Use(d)})
             /\ Somewhere(Cont(d)) <=> Somewhere(Cont(d))' \/ L \cap Cont(d) # {}
             /\ ~(Somewhere(Cont(d))' /\ L \cap Cont(d) # {})
             /\ Somewhere(Awaits(d))' => Somewhere(Awaits(d))
             /\ Somewhere(Early(d))' => Somewhere(Early(d))
  <2>1. PICK U, C, E, W : /\ U = {Use(d)} /\ C = Cont(d) /\ E = Early(d)
                          /\ W = Awaits(d)
    OBVIOUS
  <2>2. /\ U \in SUBSET Work(d) /\ C \in SUBSET Work(d)
        /\ E \in SUBSET Work(d) /\ W \in SUBSET Work(d)
    BY <2>1, WorkSets
  <2>3. Alone(Work(d)) /\ Alone(U) /\ Alone(C) /\ Alone(E) /\ Alone(W)
    BY <1>1, <2>2, Fewer DEF Tidy
  <2> QED
    BY <1>2, <2>1, <2>3
<1> SUFFICES ASSUME NEW d \in Decls PROVE Tidy(d)'
  BY DEF AllTidy
<1>4. \A c \in Decls : /\ InitOpen(c) => InitOpen(c)'
                       /\ ConfigOpen(c) => ConfigOpen(c)'
  BY <1>3 DEF InitOpen, ConfigOpen
<1>5. Reached(d) => Reached(d)'
  BY <1>4 DEF Reached
<1>6. Unwound(d)' <=> Unwound(d) \/ L \cap Cont(d) # {}
  BY <1>2 DEF Unwound, Cont
<1> QED
  BY <1>1, <1>3, <1>5, <1>6 DEF Tidy

(***************************************************************************)
(* The code of the sections.                                               *)
(***************************************************************************)

\* A use in a script is a place.
LEMMA PlaceOf ==
    ASSUME NEW d \in Decls
    PROVE  /\ \A i \in DOMAIN DotEmacs :
                DotEmacs[i] = Use(d) => <<".emacs", d, i>> \in Places(d)
           /\ \A c \in Decls : \A i \in DOMAIN Decl[c].init :
                Decl[c].init[i] = Use(d) => <<"init", c, i>> \in Places(d)
           /\ \A c \in Decls : \A i \in DOMAIN Decl[c].config :
                Decl[c].config[i] = Use(d) => <<"config", c, i>> \in Places(d)
<1>1. ASSUME NEW i \in DOMAIN DotEmacs, DotEmacs[i] = Use(d)
      PROVE  <<".emacs", d, i>> \in Places(d)
  BY <1>1 DEF Places, UsesIn
<1>2. ASSUME NEW c \in Decls
      PROVE  (({"init"} \X {c} \X UsesIn(d, Decl[c].init))
              \cup ({"config"} \X {c} \X UsesIn(d, Decl[c].config))) \subseteq Places(d)
  BY DEF Places
<1>3. ASSUME NEW c \in Decls, NEW i \in DOMAIN Decl[c].init, Decl[c].init[i] = Use(d)
      PROVE  <<"init", c, i>> \in Places(d)
  <2>1. <<"init", c, i>> \in {"init"} \X {c} \X UsesIn(d, Decl[c].init)
    BY <1>3 DEF UsesIn
  <2> QED
    BY <1>2, <2>1
<1>4. ASSUME NEW c \in Decls, NEW i \in DOMAIN Decl[c].config, Decl[c].config[i] = Use(d)
      PROVE  <<"config", c, i>> \in Places(d)
  <2>1. <<"config", c, i>> \in {"config"} \X {c} \X UsesIn(d, Decl[c].config)
    BY <1>4 DEF UsesIn
  <2> QED
    BY <1>2, <2>1
<1> QED
  BY <1>1, <1>3, <1>4

\* So a form that is used in one script is used there once, and in no other.
LEMMA UsedHere ==
    ASSUME UsedOnce, NEW d \in Decls
    PROVE  /\ Single({Use(d)}, DotEmacs)
           /\ \A c \in Decls : /\ Single({Use(d)}, Decl[c].init)
                               /\ Single({Use(d)}, Decl[c].config)
           /\ Use(d) \in Range(DotEmacs) =>
                \A c \in Decls : /\ Use(d) \notin Range(Decl[c].init)
                                 /\ Use(d) \notin Range(Decl[c].config)
           /\ \A b, c \in Decls :
                /\ Use(d) \in Range(Decl[b].init) =>
                     /\ Use(d) \in Range(Decl[c].init) => b = c
                     /\ Use(d) \notin Range(Decl[c].config)
                /\ Use(d) \in Range(Decl[b].config) /\ Use(d) \in Range(Decl[c].config)
                     => b = c
<1>1. \A p, q \in Places(d) : p = q
  BY DEF UsedOnce
<1>2. ASSUME NEW i \in DOMAIN DotEmacs, DotEmacs[i] = Use(d)
      PROVE  <<".emacs", d, i>> \in Places(d)
  BY <1>2, PlaceOf
<1>3. ASSUME NEW c \in Decls, NEW i \in DOMAIN Decl[c].init, Decl[c].init[i] = Use(d)
      PROVE  <<"init", c, i>> \in Places(d)
  BY <1>3, PlaceOf
<1>4. ASSUME NEW c \in Decls, NEW i \in DOMAIN Decl[c].config, Decl[c].config[i] = Use(d)
      PROVE  <<"config", c, i>> \in Places(d)
  BY <1>4, PlaceOf
<1>6. ASSUME NEW c \in Decls
      PROVE  /\ Single({Use(d)}, Decl[c].init)
             /\ Single({Use(d)}, Decl[c].config)
  <2>1. ASSUME NEW i \in DOMAIN Decl[c].init, NEW j \in DOMAIN Decl[c].init,
               Decl[c].init[i] \in {Use(d)}, Decl[c].init[j] \in {Use(d)}
        PROVE  i = j
    <3>1. <<"init", c, i>> \in Places(d) /\ <<"init", c, j>> \in Places(d)
      BY <1>3, <2>1
    <3>2. <<"init", c, i>> = <<"init", c, j>>
      BY <1>1, <3>1
    <3> QED
      BY <3>2
  <2>2. ASSUME NEW i \in DOMAIN Decl[c].config, NEW j \in DOMAIN Decl[c].config,
               Decl[c].config[i] \in {Use(d)}, Decl[c].config[j] \in {Use(d)}
        PROVE  i = j
    <3>1. <<"config", c, i>> \in Places(d) /\ <<"config", c, j>> \in Places(d)
      BY <1>4, <2>2
    <3>2. <<"config", c, i>> = <<"config", c, j>>
      BY <1>1, <3>1
    <3> QED
      BY <3>2
  <2> QED
    BY <2>1, <2>2 DEF Single
<1>7. Single({Use(d)}, DotEmacs)
  <2>1. ASSUME NEW i \in DOMAIN DotEmacs, NEW j \in DOMAIN DotEmacs,
               DotEmacs[i] \in {Use(d)}, DotEmacs[j] \in {Use(d)}
        PROVE  i = j
    <3>1. <<".emacs", d, i>> \in Places(d) /\ <<".emacs", d, j>> \in Places(d)
      BY <1>2, <2>1
    <3>2. <<".emacs", d, i>> = <<".emacs", d, j>>
      BY <1>1, <3>1
    <3> QED
      BY <3>2
  <2> QED
    BY <2>1 DEF Single
<1>8. ASSUME NEW s, Use(d) \in Range(s) PROVE \E i \in DOMAIN s : s[i] = Use(d)
  BY <1>8 DEF Range
<1>9. Use(d) \in Range(DotEmacs) => \E i : <<".emacs", d, i>> \in Places(d)
  BY <1>2, <1>8
<1>10. \A c \in Decls :
         Use(d) \in Range(Decl[c].init) => \E i : <<"init", c, i>> \in Places(d)
  BY <1>3, <1>8
<1>11. \A c \in Decls :
         Use(d) \in Range(Decl[c].config) => \E i : <<"config", c, i>> \in Places(d)
  BY <1>4, <1>8
<1>12. ASSUME NEW i, NEW j, NEW b, NEW c
       PROVE  /\ ~(/\ <<".emacs", d, i>> \in Places(d)
                   /\ <<"init", c, j>> \in Places(d))
              /\ ~(/\ <<".emacs", d, i>> \in Places(d)
                   /\ <<"config", c, j>> \in Places(d))
              /\ ~(/\ <<"init", b, i>> \in Places(d)
                   /\ <<"config", c, j>> \in Places(d))
              /\ <<"init", b, i>> \in Places(d) /\ <<"init", c, j>> \in Places(d)
                    => b = c
              /\ <<"config", b, i>> \in Places(d) /\ <<"config", c, j>> \in Places(d)
                    => b = c
  <2>1. ASSUME <<".emacs", d, i>> \in Places(d), <<"init", c, j>> \in Places(d)
        PROVE  FALSE
    <3>1. <<".emacs", d, i>> = <<"init", c, j>>
      BY <1>1, <2>1
    <3> QED
      BY <3>1
  <2>2. ASSUME <<".emacs", d, i>> \in Places(d), <<"config", c, j>> \in Places(d)
        PROVE  FALSE
    <3>1. <<".emacs", d, i>> = <<"config", c, j>>
      BY <1>1, <2>2
    <3> QED
      BY <3>1
  <2>3. ASSUME <<"init", b, i>> \in Places(d), <<"config", c, j>> \in Places(d)
        PROVE  FALSE
    <3>1. <<"init", b, i>> = <<"config", c, j>>
      BY <1>1, <2>3
    <3> QED
      BY <3>1
  <2>4. ASSUME <<"init", b, i>> \in Places(d), <<"init", c, j>> \in Places(d)
        PROVE  b = c
    <3>1. <<"init", b, i>> = <<"init", c, j>>
      BY <1>1, <2>4
    <3> QED
      BY <3>1
  <2>5. ASSUME <<"config", b, i>> \in Places(d), <<"config", c, j>> \in Places(d)
        PROVE  b = c
    <3>1. <<"config", b, i>> = <<"config", c, j>>
      BY <1>1, <2>5
    <3> QED
      BY <3>1
  <2> QED
    BY <2>1, <2>2, <2>3, <2>4, <2>5
<1> QED
  BY <1>6, <1>7, <1>9, <1>10, <1>11, <1>12

\* The only work of forms in a script is that of being evaluated.
LEMMA ScriptWork ==
    ASSUME NEW s \in Seq(ScriptTask), NEW d \in Decls
    PROVE  /\ Range(s) \cap Cont(d) = {}
           /\ Has(Work(d), s) <=> Use(d) \in Range(s)
           /\ Single({Use(d)}, s) => Single(Work(d), s)
<1>1. Range(s) \subseteq ScriptTask /\ s \in Seq(Task)
  BY ScriptReady
<1>2. ScriptTask \cap Cont(d) = {}
  BY DEF ScriptTask, Cont, Continues
<1>3. Range(s) \cap Cont(d) = {}
  BY <1>1, <1>2
<1>4. Has(Work(d), s) <=> Range(s) \cap Work(d) # {}
  BY HasRange
<1>5. Has(Work(d), s) <=> Use(d) \in Range(s)
  BY <1>3, <1>4, WorkSets
<1>6. \A i \in DOMAIN s : s[i] \in Work(d) => s[i] \in {Use(d)}
  <2>1. \A i \in DOMAIN s : s[i] \in Range(s)
    BY DEF Range
  <2> QED
    BY <1>3, <2>1, WorkSets
<1>7. Single({Use(d)}, s) => Single(Work(d), s)
  BY <1>6 DEF Single
<1> QED
  BY <1>3, <1>5, <1>7

\* A section of form e is run: :init before what settles e, :config before the
\* news that it is over.
LEMMA SectionRuns ==
    ASSUME UsedOnce, AllTidy, IInv, todo # <<>>,
           UNCHANGED <<seen, configured, lost, afterLoad>>,
           NEW e \in Decls, Now \in Cont(e),
           NEW s \in Seq(ScriptTask), NEW r \in Seq(Task), NEW t \in Cont(e),
           Range(r) \cap Work(e) = {t}, Single(Work(e), r),
           \A d \in Decls : d # e => Range(r) \cap Work(d) = {},
           todo' = (s \o r) \o Tail(todo),
           t \notin Awaits(e), t \in Early(e) => Now \in Early(e),
           \/ s = Decl[e].init /\ Now \in Awaits(e)
           \/ s = Decl[e].config /\ Now \in Early(e) /\ t \notin Early(e)
    PROVE  AllTidy'
<1>1. Tidy(e) /\ \A d \in Decls : Tidy(d)
  BY DEF AllTidy
<1>2. s \in Seq(Task) /\ r \in Seq(Task)
  BY ScriptReady
<1>3. PICK w \in Seq(Task) : w = s \o r /\ Range(w) = Range(s) \cup Range(r)
  <2>1. s \o r \in Seq(Task)
    BY <1>2, ConcatProperties, Zenon
  <2>2. \A u \in Seq(Task) : Range(s \o u) = Range(s) \cup Range(u)
    BY <1>2, RangeConcatenation, Zenon
  <2> QED
    BY <1>2, <2>1, <2>2
<1>4. ASSUME NEW d \in Decls, Use(d) \in Range(s)
      PROVE  /\ ~Reached(d) /\ d \notin seen /\ ~Somewhere({Use(d)}) /\ d # e
             /\ \A c \in Decls :
                  /\ Use(d) \in Range(Decl[c].init) => c = e /\ t \notin Awaits(e)
                  /\ Use(d) \in Range(Decl[c].config) => c = e /\ t \notin Early(e)
  <2>1. e \in seen
    <3>1. Somewhere(Cont(e))
      BY HeadSomewhere
    <3> QED
      BY <1>1, <3>1 DEF Tidy
  <2>2. CASE s = Decl[e].init /\ Now \in Awaits(e)
    <3>1. Somewhere(Awaits(e))
      BY <2>2, HeadSomewhere
    <3>2. ~Reached(d)
      BY <1>4, <2>2, <3>1 DEF Reached, InitOpen
    <3>3. \A c \in Decls :
                  /\ Use(d) \in Range(Decl[c].init) => c = e
                  /\ Use(d) \notin Range(Decl[c].config)
      BY <1>4, <2>2, UsedHere
    <3> QED
      BY <1>1, <2>1, <3>2, <3>3 DEF Tidy
  <2>3. CASE s = Decl[e].config /\ Now \in Early(e) /\ t \notin Early(e)
    <3>1. Somewhere(Early(e))
      BY <2>3, HeadSomewhere
    <3>2. ~Reached(d)
      BY <1>4, <2>3, <3>1 DEF Reached, ConfigOpen
    <3>3. \A c \in Decls :
                  /\ Use(d) \in Range(Decl[c].config) => c = e
                  /\ Use(d) \notin Range(Decl[c].init)
      BY <1>4, <2>3, UsedHere
    <3> QED
      BY <1>1, <2>1, <2>3, <3>2, <3>3 DEF Tidy
  <2> QED
    BY <2>2, <2>3
<1>5. ASSUME NEW d \in Decls PROVE Single(Work(d), w)
  <2>1. Single(Work(d), s)
    <3>1. Single({Use(d)}, Decl[e].init) /\ Single({Use(d)}, Decl[e].config)
      BY UsedHere
    <3>2. Single({Use(d)}, s)
      BY <3>1
    <3> QED
      BY <3>2, ScriptWork
  <2>2. CASE d = e
    <3>1. ~Has(Work(d), s)
      BY <1>4, <2>2, ScriptWork
    <3> QED
      BY <1>2, <1>3, <2>1, <2>2, <3>1, Joined
  <2>3. CASE d # e
    <3>1. ~Has(Work(d), r)
      BY <2>3, HasRange
    <3>2. Single(Work(d), r)
      BY <3>1 DEF Has, Single
    <3> QED
      BY <1>2, <1>3, <2>1, <3>1, <3>2, Joined
  <2> QED
    BY <2>2, <2>3
<1>6. PICK A : A = Range(w)
  OBVIOUS
<1>7. Gives(A)
  <2>1. todo' = w \o Tail(todo) /\ afterLoad' = afterLoad
    BY <1>3
  <2> QED
    BY <1>5, <1>6, <2>1, GivesWork
<1>8. A = Range(s) \cup Range(r) /\ \A d \in Decls : Range(s) \cap Cont(d) = {}
  BY <1>3, <1>6, ScriptWork
<1>9. A \cap Cont(e) = {t}
  BY <1>8, WorkSets
<1>10. \A d \in Decls : d # e => A \cap Cont(d) = {}
  BY <1>8, WorkSets
<1>11. ASSUME NEW d \in Decls, Use(d) \in A PROVE Use(d) \in Range(s)
  <2>1. Use(d) \in Work(d) /\ Use(d) \notin Cont(d)
    BY WorkSets
  <2>2. Use(d) \notin Range(r)
    <3>1. CASE d = e
      BY <2>1, <3>1
    <3>2. CASE d # e
      BY <2>1, <3>2
    <3> QED
      BY <3>1, <3>2
  <2> QED
    BY <1>8, <1>11, <2>2
<1>12. \A d \in Decls : Use(d) \in A =>
             /\ d \notin seen /\ ~Somewhere({Use(d)})
             /\ \A c \in Decls :
                  /\ Use(d) \in Range(Decl[c].init) => c = e /\ t \notin Awaits(e)
                  /\ Use(d) \in Range(Decl[c].config) => c = e /\ t \notin Early(e)
  BY <1>4, <1>11
<1> QED
  BY <1>7, <1>9, <1>10, <1>12, TidyOn

(***************************************************************************)
(* The steps.                                                              *)
(***************************************************************************)

\* The tasks that do the work of a form.
WorkOps == {"use", "await", "settle", "demand", "config", "configured"}

\* The other tasks are nobody's work.
LEMMA IdleTasks ==
    ASSUME NEW d \in Decls
    PROVE  \A t : t.op \notin WorkOps => t \notin Work(d)
BY DEF Work, Continues, WorkOps

\* Where the tasks of form e belong.
LEMMA OwnTasks ==
    ASSUME NEW e \in Decls
    PROVE  /\ \A n \in Nat : Await(e, n) \in Awaits(e)
           /\ \A op \in {"settle", "demand", "config"} :
                T(op, e) \in Early(e) /\ T(op, e) \notin Awaits(e)
           /\ T("configured", e) \in Cont(e) /\ T("configured", e) \notin Early(e)
<1>1. \A n \in Nat : Await(e, n) \in Awaits(e)
  BY TaskTypes DEF Awaits, Await
<1>2. ASSUME NEW op \in {"settle", "demand", "config"}
      PROVE  T(op, e) \in Early(e) /\ T(op, e) \notin Awaits(e)
  BY TaskTypes DEF Early, Awaits, Continues, T, DeclOps
<1>3. T("configured", e) \in Cont(e) /\ T("configured", e) \notin Early(e)
  BY TaskTypes DEF Cont, Early, Continues, T, DeclOps
<1> QED
  BY <1>1, <1>2, <1>3

\* The head, when it is the work of a form.
LEMMA HeadWork ==
    ASSUME IInv, todo # <<>>, Now.op \in WorkOps
    PROVE  /\ Now.arg \in Decls
           /\ Now.op = "use" => Now = Use(Now.arg)
           /\ Now.op = "await" => Now \in Awaits(Now.arg) /\ Now.left \in Nat
           /\ Now.op \in {"settle", "demand", "config"} =>
                Now \in Early(Now.arg) /\ Now \notin Awaits(Now.arg)
           /\ Now.op # "use" => Now \in Cont(Now.arg)
<1>1. PICK t \in Task : t = Now
  BY HeadReady
<1>2. t.op \in WorkOps
  BY <1>1
<1>3. t.arg \in Decls
  BY <1>2, TaskArgs DEF WorkOps, DeclOps
<1>4. t.op = "use" => t = Use(t.arg)
  BY DEF Task, DeclOps, FeatureOps, Use, T
<1>5. t.op = "await" => t \in Awaits(t.arg) /\ t.left \in Nat
  BY TaskArgs DEF Awaits
<1>6. t.op \in {"settle", "demand", "config"} =>
        t \in Early(t.arg) /\ t \notin Awaits(t.arg)
  BY DEF Early, Awaits, Continues
<1>7. t.op # "use" => t \in Cont(t.arg)
  BY <1>2 DEF Cont, Continues, WorkOps
<1> HIDE DEF Now
<1> QED
  BY <1>1, <1>3, <1>4, <1>5, <1>6, <1>7

\* The task of a form belongs to that form only.
LEMMA OneOwner ==
    ASSUME NEW e \in Decls, NEW t \in Cont(e)
    PROVE  /\ t \in Task /\ {t} \cap Work(e) = {t}
           /\ \A d \in Decls : d # e => t \notin Work(d)
BY WorkSets

\* Steps that give nothing, one task, or two.
LEMMA GivesNone ==
    ASSUME IInv, todo # <<>>, todo' = <<>> \o Tail(todo), afterLoad' = afterLoad
    PROVE  Gives({})
<1>1. PICK w \in Seq(Task) : w = <<>> /\ Range(w) = {}
  BY ShortSequences
<1>2. \A d \in Decls : Single(Work(d), w)
  BY <1>1, HasShort
<1>3. todo' = w \o Tail(todo)
  BY <1>1
<1>4. Gives(Range(w))
  BY <1>2, <1>3, GivesWork
<1> QED
  BY <1>1, <1>4

LEMMA GivesOne ==
    ASSUME IInv, todo # <<>>, NEW t \in Task, todo' = <<t>> \o Tail(todo),
           afterLoad' = afterLoad
    PROVE  Gives({t})
<1>1. PICK w \in Seq(Task) : w = <<t>> /\ Range(w) = {t}
  BY ShortSequences
<1>2. \A d \in Decls : Single(Work(d), w)
  BY <1>1, HasShort
<1>3. todo' = w \o Tail(todo)
  BY <1>1
<1>4. Gives(Range(w))
  BY <1>2, <1>3, GivesWork
<1> QED
  BY <1>1, <1>4

\* Two tasks, not of the same set.
LEMMA TwoTasks ==
    ASSUME NEW t \in Task, NEW u \in Task
    PROVE  \E w \in Seq(Task) :
             /\ w = <<t, u>> /\ Range(w) = {t, u}
             /\ \A S : ~(t \in S /\ u \in S) => Single(S, w)
<1>1. PICK w : w = <<t, u>>
  OBVIOUS
<1>2. /\ w \in Seq(Task) /\ Range(w) = {t, u}
      /\ DOMAIN w = {1, 2} /\ w[1] = t /\ w[2] = u
  BY <1>1 DEF Range
<1>3. ASSUME NEW S, ~(t \in S /\ u \in S) PROVE Single(S, w)
  BY <1>2, <1>3 DEF Single
<1> QED
  BY <1>1, <1>2, <1>3

\* Two tasks that are not of one form.
LEMMA GivesTwo ==
    ASSUME IInv, todo # <<>>, NEW t \in Task, NEW u \in Task,
           todo' = <<t, u>> \o Tail(todo), afterLoad' = afterLoad,
           \A d \in Decls : ~(t \in Work(d) /\ u \in Work(d))
    PROVE  Gives({t, u})
<1>1. PICK w \in Seq(Task) :
        /\ w = <<t, u>> /\ Range(w) = {t, u}
        /\ \A S : ~(t \in S /\ u \in S) => Single(S, w)
  BY TwoTasks
<1>2. \A d \in Decls : Single(Work(d), w)
  BY <1>1
<1>3. todo' = w \o Tail(todo)
  BY <1>1
<1>4. Gives(Range(w))
  BY <1>2, <1>3, GivesWork
<1> QED
  BY <1>1, <1>4

\* The head was nobody's work, nor is what it gives way to.
LEMMA TidyIdle ==
    ASSUME AllTidy, IInv, todo # <<>>, Now.op \notin WorkOps,
           NEW w \in Seq(Task), todo' = w \o Tail(todo),
           \A t \in Range(w) : t.op \notin WorkOps,
           UNCHANGED <<afterLoad, seen, configured, lost>>
    PROVE  AllTidy'
<1>1. ASSUME NEW d \in Decls, NEW S \in SUBSET Work(d), Alone(S)
      PROVE  Alone(S)' /\ (Somewhere(S)' <=> Somewhere(S))
  <2>1. Range(w) \cap S = {} /\ Now \notin S
    BY <1>1, IdleTasks
  <2>2. Single(S, w)
    BY <2>1, HasRange DEF Has, Single
  <2>3. Replaced(S, Range(w))
    BY <1>1, <2>1, <2>2, HeadReplaced
  <2> QED
    BY <2>1, <2>3 DEF Replaced
<1> QED
  BY <1>1, TidyQuiet

\* A form that is passed over, or whose :config is over, is done with.
LEMMA TidySkips ==
    ASSUME AllTidy, IInv, SkipUse \/ ConfigDone PROVE AllTidy'
<1>1. /\ todo # <<>> /\ todo' = <<>> \o Tail(todo) /\ UNCHANGED <<afterLoad, seen, lost>>
      /\ \/ Now.op = "use" /\ configured' = configured
         \/ Now.op = "configured" /\ configured' = configured \cup {Now.arg}
  BY DEF SkipUse, ConfigDone, Doing, Expand
<1>2. Now.op \in WorkOps
  BY <1>1 DEF WorkOps
<1>3. PICK e \in Decls :
        /\ e = Now.arg /\ (Now.op = "use" => Now = Use(e))
        /\ Now.op # "use" => Now \in Cont(e)
  BY <1>1, <1>2, HeadWork
<1>4. \/ Now = Use(e) /\ configured' = configured
      \/ Now \in Cont(e) /\ configured' = configured \cup {e}
  BY <1>1, <1>3
<1>5. Gives({})
  BY <1>1, GivesNone
<1> QED
  BY <1>1, <1>4, <1>5, TidyEnds

\* A form that is begun waits for its :after features, ...
LEMMA TidyEvalUse == ASSUME AllTidy, IInv, EvalUse PROVE AllTidy'
<1>1. /\ todo # <<>> /\ Now.op = "use" /\ seen' = seen \cup {Now.arg}
      /\ UNCHANGED <<afterLoad, configured, lost>>
      /\ todo' = <<Await(Now.arg, Len(Decl[Now.arg].after))>> \o Tail(todo)
  BY DEF EvalUse, Doing, Expand
<1>2. Now.op \in WorkOps
  BY <1>1 DEF WorkOps
<1>3. PICK e \in Decls : e = Now.arg /\ Now = Use(e)
  BY <1>1, <1>2, HeadWork
<1>4. Len(Decl[e].after) \in Nat
  BY DeclTypes, LenProperties
<1>5. PICK t \in Awaits(e) : t = Await(e, Len(Decl[e].after))
  BY <1>4, OwnTasks
<1>6. t \in Task
  BY DEF Awaits
<1>7. todo' = <<t>> \o Tail(todo)
  BY <1>1, <1>3, <1>5
<1>8. Gives({t})
  BY <1>1, <1>6, <1>7, GivesOne
<1> QED
  BY <1>1, <1>3, <1>8, TidyBegins

\* A task gives way to a later one of the same form, now or when its feature is
\* provided.
LEMMA TidyPuts ==
    ASSUME AllTidy, IInv, todo # <<>>, UNCHANGED <<seen, configured, lost>>,
           NEW e \in Decls, Now \in Cont(e), NEW t \in Cont(e),
           \/ \E f \in Features : EvalAfterLoad(f, t)
           \/ todo' = <<t>> \o Tail(todo) /\ afterLoad' = afterLoad,
           t \in Awaits(e) => Now \in Awaits(e),
           t \in Early(e) => Now \in Early(e)
    PROVE  AllTidy'
<1>1. t \in Task /\ {t} \cap Work(e) = {t}
  BY OneOwner
<1>2. \A d \in Decls : d # e => {t} \cap Work(d) = {}
  BY OneOwner
<1>3. Gives({t})
  BY <1>1, GivesOne, GivesAfterLoad
<1> QED
  BY <1>1, <1>2, <1>3, TidyLinear

\* ... one after the other, ...
LEMMA TidyAwaitAfter == ASSUME AllTidy, IInv, AwaitAfter PROVE AllTidy'
<1>1. /\ todo # <<>> /\ Now.op = "await" /\ Now.left > 0
      /\ UNCHANGED <<seen, configured, lost>>
      /\ EvalAfterLoad(Decl[Now.arg].after[Now.left], Await(Now.arg, Now.left - 1))
  BY DEF AwaitAfter, Doing
<1>2. Now.op \in WorkOps
  BY <1>1 DEF WorkOps
<1>3. PICK e \in Decls, n \in Nat : e = Now.arg /\ n = Now.left /\ Now \in Awaits(e)
  BY <1>1, <1>2, HeadWork
<1>4. n - 1 \in Nat
  BY <1>1, <1>3
<1>5. PICK t \in Awaits(e) : t = Await(e, n - 1)
  BY <1>4, OwnTasks
<1>6. n <= Len(Decl[e].after)
  BY <1>1, <1>3, HeadReady DEF Ready
<1>7. Decl[e].after[n] \in Features
  BY <1>1, <1>3, <1>6, DeclTypes, ElementOfSeq
<1>8. EvalAfterLoad(Decl[e].after[n], t)
  BY <1>1, <1>3, <1>5
<1>9. Awaits(e) \subseteq Cont(e) /\ Awaits(e) \subseteq Early(e)
  BY WorkSets
<1> QED
  BY <1>1, <1>3, <1>7, <1>8, <1>9, TidyPuts

\* ... and settles when it is loaded: now, on demand or later.
LEMMA TidySettle == ASSUME AllTidy, IInv, Settle PROVE AllTidy'
<1>1. /\ todo # <<>> /\ Now.op = "settle" /\ UNCHANGED <<seen, configured, lost>>
      /\ \/ EvalAfterLoad(Decl[Now.arg].feature, T("config", Now.arg))
         \/ \E op \in {"config", "demand"} :
              todo' = <<T(op, Now.arg)>> \o Tail(todo) /\ afterLoad' = afterLoad
  <2>1. /\ todo # <<>> /\ Now.op = "settle" /\ UNCHANGED <<seen, configured, lost>>
        /\ \/ EvalAfterLoad(Decl[Now.arg].feature, T("config", Now.arg))
           \/ /\ todo' = <<T(IF Inline(Now.arg) THEN "config" ELSE "demand", Now.arg)>>
                           \o Tail(todo)
              /\ afterLoad' = afterLoad
    BY DEF Settle, Doing, Expand
  <2>2. PICK op \in {"config", "demand"} :
          op = (IF Inline(Now.arg) THEN "config" ELSE "demand")
    OBVIOUS
  <2> QED
    BY <2>1, <2>2
<1>2. Now.op \in WorkOps
  BY <1>1 DEF WorkOps
<1>3. PICK e \in Decls : e = Now.arg /\ Now \in Early(e) /\ Now \in Cont(e)
  BY <1>1, <1>2, HeadWork
<1>4. Decl[e].feature \in Features /\ Early(e) \subseteq Cont(e)
  BY DeclTypes, WorkSets
<1>5. \A op \in {"config", "demand"} :
        T(op, e) \in Cont(e) /\ T(op, e) \notin Awaits(e)
  BY <1>4, OwnTasks
<1>6. PICK t \in Cont(e) :
        /\ t \notin Awaits(e)
        /\ \/ EvalAfterLoad(Decl[e].feature, t)
           \/ todo' = <<t>> \o Tail(todo) /\ afterLoad' = afterLoad
  <2>1. CASE EvalAfterLoad(Decl[e].feature, T("config", e))
    BY <1>5, <2>1
  <2>2. CASE \E op \in {"config", "demand"} :
               todo' = <<T(op, e)>> \o Tail(todo) /\ afterLoad' = afterLoad
    BY <1>5, <2>2
  <2> QED
    BY <1>1, <1>3, <2>1, <2>2
<1> QED
  BY <1>1, <1>3, <1>4, <1>6, TidyPuts

\* On demand, the library comes first.
LEMMA TidyDemand == ASSUME AllTidy, IInv, Demand PROVE AllTidy'
<1>1. /\ todo # <<>> /\ Now.op = "demand" /\ UNCHANGED <<afterLoad, seen, configured, lost>>
      /\ \/ todo' = <<T("config", Now.arg)>> \o Tail(todo)
         \/ todo' = <<T("load", Decl[Now.arg].feature), T("demand", Now.arg)>>
                      \o Tail(todo)
  BY DEF Demand, Doing, Expand
<1>2. Now.op \in WorkOps
  BY <1>1 DEF WorkOps
<1>3. PICK e \in Decls :
        e = Now.arg /\ Now \in Early(e) /\ Now \notin Awaits(e) /\ Now \in Cont(e)
  BY <1>1, <1>2, HeadWork
<1>4. PICK c \in Cont(e) : c = T("config", e) /\ c \notin Awaits(e)
  BY OwnTasks, WorkSets
<1>5. PICK t \in Cont(e) : t = T("demand", e) /\ t \notin Awaits(e)
  BY OwnTasks, WorkSets
<1>6. PICK u \in Task : u = T("load", Decl[e].feature) /\ \A d \in Decls : u \notin Work(d)
  <2>1. T("load", Decl[e].feature) \in Task
    BY DeclTypes, TaskTypes DEF FeatureOps
  <2>2. T("load", Decl[e].feature).op \notin WorkOps
    BY DEF T, WorkOps
  <2> QED
    BY <2>1, <2>2, IdleTasks
<1>7. CASE todo' = <<T("config", e)>> \o Tail(todo)
  BY <1>1, <1>3, <1>4, <1>7, TidyPuts
<1>8. CASE todo' = <<T("load", Decl[e].feature), T("demand", e)>> \o Tail(todo)
  <2>1. t \in Task /\ {t} \cap Work(e) = {t} /\ \A d \in Decls : d # e => t \notin Work(d)
    BY OneOwner
  <2>2. todo' = <<u, t>> \o Tail(todo)
    BY <1>5, <1>6, <1>8
  <2>3. Gives({u, t})
    BY <1>1, <1>6, <2>1, <2>2, GivesTwo
  <2>4. /\ {u, t} \cap Work(e) = {t}
        /\ \A d \in Decls : d # e => {u, t} \cap Work(d) = {}
    BY <1>6, <2>1
  <2>5. PICK A : A = {u, t}
    OBVIOUS
  <2> QED
    BY <1>1, <1>3, <1>5, <2>3, <2>4, <2>5, TidyLinear
<1> QED
  BY <1>1, <1>3, <1>7, <1>8

\* Its :init is evaluated, with the forms in it, ...
LEMMA TidyEvalBody ==
    ASSUME UsedOnce, AllTidy, IInv, EvalBody PROVE AllTidy'
<1>1. /\ todo # <<>> /\ Now.op = "await"
      /\ UNCHANGED <<afterLoad, seen, configured, lost>>
      /\ todo' = (Decl[Now.arg].init \o <<T("settle", Now.arg), T("hook", Now.arg)>>)
                   \o Tail(todo)
  BY DEF EvalBody, Doing, Expand
<1>2. Now.op \in WorkOps
  BY <1>1 DEF WorkOps
<1>3. PICK e \in Decls : e = Now.arg /\ Now \in Awaits(e)
  BY <1>1, <1>2, HeadWork
<1>4. Now \in Cont(e) /\ Now \in Early(e)
  BY <1>3, WorkSets
<1>5. PICK t \in Cont(e) : t = T("settle", e) /\ t \notin Awaits(e)
  BY OwnTasks, WorkSets
<1>6. PICK u \in Task : u = T("hook", e) /\ \A d \in Decls : u \notin Work(d)
  <2>1. T("hook", e) \in Task
    BY TaskTypes DEF DeclOps
  <2>2. T("hook", e).op \notin WorkOps
    BY DEF T, WorkOps
  <2> QED
    BY <2>1, <2>2, IdleTasks
<1>7. t \in Task /\ {t} \cap Work(e) = {t} /\ \A d \in Decls : d # e => t \notin Work(d)
  BY OneOwner
<1>8. PICK r \in Seq(Task) :
        /\ r = <<t, u>> /\ Range(r) = {t, u}
        /\ \A S : ~(t \in S /\ u \in S) => Single(S, r)
  BY <1>6, <1>7, TwoTasks
<1>9. /\ Range(r) \cap Work(e) = {t} /\ Single(Work(e), r)
      /\ \A d \in Decls : d # e => Range(r) \cap Work(d) = {}
  BY <1>6, <1>7, <1>8
<1>10. PICK s \in Seq(ScriptTask) : s = Decl[e].init
  BY DeclTypes
<1>11. todo' = (s \o r) \o Tail(todo)
  BY <1>1, <1>3, <1>5, <1>6, <1>8, <1>10
<1> QED
  BY <1>1, <1>3, <1>4, <1>5, <1>9, <1>10, <1>11, SectionRuns

\* ... and so is its :config.
LEMMA TidyEvalConfig ==
    ASSUME UsedOnce, AllTidy, IInv, EvalConfig PROVE AllTidy'
<1>1. /\ todo # <<>> /\ Now.op = "config"
      /\ UNCHANGED <<afterLoad, seen, configured, lost>>
      /\ todo' = (Decl[Now.arg].config \o <<T("configured", Now.arg)>>) \o Tail(todo)
  BY DEF EvalConfig, Doing, Expand
<1>2. Now.op \in WorkOps
  BY <1>1 DEF WorkOps
<1>3. PICK e \in Decls : e = Now.arg /\ Now \in Early(e) /\ Now \in Cont(e)
  BY <1>1, <1>2, HeadWork
<1>4. PICK t \in Cont(e) :
        t = T("configured", e) /\ t \notin Awaits(e) /\ t \notin Early(e)
  BY OwnTasks, WorkSets
<1>5. t \in Task /\ {t} \cap Work(e) = {t} /\ \A d \in Decls : d # e => t \notin Work(d)
  BY OneOwner
<1>6. PICK r \in Seq(Task) : r = <<t>> /\ Range(r) = {t}
  BY <1>5, ShortSequences
<1>7. /\ Range(r) \cap Work(e) = {t} /\ Single(Work(e), r)
      /\ \A d \in Decls : d # e => Range(r) \cap Work(d) = {}
  BY <1>5, <1>6, HasShort
<1>8. PICK s \in Seq(ScriptTask) : s = Decl[e].config
  BY DeclTypes
<1>9. todo' = (s \o r) \o Tail(todo)
  BY <1>1, <1>3, <1>4, <1>6, <1>8
<1> QED
  BY <1>1, <1>3, <1>4, <1>7, <1>8, <1>9, SectionRuns

\* What Emacs itself does on the way is nobody's work.
LEMMA TidyPops ==
    ASSUME AllTidy, IInv, todo # <<>>, Now.op \notin WorkOps,
           UNCHANGED <<afterLoad, seen, configured, lost>>,
           \/ todo' = <<>> \o Tail(todo)
           \/ \E t \in Task : t.op \notin WorkOps /\ todo' = <<t>> \o Tail(todo)
           \/ \E t, u \in Task : /\ t.op \notin WorkOps /\ u.op \notin WorkOps
                                 /\ todo' = <<t, u>> \o Tail(todo)
    PROVE  AllTidy'
<1>1. CASE todo' = <<>> \o Tail(todo)
  <2>1. PICK w \in Seq(Task) : w = <<>> /\ Range(w) = {}
    BY ShortSequences
  <2>2. todo' = w \o Tail(todo) /\ \A t \in Range(w) : t.op \notin WorkOps
    BY <1>1, <2>1
  <2> QED
    BY <2>2, TidyIdle
<1>2. ASSUME NEW t \in Task, t.op \notin WorkOps, todo' = <<t>> \o Tail(todo)
      PROVE  AllTidy'
  <2>1. PICK w \in Seq(Task) : w = <<t>> /\ Range(w) = {t}
    BY ShortSequences
  <2>2. todo' = w \o Tail(todo) /\ \A u \in Range(w) : u.op \notin WorkOps
    BY <1>2, <2>1
  <2> QED
    BY <2>2, TidyIdle
<1>3. ASSUME NEW t \in Task, NEW u \in Task, t.op \notin WorkOps, u.op \notin WorkOps,
             todo' = <<t, u>> \o Tail(todo)
      PROVE  AllTidy'
  <2>1. PICK w \in Seq(Task) : w = <<t, u>> /\ Range(w) = {t, u}
    BY TwoTasks
  <2>2. todo' = w \o Tail(todo) /\ \A v \in Range(w) : v.op \notin WorkOps
    BY <1>3, <2>1
  <2> QED
    BY <2>2, TidyIdle
<1> QED
  BY <1>1, <1>2, <1>3

\* Tasks of Emacs itself.
LEMMA OtherTasks ==
    /\ \A f \in Features, op \in FeatureOps : T(op, f).op \notin WorkOps
    /\ \A d \in Decls, op \in {"call", "catch", "hook"} :
         T(op, d) \in Task /\ T(op, d).op \notin WorkOps
    /\ \A op \in FeatureOps \cup {"call", "catch", "hook"} : op \notin WorkOps
BY TaskTypes DEF T, FeatureOps, DeclOps, WorkOps

\* Hooks, `require's and commands.
LEMMA TidyEmacs ==
    ASSUME AllTidy, IInv, AddHook \/ RequireFeature \/ CallCommand \/ LeaveCatch
    PROVE  AllTidy'
<1>1. /\ todo # <<>> /\ Now.op \in {"hook", "require", "call", "catch"}
      /\ UNCHANGED <<afterLoad, seen, configured, lost>>
      /\ \/ todo' = <<>> \o Tail(todo)
         \/ Now.op = "require" /\ todo' = <<T("load", Now.arg)>> \o Tail(todo)
         \/ /\ Now.op = "call"
            /\ todo' = <<T("load", Decl[Now.arg].feature), Call(Now.arg)>> \o Tail(todo)
  BY DEF AddHook, RequireFeature, CallCommand, LeaveCatch, Doing, Expand
<1>2. Now.op \notin WorkOps
  BY <1>1, OtherTasks DEF FeatureOps
<1>3. CASE todo' = <<>> \o Tail(todo)
  BY <1>1, <1>2, <1>3, TidyPops
<1>4. CASE Now.op = "require" /\ todo' = <<T("load", Now.arg)>> \o Tail(todo)
  <2>1. Now.arg \in Features
    BY <1>1, <1>4, HeadReady, TaskArgs DEF FeatureOps
  <2>2. PICK t \in Task : t = T("load", Now.arg) /\ t.op \notin WorkOps
    BY <2>1, TaskTypes, OtherTasks DEF FeatureOps
  <2>3. todo' = <<t>> \o Tail(todo)
    BY <1>4, <2>2
  <2> QED
    BY <1>1, <1>2, <2>2, <2>3, TidyPops
<1>5. CASE /\ Now.op = "call"
           /\ todo' = <<T("load", Decl[Now.arg].feature), Call(Now.arg)>> \o Tail(todo)
  <2>1. Now.arg \in Decls
    BY <1>1, <1>5, HeadReady, TaskArgs DEF DeclOps
  <2>2. PICK t \in Task : t = T("load", Decl[Now.arg].feature) /\ t.op \notin WorkOps
    BY <2>1, DeclTypes, TaskTypes, OtherTasks DEF FeatureOps
  <2>3. PICK u \in Task : u = Call(Now.arg) /\ u.op \notin WorkOps
    BY <2>1, OtherTasks DEF Call
  <2>4. todo' = <<t, u>> \o Tail(todo)
    BY <1>5, <2>2, <2>3
  <2> QED
    BY <1>1, <1>2, <2>2, <2>3, <2>4, TidyPops
<1> QED
  BY <1>1, <1>3, <1>4, <1>5

\* A library requires others, and provides its own feature.
LEMMA TidyLoadFile == ASSUME AllTidy, IInv, LoadFile PROVE AllTidy'
<1>1. /\ todo # <<>> /\ Now.op = "load" /\ UNCHANGED <<afterLoad, seen, configured, lost>>
  BY DEF LoadFile, Doing, Expand
<1>2. PICK f \in Features : f = Now.arg
  BY <1>1, HeadReady, TaskArgs DEF FeatureOps
<1>3. PICK p : p = [i \in 1..Len(Requires[f]) |-> Require(Requires[f][i])]
  OBVIOUS
<1>4. Requires[f] \in Seq(Features)
  BY RequiresAssumption
<1>5. p \in Seq(Task) /\ \A t \in Range(p) : t.op \notin WorkOps
  <2>1. Len(Requires[f]) \in Nat
    BY <1>4, LenProperties
  <2>2. \A i \in 1..Len(Requires[f]) : Requires[f][i] \in Features
    BY <1>4, ElementOfSeq
  <2>3. \A i \in 1..Len(Requires[f]) :
          Require(Requires[f][i]) \in Task /\ Require(Requires[f][i]).op \notin WorkOps
    BY <2>2, ScriptTaskTypes, OtherTasks DEF Require, FeatureOps
  <2>4. p \in Seq(Task)
    BY <1>3, <2>1, <2>3
  <2>5. \A i \in DOMAIN p : p[i].op \notin WorkOps
    BY <1>3, <2>3
  <2> QED
    BY <2>4, <2>5 DEF Range
<1>6. PICK t \in Task : t = T("provide", f) /\ t.op \notin WorkOps
  BY TaskTypes, OtherTasks DEF FeatureOps
<1>7. PICK w \in Seq(Task) : w = p \o <<t>> /\ Range(w) = Range(p) \cup {t}
  BY <1>5, AddedRange
<1>8. todo' = w \o Tail(todo)
  BY <1>2, <1>3, <1>6, <1>7 DEF LoadFile, Expand
<1>9. \A u \in Range(w) : u.op \notin WorkOps
  BY <1>5, <1>6, <1>7
<1>10. Now.op \notin WorkOps
  BY <1>1, OtherTasks DEF FeatureOps
<1> QED
  BY <1>1, <1>8, <1>9, <1>10, TidyIdle

\* What waited for a feature goes on when it is provided.
LEMMA TidyProvide == ASSUME AllTidy, IInv, Provide PROVE AllTidy'
<1>1. /\ todo # <<>> /\ Now.op = "provide" /\ UNCHANGED <<seen, configured, lost>>
      /\ todo' = afterLoad[Now.arg] \o Tail(todo)
      /\ afterLoad' = [afterLoad EXCEPT ![Now.arg] = <<>>]
  BY DEF Provide, Doing, Expand
<1>2. PICK f \in Features : f = Now.arg
  BY <1>1, HeadReady, TaskArgs DEF FeatureOps
<1>3. Now.op \notin WorkOps
  BY <1>1, OtherTasks DEF FeatureOps
<1>4. /\ todo' = afterLoad[f] \o Tail(todo)
      /\ afterLoad' = [afterLoad EXCEPT ![f] = <<>>]
  BY <1>1, <1>2
<1>5. ASSUME NEW d \in Decls, NEW S \in SUBSET Work(d), Alone(S)
      PROVE  Alone(S)' /\ (Somewhere(S)' <=> Somewhere(S))
  <2>1. Now \notin S
    BY <1>3, IdleTasks
  <2> QED
    BY <1>1, <1>4, <1>5, <2>1, QueueRuns
<1> QED
  BY <1>1, <1>5, TidyQuiet

\* Startup, commands and timers begin work that is no form's.
LEMMA TidyAtRest ==
    ASSUME AllTidy, IInv,
           \/ Startup
           \/ \E d \in Decls : Invoke(d)
           \/ \E f \in Features : LoadElsewhere(f) \/ IdleTimer(f)
    PROVE  AllTidy'
<1>1. todo = <<>> /\ UNCHANGED <<afterLoad, seen, configured, lost>>
  BY DEF Startup, RunAfterInitHook, QuitDebugger, EnterCommandLoop, Invoke,
         LoadElsewhere, IdleTimer, AtRest
<1>2. \A i \in DOMAIN todo' : todo'[i].op \notin WorkOps
  <2>1. CASE todo' = <<>>
    BY <2>1
  <2>2. ASSUME NEW t, t.op \notin WorkOps, todo' = <<t>>
        PROVE  \A i \in DOMAIN todo' : todo'[i].op \notin WorkOps
    BY <2>2
  <2>3. CASE RunAfterInitHook
    <3>1. todo' = [i \in 1..Len(initHook) |-> Call(initHook[i])]
      BY <2>3 DEF RunAfterInitHook
    <3>2. \A d : Call(d).op \notin WorkOps
      BY DEF Call, T, WorkOps
    <3> QED
      BY <3>1, <3>2
  <2>4. CASE QuitDebugger \/ EnterCommandLoop
    BY <2>1, <2>4 DEF QuitDebugger, EnterCommandLoop
  <2>5. ASSUME NEW d \in Decls, Invoke(d)
        PROVE  \A i \in DOMAIN todo' : todo'[i].op \notin WorkOps
    <3>1. PICK t : t = Call(d) /\ t.op \notin WorkOps
      BY OtherTasks DEF Call
    <3> QED
      BY <2>2, <2>5, <3>1 DEF Invoke
  <2>6. ASSUME NEW f \in Features, LoadElsewhere(f)
        PROVE  \A i \in DOMAIN todo' : todo'[i].op \notin WorkOps
    <3>1. PICK t : t = T("load", f) /\ t.op \notin WorkOps
      BY OtherTasks DEF FeatureOps
    <3> QED
      BY <2>2, <2>6, <3>1 DEF LoadElsewhere
  <2>7. ASSUME NEW f \in Features, IdleTimer(f)
        PROVE  \A i \in DOMAIN todo' : todo'[i].op \notin WorkOps
    <3>1. PICK t : t = Require(f) /\ t.op \notin WorkOps
      BY OtherTasks DEF FeatureOps, Require
    <3> QED
      BY <2>1, <2>2, <2>7, <3>1 DEF IdleTimer
  <2> QED
    BY <2>3, <2>4, <2>5, <2>6, <2>7 DEF Startup
<1>3. ASSUME NEW d \in Decls, NEW S \in SUBSET Work(d), Alone(S)
      PROVE  Alone(S)' /\ (Somewhere(S)' <=> Somewhere(S))
  <2>1. ~Has(S, todo')
    BY <1>2, IdleTasks DEF Has
  <2> QED
    BY <1>1, <1>3, <2>1, RestStarts
<1> QED
  BY <1>1, <1>3, TidyQuiet

\* What waits for a feature is taken away when the feature is provided, and
\* nothing is put there afterwards.
LEMMA NoneLeftAfterLoad ==
    ASSUME NoneLeft, IInv, NEW f, NEW t, EvalAfterLoad(f, t), loaded' = loaded
    PROVE  NoneLeft'
<1>1. afterLoad \in [Features -> Seq(Task)] /\ loaded \subseteq Features
  BY DEF IInv, TypeOK
<1>2. CASE f \in loaded
  BY <1>2 DEF NoneLeft, EvalAfterLoad
<1>3. CASE f \notin loaded
  <2>1. afterLoad' = [afterLoad EXCEPT ![f] = Append(@, t)]
    BY <1>3 DEF EvalAfterLoad
  <2>2. \A g \in loaded : afterLoad'[g] = afterLoad[g]
    BY <1>1, <1>3, <2>1
  <2> QED
    BY <2>2 DEF NoneLeft
<1> QED
  BY <1>2, <1>3

\* What is provided is waited for no more.
LEMMA NoneLeftProvide == ASSUME NoneLeft, IInv, Provide PROVE NoneLeft'
<1>1. /\ todo # <<>> /\ Now.op = "provide" /\ loaded' = loaded \cup {Now.arg}
      /\ afterLoad' = [afterLoad EXCEPT ![Now.arg] = <<>>]
  BY DEF Provide, Doing
<1>2. PICK f \in Features : f = Now.arg
  BY <1>1, HeadReady, TaskArgs DEF FeatureOps
<1>3. loaded' = loaded \cup {f} /\ afterLoad' = [afterLoad EXCEPT ![f] = <<>>]
  BY <1>1, <1>2
<1>4. afterLoad \in [Features -> Seq(Task)] /\ loaded \subseteq Features
  BY DEF IInv, TypeOK
<1>5. \A g \in Features : afterLoad'[g] = IF g = f THEN <<>> ELSE afterLoad[g]
  BY <1>3, <1>4
<1> QED
  BY <1>3, <1>4, <1>5 DEF NoneLeft

\* No step does a form's work twice, or leaves it out.
LEMMA FormsNext ==
    ASSUME UsedOnce
    PROVE  IInv /\ AllTidy /\ NoneLeft /\ [Next]_vars => AllTidy' /\ NoneLeft'
<1> SUFFICES ASSUME IInv, AllTidy, NoneLeft, [Next]_vars PROVE AllTidy' /\ NoneLeft'
  OBVIOUS
<1>1. UNCHANGED <<loaded, afterLoad>> => NoneLeft'
  BY DEF NoneLeft
<1>2. CASE SkipUse \/ ConfigDone
  BY <1>1, <1>2, TidySkips DEF SkipUse, ConfigDone
<1>3. CASE EvalUse
  BY <1>1, <1>3, TidyEvalUse DEF EvalUse
<1>4. CASE AwaitAfter
  BY <1>4, TidyAwaitAfter, NoneLeftAfterLoad DEF AwaitAfter
<1>5. CASE EvalBody
  BY <1>1, <1>5, TidyEvalBody DEF EvalBody
<1>6. CASE Settle
  <2>1. loaded' = loaded /\ (\/ \E f, t : EvalAfterLoad(f, t)
                             \/ afterLoad' = afterLoad)
    BY <1>6 DEF Settle
  <2> QED
    BY <1>1, <1>6, <2>1, TidySettle, NoneLeftAfterLoad
<1>7. CASE Demand
  BY <1>1, <1>7, TidyDemand DEF Demand
<1>8. CASE EvalConfig
  BY <1>1, <1>8, TidyEvalConfig DEF EvalConfig
<1>9. CASE AddHook \/ RequireFeature \/ CallCommand \/ LeaveCatch
  BY <1>1, <1>9, TidyEmacs DEF AddHook, RequireFeature, CallCommand, LeaveCatch
<1>10. CASE LoadFile
  BY <1>1, <1>10, TidyLoadFile DEF LoadFile
<1>11. CASE Provide
  BY <1>11, TidyProvide, NoneLeftProvide
<1>12. CASE InitFails \/ ConfigFails \/ LoadMissing
  BY <1>1, <1>12, TidySignal DEF InitFails, ConfigFails, LoadMissing
<1>13. CASE \/ Startup
            \/ \E d \in Decls : Invoke(d)
            \/ \E f \in Features : LoadElsewhere(f) \/ IdleTimer(f)
  <2>1. UNCHANGED <<loaded, afterLoad>>
    BY <1>13 DEF Startup, RunAfterInitHook, QuitDebugger, EnterCommandLoop,
                 Invoke, LoadElsewhere, IdleTimer
  <2> QED
    BY <1>1, <1>13, <2>1, TidyAtRest
<1>14. CASE UNCHANGED vars
  <2>1. UNCHANGED <<todo, loaded, afterLoad, seen, configured, lost>>
    BY <1>14 DEF vars
  <2>2. \A S : Alone(S) => Alone(S)' /\ (Somewhere(S)' <=> Somewhere(S))
    BY <2>1 DEF Alone, Somewhere, Has, Single
  <2> QED
    BY <1>1, <2>1, <2>2, TidyQuiet
<1> QED
  BY <1>2, <1>3, <1>4, <1>5, <1>6, <1>7, <1>8, <1>9, <1>10, <1>11, <1>12,
     <1>13, <1>14 DEF Next, Evaluate

\* At the start the forms of .emacs are to be evaluated, and nothing waits.
LEMMA FormsInit == ASSUME UsedOnce PROVE Init => AllTidy /\ NoneLeft
<1> SUFFICES ASSUME Init PROVE AllTidy /\ NoneLeft
  OBVIOUS
<1>1. PICK s \in Seq(ScriptTask) : s = DotEmacs
  BY DotEmacsAssumption
<1>2. /\ todo = s /\ seen = {} /\ lost = {} /\ loaded = {} /\ configured = {}
      /\ \A f \in Features : afterLoad[f] = <<>>
  BY <1>1 DEF Init
<1>3. \A S : \A f \in Features : ~Has(S, afterLoad[f]) /\ Single(S, afterLoad[f])
  BY <1>2, HasShort
<1>4. \A S : Somewhere(S) <=> Has(S, s)
  BY <1>2, <1>3 DEF Somewhere
<1>5. ASSUME NEW d \in Decls PROVE Tidy(d)
  <2>1. Single({Use(d)}, s)
    BY <1>1, UsedHere
  <2>2. Single(Work(d), s) /\ Range(s) \cap Cont(d) = {}
    BY <2>1, ScriptWork
  <2>3. Alone(Work(d))
    BY <1>2, <1>3, <2>2 DEF Alone
  <2>4. ~Somewhere(Cont(d))
    BY <1>4, <2>2, HasRange
  <2>5. ~Unwound(d)
    BY <1>2 DEF Unwound
  <2>6. ASSUME Somewhere({Use(d)}) PROVE Reached(d)
    <3>1. Use(d) \in Range(DotEmacs)
      BY <1>1, <1>4, <2>6, HasRange
    <3> QED
      BY <3>1, UsedHere DEF Reached
  <2> QED
    BY <1>2, <2>3, <2>4, <2>5, <2>6 DEF Tidy
<1> QED
  BY <1>2, <1>5 DEF AllTidy, NoneLeft

\* What the census says of a form, counted.
LEMMA FormsCounted == IInv /\ AllTidy /\ NoneLeft => EveryFormOnce
<1> SUFFICES ASSUME IInv, AllTidy, NoneLeft PROVE EveryFormOnce
  OBVIOUS
<1>1. seen \subseteq Decls /\ todo \in Seq(Task) /\ afterLoad \in [Features -> Seq(Task)]
  BY DEF IInv, TypeOK
<1>2. ASSUME NEW d \in seen
      PROVE  Cardinality(OnStack(d)) + Cardinality(Waiting(d)) =
               IF d \in configured \/ \E t \in lost : Continues(t, d) THEN 0 ELSE 1
  <2>1. d \in Decls /\ Tidy(d)
    BY <1>1, <1>2 DEF AllTidy
  <2>2. PICK C : C = Cont(d)
    OBVIOUS
  <2>3. /\ Alone(C)
        /\ Somewhere(C) <=> ~(d \in configured \/ \E t \in lost : Continues(t, d))
    BY <1>2, <2>1, <2>2, Fewer, WorkSets DEF Tidy, Unwound
  <2>4. \A i : i \in OnStack(d) <=> i \in DOMAIN todo /\ todo[i] \in C
    <3>1. \A i \in DOMAIN todo : todo[i] \in Task
      BY <1>1, ElementOfSeq
    <3> QED
      BY <2>2, <3>1 DEF OnStack, Cont
  <2>5. \A x : x \in Waiting(d) <=>
          \E f \in Features : \E i \in DOMAIN afterLoad[f] :
            x = <<f, i>> /\ afterLoad[f][i] \in C
    <3>1. \A f \in Features : \A i \in DOMAIN afterLoad[f] : afterLoad[f][i] \in Task
      BY <1>1, ElementOfSeq
    <3> QED
      BY <2>2, <3>1 DEF Waiting, Cont
  <2>6. PICK O, W : O = OnStack(d) /\ W = Waiting(d)
    OBVIOUS
  <2>7. Cardinality({}) = 0 /\ \A x : Cardinality({x}) = 1
    BY FS_EmptySet, FS_Singleton
  <2>8. ~Has(C, todo) => O = {}
    BY <2>4, <2>6 DEF Has
  <2>9. (\A f \in Features : ~Has(C, afterLoad[f])) => W = {}
    BY <2>5, <2>6 DEF Has
  <2>10. CASE Has(C, todo)
    <3>1. PICK i \in DOMAIN todo : todo[i] \in C
      BY <2>10 DEF Has
    <3>2. O = {i}
      BY <2>3, <2>4, <2>6, <3>1 DEF Alone, Single
    <3>3. W = {}
      BY <2>3, <2>9, <2>10 DEF Alone
    <3>4. Somewhere(C)
      BY <2>10 DEF Somewhere
    <3> QED
      BY <2>3, <2>6, <2>7, <3>2, <3>3, <3>4
  <2>11. CASE \E f \in Features : Has(C, afterLoad[f])
    <3>1. PICK f \in Features : Has(C, afterLoad[f])
      BY <2>11
    <3>2. PICK i \in DOMAIN afterLoad[f] : afterLoad[f][i] \in C
      BY <3>1 DEF Has
    <3>3. ~Has(C, todo) /\ \A g \in Features : Has(C, afterLoad[g]) => g = f
      BY <2>3, <3>1 DEF Alone
    <3>4. \A g \in Features : \A j \in DOMAIN afterLoad[g] :
            afterLoad[g][j] \in C => g = f /\ j = i
      BY <2>3, <3>2, <3>3 DEF Alone, Single, Has
    <3>5. W = {<<f, i>>}
      BY <2>5, <2>6, <3>2, <3>4
    <3>6. Somewhere(C)
      BY <3>1 DEF Somewhere
    <3>7. PICK x : x = <<f, i>>
      OBVIOUS
    <3>8. Cardinality(O) = 0 /\ Cardinality(W) = 1
      BY <2>7, <2>8, <3>3, <3>5, <3>7
    <3> QED
      BY <2>3, <2>6, <3>6, <3>8
  <2>12. CASE ~Somewhere(C)
    <3>1. O = {} /\ W = {}
      BY <2>8, <2>9, <2>12 DEF Somewhere
    <3> QED
      BY <2>3, <2>6, <2>7, <2>12, <3>1
  <2> QED
    BY <2>10, <2>11, <2>12 DEF Somewhere
<1> QED
  BY <1>2 DEF EveryFormOnce, NoneLeft

\* EveryFormOnce, for any forms of which none is evaluated in two places: what
\* `use-package' makes of a form is neither dropped nor run twice, whatever
\* order nested loads, after-load functions, idle timers and errors come in.
THEOREM FormsRunOnce == ASSUME UsedOnce PROVE Spec => []EveryFormOnce
<1>1. Init => AllTidy /\ NoneLeft
  BY FormsInit
<1>2. IInv /\ AllTidy /\ NoneLeft /\ [Next]_vars => AllTidy' /\ NoneLeft'
  BY FormsNext
<1>3. IInv /\ AllTidy /\ NoneLeft => EveryFormOnce
  BY FormsCounted
<1> QED
  BY <1>1, <1>2, <1>3, Invariance, PTL DEF Spec

(***************************************************************************)
(* Steps without an error: the work that the head task gives way to.       *)
(***************************************************************************)

\* Forms that offer commands of their own have them defined.
Offered(d) == Decl[d].commands /\ ~Decl[d].demand => Bound(d)

\* What the work is made of, ...
Brings(w) ==
    LET d == Now.arg IN
    /\ Now.op = "use" => Range(w) \subseteq {Await(d, Len(Decl[d].after))}
    /\ Now.op = "await" =>
         Range(w) \subseteq IF Now.left > 0 THEN {Await(d, Now.left - 1)}
                            ELSE Range(Decl[d].init) \cup {T("settle", d), T("hook", d)}
    /\ Now.op = "settle" => Range(w) \subseteq {T("config", d), T("demand", d)}
    /\ Now.op = "demand" =>
         Range(w) \subseteq {T("config", d), T("load", Decl[d].feature), T("demand", d)}
    /\ Now.op = "config" => Range(w) \subseteq Range(Decl[d].config) \cup {T("configured", d)}
    /\ Now.op = "require" => Range(w) \subseteq {T("load", d)}
    /\ Now.op = "load" =>
         Range(w) \subseteq {Require(f) : f \in Range(Requires[d])} \cup {T("provide", d)}
    /\ Now.op = "provide" => Range(w) \subseteq Range(afterLoad[d])
    /\ Now.op = "call" => Range(w) \subseteq {T("load", Decl[d].feature), Call(d)}
    /\ Now.op \in {"configured", "hook", "catch"} => Range(w) = {}

\* ... and what it does not leave out.
Loads(t, f) == t.arg = f /\ t.op \in {"require", "load", "provide"}
Keeps(w) ==
    LET d == Now.arg IN
    /\ Now.op = "use" =>
         \/ Decl[d].disabled \/ ~Holds(d)
         \/ d \in seen' /\ Await(d, Len(Decl[d].after)) \in Range(w)
    /\ Now.op = "await" /\ Now.left = 0 =>
         /\ T("settle", d) \in Range(w)
         /\ Decl[d].commands /\ ~Decl[d].demand =>
              d \in autoloads' \/ Decl[d].feature \in loaded'
    /\ Now.op = "settle" => Deferred(d) \/ Inline(d) \/ T("demand", d) \in Range(w)
    /\ Now.op = "demand" => Decl[d].feature \in loaded \/ T("demand", d) \in Range(w)
    /\ Now.op = "require" => d \in loaded \/ T("load", d) \in Range(w)
    /\ Now.op = "load" =>
         /\ d \notin Missing /\ T("provide", d) \in Range(w)
         /\ \A i \in DOMAIN w : \A f \in Range(Requires[d]) :
              w[i] = T("provide", d) => \E j \in DOMAIN w : j < i /\ w[j] = Require(f)
    /\ Now.op = "call" => d \in called' \/ Call(d) \in Range(w)

\* Queues get tasks of the form at hand, the hook its function.
Queues ==
    \A f \in Features : \A t \in Range(afterLoad'[f]) :
      \/ t \in Range(afterLoad[f])
      \/ t.arg = Now.arg /\ t.op = Now.op /\ t.op = "await"
      \/ t.op = "config"
Hooks ==
    \/ initHook' = initHook
    \/ /\ Now.op = "hook" /\ Decl[Now.arg].initHook
       /\ Range(initHook') = {Now.arg} \cup Range(initHook)

\* What is loaded and inited.
Marks ==
    /\ loaded' = loaded \cup (IF Now.op = "provide" THEN {Now.arg} ELSE {})
    /\ inited' = inited \cup (IF Now.op = "settle" THEN {Now.arg} ELSE {})
    /\ seen \subseteq seen' /\ called \subseteq called' /\ StaysBound

Rewrites(w) ==
    /\ w \in Seq(Task) /\ todo # <<>> /\ todo' = w \o Tail(todo)
    /\ UNCHANGED <<env, phase, lost>>
    /\ Brings(w) /\ Keeps(w) /\ Queues /\ Hooks /\ Marks

\* Handlers that are done with the head task.
LEMMA RewriteByNone ==
    ASSUME IInv, SkipUse \/ ConfigDone \/ LeaveCatch PROVE \E w : Rewrites(w)
<1>1. PICK w \in Seq(Task) : w = <<>> /\ Range(w) = {}
  BY ShortSequences
<1>2. /\ todo # <<>> /\ todo' = w \o Tail(todo)
      /\ UNCHANGED <<env, phase, lost, afterLoad, initHook, loaded, autoloads, inited, called>>
      /\ seen' = seen
      /\ Now.op \in {"use", "configured", "catch"}
      /\ Now.op = "use" => Decl[Now.arg].disabled \/ ~Holds(Now.arg)
  BY <1>1 DEF SkipUse, ConfigDone, LeaveCatch, Doing, Expand
<1>3. Brings(w)
  BY <1>1, <1>2 DEF Brings
<1>4. Keeps(w)
  BY <1>2 DEF Keeps
<1>5. Queues /\ Hooks
  BY <1>2 DEF Queues, Hooks
<1>6. Marks
  BY <1>2, BoundSame DEF Marks
<1> QED
  BY <1>1, <1>2, <1>3, <1>4, <1>5, <1>6 DEF Rewrites

LEMMA RewriteEvalUse == ASSUME IInv, EvalUse PROVE \E w : Rewrites(w)
<1>1. /\ todo # <<>> /\ Now.op = "use" /\ seen' = seen \cup {Now.arg}
      /\ UNCHANGED <<env, phase, lost, afterLoad, initHook, loaded, autoloads, inited, called>>
      /\ todo' = <<Await(Now.arg, Len(Decl[Now.arg].after))>> \o Tail(todo)
  BY DEF EvalUse, Doing, Expand
<1>2. PICK d \in Decls : d = Now.arg
  BY <1>1, HeadReady, TaskArgs DEF DeclOps
<1>3. Len(Decl[d].after) \in Nat
  BY DeclTypes, LenProperties
<1>4. PICK t \in Task : t = Await(d, Len(Decl[d].after))
  BY <1>3, TaskTypes
<1>5. PICK w \in Seq(Task) : w = <<t>> /\ Range(w) = {t}
  BY ShortSequences
<1>6. Brings(w)
  BY <1>1, <1>2, <1>4, <1>5 DEF Brings
<1>7. Keeps(w)
  BY <1>1, <1>2, <1>4, <1>5 DEF Keeps
<1>8. Queues /\ Hooks
  BY <1>1 DEF Queues, Hooks
<1>9. Marks
  BY <1>1, BoundSame DEF Marks
<1> QED
  BY <1>1, <1>2, <1>4, <1>5, <1>6, <1>7, <1>8, <1>9 DEF Rewrites

\* A task put off goes to the end of a queue.
LEMMA PutOff ==
    ASSUME IInv, NEW f, NEW t \in Task, EvalAfterLoad(f, t)
    PROVE  /\ \/ todo' = <<t>> \o Tail(todo) \/ todo' = <<>> \o Tail(todo)
           /\ \A g \in Features : \A u \in Range(afterLoad'[g]) : u \in Range(afterLoad[g]) \/ u = t
<1>1. afterLoad \in [Features -> Seq(Task)]
  BY DEF IInv, TypeOK
<1>2. CASE f \in loaded
  BY <1>2 DEF EvalAfterLoad, Expand
<1>3. CASE f \notin loaded
  <2>1. /\ todo' = <<>> \o Tail(todo)
        /\ afterLoad' = [afterLoad EXCEPT ![f] = Append(@, t)]
    BY <1>3 DEF EvalAfterLoad, Expand
  <2>2. ASSUME NEW g \in Features, NEW u \in Range(afterLoad'[g])
        PROVE  u \in Range(afterLoad[g]) \/ u = t
    <3>1. PICK q \in Seq(Task) : q = afterLoad[g]
      BY <1>1
    <3>2. Range(Append(q, t)) = Range(q) \cup {t}
      BY AppendRange
    <3>3. afterLoad'[g] = q \/ afterLoad'[g] = Append(q, t)
      BY <1>1, <2>1, <3>1
    <3> QED
      BY <3>1, <3>2, <3>3, <2>2
  <2> QED
    BY <2>1, <2>2
<1> QED
  BY <1>2, <1>3

LEMMA RewriteAwaitAfter == ASSUME IInv, AwaitAfter PROVE \E w : Rewrites(w)
<1>1. /\ todo # <<>> /\ Now.op = "await" /\ Now.left > 0
      /\ UNCHANGED <<env, phase, lost, seen, initHook, loaded, autoloads, inited, called>>
      /\ EvalAfterLoad(Decl[Now.arg].after[Now.left], Await(Now.arg, Now.left - 1))
  BY DEF AwaitAfter, Doing
<1>2. PICK d \in Decls, n \in Nat : d = Now.arg /\ n = Now.left
  BY <1>1, HeadReady, TaskArgs
<1>3. n - 1 \in Nat /\ n # 0
  BY <1>1, <1>2
<1>4. PICK t \in Task : t = Await(d, n - 1) /\ t.op = "await" /\ t.arg = d
  <2>1. Await(d, n - 1).op = "await" /\ Await(d, n - 1).arg = d
    BY DEF Await
  <2> QED
    BY <1>3, <2>1, TaskTypes
<1>5. PICK f : f = Decl[d].after[n]
  OBVIOUS
<1>6. EvalAfterLoad(f, t)
  BY <1>1, <1>2, <1>4, <1>5
<1>7. /\ \/ todo' = <<t>> \o Tail(todo) \/ todo' = <<>> \o Tail(todo)
      /\ \A g \in Features : \A u \in Range(afterLoad'[g]) : u \in Range(afterLoad[g]) \/ u = t
  BY <1>6, PutOff
<1>8. PICK w \in Seq(Task) : Range(w) \subseteq {t} /\ todo' = w \o Tail(todo)
  BY <1>7, ShortSequences
<1>9. Brings(w)
  BY <1>1, <1>2, <1>4, <1>8 DEF Brings
<1>10. Keeps(w)
  BY <1>1, <1>2, <1>3 DEF Keeps
<1>11. Queues /\ Hooks
  BY <1>1, <1>2, <1>4, <1>7 DEF Queues, Hooks
<1>12. Marks
  BY <1>1, BoundSame DEF Marks
<1> QED
  BY <1>1, <1>8, <1>9, <1>10, <1>11, <1>12 DEF Rewrites

LEMMA RewriteEvalBody == ASSUME IInv, EvalBody PROVE \E w : Rewrites(w)
<1>1. /\ todo # <<>> /\ Now.op = "await" /\ Now.left = 0
      /\ UNCHANGED <<env, phase, lost, seen, initHook, loaded, afterLoad, inited, called>>
      /\ autoloads' =
            IF Decl[Now.arg].commands /\ ~Decl[Now.arg].demand
               /\ Decl[Now.arg].feature \notin loaded
            THEN autoloads \cup {Now.arg} ELSE autoloads
      /\ todo' = (Decl[Now.arg].init
                    \o <<T("settle", Now.arg), T("hook", Now.arg)>>) \o Tail(todo)
  BY DEF EvalBody, Doing, Expand
<1>2. PICK d \in Decls : d = Now.arg
  BY <1>1, HeadReady, TaskArgs
<1>3. StaysBound
  BY <1>1 DEF StaysBound, Bound
<1>4. Decl[d].commands /\ ~Decl[d].demand => d \in autoloads' \/ Decl[d].feature \in loaded'
  BY <1>1, <1>2
<1>5. PICK s \in Seq(Task) : s = Decl[d].init
  BY DeclTypes, ScriptReady
<1>6. PICK t \in Task, u \in Task : t = T("settle", d) /\ u = T("hook", d)
  BY TaskTypes DEF DeclOps
<1>7. PICK w \in Seq(Task) : w = s \o <<t, u>> /\ Range(w) = Range(s) \cup {t, u}
  <2>1. s \o <<t, u>> \in Seq(Task) /\ Range(s \o <<t, u>>) = Range(s) \cup {t, u}
    BY AddedTwoRange
  <2> QED
    BY <2>1
<1>8. todo' = w \o Tail(todo)
  BY <1>1, <1>2, <1>5, <1>6, <1>7
<1>9. ~(Now.left > 0)
  BY <1>1
<1>10. Brings(w)
  BY <1>1, <1>2, <1>5, <1>6, <1>7, <1>9 DEF Brings
<1>11. Keeps(w)
  BY <1>1, <1>2, <1>4, <1>6, <1>7 DEF Keeps
<1>12. Queues /\ Hooks
  BY <1>1 DEF Queues, Hooks
<1>13. Marks
  BY <1>1, <1>3 DEF Marks
<1> QED
  BY <1>1, <1>8, <1>10, <1>11, <1>12, <1>13 DEF Rewrites

LEMMA RewriteSettle == ASSUME IInv, Settle PROVE \E w : Rewrites(w)
<1>1. /\ todo # <<>> /\ Now.op = "settle"
      /\ UNCHANGED <<env, phase, lost, seen, initHook, loaded, autoloads, called>>
      /\ inited' = inited \cup {Now.arg}
      /\ \/ Deferred(Now.arg) /\ EvalAfterLoad(Decl[Now.arg].feature, T("config", Now.arg))
         \/ /\ ~Deferred(Now.arg) /\ UNCHANGED afterLoad
            /\ todo' = <<T(IF Inline(Now.arg) THEN "config" ELSE "demand", Now.arg)>> \o Tail(todo)
  BY DEF Settle, Doing, Expand
<1>2. PICK d \in Decls : d = Now.arg
  BY <1>1, HeadReady, TaskArgs DEF DeclOps
<1>3. PICK c \in Task, m \in Task : c = T("config", d) /\ m = T("demand", d)
  BY TaskTypes DEF DeclOps
<1>4. c.op = "config"
  BY <1>3 DEF T
<1>5. \E w \in Seq(Task) : /\ todo' = w \o Tail(todo) /\ Range(w) \subseteq {c, m}
                           /\ Deferred(d) \/ Inline(d) \/ m \in Range(w)
  <2>1. CASE Deferred(d)
    <3>1. EvalAfterLoad(Decl[d].feature, c)
      BY <1>1, <1>2, <1>3, <2>1
    <3>2. todo' = <<c>> \o Tail(todo) \/ todo' = <<>> \o Tail(todo)
      BY <3>1, PutOff
    <3> QED
      BY <2>1, <3>2, ShortSequences
  <2>2. CASE ~Deferred(d) /\ Inline(d)
    <3>1. todo' = <<c>> \o Tail(todo)
      BY <1>1, <1>2, <1>3, <2>2
    <3> QED
      BY <2>2, <3>1, ShortSequences
  <2>3. CASE ~Deferred(d) /\ ~Inline(d)
    <3>1. todo' = <<m>> \o Tail(todo)
      BY <1>1, <1>2, <1>3, <2>3
    <3> QED
      BY <3>1, ShortSequences
  <2> QED
    BY <2>1, <2>2, <2>3
<1>6. PICK w \in Seq(Task) : /\ todo' = w \o Tail(todo) /\ Range(w) \subseteq {c, m}
                             /\ Deferred(d) \/ Inline(d) \/ m \in Range(w)
  BY <1>5
<1>7. Queues
  <2>1. CASE UNCHANGED afterLoad
    BY <2>1 DEF Queues
  <2>2. CASE EvalAfterLoad(Decl[d].feature, c)
    BY <1>4, <2>2, PutOff DEF Queues
  <2> QED
    BY <1>1, <1>2, <1>3, <2>1, <2>2
<1>8. Brings(w)
  BY <1>1, <1>2, <1>3, <1>6 DEF Brings
<1>9. Keeps(w)
  BY <1>1, <1>2, <1>3, <1>6 DEF Keeps
<1>10. Hooks
  BY <1>1 DEF Hooks
<1>11. Marks
  BY <1>1, BoundSame DEF Marks
<1> QED
  BY <1>1, <1>6, <1>7, <1>8, <1>9, <1>10, <1>11 DEF Rewrites

LEMMA RewriteDemand == ASSUME IInv, Demand PROVE \E w : Rewrites(w)
<1>1. /\ todo # <<>> /\ Now.op = "demand"
      /\ UNCHANGED <<env, phase, lost, seen, afterLoad, initHook, loaded, autoloads, inited, called>>
      /\ todo' = (IF Decl[Now.arg].feature \in loaded THEN <<T("config", Now.arg)>>
                  ELSE <<T("load", Decl[Now.arg].feature), T("demand", Now.arg)>>) \o Tail(todo)
  BY DEF Demand, Doing, Expand
<1>2. PICK d \in Decls : d = Now.arg
  BY <1>1, HeadReady, TaskArgs DEF DeclOps
<1>3. PICK c \in Task, m \in Task : c = T("config", d) /\ m = T("demand", d)
  BY TaskTypes DEF DeclOps
<1>4. PICK l \in Task : l = T("load", Decl[d].feature)
  BY DeclTypes, TaskTypes DEF FeatureOps
<1>5. PICK one \in Seq(Task) : one = <<c>> /\ Range(one) = {c}
  BY ShortSequences
<1>6. PICK two \in Seq(Task) : two = <<l, m>> /\ Range(two) = {l, m}
  <2>1. <<l, m>> \in Seq(Task) /\ Range(<<l, m>>) = {l, m}
    BY DEF Range
  <2> QED
    BY <2>1
<1>7. todo' = (IF Decl[d].feature \in loaded THEN one ELSE two) \o Tail(todo)
  BY <1>1, <1>2, <1>3, <1>4, <1>5, <1>6
<1>8. PICK w \in Seq(Task) : /\ todo' = w \o Tail(todo) /\ Range(w) \subseteq {c, l, m}
                             /\ Decl[d].feature \in loaded \/ m \in Range(w)
  BY <1>5, <1>6, <1>7
<1>9. Brings(w)
  BY <1>1, <1>2, <1>3, <1>4, <1>8 DEF Brings
<1>10. Keeps(w)
  BY <1>1, <1>2, <1>3, <1>8 DEF Keeps
<1>11. Queues /\ Hooks
  BY <1>1 DEF Queues, Hooks
<1>12. Marks
  BY <1>1, BoundSame DEF Marks
<1> QED
  BY <1>1, <1>8, <1>9, <1>10, <1>11, <1>12 DEF Rewrites

LEMMA RewriteEvalConfig == ASSUME IInv, EvalConfig PROVE \E w : Rewrites(w)
<1>1. /\ todo # <<>> /\ Now.op = "config"
      /\ UNCHANGED <<env, phase, lost, seen, afterLoad, initHook, loaded, autoloads, inited, called>>
      /\ todo' = (Decl[Now.arg].config \o <<T("configured", Now.arg)>>) \o Tail(todo)
  BY DEF EvalConfig, Doing, Expand
<1>2. PICK d \in Decls : d = Now.arg
  BY <1>1, HeadReady, TaskArgs DEF DeclOps
<1>3. PICK s \in Seq(Task) : s = Decl[d].config
  BY DeclTypes, ScriptReady
<1>4. PICK u \in Task : u = T("configured", d)
  BY TaskTypes DEF DeclOps
<1>5. PICK w \in Seq(Task) : w = s \o <<u>> /\ Range(w) = Range(s) \cup {u}
  <2>1. s \o <<u>> \in Seq(Task) /\ Range(s \o <<u>>) = Range(s) \cup {u}
    BY AddedRange
  <2> QED
    BY <2>1
<1>6. todo' = w \o Tail(todo)
  BY <1>1, <1>2, <1>3, <1>4, <1>5
<1>7. Brings(w)
  BY <1>1, <1>2, <1>3, <1>4, <1>5 DEF Brings
<1>8. Keeps(w)
  BY <1>1 DEF Keeps
<1>9. Queues /\ Hooks
  BY <1>1 DEF Queues, Hooks
<1>10. Marks
  BY <1>1, BoundSame DEF Marks
<1> QED
  BY <1>1, <1>6, <1>7, <1>8, <1>9, <1>10 DEF Rewrites

LEMMA RewriteAddHook == ASSUME IInv, AddHook PROVE \E w : Rewrites(w)
<1>1. PICK w \in Seq(Task) : w = <<>> /\ Range(w) = {}
  BY ShortSequences
<1>2. /\ todo # <<>> /\ Now.op = "hook" /\ todo' = w \o Tail(todo)
      /\ UNCHANGED <<env, phase, lost, seen, afterLoad, loaded, autoloads, inited, called>>
      /\ \/ initHook' = initHook
         \/ Decl[Now.arg].initHook /\ initHook' = <<Now.arg>> \o initHook
  BY <1>1 DEF AddHook, Doing, Expand
<1>3. PICK d \in Decls : d = Now.arg
  BY <1>2, HeadReady, TaskArgs DEF DeclOps
<1>4. Hooks
  <2>1. CASE initHook' = initHook
    BY <2>1 DEF Hooks
  <2>2. CASE Decl[d].initHook /\ initHook' = <<d>> \o initHook
    <3>1. PICK one \in Seq(Decls) : one = <<d>> /\ Range(one) = {d}
      BY ShortSequences
    <3>2. \A h \in Seq(Decls) : Range(one \o h) = Range(one) \cup Range(h)
      BY RangeConcatenation, Zenon
    <3>3. initHook \in Seq(Decls)
      BY DEF IInv, TypeOK
    <3>4. Range(initHook') = {d} \cup Range(initHook)
      BY <2>2, <3>1, <3>2, <3>3
    <3> QED
      BY <1>2, <1>3, <2>2, <3>4 DEF Hooks
  <2> QED
    BY <1>2, <1>3, <2>1, <2>2
<1>5. Brings(w)
  BY <1>1, <1>2 DEF Brings
<1>6. Keeps(w)
  BY <1>2 DEF Keeps
<1>7. Queues
  BY <1>2 DEF Queues
<1>8. Marks
  BY <1>2, BoundSame DEF Marks
<1> QED
  BY <1>2, <1>4, <1>5, <1>6, <1>7, <1>8 DEF Rewrites

LEMMA RewriteRequire == ASSUME IInv, RequireFeature PROVE \E w : Rewrites(w)
<1>1. /\ todo # <<>> /\ Now.op = "require"
      /\ UNCHANGED <<env, phase, lost, seen, afterLoad, initHook, loaded, autoloads, inited, called>>
      /\ todo' = (IF Now.arg \in loaded THEN <<>> ELSE <<T("load", Now.arg)>>) \o Tail(todo)
  BY DEF RequireFeature, Doing, Expand
<1>2. PICK f \in Features : f = Now.arg
  BY <1>1, HeadReady, TaskArgs DEF FeatureOps
<1>3. PICK l \in Task : l = T("load", f)
  BY TaskTypes DEF FeatureOps
<1>4. PICK none \in Seq(Task), one \in Seq(Task) :
        none = <<>> /\ Range(none) = {} /\ one = <<l>> /\ Range(one) = {l}
  BY ShortSequences
<1>5. todo' = (IF f \in loaded THEN none ELSE one) \o Tail(todo)
  BY <1>1, <1>2, <1>3, <1>4
<1>6. PICK w \in Seq(Task) : /\ todo' = w \o Tail(todo) /\ Range(w) \subseteq {l}
                             /\ f \in loaded \/ l \in Range(w)
  BY <1>4, <1>5
<1>7. Brings(w)
  BY <1>1, <1>2, <1>3, <1>6 DEF Brings
<1>8. Keeps(w)
  BY <1>1, <1>2, <1>3, <1>6 DEF Keeps
<1>9. Queues /\ Hooks
  BY <1>1 DEF Queues, Hooks
<1>10. Marks
  BY <1>1, BoundSame DEF Marks
<1> QED
  BY <1>1, <1>6, <1>7, <1>8, <1>9, <1>10 DEF Rewrites

LEMMA RewriteLoadFile == ASSUME IInv, LoadFile PROVE \E w : Rewrites(w)
<1>1. /\ todo # <<>> /\ Now.op = "load" /\ Now.arg \notin Missing
      /\ UNCHANGED <<env, phase, lost, seen, afterLoad, initHook, loaded, autoloads, inited, called>>
      /\ todo' = ([i \in 1..Len(Requires[Now.arg]) |->
                     Require(Requires[Now.arg][i])]
                  \o <<T("provide", Now.arg)>>) \o Tail(todo)
  BY DEF LoadFile, Doing, Expand
<1>2. PICK f \in Features : f = Now.arg
  BY <1>1, HeadReady, TaskArgs DEF FeatureOps
<1>3. PICK r \in Seq(Features) : r = Requires[f]
  BY RequiresAssumption
<1>4. PICK n \in Nat : n = Len(r) /\ DOMAIN r = 1 .. n
  BY LenProperties
<1>5. PICK s : s = [i \in 1 .. n |-> Require(r[i])]
  OBVIOUS
<1>6. \A g : Require(g) = T("require", g) /\ Require(g).op = "require" /\ T("provide", g).op = "provide"
  BY DEF Require, T
<1>7. s \in Seq(Task) /\ Len(s) = n
  <2>1. \A i \in 1 .. n : r[i] \in Features
    BY <1>4, ElementOfSeq
  <2>2. \A i \in 1 .. n : Require(r[i]) \in Task
    BY <2>1, ScriptTaskTypes
  <2>3. s \in [1 .. n -> Task]
    BY <1>5, <2>2
  <2> QED
    BY <2>3
<1>8. PICK u \in Task : u = T("provide", f)
  BY TaskTypes DEF FeatureOps
<1>9. PICK w \in Seq(Task) : w = s \o <<u>> /\ Range(w) = Range(s) \cup {u}
  <2>1. s \o <<u>> \in Seq(Task) /\ Range(s \o <<u>>) = Range(s) \cup {u}
    BY <1>7, AddedRange
  <2> QED
    BY <2>1
<1>10. todo' = w \o Tail(todo)
  BY <1>1, <1>2, <1>3, <1>4, <1>5, <1>8, <1>9
<1>11. Range(s) \subseteq {Require(g) : g \in Range(r)}
  BY <1>4, <1>5 DEF Range
<1>12. \A i \in DOMAIN w : \A g \in Range(r) :
         w[i] = u => \E j \in DOMAIN w : j < i /\ w[j] = Require(g)
  <2>1. /\ DOMAIN w = 1 .. n + 1
        /\ \A i \in 1 .. n + 1 : w[i] = IF i <= n THEN s[i] ELSE u
    BY <1>7, <1>9
  <2> SUFFICES ASSUME NEW i \in 1 .. n + 1, NEW g \in Range(r), w[i] = u
               PROVE  \E j \in 1 .. n + 1 : j < i /\ w[j] = Require(g)
    BY <2>1
  <2>5. PICK k \in 1 .. n : g = r[k]
    BY <1>4 DEF Range
  <2>2. k \in 1 .. n + 1 /\ w[k] = Require(r[k])
    BY <1>5, <2>1
  <2>3. ~(i <= n)
    BY <1>5, <1>6, <1>8, <2>1
  <2>4. k < i
    BY <2>3
  <2> QED
    BY <2>2, <2>4, <2>5
<1>13. Brings(w)
  BY <1>1, <1>2, <1>3, <1>8, <1>9, <1>11 DEF Brings
<1>14. Keeps(w)
  BY <1>1, <1>2, <1>3, <1>8, <1>9, <1>12 DEF Keeps
<1>15. Queues /\ Hooks
  BY <1>1 DEF Queues, Hooks
<1>16. Marks
  BY <1>1, BoundSame DEF Marks
<1> QED
  BY <1>1, <1>10, <1>13, <1>14, <1>15, <1>16 DEF Rewrites

LEMMA RewriteProvide == ASSUME IInv, Provide PROVE \E w : Rewrites(w)
<1>1. /\ todo # <<>> /\ Now.op = "provide" /\ loaded' = loaded \cup {Now.arg}
      /\ UNCHANGED <<env, phase, lost, seen, initHook, inited, called>>
      /\ todo' = afterLoad[Now.arg] \o Tail(todo)
      /\ afterLoad' = [afterLoad EXCEPT ![Now.arg] = <<>>]
      /\ autoloads' = {d \in autoloads : Decl[d].feature # Now.arg}
  BY DEF Provide, Doing, Expand
<1>2. PICK f \in Features : f = Now.arg
  BY <1>1, HeadReady, TaskArgs DEF FeatureOps
<1>3. StaysBound
  BY <1>1 DEF StaysBound, Bound
<1>4. afterLoad \in [Features -> Seq(Task)]
  BY DEF IInv, TypeOK
<1>5. PICK w \in Seq(Task) : w = afterLoad[f]
  BY <1>4
<1>6. Queues
  <2>1. \A g \in Features : afterLoad'[g] = IF g = f THEN <<>> ELSE afterLoad[g]
    BY <1>1, <1>2, <1>4
  <2>2. Range(<<>>) = {}
    BY ShortSequences
  <2> QED
    BY <2>1, <2>2 DEF Queues
<1>7. todo' = w \o Tail(todo)
  BY <1>1, <1>2, <1>5
<1>8. Brings(w)
  BY <1>1, <1>2, <1>5 DEF Brings
<1>9. Keeps(w)
  BY <1>1 DEF Keeps
<1>10. Hooks
  BY <1>1 DEF Hooks
<1>11. Marks
  BY <1>1, <1>3 DEF Marks
<1> QED
  BY <1>1, <1>6, <1>7, <1>8, <1>9, <1>10, <1>11 DEF Rewrites

LEMMA RewriteCall == ASSUME IInv, CallCommand PROVE \E w : Rewrites(w)
<1>1. /\ todo # <<>> /\ Now.op = "call"
      /\ UNCHANGED <<env, phase, lost, seen, afterLoad, initHook, loaded, autoloads, inited>>
      /\ \/ todo' = <<>> \o Tail(todo) /\ called' = called \cup {Now.arg}
         \/ /\ todo' = <<T("load", Decl[Now.arg].feature), Call(Now.arg)>> \o Tail(todo)
            /\ called' = called
  BY DEF CallCommand, Doing, Expand
<1>2. PICK d \in Decls : d = Now.arg
  BY <1>1, HeadReady, TaskArgs DEF DeclOps
<1>3. PICK l \in Task, u \in Task : l = T("load", Decl[d].feature) /\ u = Call(d)
  BY DeclTypes, TaskTypes, ScriptTaskTypes DEF FeatureOps
<1>4. PICK none \in Seq(Task) : none = <<>> /\ Range(none) = {}
  BY ShortSequences
<1>5. PICK two \in Seq(Task) : two = <<l, u>> /\ Range(two) = {l, u}
  <2>1. <<l, u>> \in Seq(Task) /\ Range(<<l, u>>) = {l, u}
    BY DEF Range
  <2> QED
    BY <2>1
<1>6. PICK w \in Seq(Task) : /\ todo' = w \o Tail(todo) /\ Range(w) \subseteq {l, u}
                             /\ d \in called' \/ u \in Range(w)
  BY <1>1, <1>2, <1>3, <1>4, <1>5
<1>7. Brings(w)
  BY <1>1, <1>2, <1>3, <1>6 DEF Brings
<1>8. Keeps(w)
  BY <1>1, <1>2, <1>3, <1>6 DEF Keeps
<1>9. Queues /\ Hooks
  BY <1>1 DEF Queues, Hooks
<1>10. Marks
  BY <1>1, BoundSame DEF Marks
<1> QED
  BY <1>1, <1>6, <1>7, <1>8, <1>9, <1>10 DEF Rewrites

\* Every step of the interpreter is one of these, unless it is an error.
LEMMA Rewriting ==
    ASSUME IInv, Evaluate, ~(InitFails \/ ConfigFails \/ LoadMissing) PROVE \E w : Rewrites(w)
BY RewriteByNone, RewriteEvalUse, RewriteAwaitAfter, RewriteEvalBody, RewriteSettle,
   RewriteDemand, RewriteEvalConfig, RewriteAddHook, RewriteRequire, RewriteLoadFile,
   RewriteProvide, RewriteCall, Zenon DEF Evaluate

\* An error unwinds past something.
LEMMA Erring ==
    ASSUME IInv, InitFails \/ ConfigFails \/ LoadMissing PROVE lost' # {}
<1>1. /\ todo # <<>> /\ Now.op # "catch" /\ Signal
  BY DEF InitFails, ConfigFails, LoadMissing, Doing
<1>2. todo \in Seq(Task) /\ Now \in Range(todo)
  BY <1>1, HeadReady
<1>3. CASE lost' = lost \cup Range(todo)
  BY <1>2, <1>3
<1>4. ASSUME NEW n \in Catches, lost' = lost \cup {todo[i] : i \in 1..(n - 1)} PROVE lost' # {}
  <2>1. n \in Nat /\ n > 0 /\ n # 1
    BY <1>1, <1>2, <1>4 DEF Catches, Now
  <2>2. 1 \in 1 .. n - 1
    BY <2>1
  <2> QED
    BY <1>4, <2>2
<1> QED
  BY <1>1, <1>3, <1>4 DEF Signal

\* The same in terms of positions, ...
LEMMA Positions ==
    ASSUME NEW s \in Seq(Task), s # <<>>, NEW w \in Seq(Task)
    PROVE  \E m, n \in Nat :
             /\ DOMAIN w = 1 .. m /\ DOMAIN s = 1 .. n + 1
             /\ DOMAIN (w \o Tail(s)) = 1 .. m + n
             /\ \A i \in 1 .. m : (w \o Tail(s))[i] = w[i]
             /\ \A i \in 1 .. n : (w \o Tail(s))[m + i] = s[i + 1]
<1>1. /\ Tail(s) \in Seq(Task) /\ Len(s) \in Nat /\ Len(s) # 0
      /\ Len(Tail(s)) = Len(s) - 1
      /\ \A i \in 1 .. Len(s) - 1 : Tail(s)[i] = s[i + 1]
  BY HeadTailProperties, LenProperties, EmptySeq
<1>2. PICK n \in Nat : n = Len(s) - 1
  <2>1. Len(s) - 1 \in Nat
    BY <1>1
  <2> QED
    BY <2>1
<1>3. PICK m \in Nat : m = Len(w)
  BY LenProperties
<1>4. PICK r \in Seq(Task) : r = Tail(s) /\ Len(r) = n /\ \A i \in 1 .. n : r[i] = s[i + 1]
  BY <1>1, <1>2
<1>5. /\ w \o r \in Seq(Task) /\ Len(w \o r) = m + n
      /\ \A i \in 1 .. m + n : (w \o r)[i] = IF i <= m THEN w[i] ELSE r[i - m]
  BY <1>3, <1>4, ConcatProperties
<1>6. DOMAIN w = 1 .. m /\ DOMAIN s = 1 .. n + 1 /\ DOMAIN (w \o r) = 1 .. m + n
  <2>1. Len(s) = n + 1
    BY <1>1, <1>2
  <2> QED
    BY <1>3, <1>5, <2>1, LenProperties
<1>7. \A i \in 1 .. m : (w \o r)[i] = w[i]
  <2> SUFFICES ASSUME NEW i \in 1 .. m PROVE (w \o r)[i] = w[i]
    OBVIOUS
  <2>1. i \in 1 .. m + n /\ i <= m
    OBVIOUS
  <2> QED
    BY <1>5, <2>1
<1>8. \A i \in 1 .. n : (w \o r)[m + i] = s[i + 1]
  <2> SUFFICES ASSUME NEW i \in 1 .. n PROVE (w \o r)[m + i] = s[i + 1]
    OBVIOUS
  <2>1. m + i \in 1 .. m + n /\ ~(m + i <= m) /\ (m + i) - m = i
    OBVIOUS
  <2> QED
    BY <1>4, <1>5, <2>1
<1> QED
  BY <1>4, <1>6, <1>7, <1>8

\* ... and of which tasks there are.
LEMMA RestStays ==
    ASSUME IInv, NEW w, Rewrites(w)
    PROVE  /\ Range(w) \subseteq Range(todo')
           /\ \A t \in Range(todo) : t = Now \/ t \in Range(todo')
           /\ \A t \in Range(todo') : t \in Range(w) \/ t \in Range(todo)
<1>1. todo \in Seq(Task) /\ todo # <<>> /\ w \in Seq(Task) /\ todo' = w \o Tail(todo)
  BY DEF IInv, TypeOK, Rewrites
<1>2. PICK m \in Nat, n \in Nat :
        /\ DOMAIN w = 1 .. m /\ DOMAIN todo = 1 .. n + 1
        /\ DOMAIN todo' = 1 .. m + n
        /\ \A i \in 1 .. m : todo'[i] = w[i]
        /\ \A i \in 1 .. n : todo'[m + i] = todo[i + 1]
  BY <1>1, Positions
<1>3. Range(w) \subseteq Range(todo')
  <2>1. 1 .. m \subseteq 1 .. m + n
    OBVIOUS
  <2> QED
    BY <1>2, <2>1 DEF Range
<1>4. ASSUME NEW t \in Range(todo), t # Now PROVE t \in Range(todo')
  <2>1. PICK i \in 1 .. n + 1 : t = todo[i]
    BY <1>2 DEF Range
  <2>2. i # 1
    BY <1>4, <2>1 DEF Now
  <2>3. i - 1 \in 1 .. n /\ (i - 1) + 1 = i /\ m + (i - 1) \in 1 .. m + n
    BY <2>2
  <2>4. todo'[m + (i - 1)] = t
    BY <1>2, <2>1, <2>3
  <2> QED
    BY <1>2, <2>3, <2>4 DEF Range
<1>5. \A t \in Range(todo') : t \in Range(w) \/ t \in Range(todo)
  BY <1>1, WorkProperties
<1> QED
  BY <1>3, <1>4, <1>5

\* At rest, there is nothing on the stack; what starts calls or loads something.
Begins == \/ Startup
          \/ \E d \in Decls : Invoke(d)
          \/ \E f \in Features : LoadElsewhere(f) \/ IdleTimer(f)
LEMMA Starting ==
    ASSUME IInv, Begins
    PROVE  /\ todo = <<>> /\ Range(todo) = {} /\ phase' # "error" /\ phase' # "init"
           /\ UNCHANGED <<env, lost, loaded, autoloads, afterLoad, initHook, seen, inited, called>>
           /\ \A t \in Range(todo') : t.op \in {"call", "load", "require"}
           /\ \/ phase' = "up" /\ phase \in {"error", "after-init", "up"}
              \/ /\ phase \in {"init", "error"} /\ phase' = "after-init"
                 /\ \A d \in Range(initHook) : Call(d) \in Range(todo')
<1>1. /\ todo = <<>> /\ Range(todo) = {} /\ phase' # "error" /\ phase' # "init"
      /\ UNCHANGED <<env, lost, loaded, autoloads, afterLoad, initHook, seen, inited, called>>
  BY ShortSequences DEF Begins, Startup, RunAfterInitHook, QuitDebugger, EnterCommandLoop,
     Invoke, LoadElsewhere, IdleTimer, AtRest
<1>2. ASSUME todo' = <<>> PROVE Range(todo') = {}
  BY <1>2, ShortSequences
<1>3. ASSUME NEW t \in Task, todo' = <<t>>, t.op \in {"call", "load", "require"}
      PROVE  \A u \in Range(todo') : u.op \in {"call", "load", "require"}
  <2>1. PICK w \in Seq(Task) : w = <<t>> /\ Range(w) = {t}
    BY ShortSequences
  <2> QED
    BY <1>3, <2>1
<1>4. CASE RunAfterInitHook
  <2>1. todo' = [i \in 1..Len(initHook) |-> Call(initHook[i])] /\ initHook \in Seq(Decls)
    BY <1>4 DEF RunAfterInitHook, IInv, TypeOK
  <2>2. Range(initHook) = {initHook[i] : i \in 1..Len(initHook)}
    BY <2>1, RangeEquality
  <2>3. \A d \in Range(initHook) : Call(d) \in Range(todo')
    BY <2>1, <2>2 DEF Range
  <2>4. \A t \in Range(todo') : t.op = "call"
    BY <2>1 DEF Range, Call, T
  <2> QED
    BY <1>1, <1>4, <2>3, <2>4 DEF RunAfterInitHook
<1>6. ASSUME NEW d \in Decls, Invoke(d) PROVE \A t \in Range(todo') : t.op \in {"call", "load", "require"}
  <2>1. PICK t \in Task : t = Call(d)
    BY ScriptTaskTypes
  <2>2. t.op = "call" /\ todo' = <<t>>
    BY <1>6, <2>1 DEF Invoke, Call, T
  <2> QED
    BY <1>3, <2>2
<1>7. ASSUME NEW f \in Features, LoadElsewhere(f)
      PROVE  \A t \in Range(todo') : t.op \in {"call", "load", "require"}
  <2>1. PICK t \in Task : t = T("load", f)
    BY TaskTypes DEF FeatureOps
  <2>2. t.op = "load" /\ todo' = <<t>>
    BY <1>7, <2>1 DEF LoadElsewhere, T
  <2> QED
    BY <1>3, <2>2
<1>8. ASSUME NEW f \in Features, IdleTimer(f)
      PROVE  \A t \in Range(todo') : t.op \in {"call", "load", "require"}
  <2>1. PICK t \in Task : t = Require(f)
    BY ScriptTaskTypes
  <2>2. t.op = "require" /\ (todo' = <<>> \/ todo' = <<t>>)
    BY <1>8, <2>1 DEF IdleTimer, Require, T
  <2> QED
    BY <1>2, <1>3, <2>2
<1>9. CASE ~Startup
  <2>1. phase' = "up" /\ phase = "up"
    BY <1>9 DEF Begins, Invoke, LoadElsewhere, IdleTimer, AtRest
  <2> QED
    BY <1>1, <1>6, <1>7, <1>8, <1>9, <2>1 DEF Begins
<1>10. CASE QuitDebugger \/ EnterCommandLoop
  BY <1>1, <1>2, <1>10 DEF QuitDebugger, EnterCommandLoop
<1> QED
  BY <1>4, <1>9, <1>10 DEF Startup

(***************************************************************************)
(* What is loaded, and put on hooks, by the end of .emacs.                 *)
(***************************************************************************)

\* A library is provided after those it requires.
InTurn ==
    \A i \in DOMAIN todo : \A f \in Range(Requires[todo[i].arg]) :
      todo[i].op = "provide" => f \in loaded \/ \E j \in DOMAIN todo : j < i /\ Loads(todo[j], f)
Whole == \A f \in loaded : Range(Requires[f]) \subseteq loaded

\* Tasks that lead to the loading of the package of form d.
Pending(t, d) == t.arg = d /\ t.op \in {"use", "await", "settle", "demand"}

\* Without errors the forms of .emacs come to be evaluated, and packages loaded.
OnTime ==
    /\ phase # "error" /\ InTurn /\ Whole
    /\ \A d \in Decls : Certain(d) => d \in seen \/ \E t \in Range(todo) : t.op = "use" /\ t.arg = d
    /\ \A d \in Decls :
         Prompt(d) => Decl[d].feature \in loaded \/ \E t \in Range(todo) : Pending(t, d)

\* What can lead to a function on after-init-hook.
Hookable(t) == t.op \in {"use", "await", "hook"} /\ Decl[t.arg].initHook

\* After .emacs nothing does, and the functions that are there are called.
HooksRun ==
    phase # "init" =>
      /\ \A t \in Range(todo) : ~Hookable(t)
      /\ \A f \in Features : \A t \in Range(afterLoad[f]) : ~Hookable(t)
      /\ \A d \in Range(initHook) :
           \/ d \in called
           \/ phase = "after-init" /\ \E t \in Range(todo) : t.op = "call" /\ t.arg = d

\* Where the tasks of a step come from.
LEMMA ScriptWorkOps ==
    /\ \A s \in Seq(ScriptTask) : \A t \in Range(s) :
         /\ t \in Task /\ t.op \in {"use", "require", "call", "catch"}
         /\ t.op = "use" => t = Use(t.arg)
    /\ \A f, n : Await(f, n).op = "await" /\ Await(f, n).arg = f /\ Await(f, n).left = n
    /\ \A op, d : T(op, d).op = op /\ T(op, d).arg = d
<1>1. \A s \in Seq(ScriptTask) : \A t \in Range(s) : t \in ScriptTask
  BY ScriptReady
<1>2. \A t \in ScriptTask : t \in Task /\ t.op \in {"use", "require", "call", "catch"}
  BY DEF ScriptTask
<1>3. ASSUME NEW t \in Task, t.op = "use" PROVE t = Use(t.arg)
  BY <1>3 DEF Task, Use, T, FeatureOps
<1>4. /\ \A f, n : Await(f, n).op = "await" /\ Await(f, n).arg = f /\ Await(f, n).left = n
      /\ \A op, d : T(op, d).op = op /\ T(op, d).arg = d
  BY DEF Await, T
<1> QED
  BY <1>1, <1>2, <1>3, <1>4

LEMMA WorkSources ==
    ASSUME IInv, NEW w, Rewrites(w), NEW t \in Range(w)
    PROVE  /\ t.op = "provide" => Now.op = "load" /\ t = T("provide", Now.arg)
           /\ t.op = "hook" => Now.op = "await" /\ t.arg = Now.arg
           /\ t.op = "settle" => Now.op = "await" /\ Now.left = 0 /\ t.arg = Now.arg
           /\ t.op = "await" =>
                \/ Now.op \in {"use", "await"} /\ t.arg = Now.arg
                \/ \E f \in Features : t \in Range(afterLoad[f])
           /\ t.op = "use" =>
                \E d \in Decls : t = Use(t.arg) /\ t \in Range(Decl[d].init) \cup Range(Decl[d].config)
<1>1. Now \in Task /\ Brings(w)
  BY HeadReady DEF Rewrites
<1>2. Now.op \in DeclOps \cup {"await"} => Now.arg \in Decls
  BY <1>1, TaskArgs
<1>3. Now.op \in FeatureOps => Now.arg \in Features
  BY <1>1, TaskArgs
<1>4. Now.op \in DeclOps \cup FeatureOps \cup {"await"}
  BY <1>1 DEF Task
<1>5. CASE Now.op \in {"use", "settle", "demand", "require", "call", "configured", "hook", "catch"}
  BY <1>1, <1>5, ScriptWorkOps DEF Brings, Call
<1>6. CASE Now.op = "load"
  BY <1>1, <1>6, ScriptWorkOps DEF Brings, Require
<1>7. CASE Now.op = "provide"
  <2>1. t \in Range(afterLoad[Now.arg]) /\ Now.arg \in Features
    BY <1>1, <1>3, <1>7 DEF Brings, FeatureOps
  <2>2. t.op \in {"await", "config"}
    BY <2>1 DEF IInv, QueuesReady, Stored
  <2> QED
    BY <2>1, <2>2
<1>8. CASE Now.op = "await"
  <2>1. PICK d \in Decls : d = Now.arg
    BY <1>2, <1>8
  <2>2. CASE Now.left > 0
    BY <1>1, <1>8, <2>2, ScriptWorkOps DEF Brings
  <2>3. CASE ~(Now.left > 0)
    <3>1. Now.left = 0
      BY <1>1, <1>8, <2>3, TaskArgs
    <3>2. t \in Range(Decl[d].init) \/ t = T("settle", d) \/ t = T("hook", d)
      BY <1>1, <1>8, <2>1, <2>3 DEF Brings
    <3>3. t \in Range(Decl[d].init) => t.op \in {"use", "require", "call", "catch"} /\ (t.op = "use" => t = Use(t.arg))
      BY DeclTypes, ScriptWorkOps
    <3> QED
      BY <1>8, <2>1, <3>1, <3>2, <3>3, ScriptWorkOps
  <2> QED
    BY <2>2, <2>3
<1>9. CASE Now.op = "config"
  <2>1. PICK d \in Decls : d = Now.arg
    BY <1>2, <1>9 DEF DeclOps
  <2>2. t \in Range(Decl[d].config) \/ t = T("configured", d)
    BY <1>1, <1>9, <2>1 DEF Brings
  <2>3. t \in Range(Decl[d].config) => t.op \in {"use", "require", "call", "catch"} /\ (t.op = "use" => t = Use(t.arg))
    BY DeclTypes, ScriptWorkOps
  <2> QED
    BY <2>1, <2>2, <2>3, ScriptWorkOps
<1> QED
  BY <1>4, <1>5, <1>6, <1>7, <1>8, <1>9 DEF DeclOps, FeatureOps

\* Work on libraries is done in turn, ...
LEMMA InTurnKept ==
    ASSUME IInv, InTurn, NEW w, Rewrites(w) PROVE InTurn'
<1>1. todo \in Seq(Task) /\ todo # <<>> /\ w \in Seq(Task) /\ todo' = w \o Tail(todo)
  BY DEF IInv, TypeOK, Rewrites
<1>2. PICK m \in Nat, n \in Nat :
        /\ DOMAIN w = 1 .. m /\ DOMAIN todo = 1 .. n + 1
        /\ DOMAIN todo' = 1 .. m + n
        /\ \A i \in 1 .. m : todo'[i] = w[i]
        /\ \A i \in 1 .. n : todo'[m + i] = todo[i + 1]
  BY <1>1, Positions
<1>3. Keeps(w) /\ loaded' = loaded \cup (IF Now.op = "provide" THEN {Now.arg} ELSE {})
  BY DEF Rewrites, Marks
<1>4. ASSUME NEW i \in 1 .. m, w[i].op = "provide", NEW f \in Range(Requires[w[i].arg])
      PROVE  \E j \in 1 .. m : j < i /\ Loads(w[j], f)
  <2>1. w[i] \in Range(w)
    BY <1>2 DEF Range
  <2>2. Now.op = "load" /\ w[i] = T("provide", Now.arg)
    BY <1>4, <2>1, WorkSources
  <2>3. f \in Range(Requires[Now.arg])
    BY <2>2, ScriptWorkOps
  <2>4. PICK j \in 1 .. m : j < i /\ w[j] = Require(f)
    BY <1>2, <1>3, <2>2, <2>3 DEF Keeps
  <2> QED
    BY <2>4, ScriptWorkOps DEF Loads, Require
<1>5. ASSUME NEW f, Loads(Now, f) PROVE f \in loaded' \/ \E j \in 1 .. m : Loads(w[j], f)
  <2>1. CASE Now.op = "require"
    <3>1. f \in loaded \/ T("load", f) \in Range(w)
      BY <1>3, <1>5, <2>1 DEF Keeps, Loads
    <3> QED
      BY <1>2, <1>3, <3>1, ScriptWorkOps DEF Loads, Range
  <2>2. CASE Now.op = "load"
    <3>1. T("provide", f) \in Range(w)
      BY <1>3, <1>5, <2>2 DEF Keeps, Loads
    <3> QED
      BY <1>2, <3>1, ScriptWorkOps DEF Loads, Range
  <2>3. CASE Now.op = "provide"
    BY <1>3, <1>5, <2>3 DEF Loads
  <2> QED
    BY <1>5, <2>1, <2>2, <2>3 DEF Loads
<1> SUFFICES ASSUME NEW i \in 1 .. m + n, todo'[i].op = "provide",
                    NEW f \in Range(Requires[todo'[i].arg])
             PROVE  f \in loaded' \/ \E j \in 1 .. m + n : j < i /\ Loads(todo'[j], f)
  BY <1>2 DEF InTurn, Loads
<1>6. CASE i \in 1 .. m
  <2>1. PICK j \in 1 .. m : j < i /\ Loads(w[j], f)
    BY <1>2, <1>4, <1>6
  <2>2. j \in 1 .. m + n /\ todo'[j] = w[j]
    BY <1>2
  <2> QED
    BY <2>1, <2>2
<1>7. CASE i \notin 1 .. m
  <2>1. PICK k \in 1 .. n : i = m + k
    <3>1. i - m \in 1 .. n /\ i = m + (i - m)
      BY <1>7
    <3> QED
      BY <3>1
  <2>2. todo'[i] = todo[k + 1] /\ k + 1 \in 1 .. n + 1
    BY <1>2, <2>1
  <2>3. f \in loaded \/ \E j \in 1 .. n + 1 : j < k + 1 /\ Loads(todo[j], f)
    BY <1>2, <2>2 DEF InTurn
  <2>4. ASSUME NEW j \in 1 .. n + 1, j < k + 1, Loads(todo[j], f)
        PROVE  f \in loaded' \/ \E l \in 1 .. m + n : l < i /\ Loads(todo'[l], f)
    <3>1. CASE j = 1
      <4>1. f \in loaded' \/ \E l \in 1 .. m : Loads(w[l], f)
        BY <1>5, <2>4, <3>1 DEF Now
      <4>2. \A l \in 1 .. m : l \in 1 .. m + n /\ l < i /\ todo'[l] = w[l]
        BY <1>2, <2>1
      <4> QED
        BY <4>1, <4>2
    <3>2. CASE j # 1
      <4>1. j - 1 \in 1 .. n /\ (j - 1) + 1 = j /\ m + (j - 1) \in 1 .. m + n /\ m + (j - 1) < i
        BY <2>1, <2>4, <3>2
      <4>2. todo'[m + (j - 1)] = todo[j]
        BY <1>2, <4>1
      <4> QED
        BY <2>4, <4>1, <4>2
    <3> QED
      BY <3>1, <3>2
  <2> QED
    BY <1>3, <2>3, <2>4
<1> QED
  BY <1>6, <1>7

\* ... so that what is loaded has what it requires, ...
LEMMA WholeKept ==
    ASSUME IInv, InTurn, Whole, NEW w, Rewrites(w) PROVE Whole'
<1>1. loaded' = loaded \cup (IF Now.op = "provide" THEN {Now.arg} ELSE {}) /\ todo # <<>>
  BY DEF Rewrites, Marks
<1>2. ASSUME Now.op = "provide", NEW f \in Range(Requires[Now.arg]) PROVE f \in loaded
  <2>1. todo \in Seq(Task)
    BY DEF IInv, TypeOK
  <2>2. Len(todo) \in Nat \ {0} /\ DOMAIN todo = 1 .. Len(todo)
    BY <1>1, <2>1, EmptySeq, LenProperties
  <2>3. 1 \in DOMAIN todo /\ \A j \in DOMAIN todo : ~(j < 1)
    BY <2>2
  <2> QED
    BY <1>2, <2>3 DEF InTurn, Now
<1> QED
  BY <1>1, <1>2 DEF Whole

\* ... and the forms of .emacs are not left out.
LEMMA OnTimeKept ==
    ASSUME IInv, OnTime, NEW w, Rewrites(w) PROVE OnTime'
<1>1. phase' # "error" /\ InTurn' /\ Whole'
  BY InTurnKept, WholeKept DEF OnTime, Rewrites
<1>2. /\ Range(w) \subseteq Range(todo')
      /\ \A t \in Range(todo) : t = Now \/ t \in Range(todo')
  BY RestStays
<1>3. /\ Keeps(w) /\ loaded \subseteq loaded' /\ seen \subseteq seen'
      /\ Now \in Task /\ Ready(Now)
  BY HeadReady DEF Rewrites, Marks
<1>4. ASSUME NEW d \in Decls, Certain(d), Now.op = "use", Now.arg = d
      PROVE  d \in seen' /\ Await(d, Len(Decl[d].after)) \in Range(w)
  <2>1. ~Decl[d].disabled /\ Holds(d)
    BY <1>4 DEF Certain, Holds
  <2> QED
    BY <1>3, <1>4, <2>1 DEF Keeps
<1>5. ASSUME NEW d \in Decls, Certain(d)
      PROVE  d \in seen' \/ \E t \in Range(todo') : t.op = "use" /\ t.arg = d
  <2>1. CASE d \in seen
    BY <1>3, <2>1
  <2>2. CASE d \notin seen
    <3>1. PICK t \in Range(todo) : t.op = "use" /\ t.arg = d
      BY <1>5, <2>2 DEF OnTime
    <3> QED
      BY <1>2, <1>4, <1>5, <3>1
  <2> QED
    BY <2>1, <2>2
<1>6. ASSUME NEW d \in Decls, Prompt(d)
      PROVE  Decl[d].feature \in loaded' \/ \E t \in Range(todo') : Pending(t, d)
  <2>1. CASE Decl[d].feature \in loaded
    BY <1>3, <2>1
  <2>2. CASE Decl[d].feature \notin loaded /\ ~Pending(Now, d)
    <3>1. PICK t \in Range(todo) : Pending(t, d)
      BY <1>6, <2>2 DEF OnTime
    <3> QED
      BY <1>2, <2>2, <3>1
  <2>3. CASE Decl[d].feature \notin loaded /\ Pending(Now, d)
    <3>1. Certain(d) /\ Len(Decl[d].after) = 0 /\ ~Deferred(d) /\ ~Inline(d)
      BY <1>6 DEF Prompt, Inline
    <3>2. Now.arg = d
      BY <2>3 DEF Pending
    <3>3. CASE Now.op = "use"
      BY <1>2, <1>4, <3>1, <3>2, <3>3, ScriptWorkOps DEF Pending
    <3>4. CASE Now.op = "await"
      <4>1. Now.left = 0
        BY <1>3, <3>1, <3>2, <3>4, TaskArgs DEF Ready
      <4>2. T("settle", d) \in Range(todo')
        BY <1>2, <1>3, <3>2, <3>4, <4>1 DEF Keeps
      <4> QED
        BY <4>2, ScriptWorkOps DEF Pending
    <3>5. CASE Now.op \in {"settle", "demand"}
      <4>1. T("demand", d) \in Range(todo')
        BY <1>2, <1>3, <2>3, <3>1, <3>2, <3>5 DEF Keeps
      <4> QED
        BY <4>1, ScriptWorkOps DEF Pending
    <3> QED
      BY <2>3, <3>3, <3>4, <3>5 DEF Pending
  <2> QED
    BY <2>1, <2>2, <2>3
<1> QED
  BY <1>1, <1>5, <1>6 DEF OnTime, Certain, Prompt, Deferred, Pending

LEMMA OnTimeStarts == ASSUME IInv, OnTime, Begins PROVE OnTime'
<1>1. /\ Range(todo) = {} /\ phase' # "error" /\ UNCHANGED <<loaded, seen>>
      /\ \A t \in Range(todo') : t.op # "provide"
  BY Starting
<1>2. InTurn'
  BY <1>1 DEF InTurn, Range
<1>3. Whole'
  BY <1>1 DEF OnTime, Whole
<1> QED
  BY <1>1, <1>2, <1>3 DEF OnTime, Certain, Prompt, Deferred

LEMMA OnTimeInit == Init => OnTime
<1> SUFFICES ASSUME Init PROVE OnTime
  OBVIOUS
<1>1. /\ todo = DotEmacs /\ phase = "init" /\ loaded = {}
      /\ \A t \in Range(DotEmacs) : t.op \in {"use", "require", "call", "catch"}
  BY DotEmacsAssumption, ScriptWorkOps DEF Init
<1>2. InTurn /\ Whole
  BY <1>1 DEF InTurn, Whole, Range
<1>3. \A d : Use(d).op = "use" /\ Use(d).arg = d
  BY ScriptWorkOps DEF Use
<1> QED
  BY <1>1, <1>2, <1>3 DEF OnTime, Certain, Prompt, Pending

\* At rest all that is early is loaded.
LEMMA EarlyLoaded == ASSUME OnTime, Range(todo) = {} PROVE EarlyLibraries \subseteq loaded
BY DEF OnTime, EarlyLibraries, Whole

\* A function is put on the hook by the form that names it, in .emacs.
LEMMA HooksRunKept ==
    ASSUME HookedEarly, IInv, HooksRun, NEW w, Rewrites(w) PROVE HooksRun'
<1> SUFFICES ASSUME phase # "init"
             PROVE  /\ \A t \in Range(todo') : ~Hookable(t)
                    /\ \A f \in Features : \A t \in Range(afterLoad'[f]) : ~Hookable(t)
                    /\ \A d \in Range(initHook') :
                         \/ d \in called'
                         \/ /\ phase' = "after-init"
                            /\ \E t \in Range(todo') : t.op = "call" /\ t.arg = d
  BY DEF HooksRun, Hookable, Rewrites
<1>1. /\ \A t \in Range(todo) : ~Hookable(t)
      /\ \A f \in Features : \A t \in Range(afterLoad[f]) : ~Hookable(t)
      /\ \A d \in Range(initHook) :
           \/ d \in called
           \/ phase = "after-init" /\ \E t \in Range(todo) : t.op = "call" /\ t.arg = d
  BY DEF HooksRun
<1>2. /\ todo # <<>> /\ phase' = phase /\ called \subseteq called'
      /\ Keeps(w) /\ Queues /\ Hooks
  BY DEF Rewrites, Marks
<1>3. Now \in Task /\ ~Hookable(Now)
  BY <1>1, <1>2, HeadReady
<1>4. /\ Range(w) \subseteq Range(todo')
      /\ \A t \in Range(todo) : t = Now \/ t \in Range(todo')
      /\ \A t \in Range(todo') : t \in Range(w) \/ t \in Range(todo)
  BY RestStays
<1>5. ASSUME NEW t \in Range(w) PROVE ~Hookable(t)
  <2>1. CASE t.op = "use"
    <3>1. PICK c \in Decls : t = Use(t.arg) /\ t \in Range(Decl[c].init) \cup Range(Decl[c].config)
      BY <2>1, WorkSources
    <3>2. t.arg \in Decls
      <4>1. t \in Task
        BY <3>1, DeclTypes, ScriptWorkOps
      <4> QED
        BY <2>1, <4>1, TaskArgs DEF DeclOps
    <3> QED
      BY <3>1, <3>2 DEF HookedEarly, Hookable
  <2>2. CASE t.op = "await"
    <3>1. \/ Now.op \in {"use", "await"} /\ t.arg = Now.arg
          \/ \E f \in Features : t \in Range(afterLoad[f])
      BY <2>2, WorkSources
    <3> QED
      BY <1>1, <1>3, <3>1 DEF Hookable
  <2>3. CASE t.op = "hook"
    <3>1. Now.op = "await" /\ t.arg = Now.arg
      BY <2>3, WorkSources
    <3> QED
      BY <1>3, <3>1 DEF Hookable
  <2> QED
    BY <2>1, <2>2, <2>3 DEF Hookable
<1>6. \A t \in Range(todo') : ~Hookable(t)
  BY <1>1, <1>4, <1>5
<1>7. \A f \in Features : \A t \in Range(afterLoad'[f]) : ~Hookable(t)
  BY <1>1, <1>2, <1>3 DEF Queues, Hookable
<1>8. initHook' = initHook
  BY <1>2, <1>3 DEF Hooks, Hookable
<1>9. ASSUME NEW d \in Range(initHook)
      PROVE  \/ d \in called'
             \/ phase' = "after-init" /\ \E t \in Range(todo') : t.op = "call" /\ t.arg = d
  <2>1. CASE d \in called
    BY <1>2, <2>1
  <2>2. CASE d \notin called
    <3>1. PICK t \in Range(todo) : t.op = "call" /\ t.arg = d /\ phase = "after-init"
      BY <1>1, <1>9, <2>2
    <3>2. CASE t = Now
      <4>1. d \in called' \/ Call(d) \in Range(w)
        BY <1>2, <3>1, <3>2 DEF Keeps
      <4> QED
        BY <1>2, <1>4, <3>1, <4>1, ScriptWorkOps DEF Call
    <3> QED
      BY <1>2, <1>4, <3>1, <3>2
  <2> QED
    BY <2>1, <2>2
<1> QED
  BY <1>6, <1>7, <1>8, <1>9

\* At the end of .emacs no form with such a function waits any longer.
LEMMA HooksRunStart ==
    ASSUME HookedEarly, IInv, OnTime, NoneLeft, HooksRun, Begins PROVE HooksRun'
<1>1. /\ todo = <<>> /\ Range(todo) = {} /\ phase' # "init"
      /\ UNCHANGED <<loaded, afterLoad, initHook, called>>
      /\ \A t \in Range(todo') : t.op \in {"call", "load", "require"}
      /\ \/ phase' = "up" /\ phase \in {"error", "after-init", "up"}
         \/ /\ phase \in {"init", "error"} /\ phase' = "after-init"
            /\ \A d \in Range(initHook) : Call(d) \in Range(todo')
  BY Starting
<1>2. phase # "error"
  BY DEF OnTime
<1>3. \A f \in Features : \A t \in Range(afterLoad[f]) : ~Hookable(t)
  <2>1. CASE phase # "init"
    BY <2>1 DEF HooksRun
  <2>2. CASE phase = "init"
    <3> SUFFICES ASSUME NEW f \in Features, NEW t \in Range(afterLoad[f]), Hookable(t) PROVE FALSE
      OBVIOUS
    <3>1. t.op = "await" /\ Stored(f, t)
      BY DEF IInv, QueuesReady, Stored, Hookable
    <3>2. t \in Task
      BY DEF IInv, TypeOK, Range
    <3>3. PICK d \in Decls, n \in Nat : d = t.arg /\ n = t.left
      BY <3>1, <3>2, TaskArgs
    <3>4. n < Len(Decl[d].after) /\ f = Decl[d].after[n + 1]
      BY <3>1, <3>3 DEF Stored
    <3>5. f \in Range(Decl[d].after)
      <4>1. Decl[d].after \in Seq(Features)
        BY DeclTypes
      <4>2. Len(Decl[d].after) \in Nat /\ DOMAIN Decl[d].after = 1 .. Len(Decl[d].after)
        BY <4>1, LenProperties
      <4>3. n + 1 \in DOMAIN Decl[d].after
        BY <3>4, <4>2
      <4> QED
        BY <3>4, <4>3 DEF Range
    <3>6. f \in EarlyLibraries
      BY <3>3, <3>5 DEF HookedEarly, Hookable
    <3>7. afterLoad[f] = <<>>
      BY <1>1, <3>6, EarlyLoaded DEF NoneLeft
    <3> QED
      BY <3>7, ShortSequences
  <2> QED
    BY <2>1, <2>2
<1>4. \A t \in Range(todo') : ~Hookable(t)
  BY <1>1 DEF Hookable
<1>5. ASSUME NEW d \in Range(initHook)
      PROVE  \/ d \in called
             \/ phase' = "after-init" /\ \E t \in Range(todo') : t.op = "call" /\ t.arg = d
  <2>1. CASE phase = "init"
    BY <1>1, <1>5, <2>1, ScriptWorkOps DEF Call
  <2>2. CASE phase # "init"
    BY <1>1, <1>5, <2>2 DEF HooksRun
  <2> QED
    BY <2>1, <2>2
<1> QED
  BY <1>1, <1>3, <1>4, <1>5 DEF HooksRun, Hookable

\* Without errors, all of that stays true.
LEMMA HooksNext ==
    ASSUME HookedEarly
    PROVE  /\ IInv /\ NoneLeft /\ (lost = {} => OnTime /\ HooksRun) /\ [Next]_vars
                => (lost = {} => OnTime /\ HooksRun)'
<1> SUFFICES ASSUME IInv, NoneLeft, lost = {} => OnTime /\ HooksRun, [Next]_vars, lost' = {}
             PROVE  OnTime' /\ HooksRun'
  OBVIOUS
<1>1. CASE UNCHANGED vars
  BY <1>1 DEF vars, OnTime, HooksRun, InTurn, Whole, Certain, Prompt, Pending, Hookable, Loads,
              Deferred
<1>2. CASE Evaluate
  <2>1. ~(InitFails \/ ConfigFails \/ LoadMissing)
    BY Erring
  <2>2. PICK w : Rewrites(w)
    BY <1>2, <2>1, Rewriting
  <2>3. lost = {}
    BY <2>2 DEF Rewrites
  <2> QED
    BY <2>2, <2>3, OnTimeKept, HooksRunKept
<1>3. CASE Begins
  <2>1. lost = {}
    BY <1>3, Starting
  <2> QED
    BY <1>3, <2>1, OnTimeStarts, HooksRunStart
<1> QED
  BY <1>1, <1>2, <1>3 DEF Next, Begins

\* When each function that :hook puts on after-init-hook is put there by a form of
\* .emacs that waits for nothing but libraries that .emacs loads on its way, all of
\* them are called, in every startup without errors: none is added too late.
THEOREM HooksCalled ==
    ASSUME HookedEarly, UsedOnce
    PROVE  Spec => []HookedAtInitRuns
<1> DEFINE HInv == lost = {} => OnTime /\ HooksRun
<1>1. Init => HInv
  BY OnTimeInit DEF HooksRun, Init
<1>2. Init => AllTidy /\ NoneLeft
  BY FormsInit
<1>3. IInv /\ AllTidy /\ NoneLeft /\ [Next]_vars => AllTidy' /\ NoneLeft'
  BY FormsNext
<1>4. IInv /\ NoneLeft /\ HInv /\ [Next]_vars => HInv'
  BY HooksNext
<1>5. HInv => HookedAtInitRuns
  <2> SUFFICES ASSUME OnTime, HooksRun, AtRest PROVE Range(initHook) \subseteq called
    BY DEF HookedAtInitRuns
  <2> QED
    BY DEF AtRest, HooksRun
<1> HIDE DEF HInv
<1> QED
  BY <1>1, <1>2, <1>3, <1>4, <1>5, Invariance, PTL DEF Spec

(***************************************************************************)
(* Forms with a way in of their own.                                       *)
(***************************************************************************)

\* Once a form is past its :init, its commands are defined.
AllOffered ==
    /\ \A t \in Range(todo) : t.op = "settle" => Offered(t.arg)
    /\ \A d \in inited : Offered(d)

LEMMA AllOfferedKept ==
    ASSUME IInv, AllOffered, NEW w, Rewrites(w) PROVE AllOffered'
<1>1. /\ Keeps(w) /\ StaysBound /\ todo # <<>>
      /\ inited' = inited \cup (IF Now.op = "settle" THEN {Now.arg} ELSE {})
  BY DEF Rewrites, Marks
<1>2. \A d : Offered(d) => Offered(d)'
  BY <1>1 DEF StaysBound, Offered
<1>3. ASSUME NEW t \in Range(todo'), t.op = "settle" PROVE Offered(t.arg)'
  <2>1. CASE t \in Range(todo)
    BY <1>2, <1>3, <2>1 DEF AllOffered
  <2>2. CASE t \in Range(w)
    <3>1. PICK d : d = t.arg
      OBVIOUS
    <3>2. Now.op = "await" /\ Now.left = 0 /\ d = Now.arg
      BY <1>3, <2>2, <3>1, WorkSources
    <3>3. Decl[d].commands /\ ~Decl[d].demand => d \in autoloads' \/ Decl[d].feature \in loaded'
      BY <1>1, <3>2 DEF Keeps
    <3>4. Offered(d)'
      BY <3>3 DEF Offered, Bound
    <3> QED
      BY <3>1, <3>4
  <2> QED
    BY <1>3, <2>1, <2>2, RestStays
<1>4. ASSUME NEW d \in inited' PROVE Offered(d)'
  <2>1. CASE d \in inited
    BY <1>2, <2>1 DEF AllOffered
  <2>2. CASE Now.op = "settle" /\ d = Now.arg
    <3>1. Now \in Range(todo)
      BY <1>1, HeadReady
    <3> QED
      BY <1>2, <2>2, <3>1 DEF AllOffered
  <2> QED
    BY <1>1, <1>4, <2>1, <2>2
<1> QED
  BY <1>3, <1>4 DEF AllOffered

LEMMA OfferedNext ==
    /\ IInv /\ (lost = {} => OnTime /\ AllOffered) /\ [Next]_vars
         => (lost = {} => OnTime /\ AllOffered)'
<1> SUFFICES ASSUME IInv, lost = {} => OnTime /\ AllOffered, [Next]_vars, lost' = {}
             PROVE  OnTime' /\ AllOffered'
  OBVIOUS
<1>1. CASE UNCHANGED vars
  BY <1>1 DEF vars, OnTime, AllOffered, Offered, Bound, InTurn, Whole, Certain, Prompt, Pending,
              Loads, Deferred
<1>2. CASE Evaluate
  <2>1. ~(InitFails \/ ConfigFails \/ LoadMissing)
    BY Erring
  <2>2. PICK w : Rewrites(w)
    BY <1>2, <2>1, Rewriting
  <2>3. lost = {}
    BY <2>2 DEF Rewrites
  <2> QED
    BY <2>2, <2>3, OnTimeKept, AllOfferedKept
<1>3. CASE Begins
  <2>1. /\ lost = {} /\ UNCHANGED <<loaded, autoloads, inited>>
        /\ \A t \in Range(todo') : t.op # "settle"
    BY <1>3, Starting
  <2>2. AllOffered'
    BY <2>1 DEF AllOffered, Offered, Bound
  <2> QED
    BY <1>3, <2>1, <2>2, OnTimeStarts
<1> QED
  BY <1>1, <1>2, <1>3 DEF Next, Begins

\* A form that was evaluated but not inited waits for a library that is not there.
LEMMA WaitsForOne ==
    ASSUME IInv, AllTidy, NoneLeft, todo = <<>>, lost = {}, NEW d \in seen, d \notin inited
    PROVE  \E f \in Range(Decl[d].after) : f \notin loaded
<1>1. d \in Decls /\ d \notin configured
  BY DEF IInv, TypeOK, StagesNest
<1>2. Somewhere(Cont(d)) /\ ~Has(Cont(d), todo)
  <2>1. Range(todo) = {}
    BY ShortSequences
  <2> QED
    BY <1>1, <2>1, HasRange DEF AllTidy, Tidy, Unwound
<1>3. PICK f \in Features : Has(Cont(d), afterLoad[f])
  BY <1>2 DEF Somewhere
<1>4. PICK t \in Range(afterLoad[f]) : t \in Task /\ Continues(t, d)
  BY <1>3 DEF Has, Range, Cont
<1>5. Stored(f, t) /\ t.arg = d
  BY <1>4 DEF IInv, QueuesReady, Continues
<1>6. t.op = "await"
  BY <1>5 DEF Stored
<1>7. PICK n \in Nat : n = t.left
  BY <1>4, <1>6, TaskArgs
<1>8. n < Len(Decl[d].after) /\ f = Decl[d].after[n + 1]
  BY <1>5, <1>6, <1>7 DEF Stored
<1>9. f \in Range(Decl[d].after)
  <2>1. Decl[d].after \in Seq(Features)
    BY <1>1, DeclTypes
  <2>2. Len(Decl[d].after) \in Nat /\ DOMAIN Decl[d].after = 1 .. Len(Decl[d].after)
    BY <2>1, LenProperties
  <2>3. n + 1 \in DOMAIN Decl[d].after
    BY <1>8, <2>2
  <2> QED
    BY <1>8, <2>3 DEF Range
<1>10. f \notin loaded
  BY <1>4, ShortSequences DEF NoneLeft
<1> QED
  BY <1>9, <1>10

\* When what forms with commands or a demand wait for is loaded by others, or by the
\* end of .emacs, or has a command to load it by that does not wait in turn for
\* theirs, then all of them have been inited once nothing can load anything any more.
THEOREM EntryPointsReached ==
    ASSUME NEW rank \in [Decls -> Nat], Grounded(rank), UsedOnce
    PROVE  Spec => []EntryPointsInstalled
<1> DEFINE EInv == lost = {} => OnTime /\ AllOffered
<1>1. Init => EInv
  <2>1. Init => AllOffered
    <3> SUFFICES ASSUME Init PROVE AllOffered
      OBVIOUS
    <3>1. todo = DotEmacs /\ inited = {} /\ \A t \in Range(DotEmacs) : t.op # "settle"
      BY DotEmacsAssumption, ScriptWorkOps DEF Init
    <3> QED
      BY <3>1 DEF AllOffered
  <2> QED
    BY <2>1, OnTimeInit
<1>2. Init => AllTidy /\ NoneLeft
  BY FormsInit
<1>3. IInv /\ AllTidy /\ NoneLeft /\ [Next]_vars => AllTidy' /\ NoneLeft'
  BY FormsNext
<1>4. IInv /\ EInv /\ [Next]_vars => EInv'
  BY OfferedNext
<1>5. IInv /\ AllTidy /\ NoneLeft /\ EInv => EntryPointsInstalled
  <2> DEFINE Left == {d \in seen : (Decl[d].commands \/ Decl[d].demand) /\ d \notin inited}
  <2> SUFFICES ASSUME IInv, AllTidy, NoneLeft, OnTime, AllOffered, Exhausted, lost = {}, Left # {}
               PROVE  FALSE
    BY DEF EntryPointsInstalled
  <2>1. seen \subseteq Decls
    BY DEF IInv, TypeOK
  <2>2. PICK d \in Left : \A e \in Left : rank[d] <= rank[e]
    <3> DEFINE ranks == {rank[e] : e \in Left}
    <3>1. ranks \in SUBSET Nat /\ ranks # {}
      BY <2>1
    <3>2. \E n \in ranks : \A m \in ranks : n <= m
      <4> HIDE DEF ranks
      <4> QED
        BY <3>1, LeastNumber
    <3> QED
      BY <3>2
  <2>3. todo = <<>> /\ Range(todo) = {}
    BY ShortSequences DEF Exhausted, AtRest
  <2>4. PICK f \in Range(Decl[d].after) : f \notin loaded
    BY <2>3, WaitsForOne
  <2>5. f \notin EarlyLibraries \cup Elsewhere
    BY <2>3, <2>4, EarlyLoaded DEF Exhausted
  <2>6. PICK e \in Decls :
          /\ Certain(e) /\ Decl[e].commands /\ ~Decl[e].demand
          /\ Decl[e].feature = f /\ f \notin Missing
          /\ rank[e] < rank[d]
    BY <2>1, <2>4, <2>5 DEF Grounded
  <2>7. e \in seen
    BY <2>3, <2>6 DEF OnTime
  <2>8. e \notin Left
    <3>1. rank[d] \in Nat /\ rank[e] \in Nat
      BY <2>1
    <3> QED
      BY <2>2, <2>6, <3>1
  <2>9. e \in autoloads \/ f \in loaded
    BY <2>6, <2>7, <2>8 DEF AllOffered, Offered, Bound
  <2> QED
    BY <2>4, <2>6, <2>9 DEF Exhausted
<1> HIDE DEF EInv
<1> QED
  BY <1>1, <1>2, <1>3, <1>4, <1>5, Invariance, PTL DEF Spec

(***************************************************************************)
(* Errors that stop at the end of an `ignore-errors'.                      *)
(***************************************************************************)

\* A form is evaluated or not to be evaluated, or it is ahead, behind all catches.
Past(d) == Decl[d].disabled \/ ~Holds(d) \/ d \in seen
Ahead(d) ==
    \E i \in DOMAIN todo :
      todo[i] = Use(d) /\ \A k \in DOMAIN todo : todo[k].op = "catch" => k < i

\* While .emacs is read, the tasks outside W have a catch behind them, and the forms
\* B are past or ahead.
Contained(W, B) ==
    /\ phase # "error"
    /\ phase = "init" =>
         /\ \A i \in DOMAIN todo :
              todo[i] \in W \/ \E k \in DOMAIN todo : k > i /\ todo[k].op = "catch"
         /\ \A d \in B : Past(d) \/ Ahead(d)
    /\ phase # "init" => \A d \in B : Past(d)

\* Dependable work gives rise to dependable work.
LEMMA WithinWork ==
    ASSUME NEW G, NEW H, Dependable(G, H), IInv, NEW w, Rewrites(w), Now \in Within(G, H)
    PROVE  Range(w) \subseteq Within(G, H)
<1> SUFFICES ASSUME NEW t \in Range(w) PROVE t \in Within(G, H)
  OBVIOUS
<1>1. Now \in Task /\ Brings(w) /\ w \in Seq(Task)
  BY HeadReady DEF Rewrites
<1>2. t \in Task
  BY <1>1, RangeOfSeq
<1>3. /\ Now.op \in DeclOps \cup {"await"} => Now.arg \in Decls
      /\ Now.op \in FeatureOps => Now.arg \in Features
      /\ Now.op \in DeclOps \cup FeatureOps \cup {"await"}
  BY <1>1, TaskArgs DEF Task
<1>4. /\ Now.op \in DeclOps \cup {"await"} /\ Now.op # "catch" => Now.arg \in G
      /\ Now.op \in FeatureOps => Now.arg \in H
  BY DEF Within, DeclOps, FeatureOps
<1>5. ASSUME NEW d \in G, t.op \in DeclOps \cup {"await"}, t.arg = d PROVE t \in Within(G, H)
  BY <1>2, <1>5 DEF Within
<1>6. ASSUME t.op \in FeatureOps, t.arg \in H PROVE t \in Within(G, H)
  BY <1>2, <1>6 DEF Within
<1>7. CASE Now.op \in DeclOps \cup {"await"} /\ Now.op # "catch"
  <2>1. PICK d \in G \cap Decls : d = Now.arg
    BY <1>3, <1>4, <1>7
  <2>2. /\ Decl[d].feature \in H
        /\ Range(Decl[d].init) \cup Range(Decl[d].config) \subseteq Within(G, H)
    BY DEF Dependable
  <2>3. \/ t \in Range(Decl[d].init) \cup Range(Decl[d].config)
        \/ t.op \in DeclOps \cup {"await"} /\ t.arg = d
        \/ t.op = "load" /\ t.arg = Decl[d].feature
    BY <1>1, <1>7, <2>1, ScriptWorkOps DEF Brings, DeclOps, Call
  <2>4. "load" \in FeatureOps
    BY DEF FeatureOps
  <2> QED
    BY <1>5, <1>6, <2>2, <2>3, <2>4
<1>8. CASE Now.op = "catch"
  BY <1>1, <1>8 DEF Brings
<1>9. CASE Now.op \in {"require", "load"}
  <2>1. PICK f \in H \cap Features : f = Now.arg
    BY <1>3, <1>4, <1>9 DEF FeatureOps
  <2>2. Range(Requires[f]) \subseteq H
    BY DEF Dependable
  <2>3. t.op \in FeatureOps /\ t.arg \in {f} \cup Range(Requires[f])
    BY <1>1, <1>9, <2>1, ScriptWorkOps DEF Brings, FeatureOps, Require
  <2> QED
    BY <1>6, <2>2, <2>3
<1>10. CASE Now.op = "provide"
  <2>1. PICK f \in H \cap Features : f = Now.arg
    BY <1>3, <1>4, <1>10 DEF FeatureOps
  <2>2. t \in Range(afterLoad[f])
    BY <1>1, <1>10, <2>1 DEF Brings
  <2>3. Stored(f, t) /\ t.op \in {"await", "config"}
    BY <2>2 DEF IInv, QueuesReady, Stored
  <2>4. PICK d \in Decls : d = t.arg
    BY <1>2, <2>3, TaskArgs DEF DeclOps
  <2>5. f \in {Decl[d].feature} \cup Range(Decl[d].after)
    <3>1. CASE t.op = "config"
      BY <2>3, <2>4, <3>1 DEF Stored
    <3>2. CASE t.op = "await"
      <4>1. PICK n \in Nat : n = t.left
        BY <1>2, <3>2, TaskArgs
      <4>2. n < Len(Decl[d].after) /\ f = Decl[d].after[n + 1]
        BY <2>3, <2>4, <3>2, <4>1 DEF Stored
      <4>3. Decl[d].after \in Seq(Features)
        BY DeclTypes
      <4>4. Len(Decl[d].after) \in Nat /\ DOMAIN Decl[d].after = 1 .. Len(Decl[d].after)
        BY <4>3, LenProperties
      <4>5. n + 1 \in DOMAIN Decl[d].after
        BY <4>2, <4>4
      <4> QED
        BY <4>2, <4>5 DEF Range
    <3> QED
      BY <2>3, <3>1, <3>2
  <2>6. d \in G
    BY <2>5 DEF Dependable
  <2> QED
    BY <1>5, <2>3, <2>4, <2>6 DEF DeclOps
<1> QED
  BY <1>3, <1>7, <1>8, <1>9, <1>10 DEF FeatureOps

\* Work that fails is not dependable.
LEMMA FailsOutside ==
    ASSUME NEW G, NEW H, Dependable(G, H), IInv, InitFails \/ ConfigFails \/ LoadMissing
    PROVE  Now \notin Within(G, H)
<1>1. todo # <<>>
  BY DEF InitFails, ConfigFails, LoadMissing, Doing
<1>2. Now \in Task
  BY <1>1, HeadReady
<1>3. CASE InitFails \/ ConfigFails
  <2>1. Now.op \in {"settle", "configured"} /\ Now.arg \in Faulty
    BY <1>3 DEF InitFails, ConfigFails, Doing
  <2>2. Now.arg \in Decls
    BY <1>2, <2>1, TaskArgs DEF DeclOps
  <2> QED
    BY <2>1, <2>2 DEF Within, Dependable, FeatureOps
<1>4. CASE LoadMissing
  <2>1. Now.op = "load" /\ Now.arg \in Missing
    BY <1>4 DEF LoadMissing, Doing
  <2>2. Now.arg \in Features
    BY <1>2, <2>1, TaskArgs DEF FeatureOps
  <2> QED
    BY <2>1, <2>2 DEF Within, Dependable, DeclOps
<1> QED
  BY <1>3, <1>4

\* Steps without an error: a catch stays behind what it was behind.
LEMMA ContainedKept ==
    ASSUME NEW W, NEW B, IInv, Contained(W, B), NEW w, Rewrites(w),
           Now \in W => Range(w) \subseteq W
    PROVE  Contained(W, B)'
<1>1. todo \in Seq(Task) /\ todo # <<>> /\ w \in Seq(Task) /\ todo' = w \o Tail(todo)
  BY DEF IInv, TypeOK, Rewrites
<1>2. PICK m \in Nat, n \in Nat :
        /\ DOMAIN w = 1 .. m /\ DOMAIN todo = 1 .. n + 1
        /\ DOMAIN todo' = 1 .. m + n
        /\ \A i \in 1 .. m : todo'[i] = w[i]
        /\ \A i \in 1 .. n : todo'[m + i] = todo[i + 1]
  BY <1>1, Positions
<1>3. Keeps(w) /\ seen \subseteq seen' /\ UNCHANGED <<env, phase>> /\ phase # "error"
  BY DEF Rewrites, Marks, Contained
<1>4. \A d : Past(d) => Past(d)'
  BY <1>3 DEF Past, Holds
<1>5. CASE phase # "init"
  BY <1>3, <1>4, <1>5 DEF Contained
<1>6. CASE phase = "init"
  <2>1. \A i \in 1 .. n + 1 :
          todo[i] \in W \/ \E k \in 1 .. n + 1 : k > i /\ todo[k].op = "catch"
    BY <1>2, <1>6 DEF Contained
  <2>2. ASSUME NEW k \in 1 .. n + 1, k > 1, todo[k].op = "catch"
        PROVE  m + (k - 1) \in DOMAIN todo' /\ todo'[m + (k - 1)].op = "catch"
    <3>1. k - 1 \in 1 .. n /\ m + (k - 1) \in 1 .. m + n /\ (k - 1) + 1 = k
      BY <2>2
    <3> QED
      BY <1>2, <2>2, <3>1
  <2>3. ASSUME NEW i \in 1 .. m
        PROVE  todo'[i] \in W \/ \E k \in DOMAIN todo' : k > i /\ todo'[k].op = "catch"
    <3>1. todo'[i] = w[i] /\ w[i] \in Range(w)
      BY <1>2 DEF Range
    <3>2. CASE todo[1] \in W
      BY <3>1, <3>2 DEF Now
    <3>3. CASE todo[1] \notin W
      <4>1. 1 \in 1 .. n + 1
        OBVIOUS
      <4>2. PICK k \in 1 .. n + 1 : k > 1 /\ todo[k].op = "catch"
        BY <2>1, <3>3, <4>1
      <4>3. m + (k - 1) > i
        BY <4>2
      <4> QED
        BY <2>2, <4>2, <4>3
    <3> QED
      BY <3>2, <3>3
  <2>4. ASSUME NEW j \in 1 .. n
        PROVE  \/ todo'[m + j] \in W
               \/ \E k \in DOMAIN todo' : k > m + j /\ todo'[k].op = "catch"
    <3>1. todo'[m + j] = todo[j + 1] /\ j + 1 \in 1 .. n + 1
      BY <1>2
    <3>2. CASE todo[j + 1] \notin W
      <4>1. PICK k \in 1 .. n + 1 : k > j + 1 /\ todo[k].op = "catch"
        BY <2>1, <3>1, <3>2
      <4>2. k > 1 /\ m + (k - 1) > m + j
        BY <4>1
      <4> QED
        BY <2>2, <4>1, <4>2
    <3> QED
      BY <3>1, <3>2
  <2>5. \A i \in 1 .. m + n : i \in 1 .. m \/ \E j \in 1 .. n : i = m + j
    <3> SUFFICES ASSUME NEW i \in 1 .. m + n, i \notin 1 .. m PROVE \E j \in 1 .. n : i = m + j
      OBVIOUS
    <3>1. i - m \in 1 .. n /\ i = m + (i - m)
      OBVIOUS
    <3> QED
      BY <3>1
  <2>6. \A i \in DOMAIN todo' :
          todo'[i] \in W \/ \E k \in DOMAIN todo' : k > i /\ todo'[k].op = "catch"
    <3> SUFFICES ASSUME NEW i \in 1 .. m + n
                 PROVE  todo'[i] \in W \/ \E k \in DOMAIN todo' : k > i /\ todo'[k].op = "catch"
      BY <1>2
    <3>1. CASE i \in 1 .. m
      BY <2>3, <3>1
    <3>2. ASSUME NEW j \in 1 .. n, i = m + j
          PROVE  todo'[i] \in W \/ \E k \in DOMAIN todo' : k > i /\ todo'[k].op = "catch"
      BY <2>4, <3>2
    <3> QED
      BY <2>5, <3>1, <3>2
  <2>7. ASSUME NEW d \in B, Ahead(d) PROVE Past(d)' \/ Ahead(d)'
    <3>1. PICK i \in 1 .. n + 1 :
            todo[i] = Use(d) /\ \A k \in 1 .. n + 1 : todo[k].op = "catch" => k < i
      BY <1>2, <2>7 DEF Ahead
    <3>2. CASE i = 1
      <4>1. Now.op = "use" /\ Now.arg = d
        BY <3>1, <3>2, ScriptWorkOps DEF Now, Use
      <4>2. Decl[d].disabled \/ ~Holds(d) \/ d \in seen'
        BY <1>3, <4>1 DEF Keeps
      <4> QED
        BY <1>3, <4>2 DEF Past, Holds
    <3>3. CASE i # 1
      <4>1. i - 1 \in 1 .. n /\ (i - 1) + 1 = i /\ m + (i - 1) \in 1 .. m + n
        BY <3>3
      <4>2. todo'[m + (i - 1)] = Use(d)
        BY <1>2, <3>1, <4>1
      <4>3. ASSUME NEW k \in 1 .. m + n, todo'[k].op = "catch" PROVE k < m + (i - 1)
        <5>1. CASE k \in 1 .. m
          BY <4>1, <5>1
        <5>2. ASSUME NEW j \in 1 .. n, k = m + j PROVE k < m + (i - 1)
          <6>1. todo[j + 1].op = "catch" /\ j + 1 \in 1 .. n + 1
            BY <1>2, <4>3, <5>2
          <6>2. j + 1 < i
            BY <3>1, <6>1
          <6> QED
            BY <5>2, <6>2
        <5> QED
          BY <2>5, <5>1, <5>2
      <4> QED
        BY <1>2, <4>1, <4>2, <4>3 DEF Ahead
    <3> QED
      BY <3>2, <3>3
  <2>8. \A d \in B : Past(d) \/ Ahead(d)
    BY <1>6 DEF Contained
  <2> QED
    BY <1>3, <1>4, <1>6, <2>6, <2>7, <2>8 DEF Contained
<1> QED
  BY <1>5, <1>6

\* An error: the nearest catch is before all that is ahead.
LEMMA ContainedSignal ==
    ASSUME NEW W, NEW B, IInv, Contained(W, B), InitFails \/ ConfigFails \/ LoadMissing,
           Now \notin W
    PROVE  Contained(W, B)'
<1>1. todo # <<>> /\ Signal /\ UNCHANGED <<env, seen>>
  BY DEF InitFails, ConfigFails, LoadMissing, Doing
<1>2. todo \in Seq(Task) /\ Len(todo) \in Nat \ {0} /\ DOMAIN todo = 1 .. Len(todo)
  <2>1. todo \in Seq(Task)
    BY DEF IInv, TypeOK
  <2> QED
    BY <1>1, <2>1, EmptySeq, LenProperties
<1>3. phase # "error" /\ \A d : Past(d) => Past(d)'
  BY <1>1 DEF Contained, Past, Holds
<1>4. CASE phase # "init"
  <2>1. phase' = phase
    BY <1>1, <1>4 DEF Signal
  <2> QED
    BY <1>3, <1>4, <2>1 DEF Contained
<1>5. CASE phase = "init"
  <2>1. Catches # {}
    <3>1. 1 \in DOMAIN todo
      BY <1>2
    <3>2. \E k \in DOMAIN todo : todo[k].op = "catch"
      BY <1>5, <3>1 DEF Contained, Now
    <3> QED
      BY <1>2, <3>2 DEF Catches
  <2>2. PICK n \in Catches :
          /\ \A i \in Catches : n <= i
          /\ todo' = SubSeq(todo, n, Len(todo))
          /\ phase' = phase
    BY <1>1, <2>1 DEF Signal
  <2>3. PICK l \in Nat : l = Len(todo)
    BY <1>2
  <2>4. n \in 1 .. l /\ todo[n].op = "catch"
    BY <2>3 DEF Catches
  <2>5. PICK r \in Nat : r = l - n + 1
    <3>1. l - n + 1 \in Nat
      BY <2>4
    <3> QED
      BY <3>1
  <2>6. /\ DOMAIN todo' = 1 .. r
        /\ \A i \in 1 .. r : todo'[i] = todo[n + i - 1]
    <3>1. \A i \in n .. l : todo[i] \in Task
      BY <1>2, <2>3, <2>4, ElementOfSeq
    <3>2. /\ todo' \in Seq(Task) /\ Len(todo') = r
          /\ \A i \in 1 .. r : todo'[i] = todo[n + i - 1]
      BY <2>2, <2>3, <2>4, <2>5, <3>1, SubSeqProperties
    <3> QED
      BY <3>2, LenProperties
  <2>7. ASSUME NEW i \in 1 .. l, i >= n
        PROVE  i - n + 1 \in 1 .. r /\ todo'[i - n + 1] = todo[i]
    <3>1. i - n + 1 \in 1 .. r /\ n + (i - n + 1) - 1 = i
      BY <2>4, <2>5, <2>7
    <3> QED
      BY <2>6, <3>1
  <2>8. ASSUME NEW i \in 1 .. r
        PROVE  todo'[i] \in W \/ \E k \in 1 .. r : k > i /\ todo'[k].op = "catch"
    <3>1. PICK j \in 1 .. l : j = n + i - 1 /\ todo'[i] = todo[j]
      <4>1. n + i - 1 \in 1 .. l
        BY <2>4, <2>5
      <4> QED
        BY <2>6, <4>1
    <3>2. CASE todo[j] \notin W
      <4>1. PICK k \in 1 .. l : k > j /\ todo[k].op = "catch"
        BY <1>2, <1>5, <2>3, <3>2 DEF Contained
      <4>2. k >= n /\ k - n + 1 > i
        BY <2>4, <3>1, <4>1
      <4> QED
        BY <2>7, <4>1, <4>2
    <3> QED
      BY <3>1, <3>2
  <2>9. ASSUME NEW d \in B, Ahead(d) PROVE Ahead(d)'
    <3>1. PICK i \in 1 .. l :
            todo[i] = Use(d) /\ \A k \in 1 .. l : todo[k].op = "catch" => k < i
      BY <1>2, <2>3, <2>9 DEF Ahead
    <3>2. n < i
      BY <2>4, <3>1
    <3>3. i - n + 1 \in 1 .. r /\ todo'[i - n + 1] = Use(d)
      BY <2>4, <2>7, <3>1, <3>2
    <3>4. ASSUME NEW k \in 1 .. r, todo'[k].op = "catch" PROVE k < i - n + 1
      <4>1. n + k - 1 \in 1 .. l /\ todo[n + k - 1].op = "catch"
        BY <2>4, <2>5, <2>6, <3>4
      <4>2. n + k - 1 < i
        BY <3>1, <4>1
      <4> QED
        BY <2>4, <4>2
    <3> QED
      BY <2>6, <3>3, <3>4 DEF Ahead
  <2>10. \A d \in B : Past(d) \/ Ahead(d)
    BY <1>5 DEF Contained
  <2> QED
    BY <1>3, <1>5, <2>2, <2>6, <2>8, <2>9, <2>10 DEF Contained
<1> QED
  BY <1>4, <1>5

\* At the end of .emacs nothing is ahead any more.
LEMMA ContainedStarts ==
    ASSUME NEW W, NEW B, IInv, Contained(W, B), Begins PROVE Contained(W, B)'
<1>1. todo = <<>> /\ phase' # "error" /\ phase' # "init" /\ UNCHANGED <<env, seen>>
  BY Starting
<1>2. DOMAIN todo = {}
  BY <1>1
<1>3. \A d \in B : Past(d)
  BY <1>2 DEF Contained, Ahead
<1>4. \A d \in B : Past(d)'
  BY <1>1, <1>3 DEF Past, Holds
<1> QED
  BY <1>1, <1>4 DEF Contained

LEMMA ContainedNext ==
    ASSUME NEW G, NEW H, Dependable(G, H), NEW B
    PROVE  IInv /\ Contained(Within(G, H), B) /\ [Next]_vars => Contained(Within(G, H), B)'
<1>1. PICK W : W = Within(G, H)
  OBVIOUS
<1> SUFFICES ASSUME IInv, Contained(W, B), [Next]_vars PROVE Contained(W, B)'
  BY <1>1 DEF Contained, Within
<1>2. CASE UNCHANGED vars
  BY <1>2 DEF vars, Contained, Past, Ahead, Holds
<1>3. CASE InitFails \/ ConfigFails \/ LoadMissing
  BY <1>1, <1>3, FailsOutside, ContainedSignal
<1>4. CASE Evaluate /\ ~(InitFails \/ ConfigFails \/ LoadMissing)
  <2>1. PICK w : Rewrites(w)
    BY <1>4, Rewriting
  <2> QED
    BY <1>1, <2>1, WithinWork, ContainedKept
<1>5. CASE Begins
  BY <1>5, ContainedStarts
<1> QED
  BY <1>2, <1>3, <1>4, <1>5 DEF Next, Begins

\* When all that may fail, or may start work that fails, comes before the end of an
\* `ignore-errors' and does not share libraries with what comes behind the last one,
\* the debugger never opens and what is behind is evaluated, whatever fails.
THEOREM FailuresContained ==
    ASSUME NEW G, NEW H, Dependable(G, H)
    PROVE  Spec => []ErrorsContained
<1> DEFINE CInv == Contained(Within(G, H), BehindCatches)
<1>1. Init => CInv
  <2> SUFFICES ASSUME Init PROVE CInv
    OBVIOUS
  <2>1. todo = DotEmacs /\ phase = "init"
    BY DEF Init
  <2>2. \A d \in BehindCatches : Ahead(d)
    BY <2>1 DEF BehindCatches, Ahead
  <2> QED
    BY <2>1, <2>2 DEF Contained, Dependable
<1>2. IInv /\ CInv /\ [Next]_vars => CInv'
  BY ContainedNext
<1>3. CInv => ErrorsContained
  BY DEF Contained, ErrorsContained, Past
<1> HIDE DEF CInv
<1> QED
  BY <1>1, <1>2, <1>3, Invariance, PTL DEF Spec

=============================================================================
