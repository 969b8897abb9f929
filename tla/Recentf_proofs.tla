--------------------------- MODULE Recentf_proofs ---------------------------
(***************************************************************************)
(* Proofs about Recentf, for any instances, files and limit: types, no     *)
(* list has a file twice, and what is in the merged list.                  *)
(***************************************************************************)
EXTENDS Recentf, Folding, SequenceTheorems, TLAPS

(***************************************************************************)
(* The operators on lists.                                                 *)
(***************************************************************************)

List(s) == s \in Seq(Files) /\ Distinct(s)

\* Both lists' files are in a merged list, each once.
LEMMA PushedOnce ==
    ASSUME NEW s, List(s), NEW f \in Files, f \notin Range(s)
    PROVE  List(<<f>> \o s) /\ Range(<<f>> \o s) = Range(s) \cup {f}
<1> DEFINE t == <<f>> \o s
<1>1. /\ t \in Seq(Files) /\ Len(t) = Len(s) + 1 /\ t[1] = f
      /\ \A n \in 1 .. Len(s) : t[n + 1] = s[n]
  BY DEF List
<1>2. DOMAIN s = 1 .. Len(s) /\ DOMAIN t = 1 .. Len(s) + 1 /\ Len(s) \in Nat
  BY <1>1 DEF List
<1> HIDE DEF t
<1>3. \A n \in DOMAIN t : n = 1 \/ (n - 1 \in DOMAIN s /\ t[n] = s[n - 1])
  BY <1>1, <1>2
<1>4. Range(t) = Range(s) \cup {f}
  <2>1. \A n \in DOMAIN s : n + 1 \in DOMAIN t /\ t[n + 1] = s[n]
    BY <1>1, <1>2
  <2>2. 1 \in DOMAIN t
    BY <1>2
  <2>3. Range(t) \subseteq Range(s) \cup {f}
    BY <1>1, <1>3 DEF Range
  <2>4. Range(s) \subseteq Range(t) /\ f \in Range(t)
    BY <1>1, <2>1, <2>2 DEF Range
  <2> QED
    BY <2>3, <2>4
<1>5. Distinct(t)
  <2> SUFFICES ASSUME NEW m \in DOMAIN t, NEW n \in DOMAIN t, t[m] = t[n], m # n
               PROVE  FALSE
    BY DEF Distinct
  <2>1. m = 1 \/ n = 1 => f \in Range(s)
    BY <1>1, <1>3 DEF Range
  <2>2. m - 1 \in DOMAIN s /\ n - 1 \in DOMAIN s /\ s[m - 1] = s[n - 1]
    BY <1>3, <2>1
  <2>3. m - 1 = n - 1
    BY <2>2 DEF List, Distinct
  <2> QED
    BY <1>2, <2>3
<1> QED
  BY <1>1, <1>4, <1>5 DEF List, t

LEMMA MergeSteps ==
    ASSUME NEW old, List(old), NEW other, List(other)
    PROVE  \E h \in [0 .. Len(other) -> Seq(Files)] :
             /\ h[0] = old /\ h[Len(other)] = Merge(old, other)
             /\ \A k \in 1 .. Len(other) :
                  h[k] = IF other[k] \in Range(h[k - 1]) THEN h[k - 1]
                         ELSE <<other[k]>> \o h[k - 1]
<1> DEFINE V == Seq(Files)
           len == Len(other)
           op == [p \in V \X (1 .. len) |->
                    IF other[p[2]] \in Range(p[1]) THEN p[1] ELSE <<other[p[2]]>> \o p[1]]
           Is(g) == g = [s \in SUBSET (1 .. len) |->
                           IF s = {} THEN old
                           ELSE LET x == Max(s)
                                IN IF other[x] \in Range(g[s \ {x}]) THEN g[s \ {x}]
                                   ELSE <<other[x]>> \o g[s \ {x}]]
           iter == CHOOSE g : Is(g)
<1>1. len \in Nat /\ old \in V /\ DOMAIN other = 1 .. len /\ \A k \in 1 .. len : other[k] \in Files
  BY DEF List
<1>2. op \in [V \X (1 .. len) -> V]
  BY <1>1
<1>3. Merge(old, other) = iter[1 .. len]
  BY <1>1 DEF Merge, FoldLeft, MapThenFoldSet
<1> HIDE DEF op
<1>4. PICK g \in [SUBSET (1 .. len) -> V] : FoldsTo(g, old, op, len)
  <2> HIDE DEF V, len
  <2> QED
    BY <1>1, <1>2, FoldExists
<1>5. Is(g)
  <2> SUFFICES ASSUME NEW s \in SUBSET (1 .. len), s # {}
               PROVE  g[s] = IF other[Max(s)] \in Range(g[s \ {Max(s)}]) THEN g[s \ {Max(s)}]
                             ELSE <<other[Max(s)]>> \o g[s \ {Max(s)}]
    BY <1>4 DEF FoldsTo
  <2>1. g[s] = op[<<g[s \ {Max(s)}], Max(s)>>]
    BY <1>4 DEF FoldsTo
  <2>2. Max(s) \in 1 .. len
    <3> HIDE DEF len
    <3> QED
      BY <1>1, MaxOfRange
  <2>3. g[s \ {Max(s)}] \in V
    BY <1>4
  <2> QED
    BY <2>1, <2>2, <2>3 DEF op
<1> HIDE DEF iter
<1>6. Is(iter)
  BY <1>5 DEF iter
<1>7. FoldsIn(V, iter, old, op, len)
  <2>1. iter[{}] = old
    BY <1>6
  <2>2. ASSUME NEW s \in SUBSET (1 .. len), s # {}, iter[s \ {Max(s)}] \in V
        PROVE  iter[s] = op[<<iter[s \ {Max(s)}], Max(s)>>]
    <3>1. Max(s) \in 1 .. len
      <4> HIDE DEF len
      <4> QED
        BY <1>1, <2>2, MaxOfRange
    <3>2. iter[s] = IF other[Max(s)] \in Range(iter[s \ {Max(s)}]) THEN iter[s \ {Max(s)}]
                    ELSE <<other[Max(s)]>> \o iter[s \ {Max(s)}]
      BY <1>6, <2>2
    <3> QED
      BY <2>2, <3>1, <3>2 DEF op
  <2> QED
    BY <2>1, <2>2 DEF FoldsIn
<1>8. PICK h \in [0 .. len -> V] :
        /\ h[0] = old /\ h[len] = iter[1 .. len]
        /\ \A k \in 1 .. len : h[k] = op[<<h[k - 1], k>>]
  <2> HIDE DEF V, len, Is
  <2>1. \E h \in [0 .. len -> V] : Steps(h, old, op, len, iter[1 .. len])
    BY <1>1, <1>2, <1>7, FoldSteps
  <2> QED
    BY <2>1 DEF Steps
<1>9. ASSUME NEW k \in 1 .. len
       PROVE  h[k] = IF other[k] \in Range(h[k - 1]) THEN h[k - 1]
                     ELSE <<other[k]>> \o h[k - 1]
  <2>1. h[k] = op[<<h[k - 1], k>>] /\ k - 1 \in 0 .. len
    BY <1>8
  <2>2. h[k - 1] \in V
    BY <1>8, <2>1
  <2> QED
    BY <2>1, <2>2 DEF op
<1> QED
  BY <1>3, <1>8, <1>9

\* What a merge gives: every file of both lists, once.
LEMMA MergeGives ==
    ASSUME NEW old, List(old), NEW other, List(other)
    PROVE  List(Merge(old, other)) /\ Range(Merge(old, other)) = Range(old) \cup Range(other)
<1> DEFINE len == Len(other)
<1>1. PICK h \in [0 .. len -> Seq(Files)] :
        /\ h[0] = old /\ h[len] = Merge(old, other)
        /\ \A k \in 1 .. len :
             h[k] = IF other[k] \in Range(h[k - 1]) THEN h[k - 1]
                    ELSE <<other[k]>> \o h[k - 1]
  BY MergeSteps
<1>2. len \in Nat /\ DOMAIN other = 1 .. len /\ \A k \in 1 .. len : other[k] \in Files
  BY DEF List
<1> DEFINE Taken(n) == {other[k] : k \in 1 .. n}
           Good(n) == n <= len => List(h[n]) /\ Range(h[n]) = Range(old) \cup Taken(n)
           S == {n \in Nat : Good(n)}
<1> HIDE DEF len
<1>3. 0 \in S
  BY <1>1
<1>4. ASSUME NEW n \in Nat, n \in S
      PROVE  n + 1 \in S
  <2> SUFFICES ASSUME n + 1 <= len
               PROVE  List(h[n + 1]) /\ Range(h[n + 1]) = Range(old) \cup Taken(n + 1)
    OBVIOUS
  <2>1. List(h[n]) /\ Range(h[n]) = Range(old) \cup Taken(n)
    BY <1>2, <1>4
  <2> DEFINE f == other[n + 1]
  <2>2. f \in Files /\ n + 1 \in 1 .. len /\ (n + 1) - 1 = n
    BY <1>2
  <2>3. h[n + 1] = IF f \in Range(h[n]) THEN h[n] ELSE <<f>> \o h[n]
    BY <1>1, <2>2
  <2>4. Taken(n + 1) = Taken(n) \cup {f}
    <3>1. 1 .. n + 1 = (1 .. n) \cup {n + 1}
      OBVIOUS
    <3> QED
      BY <3>1
  <2> HIDE DEF f, Taken
  <2>5. CASE f \in Range(h[n])
    BY <2>1, <2>3, <2>4, <2>5
  <2>6. CASE f \notin Range(h[n])
    <3>1. List(<<f>> \o h[n]) /\ Range(<<f>> \o h[n]) = Range(h[n]) \cup {f}
      BY <2>1, <2>2, <2>6, PushedOnce
    <3> QED
      BY <2>1, <2>3, <2>4, <2>6, <3>1
  <2> QED
    BY <2>5, <2>6
<1>5. Nat \subseteq S
  <2> HIDE DEF S
  <2> QED
    BY <1>3, <1>4, SetInduction
<1>6. List(Merge(old, other)) /\ Range(Merge(old, other)) = Range(old) \cup Taken(len)
  <2>1. Good(len)
    BY <1>2, <1>5
  <2> HIDE DEF Taken
  <2> QED
    BY <1>1, <1>2, <2>1
<1>7. Taken(len) = Range(other)
  BY <1>2 DEF Range
<1> QED
  BY <1>6, <1>7

\* The list without one file: what is left of it, still each file once.
LEMMA RemovedGives ==
    ASSUME NEW s, List(s), NEW f \in Files
    PROVE  List(RemoveFirst(s, f)) /\ Range(RemoveFirst(s, f)) = Range(s) \ {f}
<1> DEFINE len == Len(s)
           I == {i \in 1 .. len : s[i] = f}
<1>1. len \in Nat /\ DOMAIN s = 1 .. len /\ \A k \in 1 .. len : s[k] \in Files
  BY DEF List
<1>2. \A m, n \in 1 .. len : s[m] = s[n] => m = n
  BY <1>1 DEF List, Distinct
<1>3. CASE I = {}
  <2>1. RemoveFirst(s, f) = s
    BY <1>3 DEF RemoveFirst
  <2>2. f \notin Range(s)
    BY <1>1, <1>3 DEF Range
  <2> QED
    BY <2>1, <2>2
<1>4. CASE I # {}
  <2> DEFINE x == Min(I)
             t == RemoveAt(s, x)
  <2>1. RemoveFirst(s, f) = t
    BY <1>1, <1>4 DEF RemoveFirst, SelectInSeq
  <2>2. x \in I
    <3>1. I \in SUBSET Nat
      OBVIOUS
    <3> HIDE DEF I
    <3>2. PICK n \in I : \A m \in I : n <= m
      BY <1>4, <3>1, LeastNumber
    <3> QED
      BY <3>2 DEF Min
  <2> HIDE DEF x
  <2>3. x \in 1 .. len /\ s[x] = f
    BY <2>2
  <2>4. /\ t \in Seq(Files) /\ Len(t) = len - 1 /\ DOMAIN t = 1 .. len - 1
        /\ \A k \in 1 .. len - 1 : t[k] = IF k < x THEN s[k] ELSE s[k + 1]
    <3> DEFINE a == SubSeq(s, 1, x - 1)
               b == SubSeq(s, x + 1, len)
    <3>1. s \in Seq(Files) /\ len = Len(s)
      BY DEF List
    <3> HIDE DEF len
    <3>2. a \in Seq(Files) /\ Len(a) = x - 1 /\ \A k \in 1 .. x - 1 : a[k] = s[k]
      BY <1>1, <2>3, <3>1
    <3>3. b \in Seq(Files) /\ Len(b) = len - x /\ \A k \in 1 .. len - x : b[k] = s[x + k]
      <4>1. \A k \in x + 1 .. len : s[k] \in Files
        BY <1>1, <2>3
      <4>2. x + 1 \in Int /\ len \in Int
        BY <1>1, <2>3
      <4>3. /\ b \in Seq(Files)
            /\ Len(b) = IF x + 1 <= len THEN len - (x + 1) + 1 ELSE 0
            /\ \A k \in 1 .. len - (x + 1) + 1 : b[k] = s[(x + 1) + k - 1]
        BY <4>1, <4>2, SubSeqProperties
      <4> HIDE DEF b
      <4> QED
        BY <1>1, <2>3, <4>3
    <3>4. t = a \o b
      BY <3>1 DEF RemoveAt
    <3> HIDE DEF a, b, t
    <3>5. t \in Seq(Files) /\ Len(t) = len - 1
      <4>1. t \in Seq(Files) /\ Len(t) = Len(a) + Len(b)
        BY <3>2, <3>3, <3>4, ConcatProperties
      <4> QED
        BY <1>1, <2>3, <3>2, <3>3, <4>1
    <3>6. ASSUME NEW k \in 1 .. len - 1
          PROVE  t[k] = IF k < x THEN s[k] ELSE s[k + 1]
      <4>1. CASE k < x
        BY <1>1, <2>3, <3>2, <3>3, <3>4, <4>1
      <4>2. CASE ~(k < x)
        <5>1. t[k] = b[k - (x - 1)] /\ k - (x - 1) \in 1 .. len - x
          BY <1>1, <2>3, <3>2, <3>3, <3>4, <4>2
        <5>2. b[k - (x - 1)] = s[x + (k - (x - 1))] /\ x + (k - (x - 1)) = k + 1
          BY <1>1, <2>3, <3>3, <5>1
        <5> QED
          BY <4>2, <5>1, <5>2
      <4> QED
        BY <4>1, <4>2
    <3> QED
      BY <1>1, <3>5, <3>6
  <2> HIDE DEF t, I
  <2>5. \A k \in 1 .. len : k # x =>
          LET n == IF k < x THEN k ELSE k - 1 IN n \in 1 .. len - 1 /\ t[n] = s[k]
    BY <1>1, <2>3, <2>4
  <2> HIDE DEF len
  <2>6. Range(t) \subseteq Range(s) \ {f}
    <3> SUFFICES ASSUME NEW k \in 1 .. len - 1
                 PROVE  t[k] \in Range(s) \ {f}
      BY <2>4 DEF Range
    <3> DEFINE n == IF k < x THEN k ELSE k + 1
    <3>1. n \in 1 .. len /\ n # x /\ t[k] = s[n]
      BY <1>1, <2>3, <2>4
    <3> QED
      BY <1>1, <1>2, <2>3, <3>1 DEF Range
  <2>7. Range(s) \ {f} \subseteq Range(t)
    <3> SUFFICES ASSUME NEW k \in 1 .. len, s[k] # f
                 PROVE  s[k] \in Range(t)
      BY <1>1 DEF Range
    <3> QED
      BY <2>3, <2>4, <2>5 DEF Range
  <2>8. Distinct(t)
    <3> SUFFICES ASSUME NEW j \in 1 .. len - 1, NEW k \in 1 .. len - 1, t[j] = t[k]
                 PROVE  j = k
      BY <2>4 DEF Distinct
    <3> DEFINE At(n) == IF n < x THEN n ELSE n + 1
    <3>1. /\ At(j) \in 1 .. len /\ t[j] = s[At(j)]
          /\ At(k) \in 1 .. len /\ t[k] = s[At(k)]
      BY <1>1, <2>3, <2>4
    <3>2. At(j) = At(k)
      BY <1>2, <3>1
    <3> QED
      BY <1>1, <2>3, <3>2
  <2> QED
    BY <2>1, <2>4, <2>6, <2>7, <2>8 DEF List
<1> QED
  BY <1>3, <1>4

\* No more items than the limit, and all of them or as many as the limit.
LEMMA FirstGives ==
    ASSUME NEW s, List(s)
    PROVE  /\ List(FirstItems(s)) /\ Len(FirstItems(s)) <= Limit
           /\ FirstItems(s) = s \/ Len(FirstItems(s)) = Limit
<1> DEFINE n == IF Len(s) < Limit THEN Len(s) ELSE Limit
           t == SubSeq(s, 1, n)
<1>1. Len(s) \in Nat /\ s \in Seq(Files) /\ n \in 0 .. Len(s) /\ n <= Limit
      /\ (n = Len(s) \/ n = Limit)
  BY LimitAssumption DEF List
<1> HIDE DEF n
<1>2. /\ t \in Seq(Files) /\ Len(t) = n /\ DOMAIN t = 1 .. n
      /\ \A k \in 1 .. n : t[k] = s[k]
  BY <1>1
<1>3. n = Len(s) => t = s
  BY <1>1, <1>2
<1> HIDE DEF t
<1>4. Distinct(t)
  BY <1>1, <1>2 DEF List, Distinct
<1>5. FirstItems(s) = t
  BY DEF FirstItems, t, n
<1> QED
  BY <1>1, <1>2, <1>3, <1>4, <1>5, LimitAssumption DEF List

(***************************************************************************)
(* The invariant.                                                          *)
(***************************************************************************)

\* What an instance holds at each stage: nothing when it does not run, its
\* list alone between saves, and the session's files on two lists meanwhile.
Kept ==
    \A i \in Instances :
      /\ stage[i] \in {"off", "up"} => copy[i] = << >>
      /\ stage[i] = "off" => visited[i] = {} /\ list[i] = << >>
      /\ visited[i] \subseteq Range(list[i]) \cup Range(copy[i])

Types ==
    /\ stage \in [Instances -> Stages]
    /\ visited \in [Instances -> SUBSET Files]
    /\ saved \in BOOLEAN
    /\ list \in [Instances -> Seq(Files)] /\ copy \in [Instances -> Seq(Files)]
    /\ \A i \in Instances : List(list[i]) /\ List(copy[i])
    /\ List(disk) /\ Len(disk) <= Limit
    /\ ~saved => disk = << >>

Inv == Types /\ Kept

LEMMA EmptyList == List(<< >>) /\ Range(<< >>) = {}
  BY DEF List, Distinct, Range

LEMMA InvInit == Init => Inv
<1> SUFFICES ASSUME Init PROVE Inv
  OBVIOUS
<1>1. << >> \in Seq(Files) /\ Len(<< >>) = 0
  OBVIOUS
<1>2. Types
  <2>1. /\ stage \in [Instances -> Stages] /\ visited \in [Instances -> SUBSET Files]
        /\ saved \in BOOLEAN
        /\ list \in [Instances -> Seq(Files)] /\ copy \in [Instances -> Seq(Files)]
    BY <1>1 DEF Init, Stages
  <2>2. \A i \in Instances : List(list[i]) /\ List(copy[i])
    BY EmptyList DEF Init
  <2>3. List(disk) /\ Len(disk) <= Limit /\ disk = << >>
    BY <1>1, EmptyList, LimitAssumption DEF Init
  <2> QED
    BY <2>1, <2>2, <2>3 DEF Types
<1>3. Kept
  BY DEF Init, Kept
<1> QED
  BY <1>2, <1>3 DEF Inv

\* The list that is read is the file's, or the old one.
LEMMA LoadedIsList ==
    ASSUME Types, NEW s, List(s)
    PROVE  List(Loaded(s))
  BY DEF Types, Loaded

LEMMA StartKeeps ==
    ASSUME Inv, NEW i \in Instances, Start(i)
    PROVE  Inv'
<1>1. List(Loaded(list[i])) /\ Loaded(list[i]) \in Seq(Files)
  BY LoadedIsList DEF Inv, Types, List
<1>2. Types'
  BY <1>1 DEF Inv, Types, Start, Stages
<1>3. Kept'
  BY DEF Inv, Types, Kept, Start
<1> QED
  BY <1>2, <1>3 DEF Inv

LEMMA VisitKeeps ==
    ASSUME Inv, NEW i \in Instances, NEW f \in Files, Visit(i, f)
    PROVE  Inv'
<1> DEFINE rest == RemoveFirst(list[i], f)
           new == <<f>> \o rest
<1>1. List(rest) /\ Range(rest) = Range(list[i]) \ {f}
  BY RemovedGives DEF Inv, Types
<1>2. /\ stage[i] = "up" /\ UNCHANGED <<stage, copy, saved, disk>>
      /\ list' = [list EXCEPT ![i] = new] /\ visited' = [visited EXCEPT ![i] = @ \cup {f}]
  BY DEF Visit
<1> HIDE DEF rest
<1>3. List(new) /\ new \in Seq(Files) /\ Range(new) = Range(list[i]) \cup {f}
  <2>1. List(new) /\ Range(new) = Range(rest) \cup {f}
    BY <1>1, PushedOnce
  <2> QED
    BY <1>1, <2>1 DEF List
<1> HIDE DEF new
<1>4. Types'
  BY <1>2, <1>3 DEF Inv, Types
<1>5. Kept'
  BY <1>2, <1>3 DEF Inv, Types, Kept
<1> QED
  BY <1>4, <1>5 DEF Inv

LEMMA BeginSaveKeeps ==
    ASSUME Inv, NEW i \in Instances, NEW next \in {"saving", "exiting"}, BeginSave(i, next)
    PROVE  Inv'
<1>1. List(Loaded(list[i])) /\ Loaded(list[i]) \in Seq(Files)
  BY LoadedIsList DEF Inv, Types, List
<1>2. Types'
  BY <1>1 DEF Inv, Types, BeginSave, Stages
<1> DEFINE new == Loaded(list[i])
<1>3. /\ stage' = [stage EXCEPT ![i] = next] /\ copy' = [copy EXCEPT ![i] = list[i]]
      /\ list' = [list EXCEPT ![i] = new] /\ visited' = visited /\ copy[i] = << >>
  BY DEF BeginSave, Inv, Kept
<1> HIDE DEF new
<1>4. Kept'
  <2> SUFFICES ASSUME NEW j \in Instances
               PROVE  /\ stage'[j] \in {"off", "up"} => copy'[j] = << >>
                      /\ stage'[j] = "off" => visited'[j] = {} /\ list'[j] = << >>
                      /\ visited'[j] \subseteq Range(list'[j]) \cup Range(copy'[j])
    BY DEF Kept
  <2>1. CASE j = i
    BY <1>3, <2>1, EmptyList DEF Inv, Types, Kept
  <2>2. CASE j # i
    BY <1>3, <2>2 DEF Inv, Types, Kept
  <2> QED
    BY <2>1, <2>2
<1> QED
  BY <1>2, <1>4 DEF Inv

\* What comes after a save, whether or not the file was written.
LEMMA FinishKeeps ==
    ASSUME Inv, NEW i \in Instances, Finish(i, Merge(list[i], copy[i])),
           List(disk'), Len(disk') <= Limit, saved' \in BOOLEAN, ~saved' => disk' = << >>
    PROVE  Inv'
<1> DEFINE merged == Merge(list[i], copy[i])
<1>1. /\ List(merged) /\ merged \in Seq(Files)
      /\ Range(merged) = Range(list[i]) \cup Range(copy[i])
  BY MergeGives DEF Inv, Types, List
<1>2. Finish(i, merged)
  OBVIOUS
<1> HIDE DEF merged
<1>3. List(<< >>) /\ << >> \in Seq(Files)
  BY EmptyList
<1>4. CASE stage[i] = "saving"
  <2>1. /\ copy' = [copy EXCEPT ![i] = << >>] /\ stage' = [stage EXCEPT ![i] = "up"]
        /\ list' = [list EXCEPT ![i] = merged] /\ visited' = visited
    BY <1>2, <1>4 DEF Finish
  <2>2. Types'
    BY <1>1, <1>3, <2>1 DEF Inv, Types, Stages
  <2>3. Kept'
    BY <1>1, <2>1 DEF Inv, Types, Kept
  <2> QED
    BY <2>2, <2>3 DEF Inv
<1>5. CASE stage[i] = "exiting"
  <2>1. /\ copy' = [copy EXCEPT ![i] = << >>] /\ stage' = [stage EXCEPT ![i] = "off"]
        /\ list' = [list EXCEPT ![i] = << >>] /\ visited' = [visited EXCEPT ![i] = {}]
    BY <1>2, <1>5 DEF Finish
  <2>2. Types'
    BY <1>3, <2>1 DEF Inv, Types, Stages
  <2>3. Kept'
    BY <2>1 DEF Inv, Types, Kept
  <2> QED
    BY <2>2, <2>3 DEF Inv
<1> QED
  BY <1>2, <1>4, <1>5 DEF Finish

LEMMA CrashKeeps ==
    ASSUME Inv, NEW i \in Instances, Crash(i)
    PROVE  Inv'
<1>1. List(<< >>) /\ << >> \in Seq(Files)
  BY EmptyList
<1>2. Types'
  BY <1>1 DEF Inv, Types, Crash, Stages
<1>3. Kept'
  BY DEF Inv, Types, Kept, Crash
<1> QED
  BY <1>2, <1>3 DEF Inv

LEMMA InvNext == Inv /\ [Next]_vars => Inv'
<1> SUFFICES ASSUME Inv, [Next]_vars PROVE Inv'
  OBVIOUS
<1>1. CASE UNCHANGED vars
  BY <1>1 DEF vars, Inv, Types, Kept
<1>2. ASSUME NEW i \in Instances, Start(i) PROVE Inv'
  BY <1>2, StartKeeps
<1>3. ASSUME NEW i \in Instances, NEW f \in Files, Visit(i, f) PROVE Inv'
  BY <1>3, VisitKeeps
<1>4. ASSUME NEW i \in Instances, NEW next \in {"saving", "exiting"}, BeginSave(i, next)
      PROVE  Inv'
  BY <1>4, BeginSaveKeeps
<1>5. ASSUME NEW i \in Instances, EndSave(i) PROVE Inv'
  <2>1. List(Merge(list[i], copy[i]))
    BY MergeGives DEF Inv, Types
  <2>2. List(disk') /\ Len(disk') <= Limit /\ saved' = TRUE
    BY <1>5, <2>1, FirstGives DEF EndSave, List
  <2>3. Finish(i, Merge(list[i], copy[i]))
    BY <1>5 DEF EndSave
  <2> QED
    BY <2>2, <2>3, FinishKeeps
<1>6. ASSUME NEW i \in Instances, EndSaveFails(i) PROVE Inv'
  <2>1. /\ List(disk') /\ Len(disk') <= Limit /\ saved' \in BOOLEAN
        /\ ~saved' => disk' = << >>
    BY <1>6 DEF EndSaveFails, Inv, Types, List
  <2>2. Finish(i, Merge(list[i], copy[i]))
    BY <1>6 DEF EndSaveFails
  <2> QED
    BY <2>1, <2>2, FinishKeeps
<1>7. ASSUME NEW i \in Instances, Crash(i) PROVE Inv'
  BY <1>7, CrashKeeps
<1> QED
  BY <1>1, <1>2, <1>3, <1>4, <1>5, <1>6, <1>7 DEF Next

(***************************************************************************)
(* The theorems.                                                           *)
(***************************************************************************)

LEMMA Invariant == Spec => []Inv
  BY InvInit, InvNext, PTL DEF Spec

\* Neither in memory nor in the file do merges, visits and reads repeat a
\* file, and the file keeps within the limit.
THEOREM TypeCorrect == Spec => []TypeOK
<1>1. Inv => TypeOK
  <2> SUFFICES ASSUME Inv PROVE TypeOK
    OBVIOUS
  <2>1. \A s \in {disk} \cup Range(list) \cup Range(copy) : List(s)
    BY DEF Inv, Types, Range
  <2> QED
    BY <2>1 DEF Inv, Types, TypeOK, List
<1> QED
  BY <1>1, Invariant, PTL

\* No read of the shared file, no failed save and no other instance makes an
\* instance forget what its session visited.
THEOREM NothingForgotten == Spec => []SessionRemembered
<1>1. Inv => SessionRemembered
  BY DEF Inv, Kept, SessionRemembered
<1> QED
  BY <1>1, Invariant, PTL

\* A save that nobody else's write preceded since its read loses nothing that
\* the limit leaves a place for: not the session's files, and none that the
\* shared file had.
THEOREM UnracedSaveMerges == Spec => MergedWhenUnraced
<1>1. ASSUME Inv, NEW i \in Instances, EndSave(i), Unraced(i), Len(disk') # Limit
      PROVE  visited[i] \cup Range(disk) \subseteq Range(disk')
  <2> DEFINE merged == Merge(list[i], copy[i])
  <2>1. List(merged) /\ Range(merged) = Range(list[i]) \cup Range(copy[i])
    BY <1>1, MergeGives DEF Inv, Types
  <2>2. disk' = FirstItems(merged)
    BY <1>1 DEF EndSave
  <2> HIDE DEF merged
  <2>3. disk' = merged
    BY <1>1, <2>1, <2>2, FirstGives
  <2>4. Range(disk) \subseteq Range(list[i])
    <3>1. CASE saved
      BY <1>1, <3>1 DEF Unraced, Loaded
    <3>2. CASE ~saved
      BY <1>1, <3>2, EmptyList DEF Inv, Types
    <3> QED
      BY <3>1, <3>2
  <2>5. visited[i] \subseteq Range(list[i]) \cup Range(copy[i])
    BY <1>1 DEF Inv, Kept
  <2> QED
    BY <2>1, <2>3, <2>4, <2>5
<1>2. Inv => [\A i \in Instances :
                EndSave(i) /\ Unraced(i) =>
                  \/ visited[i] \cup Range(disk) \subseteq Range(disk')
                  \/ Len(disk') = Limit]_vars
  BY <1>1
<1> QED
  BY <1>2, Invariant, PTL DEF MergedWhenUnraced
====
