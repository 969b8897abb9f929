---------------------------- MODULE Bookmarks_proofs ----------------------------
(***************************************************************************)
(* Proofs about Bookmarks, for any files, texts and size of the repository. *)
(***************************************************************************)
EXTENDS Bookmarks, Folding, SequenceTheorems

(***************************************************************************)
(* What the folds compute.                                                 *)
(***************************************************************************)

\* The elements that are kept, one step for each element of s.
LEMMA OnlySteps ==
    ASSUME NEW V, NEW s \in Seq(V), NEW S
    PROVE  \E h \in [0 .. Len(s) -> Seq(V)] :
             /\ h[0] = << >> /\ h[Len(s)] = Only(s, S)
             /\ \A k \in 1 .. Len(s) :
                  h[k] = IF s[k] \in S THEN Append(h[k - 1], s[k]) ELSE h[k - 1]
<1> DEFINE W == Seq(V)
           len == Len(s)
           op == [p \in W \X (1 .. len) |->
                    IF s[p[2]] \in S THEN Append(p[1], s[p[2]]) ELSE p[1]]
           Is(g) == g = [t \in SUBSET (1 .. len) |->
                           IF t = {} THEN << >>
                           ELSE LET x == Max(t)
                                IN IF s[x] \in S THEN Append(g[t \ {x}], s[x])
                                   ELSE g[t \ {x}]]
           iter == CHOOSE g : Is(g)
<1>1. len \in Nat /\ << >> \in W /\ DOMAIN s = 1 .. len /\ \A k \in 1 .. len : s[k] \in V
  OBVIOUS
<1>2. op \in [W \X (1 .. len) -> W]
  BY <1>1
<1>3. Only(s, S) = iter[1 .. len]
  BY <1>1 DEF Only, FoldLeft, MapThenFoldSet
<1> HIDE DEF op
<1>4. PICK g \in [SUBSET (1 .. len) -> W] : FoldsTo(g, << >>, op, len)
  <2> HIDE DEF W, len
  <2> QED
    BY <1>1, <1>2, FoldExists
<1>5. Is(g)
  <2> SUFFICES ASSUME NEW t \in SUBSET (1 .. len), t # {}
               PROVE  g[t] = IF s[Max(t)] \in S THEN Append(g[t \ {Max(t)}], s[Max(t)])
                             ELSE g[t \ {Max(t)}]
    BY <1>4 DEF FoldsTo
  <2>1. g[t] = op[<<g[t \ {Max(t)}], Max(t)>>]
    BY <1>4 DEF FoldsTo
  <2>2. Max(t) \in 1 .. len
    <3> HIDE DEF len
    <3> QED
      BY <1>1, MaxOfRange
  <2>3. g[t \ {Max(t)}] \in W
    BY <1>4
  <2> QED
    BY <2>1, <2>2, <2>3 DEF op
<1> HIDE DEF iter
<1>6. Is(iter)
  BY <1>5 DEF iter
<1>7. FoldsIn(W, iter, << >>, op, len)
  <2>1. iter[{}] = << >>
    BY <1>6
  <2>2. ASSUME NEW t \in SUBSET (1 .. len), t # {}, iter[t \ {Max(t)}] \in W
        PROVE  iter[t] = op[<<iter[t \ {Max(t)}], Max(t)>>]
    <3>1. Max(t) \in 1 .. len
      <4> HIDE DEF len
      <4> QED
        BY <1>1, <2>2, MaxOfRange
    <3>2. iter[t] = IF s[Max(t)] \in S THEN Append(iter[t \ {Max(t)}], s[Max(t)])
                    ELSE iter[t \ {Max(t)}]
      BY <1>6, <2>2
    <3> QED
      BY <2>2, <3>1, <3>2 DEF op
  <2> QED
    BY <2>1, <2>2 DEF FoldsIn
<1>8. PICK h \in [0 .. len -> W] :
        /\ h[0] = << >> /\ h[len] = iter[1 .. len]
        /\ \A k \in 1 .. len : h[k] = op[<<h[k - 1], k>>]
  <2> HIDE DEF W, len, Is
  <2>1. \E h \in [0 .. len -> W] : Steps(h, << >>, op, len, iter[1 .. len])
    BY <1>1, <1>2, <1>7, FoldSteps
  <2> QED
    BY <2>1 DEF Steps
<1>9. ASSUME NEW k \in 1 .. len
       PROVE  h[k] = IF s[k] \in S THEN Append(h[k - 1], s[k]) ELSE h[k - 1]
  <2>1. h[k] = op[<<h[k - 1], k>>] /\ k - 1 \in 0 .. len
    BY <1>8
  <2>2. h[k - 1] \in W
    BY <1>8, <2>1
  <2> QED
    BY <2>1, <2>2 DEF op
<1> QED
  BY <1>3, <1>8, <1>9

\* Nothing is added, nothing of S is left out, and the order is kept.
InOrderOf(t, s, n) ==
    \A i, j \in DOMAIN t : i < j =>
      \E k, l \in 1 .. n : k < l /\ t[i] = s[k] /\ t[j] = s[l]
Upto(s, n) == {s[k] : k \in 1 .. n}

LEMMA OnlyGives ==
    ASSUME NEW V, NEW s \in Seq(V), NEW S
    PROVE  /\ Only(s, S) \in Seq(V) /\ Len(Only(s, S)) <= Len(s)
           /\ Range(Only(s, S)) = Range(s) \cap S
           /\ InOrderOf(Only(s, S), s, Len(s))
<1> DEFINE len == Len(s)
<1>1. PICK h \in [0 .. len -> Seq(V)] :
        /\ h[0] = << >> /\ h[len] = Only(s, S)
        /\ \A k \in 1 .. len : h[k] = IF s[k] \in S THEN Append(h[k - 1], s[k]) ELSE h[k - 1]
  BY OnlySteps
<1> DEFINE Good(n) ==
             n <= len => /\ Len(h[n]) <= n /\ Range(h[n]) = Upto(s, n) \cap S
                         /\ InOrderOf(h[n], s, n)
           G == {n \in Nat : Good(n)}
<1>2. len \in Nat /\ DOMAIN s = 1 .. len /\ \A k \in 1 .. len : s[k] \in V
  OBVIOUS
<1>3. 0 \in G
  <2>1. Len(h[0]) <= 0 /\ DOMAIN h[0] = {} /\ Range(h[0]) = {}
    BY <1>1 DEF Range
  <2>2. Upto(s, 0) = {} /\ InOrderOf(h[0], s, 0)
    BY <2>1 DEF Upto, InOrderOf
  <2> QED
    BY <2>1, <2>2
<1>4. ASSUME NEW n \in Nat, n \in G PROVE n + 1 \in G
  <2> SUFFICES ASSUME n + 1 <= len
               PROVE  /\ Len(h[n + 1]) <= n + 1
                      /\ Range(h[n + 1]) = Upto(s, n + 1) \cap S
                      /\ InOrderOf(h[n + 1], s, n + 1)
    OBVIOUS
  <2>1. n \in 0 .. len /\ n + 1 \in 1 .. len /\ n + 1 \in 0 .. len /\ (n + 1) - 1 = n
    BY <1>2
  <2>2. PICK t \in Seq(V) : t = h[n]
    BY <1>1, <2>1
  <2>3. PICK x \in V : x = s[n + 1]
    BY <1>2, <2>1
  <2>4. PICK u : u = h[n + 1]
    OBVIOUS
  <2>5. u = IF x \in S THEN Append(t, x) ELSE t
    BY <1>1, <2>1, <2>2, <2>3, <2>4
  <2>6. Len(t) <= n /\ Range(t) = Upto(s, n) \cap S /\ InOrderOf(t, s, n)
    BY <1>4, <2>1, <2>2
  <2>7. Upto(s, n + 1) = Upto(s, n) \cup {x}
    <3>1. 1 .. n + 1 = (1 .. n) \cup {n + 1}
      OBVIOUS
    <3> QED
      BY <2>3, <3>1 DEF Upto
  <2>8. Len(u) <= n + 1 /\ Range(u) = Upto(s, n + 1) \cap S /\ InOrderOf(u, s, n + 1)
    <3>1. CASE x \notin S
      <4>1. u = t
        BY <2>5, <3>1
      <4>2. InOrderOf(t, s, n + 1)
        <5>1. \A k \in 1 .. n : k \in 1 .. n + 1
          OBVIOUS
        <5> QED
          BY <2>6, <5>1 DEF InOrderOf
      <4>3. Len(t) <= n + 1
        BY <2>6
      <4> QED
        BY <2>6, <2>7, <3>1, <4>1, <4>2, <4>3
    <3>2. CASE x \in S
      <4>1. PICK m \in Nat : m = Len(t)
        OBVIOUS
      <4>2. /\ DOMAIN u = 1 .. m + 1 /\ DOMAIN t = 1 .. m /\ Len(u) = m + 1
            /\ u[m + 1] = x /\ \A i \in 1 .. m : u[i] = t[i]
        BY <2>5, <3>2, <4>1
      <4>3. Range(u) = Range(t) \cup {x}
        <5>1. 1 .. m + 1 = (1 .. m) \cup {m + 1}
          OBVIOUS
        <5> QED
          BY <4>2, <5>1 DEF Range
      <4>4. ASSUME NEW i \in DOMAIN u, NEW j \in DOMAIN u, i < j
            PROVE  \E k, l \in 1 .. n + 1 : k < l /\ u[i] = s[k] /\ u[j] = s[l]
        <5>1. i \in 1 .. m /\ i \in DOMAIN t /\ u[i] = t[i]
          BY <4>2, <4>4
        <5>2. CASE j = m + 1
          <6>1. t[i] \in Range(t)
            BY <5>1 DEF Range
          <6>2. PICK k \in 1 .. n : t[i] = s[k]
            BY <2>6, <6>1 DEF Upto
          <6>3. k \in 1 .. n + 1 /\ n + 1 \in 1 .. n + 1 /\ k < n + 1
            OBVIOUS
          <6> QED
            BY <2>3, <4>2, <5>1, <5>2, <6>2, <6>3
        <5>3. CASE j # m + 1
          <6>1. j \in 1 .. m
            BY <4>2, <5>3
          <6>2. j \in DOMAIN t /\ u[j] = t[j]
            BY <4>2, <6>1
          <6>3. PICK k, l \in 1 .. n : k < l /\ t[i] = s[k] /\ t[j] = s[l]
            BY <2>6, <4>4, <5>1, <6>2 DEF InOrderOf
          <6>4. k \in 1 .. n + 1 /\ l \in 1 .. n + 1
            OBVIOUS
          <6> QED
            BY <5>1, <6>2, <6>3, <6>4
        <5> QED
          BY <5>2, <5>3
      <4>5. InOrderOf(u, s, n + 1)
        BY <4>4 DEF InOrderOf
      <4>6. Len(u) <= n + 1
        BY <2>6, <4>1, <4>2
      <4>7. Range(u) = Upto(s, n + 1) \cap S
        BY <2>6, <2>7, <3>2, <4>3
      <4> QED
        BY <4>5, <4>6, <4>7
    <3> QED
      BY <3>1, <3>2
  <2> QED
    BY <2>4, <2>8
<1>5. Nat \subseteq G
  <2> HIDE DEF G
  <2> QED
    BY <1>3, <1>4, SetInduction
<1>6. Good(len)
  BY <1>2, <1>5
<1>7. Range(s) = Upto(s, len)
  BY <1>2 DEF Range, Upto
<1>8. h[len] \in Seq(V) /\ len <= len
  BY <1>1, <1>2
<1> QED
  BY <1>1, <1>6, <1>7, <1>8

(***************************************************************************)
(* Bookmarks found again.                                                  *)
(***************************************************************************)

\* What is found in the text is a line of it.
LEMMA FromContextIn ==
    ASSUME NEW s \in Seq(Lines), NEW b \in Marks, NEW point \in 1 .. Len(s)
    PROVE  FromContext(b, s, point) \in 0 .. Len(s)
<1> DEFINE after == {n \in point .. Len(s) : s[n] = b.after}
           from == IF after = {} THEN point ELSE CHOOSE n \in after : TRUE
           before == IF b.before = {} THEN {from}
                     ELSE {n + 1 : n \in {m \in 1 .. (from - 1) : s[m] \in b.before}}
<1>1. Len(s) \in Nat
  OBVIOUS
<1>2. from \in 1 .. Len(s)
  BY <1>1
<1> HIDE DEF from
<1>3. \A n \in before : n \in 1 .. Len(s)
  BY <1>1, <1>2
<1>4. FromContext(b, s, point) = IF before # {} THEN CHOOSE n \in before : TRUE
                                 ELSE IF after # {} THEN from ELSE 0
  BY DEF FromContext, from
<1> HIDE DEF before, after
<1> QED
  BY <1>1, <1>2, <1>3, <1>4

Place(e, s, done, b) ==
    IF e.size = Len(s) THEN b.position ELSE FromContext(b, s, done.point)
RestoreStep(e, s, done, b) ==
    IF done.failed \/ Place(e, s, done, b) = 0 THEN [done EXCEPT !.failed = TRUE]
    ELSE [point |-> Place(e, s, done, b), found |-> done.found \cup {Place(e, s, done, b)},
          failed |-> FALSE]
Progress(s) == [point : 1 .. Len(s), found : SUBSET (1 .. Len(s)), failed : BOOLEAN]
Begun == [point |-> 1, found |-> {}, failed |-> FALSE]

\* The positions of an entry are within the size that it gives.
Sound(e) == \A b \in Range(e.bookmarks) : b.position \in 1 .. e.size

LEMMA RestoreStepIn ==
    ASSUME NEW s \in Seq(Lines), NEW e \in Entries, Sound(e),
           NEW done \in Progress(s), NEW b \in Range(e.bookmarks)
    PROVE  /\ RestoreStep(e, s, done, b) \in Progress(s)
           /\ e.size = Len(s) /\ ~done.failed =>
                /\ RestoreStep(e, s, done, b).found = done.found \cup {b.position}
                /\ ~RestoreStep(e, s, done, b).failed
<1>1. b \in Marks
  BY DEF Entries, Range
<1>2. Len(s) \in Nat /\ e.size \in Nat /\ done.point \in 1 .. Len(s)
  BY DEF Entries, Progress
<1>3. Place(e, s, done, b) \in 0 .. Len(s)
  <2>1. CASE e.size = Len(s)
    BY <1>2, <2>1 DEF Sound, Place
  <2>2. CASE e.size # Len(s)
    BY <1>1, <1>2, <2>2, FromContextIn DEF Place
  <2> QED
    BY <2>1, <2>2
<1>4. e.size = Len(s) => Place(e, s, done, b) = b.position /\ b.position # 0
  BY <1>2 DEF Sound, Place
<1>5. PICK n \in 0 .. Len(s) : n = Place(e, s, done, b)
  BY <1>3
<1>6. RestoreStep(e, s, done, b) =
        IF done.failed \/ n = 0 THEN [done EXCEPT !.failed = TRUE]
        ELSE [point |-> n, found |-> done.found \cup {n}, failed |-> FALSE]
  BY <1>5 DEF RestoreStep
<1>7. RestoreStep(e, s, done, b) \in Progress(s)
  <2>1. [done EXCEPT !.failed = TRUE] \in Progress(s)
    BY DEF Progress
  <2>2. n # 0 => [point |-> n, found |-> done.found \cup {n}, failed |-> FALSE] \in Progress(s)
    BY <1>2 DEF Progress
  <2> QED
    BY <1>6, <2>1, <2>2
<1> QED
  BY <1>4, <1>5, <1>6, <1>7

LEMMA RestoreSteps ==
    ASSUME NEW s \in Seq(Lines), Len(s) > 0, NEW e \in Entries, Sound(e)
    PROVE  \E h \in [0 .. Len(e.bookmarks) -> Progress(s)] :
             /\ h[0] = Begun /\ h[Len(e.bookmarks)].found = RestoreEntry(e, s)
             /\ \A k \in 1 .. Len(e.bookmarks) :
                  h[k] = RestoreStep(e, s, h[k - 1], e.bookmarks[k])
<1> DEFINE bs == e.bookmarks
           len == Len(bs)
           W == Progress(s)
           op == [p \in W \X (1 .. len) |-> RestoreStep(e, s, p[1], bs[p[2]])]
           Is(g) == g = [t \in SUBSET (1 .. len) |->
                           IF t = {} THEN Begun
                           ELSE LET x == Max(t)
                                IN RestoreStep(e, s, g[t \ {x}], bs[x])]
           iter == CHOOSE g : Is(g)
<1>1. /\ len \in Nat /\ DOMAIN bs = 1 .. len /\ \A k \in 1 .. len : bs[k] \in Range(bs)
      /\ Begun \in W
  <2>1. bs \in Seq(Marks)
    BY DEF Entries
  <2>2. len \in Nat /\ DOMAIN bs = 1 .. len
    BY <2>1
  <2>3. 1 \in 1 .. Len(s)
    OBVIOUS
  <2> QED
    BY <2>2, <2>3 DEF Begun, Progress, Range
<1>2. op \in [W \X (1 .. len) -> W]
  <2>1. ASSUME NEW v \in W, NEW k \in 1 .. len PROVE RestoreStep(e, s, v, bs[k]) \in W
    BY <1>1, RestoreStepIn
  <2> QED
    BY <2>1
<1>3. RestoreEntry(e, s) = iter[1 .. len].found
  BY <1>1 DEF RestoreEntry, FoldLeft, MapThenFoldSet, RestoreStep, Place, Begun
<1> HIDE DEF op
<1>4. PICK g \in [SUBSET (1 .. len) -> W] : FoldsTo(g, Begun, op, len)
  <2> HIDE DEF W, len
  <2> QED
    BY <1>1, <1>2, FoldExists
<1>5. Is(g)
  <2> SUFFICES ASSUME NEW t \in SUBSET (1 .. len), t # {}
               PROVE  g[t] = RestoreStep(e, s, g[t \ {Max(t)}], bs[Max(t)])
    BY <1>4 DEF FoldsTo
  <2>1. g[t] = op[<<g[t \ {Max(t)}], Max(t)>>]
    BY <1>4 DEF FoldsTo
  <2>2. Max(t) \in 1 .. len
    <3> HIDE DEF len
    <3> QED
      BY <1>1, MaxOfRange
  <2>3. g[t \ {Max(t)}] \in W
    BY <1>4
  <2> QED
    BY <2>1, <2>2, <2>3 DEF op
<1> HIDE DEF iter
<1>6. Is(iter)
  BY <1>5 DEF iter
<1>7. FoldsIn(W, iter, Begun, op, len)
  <2>1. iter[{}] = Begun
    BY <1>6
  <2>2. ASSUME NEW t \in SUBSET (1 .. len), t # {}, iter[t \ {Max(t)}] \in W
        PROVE  iter[t] = op[<<iter[t \ {Max(t)}], Max(t)>>]
    <3>1. Max(t) \in 1 .. len
      <4> HIDE DEF len
      <4> QED
        BY <1>1, <2>2, MaxOfRange
    <3>2. iter[t] = RestoreStep(e, s, iter[t \ {Max(t)}], bs[Max(t)])
      BY <1>6, <2>2
    <3> QED
      BY <2>2, <3>1, <3>2 DEF op
  <2> QED
    BY <2>1, <2>2 DEF FoldsIn
<1>8. PICK h \in [0 .. len -> W] :
        /\ h[0] = Begun /\ h[len] = iter[1 .. len]
        /\ \A k \in 1 .. len : h[k] = op[<<h[k - 1], k>>]
  <2> HIDE DEF W, len, Is
  <2>1. \E h \in [0 .. len -> W] : Steps(h, Begun, op, len, iter[1 .. len])
    BY <1>1, <1>2, <1>7, FoldSteps
  <2> QED
    BY <2>1 DEF Steps
<1>9. ASSUME NEW k \in 1 .. len
       PROVE  h[k] = RestoreStep(e, s, h[k - 1], bs[k])
  <2>1. h[k] = op[<<h[k - 1], k>>] /\ k - 1 \in 0 .. len
    BY <1>8
  <2>2. h[k - 1] \in W
    BY <1>8, <2>1
  <2> QED
    BY <2>1, <2>2 DEF op
<1> QED
  BY <1>3, <1>8, <1>9

\* Bookmarks are restored within the text; and in a file of the size it had,
\* each is restored where it was.
LEMMA RestoreGives ==
    ASSUME NEW s \in Seq(Lines), Len(s) > 0, NEW e \in Entries, Sound(e)
    PROVE  /\ RestoreEntry(e, s) \subseteq 1 .. Len(s)
           /\ e.size = Len(s) =>
                RestoreEntry(e, s) = {b.position : b \in Range(e.bookmarks)}
<1> DEFINE bs == e.bookmarks
           len == Len(bs)
<1>1. PICK h \in [0 .. len -> Progress(s)] :
        /\ h[0] = Begun /\ h[len].found = RestoreEntry(e, s)
        /\ \A k \in 1 .. len : h[k] = RestoreStep(e, s, h[k - 1], bs[k])
  BY RestoreSteps
<1>2. len \in Nat /\ DOMAIN bs = 1 .. len /\ Range(bs) = Upto(bs, len)
  BY DEF Entries, Range, Upto
<1>3. RestoreEntry(e, s) \subseteq 1 .. Len(s)
  <2>1. h[len] \in Progress(s)
    BY <1>1, <1>2
  <2> QED
    BY <1>1, <2>1 DEF Progress
<1>4. ASSUME e.size = Len(s)
      PROVE  RestoreEntry(e, s) = {b.position : b \in Range(bs)}
  <2> DEFINE Good(n) ==
               n <= len => ~h[n].failed /\ h[n].found = {b.position : b \in Upto(bs, n)}
             G == {n \in Nat : Good(n)}
  <2>1. 0 \in G
    <3>1. Upto(bs, 0) = {}
      BY DEF Upto
    <3> QED
      BY <1>1, <3>1 DEF Begun
  <2>2. ASSUME NEW n \in Nat, n \in G PROVE n + 1 \in G
    <3> SUFFICES ASSUME n + 1 <= len
                 PROVE  /\ ~h[n + 1].failed
                        /\ h[n + 1].found = {b.position : b \in Upto(bs, n + 1)}
      OBVIOUS
    <3>1. n \in 0 .. len /\ n + 1 \in 1 .. len /\ (n + 1) - 1 = n
      BY <1>2
    <3>2. PICK b \in Range(bs) : b = bs[n + 1]
      BY <1>2, <3>1 DEF Range
    <3>3. PICK v \in Progress(s) : v = h[n]
      BY <1>1, <3>1
    <3>4. h[n + 1] = RestoreStep(e, s, v, b)
      BY <1>1, <3>1, <3>2, <3>3
    <3>5. ~v.failed /\ v.found = {c.position : c \in Upto(bs, n)}
      BY <2>2, <3>1, <3>3
    <3>6. h[n + 1].found = v.found \cup {b.position} /\ ~h[n + 1].failed
      BY <1>4, <3>4, <3>5, RestoreStepIn
    <3>7. Upto(bs, n + 1) = Upto(bs, n) \cup {b}
      <4>1. 1 .. n + 1 = (1 .. n) \cup {n + 1}
        OBVIOUS
      <4> QED
        BY <3>2, <4>1 DEF Upto
    <3> QED
      BY <3>5, <3>6, <3>7
  <2>3. Nat \subseteq G
    <3> HIDE DEF G
    <3> QED
      BY <2>1, <2>2, SetInduction
  <2>4. Good(len)
    BY <1>2, <2>3
  <2> QED
    BY <1>1, <1>2, <2>4
<1> QED
  BY <1>3, <1>4

(***************************************************************************)
(* What is kept of a buffer.                                               *)
(***************************************************************************)

LEMMA RangeOf ==
    ASSUME NEW V, NEW s \in Seq(V)
    PROVE  Range(s) = {s[i] : i \in 1 .. Len(s)} /\ Range(s) \subseteq V
  BY DEF Range

\* All the bookmarks of a buffer are listed, wherever point is.
LEMMA ListedGives ==
    ASSUME NEW f \in Files, text[f] \in Seq(Lines), marks[f] \subseteq 1 .. Len(text[f]),
           NEW point \in 1 .. (Len(text[f]) + 1)
    PROVE  Listed(f, point) \in Seq(Nat) /\ Range(Listed(f, point)) = marks[f]
<1>1. PICK len \in Nat : len = Len(text[f])
  OBVIOUS
<1> DEFINE above == [i \in 1 .. (point - 1) |-> point - i]
           below == [i \in 1 .. (len + 1 - point) |-> point + i - 1]
<1>2. point \in Nat /\ point - 1 \in Nat /\ len + 1 - point \in Nat
  BY <1>1
<1>3. above \in Seq(Nat) /\ Range(above) = 1 .. (point - 1)
  <2>1. above \in [1 .. (point - 1) -> Nat]
    BY <1>2
  <2>2. \A n \in 1 .. (point - 1) : point - n \in 1 .. (point - 1) /\ n = point - (point - n)
    BY <1>2
  <2>3. Range(above) = {point - i : i \in 1 .. (point - 1)}
    BY DEF Range
  <2>4. Range(above) = 1 .. (point - 1)
    BY <2>2, <2>3
  <2> QED
    BY <1>2, <2>1, <2>4, AsSequence
<1>4. below \in Seq(Nat) /\ Range(below) = point .. len
  <2>1. below \in [1 .. (len + 1 - point) -> Nat]
    BY <1>2
  <2>2. \A n \in point .. len : n - point + 1 \in 1 .. (len + 1 - point)
                                 /\ n = point + (n - point + 1) - 1
    BY <1>2
  <2>3. \A i \in 1 .. (len + 1 - point) : point + i - 1 \in point .. len
    BY <1>2
  <2>4. Range(below) = {point + i - 1 : i \in 1 .. (len + 1 - point)}
    BY DEF Range
  <2>5. Range(below) = point .. len
    BY <2>2, <2>3, <2>4
  <2> QED
    BY <1>2, <2>1, <2>5, AsSequence
<1>5. Listed(f, point) = Only(above, marks[f]) \o Only(below, marks[f])
  BY <1>1 DEF Listed
<1> HIDE DEF above, below
<1>6. /\ Only(above, marks[f]) \in Seq(Nat) /\ Only(below, marks[f]) \in Seq(Nat)
      /\ Range(Only(above, marks[f])) = Range(above) \cap marks[f]
      /\ Range(Only(below, marks[f])) = Range(below) \cap marks[f]
  BY <1>3, <1>4, OnlyGives
<1>7. /\ Listed(f, point) \in Seq(Nat)
      /\ Range(Listed(f, point))
           = Range(Only(above, marks[f])) \cup Range(Only(below, marks[f]))
  <2>1. \A s, t \in Seq(Nat) : s \o t \in Seq(Nat)
    BY ConcatProperties, Zenon
  <2>2. \A s, t \in Seq(Nat) : Range(s \o t) = Range(s) \cup Range(t)
    BY RangeConcatenation, Zenon
  <2> QED
    BY <1>5, <1>6, <2>1, <2>2
<1>8. \A n \in marks[f] : n \in 1 .. (point - 1) \/ n \in point .. len
  BY <1>1, <1>2
<1> QED
  BY <1>3, <1>4, <1>6, <1>7, <1>8

\* The entry of a buffer: an entry of the bookmarks, each where it is.
LEMMA EntryGives ==
    ASSUME NEW f \in Files, text[f] \in Seq(Lines), marks[f] \subseteq 1 .. Len(text[f]),
           NEW point \in 1 .. (Len(text[f]) + 1), NEW e, e = Entry(f, point)
    PROVE  /\ e \in Entries /\ e.file = f /\ e.size = Len(text[f]) /\ Sound(e)
           /\ marks[f] # {} => e.bookmarks # << >>
           /\ \A b \in Range(e.bookmarks) : b.after = text[f][b.position]
           /\ {b.after : b \in Range(e.bookmarks)} = BufferLines(f, marks[f])
<1>1. PICK l \in Seq(Nat) : l = Listed(f, point) /\ Range(l) = marks[f]
  BY ListedGives
<1>2. PICK s \in Seq(Lines) : s = text[f]
  OBVIOUS
<1>3. PICK n \in Nat : n = Len(l) /\ DOMAIN l = 1 .. n
  OBVIOUS
<1>4. PICK bs : bs = [i \in 1 .. n |-> Bookmark(s, l[i])]
  OBVIOUS
<1>5. e = [file |-> f, size |-> Len(s), bookmarks |-> bs]
  BY <1>1, <1>2, <1>3, <1>4 DEF Entry
<1>6. ASSUME NEW m \in 1 .. Len(s)
      PROVE  /\ Bookmark(s, m) \in Marks /\ Bookmark(s, m).position = m
             /\ Bookmark(s, m).after = s[m]
  <2>1. s[m] \in Lines /\ (m # 1 => s[m - 1] \in Lines)
    OBVIOUS
  <2> QED
    BY <2>1 DEF Bookmark, Marks
<1>7. Range(l) = {l[i] : i \in 1 .. n}
  BY <1>3 DEF Range
<1>8. \A i \in 1 .. n : l[i] \in 1 .. Len(s)
  BY <1>1, <1>2, <1>7
<1>9. bs \in Seq(Marks) /\ Len(bs) = n
  <2>1. bs \in [1 .. n -> Marks]
    BY <1>4, <1>6, <1>8
  <2> QED
    BY <2>1, AsSequence
<1>10. Range(bs) = {Bookmark(s, m) : m \in marks[f]}
  <2>1. Range(bs) = {bs[i] : i \in 1 .. n}
    BY <1>9, RangeOf
  <2>2. \A i \in 1 .. n : bs[i] = Bookmark(s, l[i])
    BY <1>4
  <2>3. Range(bs) = {Bookmark(s, l[i]) : i \in 1 .. n}
    BY <2>1, <2>2
  <2>4. {Bookmark(s, l[i]) : i \in 1 .. n} = {Bookmark(s, m) : m \in {l[i] : i \in 1 .. n}}
    BY Zenon
  <2> QED
    BY <1>1, <1>7, <2>3, <2>4
<1>11. Len(s) \in Nat
  OBVIOUS
<1>12. e \in Entries /\ e.file = f /\ e.size = Len(s) /\ e.bookmarks = bs
  BY <1>5, <1>9, <1>11 DEF Entries
<1>13. \A b \in Range(bs) : b.position \in 1 .. Len(s) /\ b.after = s[b.position]
  BY <1>2, <1>6, <1>10
<1>14. {b.after : b \in Range(bs)} = {s[m] : m \in marks[f]}
  BY <1>2, <1>6, <1>10
<1>15. marks[f] # {} => bs # << >>
  <2>1. bs = << >> => Range(bs) = {}
    BY DEF Range
  <2> QED
    BY <1>10, <2>1
<1> QED
  BY <1>2, <1>12, <1>13, <1>14, <1>15 DEF Sound, BufferLines

(***************************************************************************)
(* The repository.                                                         *)
(***************************************************************************)

OneEach(r) == \A m, n \in DOMAIN r : r[m].file = r[n].file => m = n
Orderly(r) ==
    /\ r \in Seq(Entries)
    /\ \A e \in Range(r) : e.bookmarks # << >> /\ Sound(e)
    /\ OneEach(r)

LEMMA OneEntry ==
    ASSUME NEW r, Orderly(r), NEW d \in Range(r), NEW e \in Range(r), d.file = e.file
    PROVE  d = e
  BY DEF Orderly, OneEach, Range

LEMMA WithoutGives ==
    ASSUME Orderly(repository), NEW f
    PROVE  /\ Orderly(Without(f)) /\ Len(Without(f)) <= Len(repository)
           /\ Range(Without(f)) = {e \in Range(repository) : e.file # f}
<1> DEFINE S == {e \in Range(repository) : e.file # f}
<1>1. PICK r \in Seq(Entries) : r = repository
  BY DEF Orderly
<1>2. PICK t : t = Without(f) /\ t = Only(r, S)
  BY <1>1 DEF Without
<1>3. /\ t \in Seq(Entries) /\ Len(t) <= Len(r) /\ Range(t) = Range(r) \cap S
      /\ InOrderOf(t, r, Len(r))
  BY <1>1, <1>2, OnlyGives
<1>4. Range(t) = S
  BY <1>1, <1>3
<1>5. OneEach(t)
  <2>1. ASSUME NEW i \in DOMAIN t, NEW j \in DOMAIN t, i < j
        PROVE  t[i].file # t[j].file
    <3>1. PICK k, l \in 1 .. Len(r) : k < l /\ t[i] = r[k] /\ t[j] = r[l]
      BY <1>3, <2>1 DEF InOrderOf
    <3>2. k \in DOMAIN r /\ l \in DOMAIN r /\ k # l
      BY <1>1, <3>1
    <3> QED
      BY <1>1, <3>1, <3>2 DEF Orderly, OneEach
  <2> SUFFICES ASSUME NEW i \in DOMAIN t, NEW j \in DOMAIN t, i # j
               PROVE  t[i].file # t[j].file
    BY DEF OneEach
  <2>2. i < j \/ j < i
    BY <1>3
  <2> QED
    BY <2>1, <2>2
<1> QED
  BY <1>1, <1>2, <1>3, <1>4, <1>5 DEF Orderly

\* The list that bm-buffer-save makes, before its length is seen to.
All(f, point) ==
    IF marks[f] = {} THEN Without(f) ELSE Append(Without(f), Entry(f, point))

LEMMA AllGives ==
    ASSUME Orderly(repository), Len(repository) <= RepositorySize,
           NEW f \in Files, text[f] \in Seq(Lines), marks[f] \subseteq 1 .. Len(text[f]),
           NEW point \in 1 .. (Len(text[f]) + 1)
    PROVE  LET all == All(f, point) IN
           /\ Orderly(all) /\ Len(all) <= RepositorySize + 1
           /\ marks[f] = {} => Len(all) <= RepositorySize
                               /\ Range(all) = {e \in Range(repository) : e.file # f}
           /\ marks[f] # {} =>
                /\ Len(all) > 0 /\ all[Len(all)] = Entry(f, point)
                /\ Range(all) = {e \in Range(repository) : e.file # f} \cup {Entry(f, point)}
<1>1. PICK t : t = Without(f)
  OBVIOUS
<1>2. PICK e : e = Entry(f, point)
  OBVIOUS
<1>3. PICK u : u = All(f, point)
  OBVIOUS
<1>4. Orderly(t) /\ Len(t) <= Len(repository)
      /\ Range(t) = {d \in Range(repository) : d.file # f}
  BY <1>1, WithoutGives
<1>5. t \in Seq(Entries) /\ repository \in Seq(Entries) /\ Len(t) <= RepositorySize
  BY <1>4, RepositorySizeAssumption DEF Orderly
<1>6. e \in Entries /\ e.file = f /\ Sound(e) /\ (marks[f] # {} => e.bookmarks # << >>)
  BY <1>2, EntryGives
<1>7. CASE marks[f] = {}
  <2>1. u = t
    BY <1>1, <1>3, <1>7 DEF All
  <2>2. Len(t) <= RepositorySize + 1
    BY <1>5, RepositorySizeAssumption
  <2> QED
    BY <1>3, <1>4, <1>5, <1>7, <2>1, <2>2
<1>8. CASE marks[f] # {}
  <2>1. u = Append(t, e)
    BY <1>1, <1>2, <1>3, <1>8 DEF All
  <2>2. PICK n \in Nat : n = Len(t) /\ DOMAIN t = 1 .. n
    BY <1>5
  <2>3. /\ u \in Seq(Entries) /\ Len(u) = n + 1 /\ DOMAIN u = 1 .. n + 1
        /\ u[n + 1] = e /\ \A i \in 1 .. n : u[i] = t[i]
    BY <1>5, <1>6, <2>1, <2>2
  <2>4. Range(u) = Range(t) \cup {e}
    <3>1. 1 .. n + 1 = (1 .. n) \cup {n + 1}
      OBVIOUS
    <3> QED
      BY <2>2, <2>3, <3>1 DEF Range
  <2>5. OneEach(u)
    <3>1. \A i \in 1 .. n : t[i].file # f
      BY <1>4, <2>2 DEF Range
    <3>2. \A i, j \in 1 .. n : t[i].file = t[j].file => i = j
      BY <1>4, <2>2 DEF Orderly, OneEach
    <3> SUFFICES ASSUME NEW i \in 1 .. n + 1, NEW j \in 1 .. n + 1, u[i].file = u[j].file
                 PROVE  i = j
      BY <2>3 DEF OneEach
    <3>3. (i \in 1 .. n \/ i = n + 1) /\ (j \in 1 .. n \/ j = n + 1)
      OBVIOUS
    <3> QED
      BY <1>6, <2>3, <3>1, <3>2, <3>3
  <2>6. Orderly(u)
    BY <1>4, <1>6, <1>8, <2>3, <2>4, <2>5 DEF Orderly
  <2>7. Len(u) > 0 /\ Len(u) <= RepositorySize + 1 /\ u[Len(u)] = e
    BY <1>5, <2>2, <2>3, RepositorySizeAssumption
  <2> QED
    BY <1>2, <1>3, <1>4, <1>8, <2>4, <2>6, <2>7
<1> QED
  BY <1>7, <1>8

\* Without its first element a list is still orderly.
LEMMA RestGives ==
    ASSUME NEW r, Orderly(r), NEW from \in {1, 2}, NEW t, t = SubSeq(r, from, Len(r))
    PROVE  /\ Orderly(t) /\ Range(t) \subseteq Range(r)
           /\ from <= Len(r) => Len(t) = Len(r) + 1 - from /\ r[Len(r)] \in Range(t)
           /\ from > Len(r) => Len(t) = 0
           /\ from = 1 => Range(t) = Range(r)
<1>1. PICK n \in Nat : n = Len(r) /\ DOMAIN r = 1 .. n /\ r \in Seq(Entries)
  BY DEF Orderly
<1>2. PICK l \in Nat : l = IF from <= n THEN n + 1 - from ELSE 0
  <2>1. (IF from <= n THEN n + 1 - from ELSE 0) \in Nat
    OBVIOUS
  <2> QED
    BY <2>1
<1>3. \A i \in 1 .. l : from + i - 1 \in 1 .. n
  BY <1>2
<1>4. t = [i \in 1 .. l |-> r[from + i - 1]]
  BY <1>1, <1>2
<1>5. t \in Seq(Entries) /\ Len(t) = l /\ DOMAIN t = 1 .. l
  <2>1. \A i \in 1 .. n : r[i] \in Entries
    BY <1>1
  <2>2. t \in [1 .. l -> Entries]
    BY <1>3, <1>4, <2>1
  <2> QED
    BY <2>2, AsSequence
<1>6. \A i \in 1 .. l : t[i] = r[from + i - 1]
  BY <1>4
<1>7. Range(t) \subseteq Range(r)
  BY <1>1, <1>3, <1>5, <1>6 DEF Range
<1>8. OneEach(t)
  <2> SUFFICES ASSUME NEW i \in 1 .. l, NEW j \in 1 .. l, t[i].file = t[j].file
               PROVE  i = j
    BY <1>5 DEF OneEach
  <2>1. from + i - 1 = from + j - 1
    BY <1>1, <1>3, <1>6 DEF Orderly, OneEach
  <2> QED
    BY <2>1
<1>9. from <= n => r[n] \in Range(t)
  <2> SUFFICES ASSUME from <= n PROVE r[n] \in Range(t)
    OBVIOUS
  <2>1. l \in 1 .. l /\ from + l - 1 = n
    BY <1>2
  <2>2. t[l] = r[n]
    BY <1>6, <2>1
  <2> QED
    BY <1>5, <2>1, <2>2 DEF Range
<1>10. from = 1 => Range(t) = Range(r)
  <2> SUFFICES ASSUME from = 1, NEW i \in 1 .. n PROVE r[i] \in Range(t)
    BY <1>1, <1>7 DEF Range
  <2>1. i \in 1 .. l /\ from + i - 1 = i
    BY <1>2
  <2> QED
    BY <1>5, <1>6, <2>1 DEF Range
<1>11. Orderly(t)
  BY <1>5, <1>7, <1>8 DEF Orderly
<1> QED
  BY <1>1, <1>2, <1>5, <1>7, <1>9, <1>10, <1>11

\* What bm-buffer-save leaves: the entry of the buffer, if it has bookmarks,
\* and those of the other files, but for the one that had to go.
LEMMA SaveGives ==
    ASSUME Orderly(repository), Len(repository) <= RepositorySize,
           NEW f \in Files, text[f] \in Seq(Lines), marks[f] \subseteq 1 .. Len(text[f]),
           NEW point \in 1 .. (Len(text[f]) + 1),
           NEW r, r = SaveBuffer(f, point)
    PROVE  /\ Orderly(r) /\ Len(r) <= RepositorySize
           /\ EntryOf(r, f) = IF marks[f] = {} THEN {} ELSE {Entry(f, point)}
           /\ \A g \in Files \ {f} : g \notin Evicted(r) => EntryOf(r, g) = EntryOf(repository, g)
<1>1. PICK u : u = All(f, point)
  OBVIOUS
<1>2. PICK e : e = Entry(f, point)
  OBVIOUS
<1>3. PICK S : S = {d \in Range(repository) : d.file # f}
  OBVIOUS
<1>4. /\ Orderly(u) /\ Len(u) <= RepositorySize + 1
      /\ marks[f] = {} => Len(u) <= RepositorySize /\ Range(u) = S
      /\ marks[f] # {} => Len(u) > 0 /\ u[Len(u)] = e /\ Range(u) = S \cup {e}
  BY <1>1, <1>2, <1>3, AllGives
<1>5. PICK from \in {1, 2} : from = IF Len(u) > RepositorySize THEN 2 ELSE 1
  OBVIOUS
<1>6. r = SubSeq(u, from, Len(u))
  BY <1>1, <1>5 DEF SaveBuffer, All
<1>7. /\ Orderly(r) /\ Range(r) \subseteq Range(u)
      /\ from <= Len(u) => Len(r) = Len(u) + 1 - from /\ u[Len(u)] \in Range(r)
      /\ from > Len(u) => Len(r) = 0
      /\ from = 1 => Range(r) = Range(u)
  BY <1>4, <1>6, RestGives
<1>8. Len(u) \in Nat /\ RepositorySize \in Nat /\ RepositorySize > 0
  BY <1>4, RepositorySizeAssumption DEF Orderly
<1>9. Len(r) <= RepositorySize
  BY <1>4, <1>5, <1>7, <1>8
<1>10. e.file = f
  BY <1>2, EntryGives
<1>11. Range(r) \subseteq S \cup {e} /\ (marks[f] = {} => Range(r) \subseteq S)
       /\ (marks[f] # {} => e \in Range(r))
  <2>1. marks[f] # {} => from <= Len(u)
    BY <1>4, <1>5, <1>8
  <2> QED
    BY <1>4, <1>7, <2>1
<1>12. EntryOf(r, f) = IF marks[f] = {} THEN {} ELSE {e}
  BY <1>3, <1>10, <1>11 DEF EntryOf
<1>13. ASSUME NEW g \in Files \ {f}, g \notin Evicted(r)
       PROVE  EntryOf(r, g) = EntryOf(repository, g)
  <2>1. EntryOf(r, g) \subseteq EntryOf(repository, g)
    BY <1>3, <1>10, <1>11 DEF EntryOf
  <2>2. ASSUME NEW d \in EntryOf(repository, g) PROVE d \in EntryOf(r, g)
    <3>1. d \in Range(repository) /\ d.file = g
      BY <2>2 DEF EntryOf
    <3>2. PICK c \in Range(r) : c.file = g
      BY <1>13, <3>1 DEF Evicted
    <3>3. c \in Range(repository)
      BY <2>1, <3>2 DEF EntryOf
    <3>4. c = d
      BY <3>1, <3>2, <3>3, OneEntry
    <3> QED
      BY <3>2, <3>4 DEF EntryOf
  <2> QED
    BY <2>1, <2>2
<1> QED
  BY <1>2, <1>7, <1>9, <1>12, <1>13

(***************************************************************************)
(* The invariant.                                                          *)
(***************************************************************************)

\* The entries E of a file, one at most, are about its lines s as they are,
\* and about the lines w.
KeptIn(E, s, w) ==
    /\ UNION {{b.after : b \in Range(e.bookmarks)} : e \in E} = w
    /\ \A e \in E :
         e.size = Len(s) /\ \A b \in Range(e.bookmarks) : b.after = s[b.position]

Types ==
    /\ running \in BOOLEAN /\ open \subseteq Files
    /\ text \in [Files -> Texts] /\ marks \in [Files -> SUBSET Nat]
    /\ wanted \in [Files -> SUBSET Lines] /\ newest \in [Files -> Places]
Within == \A f \in Files : marks[f] \subseteq (IF f \in open THEN 1 .. Len(text[f]) ELSE {})
Stored ==
    /\ Orderly(repository) /\ Len(repository) <= RepositorySize
    /\ Orderly(disk) /\ Len(disk) <= RepositorySize

\* While Emacs does not run, all there is is on disk.  A buffer shows what is
\* wanted, and so does each place that holds the newest bookmarks of a file,
\* in an entry that is about the file as it is.
AtRest == ~running => open = {} /\ \A f \in Files : newest[f] \in {"disk", "lost"}
Where(f) ==
    /\ newest[f] = "buffer" => f \in open
    /\ f \in open => newest[f] # "lost" /\ BufferLines(f, marks[f]) = wanted[f]
    /\ running /\ newest[f] \in {"repository", "disk"} =>
         KeptIn(EntryOf(repository, f), text[f], wanted[f])
    /\ newest[f] = "disk" => KeptIn(EntryOf(disk, f), text[f], wanted[f])

Inv == Types /\ Within /\ Stored /\ AtRest /\ \A f \in Files : Where(f)

LEMMA InvTypes ==
    ASSUME Types, Within, Stored
    PROVE  TypeOK
<1>1. ASSUME NEW r \in {repository, disk}
      PROVE  Orderly(r) /\ Len(r) <= RepositorySize
  BY <1>1 DEF Stored
<1> QED
  BY <1>1 DEF TypeOK, Types, Within, Orderly, OneEach, Sound

LEMMA InvKept ==
    ASSUME Inv
    PROVE  BookmarksKept
<1> SUFFICES ASSUME NEW f \in Files, newest[f] # "lost"
             PROVE  /\ newest[f] = "buffer" => f \in open
                    /\ f \in open => BufferLines(f, marks[f]) = wanted[f]
                    /\ newest[f] # "buffer" /\ running => EntryLines(repository, f) = wanted[f]
                    /\ newest[f] = "disk" => EntryLines(disk, f) = wanted[f]
  BY DEF BookmarksKept
<1>1. Where(f) /\ newest[f] \in Places
  BY DEF Inv, Types
<1>2. newest[f] # "buffer" => newest[f] \in {"repository", "disk"}
  BY <1>1 DEF Places
<1> QED
  BY <1>1, <1>2 DEF Where, KeptIn, EntryLines

LEMMA Text ==
    ASSUME Types, NEW f \in Files
    PROVE  text[f] \in Seq(Lines) /\ Len(text[f]) > 0 /\ Len(text[f]) \in Nat
  BY TextsAssumption DEF Types

LEMMA EmptyOrderly == Orderly(<< >>) /\ Len(<< >>) <= RepositorySize
<1>1. Range(<< >>) = {} /\ DOMAIN << >> = {} /\ << >> \in Seq(Entries) /\ Len(<< >>) = 0
  BY DEF Range
<1> QED
  BY <1>1, RepositorySizeAssumption DEF Orderly, OneEach

LEMMA Initially == Init => Inv
<1> SUFFICES ASSUME Init PROVE Inv
  OBVIOUS
<1> USE DEF Init
<1>1. Types /\ Within /\ AtRest
  BY DEF Types, Within, AtRest, Places
<1>2. Stored
  BY EmptyOrderly DEF Stored
<1>3. ASSUME NEW f \in Files PROVE Where(f)
  <2>1. EntryOf(<< >>, f) = {}
    BY DEF EntryOf, Range
  <2>2. KeptIn({}, text[f], {})
    BY DEF KeptIn
  <2> QED
    BY <2>1, <2>2 DEF Where
<1> QED
  BY <1>1, <1>2, <1>3 DEF Inv

LEMMA Starts == Inv /\ Start => Inv'
<1> SUFFICES ASSUME Inv, Start PROVE Inv'
  OBVIOUS
<1> USE DEF Inv, Start
<1>1. Types' /\ Within' /\ AtRest'
  BY DEF Types, Within, AtRest
<1>2. Stored'
  BY DEF Stored
<1>3. ASSUME NEW f \in Files PROVE Where(f)'
  <2>1. f \notin open /\ newest[f] \in {"disk", "lost"}
    BY DEF AtRest
  <2>2. newest[f] = "disk" => KeptIn(EntryOf(disk, f), text[f], wanted[f])
    BY DEF Where
  <2> QED
    BY <2>1, <2>2 DEF Where
<1> QED
  BY <1>1, <1>2, <1>3

LEMMA Changes ==
    ASSUME Inv, NEW g \in Files, Change(g)
    PROVE  Inv'
<1> USE DEF Inv, Change
<1>1. text' \in [Files -> Texts] /\ \A f \in Files \ {g} : text'[f] = text[f]
  BY DEF Types
<1>2. /\ newest' \in [Files -> Places] /\ newest'[g] = "lost"
      /\ \A f \in Files \ {g} : newest'[f] = newest[f]
  BY DEF Types, Places
<1>3. Types' /\ Within' /\ AtRest'
  BY <1>1, <1>2 DEF Types, Within, AtRest
<1>4. Stored'
  BY DEF Stored
<1>5. ASSUME NEW f \in Files PROVE Where(f)'
  <2>1. CASE f = g
    BY <1>2, <2>1 DEF Where
  <2>2. CASE f # g
    <3>1. Where(f) /\ text'[f] = text[f] /\ newest'[f] = newest[f]
      BY <1>1, <1>2, <2>2
    <3> QED
      BY <3>1 DEF Where, BufferLines
  <2> QED
    BY <2>1, <2>2
<1> QED
  BY <1>3, <1>4, <1>5

\* What is restored is in the text; and it is the bookmarks of the entry, if
\* that is about the file as it is.
LEMMA RestoredGives ==
    ASSUME Types, Stored, NEW f \in Files
    PROVE  /\ Restored(f) \subseteq 1 .. Len(text[f])
           /\ \A w : KeptIn(EntryOf(repository, f), text[f], w) => BufferLines(f, Restored(f)) = w
<1>1. PICK s \in Seq(Lines) : s = text[f] /\ Len(s) > 0
  BY Text
<1>2. PICK E : E = EntryOf(repository, f)
  OBVIOUS
<1>3. \A e \in E : e \in Entries /\ Sound(e)
  <2>1. repository \in Seq(Entries) /\ \A e \in Range(repository) : Sound(e)
    BY DEF Stored, Orderly
  <2>2. Range(repository) \subseteq Entries
    BY <2>1, RangeOf
  <2> QED
    BY <1>2, <2>1, <2>2 DEF EntryOf
<1>4. Restored(f) = UNION {RestoreEntry(e, s) : e \in E}
  BY <1>1, <1>2 DEF Restored
<1>5. \A e \in E : /\ RestoreEntry(e, s) \subseteq 1 .. Len(s)
                   /\ e.size = Len(s) =>
                        RestoreEntry(e, s) = {b.position : b \in Range(e.bookmarks)}
  BY <1>1, <1>3, RestoreGives
<1>6. ASSUME NEW w, KeptIn(E, s, w)
      PROVE  BufferLines(f, Restored(f)) = w
  <2>1. BufferLines(f, Restored(f)) = {s[n] : n \in Restored(f)}
    BY <1>1 DEF BufferLines
  <2>2. w = UNION {{b.after : b \in Range(e.bookmarks)} : e \in E}
    BY <1>6 DEF KeptIn
  <2>3. \A e \in E : /\ RestoreEntry(e, s) = {b.position : b \in Range(e.bookmarks)}
                     /\ \A b \in Range(e.bookmarks) : b.after = s[b.position]
    BY <1>5, <1>6 DEF KeptIn
  <2>4. \A n \in Restored(f) : s[n] \in w
    BY <1>4, <2>2, <2>3
  <2>5. \A x \in w : \E n \in Restored(f) : x = s[n]
    BY <1>4, <2>2, <2>3
  <2> QED
    BY <2>1, <2>4, <2>5
<1> QED
  BY <1>1, <1>2, <1>4, <1>5, <1>6

LEMMA Visits ==
    ASSUME Inv, NEW g \in Files, Visit(g)
    PROVE  Inv'
<1> USE DEF Inv, Visit
<1>1. PICK ms : ms = Restored(g)
  OBVIOUS
<1>2. /\ ms \subseteq 1 .. Len(text[g])
      /\ \A w : KeptIn(EntryOf(repository, g), text[g], w) => BufferLines(g, ms) = w
  BY <1>1, RestoredGives
<1>3. marks' = [marks EXCEPT ![g] = ms] /\ open' = open \cup {g}
  BY <1>1
<1>4. marks' \in [Files -> SUBSET Nat] /\ marks'[g] = ms
      /\ \A f \in Files \ {g} : marks'[f] = marks[f]
  <2>1. ms \in SUBSET Nat
    BY <1>2, Text
  <2> QED
    BY <1>3, <2>1 DEF Types
<1>5. BufferLines(g, ms) \subseteq Lines
  BY <1>2, Text DEF BufferLines
<1>6. /\ wanted' \in [Files -> SUBSET Lines] /\ newest' \in [Files -> Places]
      /\ \A f \in Files \ {g} : wanted'[f] = wanted[f] /\ newest'[f] = newest[f]
      /\ newest[g] # "lost" => wanted'[g] = wanted[g] /\ newest'[g] = newest[g]
      /\ newest[g] = "lost" => wanted'[g] = BufferLines(g, ms) /\ newest'[g] = "buffer"
  <2>1. CASE newest[g] # "lost"
    BY <2>1 DEF Types
  <2>2. CASE newest[g] = "lost"
    <3>1. /\ wanted' = [wanted EXCEPT ![g] = BufferLines(g, ms)]
          /\ newest' = [newest EXCEPT ![g] = "buffer"]
      BY <1>1, <2>2
    <3> QED
      BY <1>5, <2>2, <3>1 DEF Types, Places
  <2> QED
    BY <2>1, <2>2
<1>7. Types' /\ AtRest'
  BY <1>4, <1>6 DEF Types, AtRest
<1>8. Within'
  <2> SUFFICES ASSUME NEW f \in Files
               PROVE  marks'[f] \subseteq (IF f \in open' THEN 1 .. Len(text'[f]) ELSE {})
    BY DEF Within
  <2>1. CASE f = g
    BY <1>2, <1>3, <1>4, <2>1
  <2>2. CASE f # g
    BY <1>3, <1>4, <2>2 DEF Within
  <2> QED
    BY <2>1, <2>2
<1>9. Stored'
  BY DEF Stored
<1>10. ASSUME NEW f \in Files PROVE Where(f)'
  <2>1. Where(f)
    OBVIOUS
  <2>2. CASE f # g
    BY <1>3, <1>4, <1>6, <2>1, <2>2 DEF Where, BufferLines
  <2>3. CASE f = g
    <3>1. CASE newest[g] = "lost"
      <4>1. newest'[g] = "buffer" /\ wanted'[g] = BufferLines(g, ms) /\ marks'[g] = ms
        BY <1>4, <1>6, <3>1
      <4>2. BufferLines(g, marks[g])' = BufferLines(g, ms)
        BY <4>1 DEF BufferLines
      <4> QED
        BY <1>3, <2>3, <4>1, <4>2 DEF Where
    <3>2. CASE newest[g] # "lost"
      <4>1. newest[g] \in {"repository", "disk"}
        BY <2>1, <2>3, <3>2 DEF Where, Types, Places
      <4>2. KeptIn(EntryOf(repository, g), text[g], wanted[g])
        BY <2>1, <2>3, <4>1 DEF Where
      <4>3. BufferLines(g, ms) = wanted[g]
        BY <1>2, <4>2
      <4>4. BufferLines(g, marks[g])' = wanted'[g]
        BY <1>4, <1>6, <3>2, <4>3 DEF BufferLines
      <4> QED
        BY <1>6, <2>1, <2>3, <3>2, <4>1, <4>2, <4>4 DEF Where
    <3> QED
      BY <3>1, <3>2
  <2> QED
    BY <2>2, <2>3
<1> QED
  BY <1>7, <1>8, <1>9, <1>10

LEMMA Toggles ==
    ASSUME Inv, NEW g \in Files, NEW n \in 1 .. Len(text[g]), Toggle(g, n)
    PROVE  Inv'
<1> USE DEF Inv
<1>1. PICK ms : ms = IF n \in marks[g] THEN marks[g] \ {n} ELSE marks[g] \cup {n}
  OBVIOUS
<1>2. /\ g \in open /\ marks' = [marks EXCEPT ![g] = ms]
      /\ wanted' = [wanted EXCEPT ![g] = BufferLines(g, ms)]
      /\ newest' = [newest EXCEPT ![g] = "buffer"]
      /\ UNCHANGED <<running, text, open, repository, disk>>
  BY <1>1 DEF Toggle
<1>3. ms \subseteq 1 .. Len(text[g]) /\ ms \in SUBSET Nat
  <2>1. marks[g] \subseteq 1 .. Len(text[g])
    BY <1>2 DEF Within
  <2> QED
    BY <1>1, <2>1, Text
<1>4. BufferLines(g, ms) \in SUBSET Lines
  BY <1>3, Text DEF BufferLines
<1>5. /\ marks' \in [Files -> SUBSET Nat] /\ marks'[g] = ms
      /\ \A f \in Files \ {g} : marks'[f] = marks[f]
  BY <1>2, <1>3 DEF Types
<1>6. /\ wanted' \in [Files -> SUBSET Lines] /\ wanted'[g] = BufferLines(g, ms)
      /\ \A f \in Files \ {g} : wanted'[f] = wanted[f]
  BY <1>2, <1>4 DEF Types
<1>7. /\ newest' \in [Files -> Places] /\ newest'[g] = "buffer"
      /\ \A f \in Files \ {g} : newest'[f] = newest[f]
  BY <1>2 DEF Types, Places
<1>8. Types' /\ AtRest' /\ Stored'
  <2>1. running
    BY <1>2 DEF AtRest
  <2> QED
    BY <1>2, <1>5, <1>6, <1>7, <2>1 DEF Types, AtRest, Stored
<1>9. Within'
  <2> SUFFICES ASSUME NEW f \in Files
               PROVE  marks'[f] \subseteq (IF f \in open' THEN 1 .. Len(text'[f]) ELSE {})
    BY DEF Within
  <2>1. CASE f = g
    BY <1>2, <1>3, <1>5, <2>1
  <2>2. CASE f # g
    BY <1>2, <1>5, <2>2 DEF Within
  <2> QED
    BY <2>1, <2>2
<1>10. ASSUME NEW f \in Files PROVE Where(f)'
  <2>1. Where(f)
    OBVIOUS
  <2>2. CASE f # g
    BY <1>2, <1>5, <1>6, <1>7, <2>1, <2>2 DEF Where, BufferLines
  <2>3. CASE f = g
    <3>1. BufferLines(g, marks[g])' = BufferLines(g, ms)
      BY <1>2, <1>5 DEF BufferLines
    <3> QED
      BY <1>2, <1>6, <1>7, <2>3, <3>1 DEF Where
  <2> QED
    BY <2>2, <2>3
<1> QED
  BY <1>8, <1>9, <1>10

LEMMA Kills ==
    ASSUME Inv, NEW g \in Files, Kill(g)
    PROVE  Inv'
<1> USE DEF Inv
<1>1. PICK point \in 1 .. (Len(text[g]) + 1) : repository' = SaveBuffer(g, point)
  BY DEF Kill
<1>2. PICK r : r = repository'
  OBVIOUS
<1>3. /\ g \in open /\ open' = open \ {g} /\ marks' = [marks EXCEPT ![g] = {}]
      /\ newest' = [h \in Files |->
           IF h = g THEN IF newest[g] = "buffer" THEN "repository" ELSE newest[g]
           ELSE IF h \notin Evicted(r) THEN newest[h]
           ELSE IF h \in open THEN "buffer" ELSE "lost"]
      /\ UNCHANGED <<running, text, disk, wanted>>
  BY <1>2 DEF Kill
<1>4. text[g] \in Seq(Lines) /\ marks[g] \subseteq 1 .. Len(text[g])
  BY <1>3, Text DEF Within
<1>5. PICK e : e = Entry(g, point)
  OBVIOUS
<1>6. /\ Orderly(r) /\ Len(r) <= RepositorySize
      /\ EntryOf(r, g) = IF marks[g] = {} THEN {} ELSE {e}
      /\ \A f \in Files \ {g} : f \notin Evicted(r) => EntryOf(r, f) = EntryOf(repository, f)
  BY <1>1, <1>2, <1>4, <1>5, SaveGives DEF Stored
<1>7. KeptIn(EntryOf(r, g), text[g], wanted[g])
  <2>1. BufferLines(g, marks[g]) = wanted[g]
    BY <1>3 DEF Where
  <2>2. CASE marks[g] = {}
    BY <1>6, <2>1, <2>2 DEF KeptIn, BufferLines
  <2>3. CASE marks[g] # {}
    <3>1. /\ e.size = Len(text[g])
          /\ {b.after : b \in Range(e.bookmarks)} = BufferLines(g, marks[g])
      BY <1>4, <1>5, EntryGives
    <3>2. \A b \in Range(e.bookmarks) : b.after = text[g][b.position]
      BY <1>4, <1>5, EntryGives
    <3>3. EntryOf(r, g) = {e}
      BY <1>6, <2>3
    <3> QED
      BY <2>1, <3>1, <3>2, <3>3 DEF KeptIn
  <2> QED
    BY <2>2, <2>3
<1>8. /\ marks' \in [Files -> SUBSET Nat] /\ marks'[g] = {}
      /\ \A f \in Files \ {g} : marks'[f] = marks[f]
  BY <1>3 DEF Types
<1>9. /\ newest'[g] = IF newest[g] = "buffer" THEN "repository" ELSE newest[g]
      /\ \A f \in Files \ {g} :
           newest'[f] = IF f \notin Evicted(r) THEN newest[f]
                        ELSE IF f \in open THEN "buffer" ELSE "lost"
  BY <1>3
<1>10. newest' \in [Files -> Places]
  <2>1. \A f \in Files : newest[f] \in Places
    BY DEF Types
  <2>2. \A f \in Files : newest'[f] \in Places
    BY <1>9, <2>1 DEF Places
  <2> QED
    BY <1>3, <2>2
<1>11. running
  BY <1>3 DEF AtRest
<1>12. Types' /\ AtRest'
  BY <1>3, <1>8, <1>10, <1>11 DEF Types, AtRest
<1>13. Stored'
  BY <1>2, <1>3, <1>6 DEF Stored
<1>14. Within'
  BY <1>3, <1>8 DEF Within
<1>15. ASSUME NEW f \in Files PROVE Where(f)'
  <2>1. Where(f)
    OBVIOUS
  <2>2. CASE f = g
    <3>1. newest[g] # "lost" /\ newest'[g] # "buffer"
      BY <1>3, <1>9, <2>1, <2>2 DEF Where
    <3>2. newest'[g] = "disk" => newest[g] = "disk"
      BY <1>9
    <3> QED
      BY <1>2, <1>3, <1>7, <2>1, <2>2, <3>1, <3>2 DEF Where
  <2>3. CASE f # g /\ f \notin Evicted(r)
    <3>1. /\ newest'[f] = newest[f] /\ marks'[f] = marks[f] /\ (f \in open' <=> f \in open)
          /\ EntryOf(r, f) = EntryOf(repository, f)
      BY <1>3, <1>6, <1>8, <1>9, <2>3
    <3>2. BufferLines(f, marks[f])' = BufferLines(f, marks[f])
      BY <1>3, <3>1 DEF BufferLines
    <3> QED
      BY <1>2, <1>3, <2>1, <3>1, <3>2 DEF Where
  <2>4. CASE f # g /\ f \in Evicted(r)
    <3>1. /\ newest'[f] = IF f \in open THEN "buffer" ELSE "lost"
          /\ marks'[f] = marks[f] /\ (f \in open' <=> f \in open)
      BY <1>3, <1>8, <1>9, <2>4
    <3>2. BufferLines(f, marks[f])' = BufferLines(f, marks[f])
      BY <1>3, <3>1 DEF BufferLines
    <3> QED
      BY <1>3, <2>1, <3>1, <3>2 DEF Where
  <2> QED
    BY <2>2, <2>3, <2>4
<1> QED
  BY <1>12, <1>13, <1>14, <1>15

\* However Emacs stops, it leaves no buffer and what is on disk.
LEMMA Stops ==
    ASSUME Inv, NEW there, Stop(there), Orderly(disk'), Len(disk') <= RepositorySize,
           \A f \in Files : newest[f] \in there =>
             KeptIn(EntryOf(disk', f), text[f], wanted[f])
    PROVE  Inv'
<1> USE DEF Inv
<1>1. /\ running' = FALSE /\ open' = {} /\ marks' = [f \in Files |-> {}]
      /\ repository' = << >> /\ UNCHANGED <<text, wanted>>
      /\ newest' = [f \in Files |-> IF newest[f] \in there THEN "disk" ELSE "lost"]
  BY DEF Stop
<1>2. Types' /\ Within' /\ AtRest'
  BY <1>1 DEF Types, Within, AtRest, Places
<1>3. Stored'
  BY <1>1, EmptyOrderly DEF Stored
<1>4. ASSUME NEW f \in Files PROVE Where(f)'
  <2>1. newest'[f] = IF newest[f] \in there THEN "disk" ELSE "lost"
    BY <1>1
  <2> QED
    BY <1>1, <2>1 DEF Where
<1> QED
  BY <1>2, <1>3, <1>4

LEMMA Exits == Inv /\ Exit => Inv'
<1> SUFFICES ASSUME Inv, Exit PROVE Inv'
  OBVIOUS
<1>1. Stop({"repository", "disk"}) /\ disk' = repository /\ running
  BY DEF Exit, Stop
<1>2. \A f \in Files : newest[f] \in {"repository", "disk"} =>
        KeptIn(EntryOf(disk', f), text[f], wanted[f])
  BY <1>1 DEF Inv, Where
<1> QED
  BY <1>1, <1>2, Stops DEF Inv, Stored

LEMMA Crashes == Inv /\ (Crash \/ CrashInSave) => Inv'
<1>1. ASSUME Inv, Crash PROVE Inv'
  <2>1. Stop({"disk"}) /\ disk' = disk
    BY <1>1 DEF Crash
  <2>2. \A f \in Files : newest[f] \in {"disk"} =>
          KeptIn(EntryOf(disk', f), text[f], wanted[f])
    BY <1>1, <2>1 DEF Inv, Where
  <2> QED
    BY <1>1, <2>1, <2>2, Stops DEF Inv, Stored
<1>2. ASSUME Inv, CrashInSave PROVE Inv'
  BY <1>2, EmptyOrderly, Stops DEF CrashInSave
<1> QED
  BY <1>1, <1>2

LEMMA Stutters == Inv /\ UNCHANGED vars => Inv'
<1> SUFFICES ASSUME Inv, UNCHANGED vars PROVE Inv'
  OBVIOUS
<1> USE DEF vars
<1>1. (Types /\ Within /\ Stored /\ AtRest)'
  BY DEF Inv, Types, Within, Stored, AtRest
<1>2. \A f \in Files : Where(f)'
  BY DEF Inv, Where, BufferLines
<1> QED
  BY <1>1, <1>2 DEF Inv

LEMMA Always == Spec => []Inv
<1>1. Inv /\ [Next]_vars => Inv'
  <2> SUFFICES ASSUME Inv, [Next]_vars PROVE Inv'
    OBVIOUS
  <2>1. CASE Start
    BY <2>1, Starts
  <2>2. CASE Exit
    BY <2>2, Exits
  <2>3. CASE Crash \/ CrashInSave
    BY <2>3, Crashes
  <2>4. ASSUME NEW f \in Files, Change(f) PROVE Inv'
    BY <2>4, Changes
  <2>5. ASSUME NEW f \in Files, Visit(f) PROVE Inv'
    BY <2>5, Visits
  <2>6. ASSUME NEW f \in Files, Kill(f) PROVE Inv'
    BY <2>6, Kills
  <2>7. ASSUME NEW f \in Files, NEW n \in 1 .. Len(text[f]), Toggle(f, n) PROVE Inv'
    BY <2>7, Toggles
  <2>8. CASE UNCHANGED vars
    BY <2>8, Stutters
  <2> QED
    BY <2>1, <2>2, <2>3, <2>4, <2>5, <2>6, <2>7, <2>8 DEF Next
<1> QED
  BY Initially, <1>1, PTL DEF Spec

(***************************************************************************)
(* The theorems.                                                           *)
(***************************************************************************)

\* The repository holds one entry for a file at most, none without bookmarks,
\* no more than bm-repository-size allows, and no position beyond the size it
\* gives: through bm-repository-add, -remove and -load, and whatever is lost.
THEOREM TypeCorrect == Spec => []TypeOK
<1>1. Inv => TypeOK
  BY InvTypes DEF Inv
<1> QED
  BY Always, <1>1, PTL

\* The bookmarks of a file that only Emacs has changed come through
\* bm-buffer-save, bm-repository-save, bm-repository-load and
\* bm-buffer-restore, any number of times, as the user left them.
THEOREM MarksSurvive == Spec => []BookmarksKept
  BY Always, InvKept, PTL
=============================================================================
