---------------------------- MODULE MathJax_proofs ----------------------------
(***************************************************************************)
(* Proofs about the two programs that run MathJax.  MathPreview, for any   *)
(* equations, buffers, outcomes and bounds: types, the numbers of the      *)
(* jobs, whose image an overlay shows, and which overlays have a job.      *)
(* StaticMathJax, for any pages, urls and command lines: types, the script *)
(* tags that are left, and what the urls of the fonts are replaced by.     *)
(***************************************************************************)
EXTENDS MathPreview, StaticMathJax, Folding, SequenceTheorems, TLAPS

(***************************************************************************)
(* What is left of the queue.                                              *)
(***************************************************************************)

\* The newest job first, as to numbers and as to overlays.
Ordered(jobs) ==
    \A i, j \in DOMAIN jobs :
      i < j => jobs[i].id > jobs[j].id /\ jobs[i].overlay > jobs[j].overlay

\* Taking jobs off one by one: each value from the one before.
LEMMA WithoutSteps ==
    ASSUME NEW found, NEW jobs \in Seq(Job)
    PROVE  \E h \in [0 .. Len(jobs) -> Seq(Job)] :
             /\ h[0] = << >> /\ h[Len(jobs)] = WithoutJobs(found, jobs)
             /\ \A n \in 1 .. Len(jobs) :
                  h[n] = IF n \in found THEN h[n - 1] ELSE Append(h[n - 1], jobs[n])
<1> DEFINE V == Seq(Job)
           len == Len(jobs)
           op == [p \in V \X (1 .. len) |->
                    IF p[2] \in found THEN p[1] ELSE Append(p[1], jobs[p[2]])]
           Is(k) == k = [n \in 0 .. len |->
                           IF n = 0 THEN << >>
                           ELSE IF n \in found THEN k[n - 1] ELSE Append(k[n - 1], jobs[n])]
           kept == CHOOSE k : Is(k)
<1>1. len \in Nat /\ << >> \in V /\ DOMAIN jobs = 1 .. len /\ \A n \in 1 .. len : jobs[n] \in Job
  OBVIOUS
<1>2. op \in [V \X (1 .. len) -> V]
  BY <1>1
<1>3. WithoutJobs(found, jobs) = kept[len]
  BY DEF WithoutJobs
<1> HIDE DEF op
<1>4. PICK h \in [0 .. len -> V] : Steps(h, << >>, op, len, h[len])
  <2> HIDE DEF V, len
  <2> QED
    BY <1>1, <1>2, StepsExist
<1>5. \A n \in 1 .. len : n - 1 \in 0 .. len /\ n \in 0 .. len /\ n # 0
  BY <1>1
<1>6. ASSUME NEW n \in 1 .. len
      PROVE  h[n] = IF n \in found THEN h[n - 1] ELSE Append(h[n - 1], jobs[n])
  <2>1. h[n] = op[<<h[n - 1], n>>] /\ h[n - 1] \in V
    BY <1>4, <1>5 DEF Steps
  <2> QED
    BY <2>1 DEF op
<1>7. Is(h)
  <2>1. \A n \in 0 .. len :
          h[n] = IF n = 0 THEN << >>
                 ELSE IF n \in found THEN h[n - 1] ELSE Append(h[n - 1], jobs[n])
    <3> SUFFICES ASSUME NEW n \in 0 .. len, n # 0
                 PROVE  h[n] = IF n \in found THEN h[n - 1] ELSE Append(h[n - 1], jobs[n])
      BY <1>4 DEF Steps
    <3>1. n \in 1 .. len
      BY <1>1
    <3> QED
      BY <1>6, <3>1
  <2>2. h = [n \in 0 .. len |-> h[n]]
    OBVIOUS
  <2> HIDE DEF len
  <2> QED
    BY <2>1, <2>2
<1> HIDE DEF kept
<1>8. Is(kept)
  <2> HIDE DEF Is
  <2> QED
    BY <1>7 DEF kept
<1>9. Stepwise(V, kept, << >>, op, len)
  <2>1. ASSUME NEW n \in 1 .. len, kept[n - 1] \in V
        PROVE  kept[n] = op[<<kept[n - 1], n>>]
    <3>1. kept[n] = IF n \in found THEN kept[n - 1] ELSE Append(kept[n - 1], jobs[n])
      BY <1>5, <1>8
    <3> QED
      BY <2>1, <3>1 DEF op
  <2>2. kept[0] = << >>
    BY <1>1, <1>8
  <2> QED
    BY <2>1, <2>2 DEF Stepwise
<1>10. Steps(kept, << >>, op, len, kept[len]) /\ \A n \in 0 .. len : kept[n] \in V
  <2> HIDE DEF V, len, Is
  <2> QED
    BY <1>1, <1>2, <1>9, StepwiseSteps
<1>11. kept \in [0 .. len -> V]
  BY <1>8, <1>10
<1>12. ASSUME NEW n \in 1 .. len
       PROVE  kept[n] = IF n \in found THEN kept[n - 1] ELSE Append(kept[n - 1], jobs[n])
  BY <1>5, <1>8
<1> QED
  BY <1>3, <1>10, <1>11, <1>12 DEF Steps


\* What is left: the jobs at the other places, in the same order.
LEMMA WithoutGives ==
    ASSUME NEW found, NEW jobs \in Seq(Job)
    PROVE  LET rest == WithoutJobs(found, jobs) IN
           /\ rest \in Seq(Job)
           /\ Range(rest) = {jobs[i] : i \in DOMAIN jobs \ found}
           /\ Ordered(jobs) => Ordered(rest)
<1> DEFINE len == Len(jobs)
<1>1. PICK h \in [0 .. len -> Seq(Job)] :
        /\ h[0] = << >> /\ h[len] = WithoutJobs(found, jobs)
        /\ \A n \in 1 .. len :
             h[n] = IF n \in found THEN h[n - 1] ELSE Append(h[n - 1], jobs[n])
  BY WithoutSteps
<1>2. len \in Nat /\ DOMAIN jobs = 1 .. len /\ \A n \in 1 .. len : jobs[n] \in Job
  OBVIOUS
<1> HIDE DEF len
<1> DEFINE Left(n) == {jobs[i] : i \in (1 .. n) \ found}
           Good(n) == n <= len => Range(h[n]) = Left(n) /\ (Ordered(jobs) => Ordered(h[n]))
           S == {n \in Nat : Good(n)}
<1>3. 0 \in S
  BY <1>1 DEF Range, Ordered
<1>4. ASSUME NEW n \in Nat, n \in S PROVE n + 1 \in S
  <2> SUFFICES ASSUME n + 1 <= len
               PROVE  /\ Range(h[n + 1]) = Left(n + 1)
                      /\ Ordered(jobs) => Ordered(h[n + 1])
    OBVIOUS
  <2>1. Range(h[n]) = Left(n) /\ (Ordered(jobs) => Ordered(h[n])) /\ h[n] \in Seq(Job)
    BY <1>1, <1>2, <1>4
  <2>2. n + 1 \in 1 .. len /\ (n + 1) - 1 = n /\ jobs[n + 1] \in Job
    BY <1>2
  <2>3. 1 .. n + 1 = (1 .. n) \cup {n + 1}
    OBVIOUS
  <2>4. CASE n + 1 \in found
    <3>1. h[n + 1] = h[n]
      BY <1>1, <2>2, <2>4
    <3>2. Left(n + 1) = Left(n)
      BY <2>3, <2>4
    <3> HIDE DEF Left
    <3> QED
      BY <2>1, <3>1, <3>2
  <2>5. CASE n + 1 \notin found
    <3> DEFINE job == jobs[n + 1]
               old == h[n]
               new == Append(old, job)
    <3>1. h[n + 1] = new
      BY <1>1, <2>2, <2>5
    <3>2. Left(n + 1) = Left(n) \cup {job}
      BY <2>3, <2>5
    <3> DEFINE m == Len(old)
    <3>3. m \in Nat /\ DOMAIN old = 1 .. m /\ DOMAIN new = 1 .. m + 1
      BY <2>1, <2>2
    <3>4. new[m + 1] = job /\ \A i \in 1 .. m : new[i] = old[i]
      BY <2>1, <2>2
    <3> HIDE DEF m, old, new
    <3>5. Range(new) = Range(old) \cup {job}
      <4>1. Range(new) \subseteq Range(old) \cup {job}
        BY <3>3, <3>4 DEF Range
      <4>2. Range(old) \subseteq Range(new) /\ job \in Range(new)
        BY <3>3, <3>4 DEF Range
      <4> QED
        BY <4>1, <4>2
    <3>6. ASSUME Ordered(jobs), NEW i \in DOMAIN new, NEW j \in DOMAIN new, i < j
          PROVE  new[i].id > new[j].id /\ new[i].overlay > new[j].overlay
      <4>1. CASE j = m + 1
        <5>1. i \in 1 .. m /\ new[i] \in Range(old) /\ new[j] = job
          BY <3>3, <3>4, <3>6, <4>1 DEF Range
        <5>2. PICK k \in 1 .. n : new[i] = jobs[k]
          BY <2>1, <5>1 DEF old
        <5>3. k \in DOMAIN jobs /\ n + 1 \in DOMAIN jobs /\ k < n + 1
          BY <1>2, <2>2
        <5> QED
          BY <3>6, <5>1, <5>2, <5>3 DEF Ordered
      <4>2. CASE j # m + 1
        <5>1. i \in 1 .. m /\ j \in 1 .. m
          BY <3>3, <3>6, <4>2
        <5> QED
          BY <2>1, <3>3, <3>4, <3>6, <5>1 DEF Ordered, old
      <4> QED
        BY <4>1, <4>2
    <3>7. Ordered(jobs) => Ordered(new)
      BY <3>6 DEF Ordered
    <3> HIDE DEF Left
    <3> QED
      BY <2>1, <3>1, <3>2, <3>5, <3>7 DEF old
  <2> QED
    BY <2>4, <2>5
<1>5. Nat \subseteq S
  <2> HIDE DEF S
  <2> QED
    BY <1>3, <1>4, SetInduction
<1>6. Good(len)
  BY <1>2, <1>5
<1> HIDE DEF Left
<1>7. /\ h[len] \in Seq(Job) /\ Range(h[len]) = Left(len)
      /\ Ordered(jobs) => Ordered(h[len])
  BY <1>1, <1>2, <1>6
<1> QED
  BY <1>1, <1>2, <1>7 DEF Left

(***************************************************************************)
(* Reading: one piece after the other.                                     *)
(***************************************************************************)

Readings == [line : Seq(Piece), queue : Seq(Job), overlays : Seq(Overlay), failed : BOOLEAN]

LEMMA ProcessInputType ==
    ASSUME NEW r \in Readings, NEW answer \in Answer
    PROVE  ProcessInput(r, answer) \in Readings
<1> DEFINE found == JobOf(answer.id, r.queue)
           jobs  == {r.queue[i].overlay : i \in found}
           new   == [o \in DOMAIN r.overlays |->
                       IF o \in jobs THEN Receive(r.overlays[o], answer.data)
                       ELSE r.overlays[o]]
<1>1. WithoutJobs(found, r.queue) \in Seq(Job)
  BY WithoutGives DEF Readings
<1>2. new \in Seq(Overlay)
  <2>1. \A o \in DOMAIN r.overlays : r.overlays[o] \in Overlay
    BY DEF Readings
  <2>2. \A v \in Overlay : Receive(v, answer.data) \in Overlay
    BY DEF Receive, Overlay, Answer
  <2> HIDE DEF jobs
  <2>3. \A o \in DOMAIN r.overlays : new[o] \in Overlay
    BY <2>1, <2>2
  <2>4. DOMAIN new = 1 .. Len(r.overlays) /\ Len(r.overlays) \in Nat
    BY DEF Readings
  <2>5. new = [o \in DOMAIN r.overlays |-> new[o]]
    OBVIOUS
  <2> HIDE DEF new
  <2> DEFINE n == Len(r.overlays)
  <2>6. n \in Nat /\ DOMAIN r.overlays = 1 .. n
    BY <2>4 DEF Readings
  <2> HIDE DEF n
  <2>7. new \in [1 .. n -> Overlay]
    BY <2>3, <2>5, <2>6
  <2> QED
    BY <2>6, <2>7
<1>3. ProcessInput(r, answer) =
        [r EXCEPT !.queue = WithoutJobs(found, @), !.overlays = new]
  BY DEF ProcessInput
<1> HIDE DEF new, found
<1> QED
  BY <1>1, <1>2, <1>3 DEF Readings

LEMMA ReadPieceType ==
    ASSUME NEW r \in Readings, NEW piece \in Piece
    PROVE  ReadPiece(r, piece) \in Readings
<1> DEFINE line == Append(r.line, piece)
           p == ProcessInput(r, line[1].answer)
<1>1. line \in Seq(Piece) /\ << >> \in Seq(Piece)
  BY DEF Readings
<1>2. \A q \in Readings, l \in Seq(Piece) :
        /\ [q EXCEPT !.line = l] \in Readings
        /\ [q EXCEPT !.line = l, !.failed = TRUE] \in Readings
  BY DEF Readings
<1>3. CASE piece.part \notin LineEnds
  <2>1. ReadPiece(r, piece) = [r EXCEPT !.line = line]
    BY <1>3 DEF ReadPiece
  <2> HIDE DEF line
  <2> QED
    BY <1>1, <1>2, <2>1
<1>4. CASE piece.part \in LineEnds /\ (r.failed \/ ~Parses(line))
  <2>1. ReadPiece(r, piece) = [r EXCEPT !.line = << >>, !.failed = TRUE]
    BY <1>4 DEF ReadPiece
  <2> QED
    BY <1>1, <1>2, <2>1
<1>5. CASE piece.part \in LineEnds /\ ~r.failed /\ Parses(line)
  <2>1. ReadPiece(r, piece) = [p EXCEPT !.line = << >>]
    BY <1>5 DEF ReadPiece
  <2> HIDE DEF line
  <2>2. line[1].answer \in Answer
    <3>1. line[1] \in Piece
      BY <1>1, <1>5 DEF Parses
    <3> QED
      BY <3>1 DEF Piece
  <2>3. p \in Readings
    BY <2>2, ProcessInputType
  <2> HIDE DEF p
  <2> QED
    BY <1>1, <1>2, <2>1, <2>3
<1> QED
  BY <1>3, <1>4, <1>5

\* Reading: each value of the recursion from the one before.
LEMMA ReadSteps ==
    ASSUME NEW pieces \in Seq(Piece), Reading \in Readings
    PROVE  \E h \in [0 .. Len(pieces) -> Readings] :
             /\ h[0] = Reading /\ h[Len(pieces)] = ReadAll(pieces)
             /\ \A n \in 1 .. Len(pieces) : h[n] = ReadPiece(h[n - 1], pieces[n])
<1> DEFINE len == Len(pieces)
           op == [p \in Readings \X (1 .. len) |-> ReadPiece(p[1], pieces[p[2]])]
           Is(k) == k = [n \in 0 .. len |->
                           IF n = 0 THEN Reading ELSE ReadPiece(k[n - 1], pieces[n])]
           reading == CHOOSE k : Is(k)
<1>1. len \in Nat /\ \A n \in 1 .. len : pieces[n] \in Piece
  OBVIOUS
<1>2. op \in [Readings \X (1 .. len) -> Readings]
  <2> HIDE DEF len
  <2>1. \A p \in Readings \X (1 .. len) : ReadPiece(p[1], pieces[p[2]]) \in Readings
    BY <1>1, ReadPieceType
  <2> QED
    BY <2>1
<1>3. ReadAll(pieces) = reading[len]
  BY DEF ReadAll
<1> HIDE DEF len
<1>4. \A r \in Readings, n \in 1 .. len : op[<<r, n>>] = ReadPiece(r, pieces[n])
  OBVIOUS
<1> HIDE DEF op
<1>5. PICK h \in [0 .. len -> Readings] : Steps(h, Reading, op, len, h[len])
  BY <1>1, <1>2, StepsExist
<1>6. \A n \in 1 .. len : n - 1 \in 0 .. len /\ n \in 0 .. len /\ n # 0
  BY <1>1
<1>7. ASSUME NEW n \in 1 .. len
      PROVE  h[n] = ReadPiece(h[n - 1], pieces[n])
  BY <1>4, <1>5, <1>6 DEF Steps
<1>8. Is(h)
  <2>1. \A n \in 0 .. len :
          h[n] = IF n = 0 THEN Reading ELSE ReadPiece(h[n - 1], pieces[n])
    <3> SUFFICES ASSUME NEW n \in 0 .. len, n # 0
                 PROVE  h[n] = ReadPiece(h[n - 1], pieces[n])
      BY <1>5 DEF Steps
    <3>1. n \in 1 .. len
      BY <1>1
    <3> QED
      BY <1>7, <3>1
  <2>2. h = [n \in 0 .. len |-> h[n]]
    OBVIOUS
  <2> QED
    BY <2>1, <2>2
<1> HIDE DEF reading
<1>9. Is(reading)
  <2> HIDE DEF Is
  <2> QED
    BY <1>8 DEF reading
<1>10. \A n \in 1 .. len : reading[n] = ReadPiece(reading[n - 1], pieces[n])
  BY <1>6, <1>9
<1>11. Stepwise(Readings, reading, Reading, op, len)
  <2>1. reading[0] = Reading
    BY <1>1, <1>9
  <2> QED
    BY <1>4, <1>10, <2>1 DEF Stepwise
<1>12. Steps(reading, Reading, op, len, reading[len]) /\ \A n \in 0 .. len : reading[n] \in Readings
  <2> HIDE DEF Is
  <2> QED
    BY <1>1, <1>2, <1>11, StepwiseSteps
<1>13. reading \in [0 .. len -> Readings]
  BY <1>9, <1>12
<1> QED
  BY <1>3, <1>10, <1>12, <1>13 DEF Steps, len

\* Of two jobs on an ordered queue, neither the number nor the overlay is the same.
LEMMA OrderedTells ==
    ASSUME NEW jobs \in Seq(Job), Ordered(jobs), NEW a \in Range(jobs), NEW b \in Range(jobs),
           a.id = b.id \/ a.overlay = b.overlay
    PROVE  a = b
<1>1. PICK i \in DOMAIN jobs : jobs[i] = a
  BY DEF Range
<1>2. PICK j \in DOMAIN jobs : jobs[j] = b
  BY DEF Range
<1>3. i \in Int /\ j \in Int /\ a \in Job /\ b \in Job
  BY <1>1, <1>2
<1>4. a.id \in Int /\ b.id \in Int /\ a.overlay \in Int /\ b.overlay \in Int
  BY <1>3 DEF Job
<1>5. ~(i < j) /\ ~(j < i)
  BY <1>1, <1>2, <1>4 DEF Ordered
<1> QED
  BY <1>1, <1>2, <1>3, <1>5

\* An overlay is as it was, its jobs on the queue, or it got the data of an
\* answer that has its job's number, and the job is off the queue.
Untouched(jobs, marks, r, o) ==
    /\ r.overlays[o] = marks[o]
    /\ \A job \in Range(jobs) : job.overlay = o => job \in Range(r.queue)

Received(jobs, marks, r, read, o) ==
    \E a \in read, job \in Range(jobs) :
      /\ job.overlay = o /\ job.id = a.id /\ job \notin Range(r.queue)
      /\ r.overlays[o] = Receive(marks[o], a.data)

\* How far a reading r is that began with these jobs and overlays and has met
\* these answers.
SoFar(jobs, marks, r, read) ==
    /\ Ordered(r.queue) /\ Range(r.queue) \subseteq Range(jobs)
    /\ \A job \in Range(jobs) : job \in Range(r.queue) \/ \E a \in read : a.id = job.id
    /\ DOMAIN r.overlays = DOMAIN marks
    /\ \A o \in DOMAIN marks : Untouched(jobs, marks, r, o) \/ Received(jobs, marks, r, read, o)

LEMMA ProcessInputGives ==
    ASSUME NEW jobs \in Seq(Job), Ordered(jobs), NEW marks \in Seq(Overlay),
           NEW r \in Readings, NEW read, SoFar(jobs, marks, r, read), NEW answer \in Answer
    PROVE  SoFar(jobs, marks, ProcessInput(r, answer), read \cup {answer})
<1> DEFINE found == JobOf(answer.id, r.queue)
           theirs == {r.queue[i].overlay : i \in found}
           rest == WithoutJobs(found, r.queue)
           new == [o \in DOMAIN r.overlays |->
                     IF o \in theirs THEN Receive(r.overlays[o], answer.data)
                     ELSE r.overlays[o]]
           p == ProcessInput(r, answer)
<1>1. p = [r EXCEPT !.queue = rest, !.overlays = new]
  BY DEF ProcessInput
<1>2. p.queue = rest /\ p.overlays = new
  BY <1>1 DEF Readings
<1>3. Range(rest) = {job \in Range(r.queue) : job.id # answer.id} /\ Ordered(rest)
  <2>1. Range(rest) = {r.queue[i] : i \in DOMAIN r.queue \ found} /\ Ordered(rest)
    BY WithoutGives DEF Readings, SoFar
  <2>2. \A i \in DOMAIN r.queue : i \in found <=> r.queue[i].id = answer.id
    BY DEF JobOf
  <2> HIDE DEF found, rest
  <2> QED
    BY <2>1, <2>2 DEF Range
<1>4. \A o : o \in theirs <=> \E job \in Range(r.queue) : job.id = answer.id /\ job.overlay = o
  BY DEF JobOf, Range
<1>5. \A o \in DOMAIN r.overlays :
        new[o] = IF o \in theirs THEN Receive(r.overlays[o], answer.data) ELSE r.overlays[o]
  OBVIOUS
<1>6. DOMAIN new = DOMAIN marks
  BY DEF SoFar
<1> HIDE DEF found, theirs, rest, new, p
<1>7. Ordered(p.queue) /\ Range(p.queue) \subseteq Range(jobs) /\ DOMAIN p.overlays = DOMAIN marks
  BY <1>2, <1>3, <1>6 DEF SoFar
<1>8. ASSUME NEW job \in Range(jobs)
      PROVE  job \in Range(p.queue) \/ \E a \in read \cup {answer} : a.id = job.id
  BY <1>2, <1>3 DEF SoFar
<1>9. ASSUME NEW o \in DOMAIN marks
      PROVE  \/ Untouched(jobs, marks, p, o)
             \/ Received(jobs, marks, p, read \cup {answer}, o)
  <2>1. CASE o \in theirs
    <3>1. PICK job \in Range(r.queue) : job.id = answer.id /\ job.overlay = o
      BY <1>4, <2>1
    <3>2. job \in Range(jobs)
      BY DEF SoFar
    <3>3. ~Received(jobs, marks, r, read, o)
      BY <3>1, <3>2, OrderedTells DEF Received
    <3>4. r.overlays[o] = marks[o]
      BY <3>3 DEF SoFar, Untouched
    <3>5. p.overlays[o] = Receive(marks[o], answer.data)
      BY <1>2, <1>5, <2>1, <3>4 DEF SoFar
    <3>6. job \notin Range(p.queue)
      BY <1>2, <1>3, <3>1
    <3> QED
      BY <3>1, <3>2, <3>5, <3>6 DEF Received
  <2>2. CASE o \notin theirs
    <3>1. p.overlays[o] = r.overlays[o]
      BY <1>2, <1>5, <2>2 DEF SoFar
    <3>2. CASE Untouched(jobs, marks, r, o)
      BY <1>2, <1>3, <1>4, <2>2, <3>1, <3>2 DEF Untouched
    <3>3. CASE Received(jobs, marks, r, read, o)
      <4>1. PICK a \in read, job \in Range(jobs) :
              /\ job.overlay = o /\ job.id = a.id /\ job \notin Range(r.queue)
              /\ r.overlays[o] = Receive(marks[o], a.data)
        BY <3>3 DEF Received
      <4>2. job \notin Range(p.queue)
        BY <1>2, <1>3, <4>1
      <4> QED
        BY <3>1, <4>1, <4>2 DEF Received
    <3> QED
      BY <3>2, <3>3 DEF SoFar
  <2> QED
    BY <2>1, <2>2
<1> QED
  BY <1>7, <1>8, <1>9 DEF SoFar, p

\* The end of a whole answer that begins a line: what a line is parsed as.
IsWhole(pieces, k) ==
    /\ k > 1 /\ pieces[k - 1].part = "begin" /\ pieces[k].part = "end"
    /\ pieces[k - 1].answer = pieces[k].answer
    /\ k > 2 => pieces[k - 2].part \in LineEnds

\* What comes later does not matter.
LEMMA WholeSoFar ==
    ASSUME NEW s, NEW t, NEW n \in Nat, \A k \in 1 .. n : s[k] = t[k]
    PROVE  \A k \in 1 .. n : IsWhole(s, k) <=> IsWhole(t, k)
<1> SUFFICES ASSUME NEW k \in 1 .. n PROVE IsWhole(s, k) <=> IsWhole(t, k)
  OBVIOUS
<1>1. s[k] = t[k]
  OBVIOUS
<1>2. k > 1 => k - 1 \in 1 .. n
  OBVIOUS
<1>3. k > 2 => k - 2 \in 1 .. n
  OBVIOUS
<1>4. k > 1 => s[k - 1] = t[k - 1]
  BY <1>2
<1>5. k > 2 => s[k - 2] = t[k - 2]
  BY <1>3
<1> QED
  BY <1>1, <1>4, <1>5 DEF IsWhole

Answers(pieces, n) == {pieces[k].answer : k \in {k \in 1 .. n : IsWhole(pieces, k)}}

\* The line that is being read after n pieces: those behind the end of the line
\* before, none of which ends it.
IsLine(line, pieces, b, n) ==
    /\ b \in 0 .. n /\ (b > 0 => pieces[b].part \in LineEnds)
    /\ Len(line) = n - b
    /\ \A i \in 1 .. n - b : line[i] = pieces[b + i] /\ line[i].part \notin LineEnds

LEMMA ReadPieceGives ==
    ASSUME NEW jobs \in Seq(Job), Ordered(jobs), NEW marks \in Seq(Overlay),
           NEW r \in Readings, NEW pieces \in Seq(Piece),
           NEW n \in Nat, n < Len(pieces), NEW b, IsLine(r.line, pieces, b, n),
           SoFar(jobs, marks, r, Answers(pieces, b))
    PROVE  LET s == ReadPiece(r, pieces[n + 1]) IN
           \E c : /\ IsLine(s.line, pieces, c, n + 1)
                  /\ SoFar(jobs, marks, s, Answers(pieces, c))
<1> DEFINE piece == pieces[n + 1]
           line == Append(r.line, piece)
           s == ReadPiece(r, piece)
           more == Answers(pieces, n + 1)
<1>1. /\ r.line \in Seq(Piece) /\ Len(r.line) = n - b /\ b \in 0 .. n
      /\ piece \in Piece
  BY DEF IsLine, Readings
<1>2. /\ line \in Seq(Piece) /\ Len(line) = n + 1 - b /\ DOMAIN line = 1 .. n + 1 - b
      /\ line[n + 1 - b] = piece /\ \A i \in 1 .. n - b : line[i] = r.line[i]
  <2> HIDE DEF piece
  <2>1. /\ line \in Seq(Piece) /\ Len(line) = Len(r.line) + 1
        /\ \A i \in 1 .. Len(r.line) : line[i] = r.line[i]
        /\ line[Len(r.line) + 1] = piece
    BY <1>1, AppendProperties
  <2>2. Len(r.line) = n - b /\ n - b + 1 = n + 1 - b
    BY <1>1
  <2> HIDE DEF line
  <2> QED
    BY <2>1, <2>2
<1>3. \A i \in 1 .. n - b : line[i] = pieces[b + i] /\ line[i].part \notin LineEnds
  BY <1>2 DEF IsLine
<1>4. line[n + 1 - b] = pieces[b + (n + 1 - b)]
  BY <1>1, <1>2
<1>5. \A i \in 1 .. n + 1 - b : line[i] = pieces[b + i]
  <2>1. \A i \in 1 .. n + 1 - b : i \in 1 .. n - b \/ i = n + 1 - b
    BY <1>1
  <2> QED
    BY <1>3, <1>4, <2>1
<1>6. ASSUME NEW q \in Readings, NEW t \in Readings, NEW seen, SoFar(jobs, marks, q, seen),
             t.queue = q.queue, t.overlays = q.overlays
      PROVE  SoFar(jobs, marks, t, seen)
  BY <1>6 DEF SoFar, Untouched, Received
<1>7. ASSUME NEW q, NEW few, NEW many, SoFar(jobs, marks, q, few), few \subseteq many
      PROVE  SoFar(jobs, marks, q, many)
  BY <1>7 DEF SoFar, Received
<1>8. Answers(pieces, b) \subseteq more
  <2>1. \A k \in 1 .. b : k \in 1 .. n + 1
    BY <1>1
  <2> QED
    BY <2>1 DEF Answers
<1>9. s \in Readings
  BY <1>1, ReadPieceType
<1>10. piece.part \in LineEnds => IsLine(<< >>, pieces, n + 1, n + 1)
  BY DEF IsLine
<1> HIDE DEF line, more, s
<1>11. CASE piece.part \notin LineEnds
  <2>1. s = [r EXCEPT !.line = line]
    BY <1>11 DEF ReadPiece, line, s
  <2>2. s.queue = r.queue /\ s.overlays = r.overlays /\ s.line = line
    BY <2>1 DEF Readings
  <2>3. \A i \in 1 .. n + 1 - b : line[i].part \notin LineEnds
    BY <1>1, <1>2, <1>3, <1>11
  <2>4. IsLine(s.line, pieces, b, n + 1)
    BY <1>1, <1>2, <1>5, <2>2, <2>3 DEF IsLine
  <2> QED
    BY <1>6, <1>9, <2>2, <2>4 DEF s
<1>12. CASE piece.part \in LineEnds /\ (r.failed \/ ~Parses(line))
  <2>1. s = [r EXCEPT !.line = << >>, !.failed = TRUE]
    BY <1>12 DEF ReadPiece, line, s
  <2>2. s.queue = r.queue /\ s.overlays = r.overlays /\ s.line = << >>
    BY <2>1 DEF Readings
  <2>3. SoFar(jobs, marks, s, more)
    BY <1>6, <1>7, <1>8, <1>9, <2>2
  <2> QED
    BY <1>10, <1>12, <2>2, <2>3 DEF s, more
<1>13. CASE piece.part \in LineEnds /\ ~r.failed /\ Parses(line)
  <2> DEFINE answer == line[1].answer
             p == ProcessInput(r, answer)
  <2>1. s = [p EXCEPT !.line = << >>]
    BY <1>13 DEF ReadPiece, line, s
  <2>2. line[1] \in Piece /\ answer \in Answer
    <3>1. line[1] \in Piece
      BY <1>2, <1>13 DEF Parses
    <3> QED
      BY <3>1 DEF Piece
  \* The second piece of the line is the end of the answer.
  <2>3. /\ n + 1 - b >= 2 /\ line[1].part = "begin" /\ line[2].part = "end"
        /\ line[2].answer = answer
    BY <1>2, <1>13 DEF Parses
  <2>4. n + 1 - b # 2
    BY <1>2, <1>13, <2>3 DEF LineEnds
  <2>5. /\ b + 2 \in 1 .. n + 1 /\ (b + 2) - 1 = b + 1 /\ (b + 2) - 2 = b
        /\ line[1] = pieces[b + 1] /\ line[2] = pieces[b + 2]
    BY <1>1, <1>5, <2>3, <2>4
  <2>6. b > 0 => pieces[b].part \in LineEnds
    BY DEF IsLine
  <2>7. IsWhole(pieces, b + 2)
    BY <1>1, <2>3, <2>5, <2>6 DEF IsWhole
  <2>8. answer \in more
    BY <2>3, <2>5, <2>7 DEF Answers, more
  <2> HIDE DEF answer
  <2>9. p \in Readings
    BY <2>2, ProcessInputType
  <2>10. SoFar(jobs, marks, p, Answers(pieces, b) \cup {answer})
    BY <2>2, ProcessInputGives
  <2> HIDE DEF p
  <2>11. SoFar(jobs, marks, p, more)
    BY <1>7, <1>8, <2>8, <2>10
  <2>12. s.queue = p.queue /\ s.overlays = p.overlays /\ s.line = << >>
    BY <2>1, <2>9 DEF Readings
  <2>13. SoFar(jobs, marks, s, more)
    BY <1>6, <1>9, <2>9, <2>11, <2>12
  <2> QED
    BY <1>10, <1>13, <2>12, <2>13 DEF s, more
<1> QED
  BY <1>11, <1>12, <1>13

\* What is read of the pieces, from the queue and the overlays there are.
LEMMA ReadAllGives ==
    ASSUME TypeOK, Ordered(queue), NEW pieces \in Seq(Piece)
    PROVE  LET end == ReadAll(pieces) IN
           /\ end \in Readings
           /\ \E b : /\ IsLine(end.line, pieces, b, Len(pieces))
                     /\ SoFar(queue, overlays, end, Answers(pieces, b))
<1> DEFINE len == Len(pieces)
<1>1. Reading \in Readings
  BY DEF Reading, Readings, TypeOK
<1>2. PICK h \in [0 .. len -> Readings] :
        /\ h[0] = Reading /\ h[len] = ReadAll(pieces)
        /\ \A n \in 1 .. len : h[n] = ReadPiece(h[n - 1], pieces[n])
  BY <1>1, ReadSteps
<1>3. len \in Nat
  OBVIOUS
<1>4. queue \in Seq(Job) /\ overlays \in Seq(Overlay)
  BY DEF TypeOK
<1> HIDE DEF len
<1> DEFINE Good(n) == n <= len => \E b : /\ IsLine(h[n].line, pieces, b, n)
                                         /\ SoFar(queue, overlays, h[n], Answers(pieces, b))
           S == {n \in Nat : Good(n)}
<1>5. 0 \in S
  <2>1. IsLine(Reading.line, pieces, 0, 0)
    BY DEF IsLine, Reading
  <2>2. SoFar(queue, overlays, Reading, Answers(pieces, 0))
    BY <1>4 DEF SoFar, Untouched, Reading
  <2> QED
    BY <1>2, <2>1, <2>2
<1>6. ASSUME NEW n \in Nat, n \in S PROVE n + 1 \in S
  <2> SUFFICES ASSUME n + 1 <= len
               PROVE  \E c : /\ IsLine(h[n + 1].line, pieces, c, n + 1)
                             /\ SoFar(queue, overlays, h[n + 1], Answers(pieces, c))
    OBVIOUS
  <2>1. n + 1 \in 1 .. len /\ n \in 0 .. len /\ (n + 1) - 1 = n /\ n < len
    BY <1>3
  <2>2. h[n] \in Readings /\ h[n + 1] = ReadPiece(h[n], pieces[n + 1])
    BY <1>2, <2>1
  <2>3. PICK b : /\ IsLine(h[n].line, pieces, b, n)
                 /\ SoFar(queue, overlays, h[n], Answers(pieces, b))
    BY <1>6, <2>1
  <2>4. n < Len(pieces) /\ Ordered(queue)
    BY <2>1 DEF len
  <2> QED
    BY <1>4, <2>2, <2>3, <2>4, ReadPieceGives
<1>7. Nat \subseteq S
  <2> HIDE DEF S
  <2> QED
    BY <1>5, <1>6, SetInduction
<1>8. Good(len)
  BY <1>3, <1>7
<1>9. h[len] \in Readings
  BY <1>2, <1>3
<1> QED
  BY <1>2, <1>3, <1>8, <1>9 DEF len

(***************************************************************************)
(* The invariant.                                                          *)
(***************************************************************************)

\* The jobs: their order, and their overlays still wait.
JobsOK ==
    /\ Ordered(queue)
    /\ \A job \in Range(queue) :
         /\ job.id > 0 /\ job.overlay \in DOMAIN overlays
         /\ overlays[job.overlay].category = "processing"
    /\ \A k \in DOMAIN inputBuffer : inputBuffer[k].part \notin LineEnds

\* An overlay that waits and was in view when the queue was emptied has its job.
Waited ==
    \A o \in DOMAIN overlays :
      (/\ overlays[o].alive /\ overlays[o].category = "processing"
       /\ overlays[o].equation \in cleared)
        => \E job \in Range(queue) : job.overlay = o

Images ==
    \A o \in DOMAIN overlays :
      overlays[o].category = "image" => overlays[o].data = overlays[o].equation

\* All that was written and is no line yet, and the whole answers in it.
Stream == inputBuffer \o stdout
Due == {k \in DOMAIN Stream : IsWhole(Stream, k)}

\* What is on its way between the processes is for the job with its number, if
\* there is one, ...
Fits(id, data) ==
    \A job \in Range(queue) : job.id = id => data \in {"error", overlays[job.overlay].equation}

Suits ==
    /\ \A r \in Range(stdin) \cup typesetting : Fits(r.id, r.data)
    /\ \A k \in Due : Fits(Stream[k].answer.id, Stream[k].answer.data)

\* ... there is one as long as the process runs, ...
Expected ==
    /\ \A r \in Range(stdin) \cup typesetting : \E job \in Range(queue) : job.id = r.id
    /\ \A k \in Due : Stream[k].answer.id # 0 =>
         \E job \in Range(queue) : job.id = Stream[k].answer.id

\* ... and no number is on its way twice.
Once ==
    /\ \A j, k \in DOMAIN stdin : stdin[j].id = stdin[k].id => j = k
    /\ \A r, s \in typesetting : r.id = s.id => r = s
    /\ \A j, k \in Due :
         Stream[j].answer.id = Stream[k].answer.id /\ Stream[j].answer.id # 0 => j = k
    /\ \A r \in Range(stdin), s \in typesetting : r.id # s.id
    /\ \A r \in Range(stdin) \cup typesetting, k \in Due : r.id # Stream[k].answer.id

Flights == Images /\ Suits /\ (proc = "running" => Expected /\ Once)

\* A dead process works no more.
Stopped == proc # "running" => stdin = << >> /\ typesetting = {}

Inv == TypeOK /\ JobsOK /\ Waited /\ Stopped /\ (~late => Flights)

LEMMA InvInit == Init => Inv
<1> SUFFICES ASSUME Init PROVE Inv
  OBVIOUS
<1>1. TypeOK
  <2>1. << >> \in Seq(Job) /\ << >> \in Seq(Overlay) /\ << >> \in Seq(Piece)
        /\ << >> \in Seq(Request) /\ Len(<< >>) = 0
    OBVIOUS
  <2>2. queue \in Seq(Job) /\ overlays \in Seq(Overlay) /\ inputBuffer \in Seq(Piece)
        /\ stdin \in Seq(Request) /\ stdout \in Seq(Piece)
    BY <2>1 DEF Init
  <2>3. Len(overlays) <= MaxJobs
    BY <2>1, MathPreviewAssumption DEF Init
  <2>4. faults \in 0 .. MaxFaults
    BY MathPreviewAssumption DEF Init
  <2> QED
    BY <2>2, <2>3, <2>4 DEF Init, TypeOK
<1>2. JobsOK /\ Waited /\ Stopped /\ Flights
  <2>1. Stream = << >> /\ Due = {}
    BY DEF Init, Stream, Due
  <2> QED
    BY <2>1 DEF Init, Stopped, JobsOK, Ordered, Waited, Flights, Images, Suits, Range
<1> QED
  BY <1>1, <1>2 DEF Inv

(***************************************************************************)
(* The program, and the ends of the process.                               *)
(***************************************************************************)

\* What Emacs has stays as it was.
LEMMA EmacsKeeps ==
    ASSUME JobsOK, Waited, UNCHANGED <<emacs, cleared>>
    PROVE  /\ JobsOK' /\ Waited' /\ (Images => Images')
           /\ \A id, data : Fits(id, data)' <=> Fits(id, data)
  BY DEF JobsOK, Waited, Images, Fits, Ordered, emacs

LEMMA StreamGives ==
    ASSUME inputBuffer \in Seq(Piece), stdout \in Seq(Piece)
    PROVE  /\ Stream \in Seq(Piece) /\ Len(Stream) = Len(inputBuffer) + Len(stdout)
           /\ Len(inputBuffer) \in Nat /\ Len(stdout) \in Nat
           /\ DOMAIN Stream = 1 .. Len(inputBuffer) + Len(stdout)
           /\ \A k \in 1 .. Len(inputBuffer) : Stream[k] = inputBuffer[k]
           /\ \A k \in 1 .. Len(stdout) : Stream[Len(inputBuffer) + k] = stdout[k]
<1> DEFINE m == Len(inputBuffer)
           n == Len(stdout)
<1>1. /\ Stream \in Seq(Piece) /\ Len(Stream) = m + n
      /\ \A k \in 1 .. m + n : Stream[k] = IF k <= m THEN inputBuffer[k] ELSE stdout[k - m]
  BY ConcatProperties DEF Stream
<1>2. m \in Nat /\ n \in Nat
  OBVIOUS
<1>3. DOMAIN Stream = 1 .. m + n
  BY <1>1
<1> HIDE DEF m, n
<1>4. ASSUME NEW k \in 1 .. m PROVE Stream[k] = inputBuffer[k]
  BY <1>1, <1>2
<1>5. ASSUME NEW k \in 1 .. n PROVE Stream[m + k] = stdout[k]
  <2>1. m + k \in 1 .. m + n /\ ~(m + k <= m) /\ (m + k) - m = k
    BY <1>2
  <2> QED
    BY <1>1, <2>1
<1> QED
  BY <1>1, <1>2, <1>3, <1>4, <1>5 DEF m, n

\* An answer is three more pieces, the second of which is due.
LEMMA WriteGives ==
    ASSUME inputBuffer \in Seq(Piece), stdout \in Seq(Piece), UNCHANGED inputBuffer,
           NEW id \in Nat, NEW data \in Equations \cup {"error"}, Write(id, data)
    PROVE  /\ stdout' \in Seq(Piece)
           /\ \E n \in Nat :
                \A k \in Due' : \/ k \in Due /\ Stream'[k] = Stream[k]
                                \/ k = n /\ n \notin Due /\ Stream'[k].answer = [id |-> id, data |-> data]
<1> DEFINE answer == [id |-> id, data |-> data]
           three == << [part |-> "begin", answer |-> answer],
                       [part |-> "end", answer |-> answer],
                       [part |-> "newline", answer |-> answer] >>
           m == Len(Stream)
<1>1. answer \in Answer
  BY DEF Answer
<1>2. three \in Seq(Piece) /\ Len(three) = 3
  <2> HIDE DEF answer
  <2> QED
    BY <1>1 DEF Piece
<1>3. /\ three[1].part # "end" /\ three[2].answer = answer /\ three[3].part # "end"
  OBVIOUS
<1>4. stdout' = stdout \o three
  BY DEF Write
<1> HIDE DEF three, answer
<1>5. stdout' \in Seq(Piece)
  BY <1>2, <1>4
<1>6. Stream \in Seq(Piece) /\ m \in Nat /\ DOMAIN Stream = 1 .. m
  BY StreamGives
<1>7. Stream' = Stream \o three
  <2>1. Stream' = inputBuffer \o (stdout \o three)
    BY <1>4 DEF Stream
  <2>2. inputBuffer \o (stdout \o three) = (inputBuffer \o stdout) \o three
    <3>1. inputBuffer \in Seq(Piece) /\ stdout \in Seq(Piece) /\ three \in Seq(Piece)
      BY <1>2
    <3>2. \A s, t, u \in Seq(Piece) : s \o (t \o u) = (s \o t) \o u
      OBVIOUS
    <3> QED
      BY <3>1, <3>2, Zenon
  <2> QED
    BY <2>1, <2>2 DEF Stream
<1>8. /\ DOMAIN Stream' = 1 .. m + 3
      /\ \A k \in 1 .. m + 3 : Stream'[k] = IF k <= m THEN Stream[k] ELSE three[k - m]
  <2>1. /\ Stream \o three \in Seq(Piece) /\ Len(Stream \o three) = Len(Stream) + Len(three)
        /\ \A k \in 1 .. Len(Stream) + Len(three) :
             (Stream \o three)[k] = IF k <= Len(Stream) THEN Stream[k] ELSE three[k - Len(Stream)]
    BY <1>2, <1>6, ConcatProperties
  <2> QED
    BY <1>2, <1>7, <2>1
<1> HIDE DEF m
<1>9. \A k \in 1 .. m : Stream'[k] = Stream[k]
  BY <1>6, <1>8
<1>10. \A k \in 1 .. m : IsWhole(Stream', k) <=> IsWhole(Stream, k)
  BY <1>6, <1>9, WholeSoFar
<1>11. ASSUME NEW k \in Due'
       PROVE  \/ k \in Due /\ Stream'[k] = Stream[k]
              \/ k = m + 2 /\ Stream'[k].answer = answer
  <2>1. k \in 1 .. m + 3 /\ IsWhole(Stream', k)
    BY <1>8 DEF Due
  <2>2. CASE k \in 1 .. m
    BY <1>6, <1>9, <1>10, <2>1, <2>2 DEF Due
  <2>3. CASE k = m + 1
    <3>1. Stream'[k] = three[1]
      BY <1>6, <1>8, <2>3
    <3> QED
      BY <1>3, <2>1, <3>1 DEF IsWhole
  <2>4. CASE k = m + 2
    <3>1. Stream'[k] = three[2]
      BY <1>6, <1>8, <2>4
    <3> QED
      BY <1>3, <2>4, <3>1
  <2>5. CASE k = m + 3
    <3>1. Stream'[k] = three[3]
      BY <1>6, <1>8, <2>5
    <3> QED
      BY <1>3, <2>1, <3>1 DEF IsWhole
  <2> QED
    BY <1>6, <2>1, <2>2, <2>3, <2>4, <2>5
<1>12. m + 2 \in Nat /\ m + 2 \notin Due
  BY <1>6 DEF Due
<1> QED
  BY <1>5, <1>11, <1>12 DEF answer

\* Nothing is due of output that was cut off, or that a warning follows, but what
\* was due before.
LEMMA FewerDue ==
    ASSUME inputBuffer \in Seq(Piece), stdout \in Seq(Piece), stdout' \in Seq(Piece),
           UNCHANGED inputBuffer,
           \A k \in DOMAIN stdout' : k \in DOMAIN stdout /\ stdout'[k] = stdout[k]
    PROVE  \A k \in Due' : k \in Due /\ Stream'[k] = Stream[k]
<1> DEFINE m == Len(inputBuffer)
           n == Len(stdout')
<1>1. /\ m \in Nat /\ Len(stdout) \in Nat /\ DOMAIN Stream = 1 .. m + Len(stdout)
      /\ \A k \in 1 .. m : Stream[k] = inputBuffer[k]
      /\ \A k \in 1 .. Len(stdout) : Stream[m + k] = stdout[k]
  BY StreamGives
<1>2. /\ n \in Nat /\ DOMAIN Stream' = 1 .. m + n
      /\ \A k \in 1 .. m + n :
           Stream'[k] = IF k <= m THEN inputBuffer[k] ELSE stdout'[k - m]
  <2>1. Stream' = inputBuffer \o stdout'
    BY DEF Stream
  <2>2. /\ inputBuffer \o stdout' \in Seq(Piece) /\ Len(inputBuffer \o stdout') = m + n
        /\ \A k \in 1 .. m + n :
             (inputBuffer \o stdout')[k] = IF k <= m THEN inputBuffer[k] ELSE stdout'[k - m]
    BY ConcatProperties
  <2> QED
    BY <2>1, <2>2
<1>3. \A k \in 1 .. n : k \in 1 .. Len(stdout) /\ stdout'[k] = stdout[k]
  BY <1>2
<1> HIDE DEF m, n
<1>4. ASSUME NEW k \in 1 .. m + n PROVE k \in DOMAIN Stream /\ Stream'[k] = Stream[k]
  <2>1. CASE k <= m
    <3>1. k \in 1 .. m /\ k \in 1 .. m + Len(stdout)
      BY <1>1, <1>2, <2>1
    <3>2. Stream'[k] = inputBuffer[k]
      BY <1>2, <2>1
    <3> QED
      BY <1>1, <3>1, <3>2
  <2>2. CASE ~(k <= m)
    <3>1. k - m \in 1 .. n /\ m + (k - m) = k
      BY <1>1, <1>2, <2>2
    <3>2. k - m \in 1 .. Len(stdout) /\ Stream'[k] = stdout[k - m]
      BY <1>2, <1>3, <2>2, <3>1
    <3>3. Stream[k] = stdout[k - m]
      BY <1>1, <3>1, <3>2
    <3> QED
      BY <1>1, <3>1, <3>2, <3>3
  <2> QED
    BY <2>1, <2>2
<1>5. \A k \in 1 .. m + n : IsWhole(Stream', k) <=> IsWhole(Stream, k)
  <2>1. m + n \in Nat
    BY <1>1, <1>2
  <2> QED
    BY <1>4, <2>1, WholeSoFar
<1> QED
  BY <1>2, <1>4, <1>5 DEF Due

\* Nothing is due when a process starts that is not late.
LEMMA NothingDue ==
    ASSUME Inv, proc = "none", ~Stale
    PROVE  Due = {}
<1>1. inputBuffer \in Seq(Piece) /\ stdout = << >> /\ stdout \in Seq(Piece)
      /\ \A k \in DOMAIN inputBuffer : inputBuffer[k].part \notin LineEnds
  BY DEF Inv, TypeOK, JobsOK
<1>2. Stream = inputBuffer
  BY <1>1 DEF Stream
<1>3. ASSUME NEW k \in DOMAIN inputBuffer, IsWhole(inputBuffer, k) PROVE FALSE
  <2>1. k \in 1 .. Len(inputBuffer) /\ DOMAIN inputBuffer = 1 .. Len(inputBuffer)
        /\ Len(inputBuffer) \in Nat
    BY <1>1
  <2>2. ~(k > 2)
    <3> SUFFICES ASSUME k > 2 PROVE FALSE
      OBVIOUS
    <3>1. k - 2 \in DOMAIN inputBuffer
      BY <2>1
    <3> QED
      BY <1>1, <1>3, <3>1 DEF IsWhole
  <2>3. k = 2 /\ k - 1 = 1 /\ Len(inputBuffer) >= 2
    BY <1>3, <2>1, <2>2 DEF IsWhole
  <2>4. Parses(inputBuffer)
    BY <1>3, <2>3 DEF IsWhole, Parses
  <2> QED
    BY <2>4 DEF Stale
<1> QED
  BY <1>2, <1>3 DEF Due

\* The program answers something that was on its way: a request that is read
\* or that comes from the typesetter is there no more, and its answer is.
LEMMA AnswerKeeps ==
    ASSUME TypeOK, JobsOK, Flights, proc = "running",
           UNCHANGED <<emacs, proc, cleared>>,
           NEW input \in Range(stdin) \cup typesetting,
           NEW data \in {"error", input.data},
           Range(stdin') \cup typesetting' \subseteq Range(stdin) \cup typesetting,
           Range(stdin') \subseteq Range(stdin), typesetting' \subseteq typesetting,
           \A r \in Range(stdin') \cup typesetting' : r.id # input.id,
           \A j, k \in DOMAIN stdin' : stdin'[j].id = stdin'[k].id => j = k,
           Write(input.id, data) \/ (data = "error" /\ Write(0, data))
    PROVE  Flights'
<1>1. input \in Request /\ stdout \in Seq(Piece) /\ inputBuffer \in Seq(Piece) /\ input.id # 0
  <2>1. input \in Request
    BY DEF TypeOK, Range
  <2>2. PICK job \in Range(queue) : job.id = input.id
    BY DEF Flights, Expected
  <2> QED
    BY <2>1, <2>2 DEF JobsOK, TypeOK, Request
<1>2. PICK id \in Nat : Write(id, data) /\ (id = input.id \/ (id = 0 /\ data = "error"))
  BY <1>1 DEF Request
<1>3. data \in Equations \cup {"error"}
  BY <1>1 DEF Request
<1>4. PICK n \in Nat :
        \A k \in Due' : \/ k \in Due /\ Stream'[k] = Stream[k]
                        \/ k = n /\ n \notin Due
                         /\ Stream'[k].answer.id = id /\ Stream'[k].answer.data = data
  <2>1. UNCHANGED inputBuffer
    BY DEF emacs
  <2>2. PICK n \in Nat :
          \A k \in Due' : \/ k \in Due /\ Stream'[k] = Stream[k]
                          \/ k = n /\ n \notin Due /\ Stream'[k].answer = [id |-> id, data |-> data]
    BY <1>1, <1>2, <1>3, <2>1, WriteGives
  <2> QED
    BY <2>2
<1>5. \A job \in Range(queue) : job.id # 0
  BY DEF JobsOK
<1>6. Images'
  BY DEF Images, Flights, emacs
<1>7. \A i, d : Fits(i, d)' <=> Fits(i, d)
  BY DEF Fits, emacs
<1>8. Fits(id, data)
  <2>1. Fits(input.id, input.data)
    BY DEF Flights, Suits
  <2> QED
    BY <1>2, <1>5, <2>1 DEF Fits
<1>9. Suits'
  <2>1. ASSUME NEW r \in Range(stdin') \cup typesetting' PROVE Fits(r.id, r.data)'
    BY <1>7, <2>1 DEF Flights, Suits
  <2>2. ASSUME NEW k \in Due'
        PROVE  Fits(Stream[k].answer.id, Stream[k].answer.data)'
    BY <1>4, <1>7, <1>8, <2>2 DEF Flights, Suits
  <2> QED
    BY <2>1, <2>2 DEF Suits
<1>10. Expected'
  <2>1. ASSUME NEW r \in Range(stdin') \cup typesetting'
        PROVE  \E job \in Range(queue') : job.id = r.id
    BY <2>1 DEF Flights, Expected, emacs
  <2>2. ASSUME NEW k \in Due', Stream'[k].answer.id # 0
        PROVE  \E job \in Range(queue') : job.id = Stream'[k].answer.id
    BY <1>2, <1>4, <2>2 DEF Flights, Expected, emacs
  <2> QED
    BY <2>1, <2>2 DEF Expected
<1>11. Once'
  <2>1. \A k \in Due : Stream[k].answer.id # input.id
    BY DEF Flights, Once
  <2>2. \A j, k \in Due' :
          Stream'[j].answer.id = Stream'[k].answer.id /\ Stream'[j].answer.id # 0 => j = k
    BY <1>2, <1>4, <2>1 DEF Flights, Once
  <2>3. ASSUME NEW r \in Range(stdin') \cup typesetting', NEW k \in Due'
        PROVE  r.id # Stream'[k].answer.id
    <3>1. r.id # 0
      BY <1>5, <2>3 DEF Flights, Expected
    <3> QED
      BY <1>2, <1>4, <2>3, <3>1 DEF Flights, Once
  <2>4. \A r, s \in typesetting' : r.id = s.id => r = s
    BY DEF Flights, Once
  <2>5. \A r \in Range(stdin'), s \in typesetting' : r.id # s.id
    BY DEF Flights, Once
  <2> QED
    BY <2>2, <2>3, <2>4, <2>5 DEF Once
<1> QED
  BY <1>6, <1>9, <1>10, <1>11 DEF Flights

LEMMA OnLineKeeps == ASSUME Inv, OnLine PROVE Inv'
<1> DEFINE input == Head(stdin)
<1>1. /\ proc = "running" /\ stdin # << >> /\ stdin' = Tail(stdin)
      /\ UNCHANGED <<emacs, proc, faults, cleared, late>>
  BY DEF OnLine
<1>2. \/ Write(0, "error") /\ UNCHANGED typesetting
      \/ Write(input.id, "error") /\ UNCHANGED typesetting
      \/ typesetting' = typesetting \cup {input} /\ UNCHANGED stdout
  BY DEF OnLine
<1>3. /\ stdin \in Seq(Request) /\ stdout \in Seq(Piece) /\ typesetting \subseteq Request
      /\ inputBuffer \in Seq(Piece) /\ UNCHANGED inputBuffer
  BY <1>1 DEF Inv, TypeOK, emacs
<1> DEFINE m == Len(stdin)
<1>4. /\ m \in Nat /\ m > 0 /\ DOMAIN stdin = 1 .. m /\ input = stdin[1]
      /\ stdin' \in Seq(Request) /\ DOMAIN stdin' = 1 .. m - 1
      /\ \A k \in 1 .. m - 1 : stdin'[k] = stdin[k + 1]
  <2>1. m # 0
    BY <1>1, <1>3
  <2> QED
    BY <1>1, <1>3, <2>1, HeadTailProperties
<1> HIDE DEF input, m
<1>5. input \in Request /\ input \in Range(stdin) /\ Range(stdin') \subseteq Range(stdin)
  <2>1. 1 \in DOMAIN stdin /\ \A k \in DOMAIN stdin' : k + 1 \in DOMAIN stdin
    BY <1>4
  <2>2. input \in Request /\ input \in Range(stdin)
    <3>1. stdin[1] \in Request
      BY <1>3, <2>1
    <3> QED
      BY <1>4, <2>1, <3>1 DEF Range
  <2>3. \A k \in DOMAIN stdin' : stdin'[k] = stdin[k + 1]
    BY <1>4
  <2> QED
    BY <2>1, <2>2, <2>3 DEF Range
<1>6. \A k \in DOMAIN stdin' : k + 1 \in DOMAIN stdin /\ k + 1 # 1 /\ stdin'[k] = stdin[k + 1]
  BY <1>4
<1>7. stdout' \in Seq(Piece)
  <2>1. input.id \in Nat /\ 0 \in Nat
    BY <1>5 DEF Request
  <2> QED
    BY <1>2, <1>3, <2>1, WriteGives
<1>8. TypeOK'
  <2>1. typesetting' \subseteq Request
    BY <1>2, <1>3, <1>5
  <2> QED
    BY <1>1, <1>4, <1>7, <2>1 DEF Inv, TypeOK, emacs
<1>9. ASSUME Flights PROVE Flights'
  <2>1. /\ \A j, k \in DOMAIN stdin' : stdin'[j].id = stdin'[k].id => j = k
        /\ \A r \in Range(stdin') : r.id # input.id
    <3>1. \A j, k \in DOMAIN stdin : stdin[j].id = stdin[k].id => j = k
      BY <1>1, <1>9 DEF Flights, Once
    <3>2. \A j, k \in DOMAIN stdin' : stdin'[j].id = stdin'[k].id => j = k
      BY <1>4, <1>6, <3>1
    <3>3. 1 \in DOMAIN stdin
      BY <1>4
    <3> QED
      BY <1>4, <1>6, <3>1, <3>2, <3>3 DEF Range
  <2>2. \A r \in typesetting : r.id # input.id
    BY <1>1, <1>5, <1>9 DEF Flights, Once
  <2>3. CASE UNCHANGED typesetting /\ (Write(0, "error") \/ Write(input.id, "error"))
    BY <1>1, <1>5, <1>9, <2>1, <2>2, <2>3, AnswerKeeps DEF Inv
  <2>4. CASE typesetting' = typesetting \cup {input} /\ UNCHANGED stdout
    <3>0. Stream' = Stream /\ Due' = Due
      BY <1>3, <2>4 DEF Stream, Due
    <3>1. Range(stdin') \cup typesetting' \subseteq Range(stdin) \cup typesetting
      BY <1>5, <2>4
    <3>2. Images' /\ Suits' /\ Expected'
      BY <1>1, <1>9, <2>4, <3>0, <3>1 DEF Flights, Images, Suits, Fits, Expected, emacs
    <3>3. Once'
      <4>1. \A r, s \in typesetting' : r.id = s.id => r = s
        BY <1>1, <1>9, <2>2, <2>4 DEF Flights, Once
      <4>2. \A r \in Range(stdin'), s \in typesetting' : r.id # s.id
        BY <1>1, <1>5, <1>9, <2>1, <2>4 DEF Flights, Once
      <4>3. \A r \in Range(stdin') \cup typesetting', k \in Due' : r.id # Stream'[k].answer.id
        BY <1>1, <1>9, <3>0, <3>1 DEF Flights, Once
      <4>4. \A j, k \in Due' :
              Stream'[j].answer.id = Stream'[k].answer.id /\ Stream'[j].answer.id # 0 => j = k
        BY <1>1, <1>9, <3>0 DEF Flights, Once
      <4> QED
        BY <2>1, <4>1, <4>2, <4>3, <4>4 DEF Once
    <3> QED
      BY <3>2, <3>3 DEF Flights
  <2> QED
    BY <1>2, <2>3, <2>4
<1> QED
  BY <1>1, <1>8, <1>9, EmacsKeeps DEF Inv, Stopped

LEMMA TypesetKeeps == ASSUME Inv, NEW input \in typesetting, Typeset(input) PROVE Inv'
<1>1. /\ typesetting' = typesetting \ {input}
      /\ UNCHANGED <<emacs, proc, stdin, faults, cleared, late>>
      /\ Write(input.id, input.data) \/ Write(input.id, "error")
  BY DEF Typeset
<1>2. PICK data \in {"error", input.data} : Write(input.id, data)
  BY <1>1
<1>3. input \in Request /\ proc = "running"
  BY DEF Inv, TypeOK, Stopped
<1>4. TypeOK'
  <2>1. stdout' \in Seq(Piece)
    BY <1>1, <1>2, <1>3, WriteGives DEF Inv, TypeOK, Request, emacs
  <2> QED
    BY <1>1, <1>3, <2>1 DEF Inv, TypeOK, emacs
<1>5. ASSUME Flights PROVE Flights'
  <2>1. \A r \in Range(stdin') \cup typesetting' : r.id # input.id
    BY <1>1, <1>3, <1>5 DEF Flights, Once
  <2>2. \A j, k \in DOMAIN stdin' : stdin'[j].id = stdin'[k].id => j = k
    BY <1>1, <1>3, <1>5 DEF Flights, Once
  <2> QED
    BY <1>1, <1>2, <1>3, <1>5, <2>1, <2>2, AnswerKeeps DEF Inv
<1> QED
  BY <1>1, <1>3, <1>4, <1>5, EmacsKeeps DEF Inv, Stopped

LEMMA WarnKeeps == ASSUME Inv, Warn PROVE Inv'
<1>1. /\ proc = "running" /\ stdout' = Append(stdout, Noise)
      /\ faults < MaxFaults /\ faults' = faults + 1
      /\ UNCHANGED <<emacs, proc, stdin, typesetting, cleared, late>>
  BY DEF Warn, Fault
<1>2. Noise \in Piece /\ Noise.part # "end"
  BY DEF Noise, Piece, Answer
<1>3. /\ stdout \in Seq(Piece) /\ inputBuffer \in Seq(Piece) /\ UNCHANGED inputBuffer
      /\ faults \in 0 .. MaxFaults /\ MaxFaults \in Nat
  BY <1>1, MathPreviewAssumption DEF Inv, TypeOK, emacs
<1> DEFINE m == Len(Stream)
<1>4. stdout' \in Seq(Piece)
  BY <1>1, <1>2, <1>3
<1>5. \A k \in Due' : k \in Due /\ Stream'[k] = Stream[k]
  <2>1. Stream \in Seq(Piece) /\ m \in Nat /\ DOMAIN Stream = 1 .. m
    BY <1>3, StreamGives
  <2>2. Stream' = Append(Stream, Noise)
    <3>1. Stream' = inputBuffer \o Append(stdout, Noise)
      BY <1>1, <1>3 DEF Stream
    <3>2. inputBuffer \o Append(stdout, Noise) = Append(inputBuffer \o stdout, Noise)
      BY <1>2, <1>3
    <3> QED
      BY <3>1, <3>2 DEF Stream
  <2>3. /\ DOMAIN Stream' = 1 .. m + 1 /\ Stream'[m + 1] = Noise
        /\ \A k \in 1 .. m : Stream'[k] = Stream[k]
    BY <1>2, <2>1, <2>2
  <2> HIDE DEF m
  <2>4. \A k \in 1 .. m : IsWhole(Stream', k) <=> IsWhole(Stream, k)
    BY <2>1, <2>3, WholeSoFar
  <2>5. ~IsWhole(Stream', m + 1)
    BY <1>2, <2>3 DEF IsWhole
  <2>6. \A k \in 1 .. m + 1 : k \in 1 .. m \/ k = m + 1
    BY <2>1
  <2> QED
    BY <2>1, <2>3, <2>4, <2>5, <2>6 DEF Due
<1>6. TypeOK'
  <2>1. faults' \in 0 .. MaxFaults
    BY <1>1, <1>3
  <2> QED
    BY <1>1, <1>4, <2>1 DEF Inv, TypeOK, emacs
<1>7. ASSUME Flights PROVE Flights'
  <2>1. Images' /\ Suits' /\ Expected'
    BY <1>1, <1>5, <1>7 DEF Flights, Images, Suits, Fits, Expected, emacs
  <2>2. Once'
    BY <1>1, <1>5, <1>7 DEF Flights, Once
  <2> QED
    BY <2>1, <2>2 DEF Flights
<1> QED
  BY <1>1, <1>6, <1>7, EmacsKeeps DEF Inv, Stopped

\* The output is cut off, and nothing more is worked on.
LEMMA DiesGives ==
    ASSUME TypeOK, Dies
    PROVE  /\ proc' = "dying" /\ stdin' = << >> /\ typesetting' = {}
           /\ stdin' \in Seq(Request) /\ stdout' \in Seq(Piece)
           /\ \A k \in DOMAIN stdout' : k \in DOMAIN stdout /\ stdout'[k] = stdout[k]
<1>1. proc' = "dying" /\ stdin' = << >> /\ typesetting' = {} /\ stdin' \in Seq(Request)
  BY DEF Dies
<1>2. PICK n \in 0 .. Len(stdout) : stdout' = SubSeq(stdout, 1, n)
  BY DEF Dies
<1>3. stdout \in Seq(Piece) /\ n \in Int
  BY DEF TypeOK
<1>4. \A k \in 1 .. n : k \in DOMAIN stdout /\ stdout[k] \in Piece
  BY <1>3
<1>5. /\ stdout' \in Seq(Piece) /\ Len(stdout') = n
      /\ \A k \in 1 .. n : stdout'[k] = stdout[k]
  BY <1>2, <1>3, <1>4
<1>6. DOMAIN stdout' = 1 .. n
  BY <1>5
<1> QED
  BY <1>1, <1>4, <1>5, <1>6

LEMMA CrashKeeps == ASSUME Inv, Crash PROVE Inv'
<1>1. /\ Dies /\ faults < MaxFaults /\ faults' = faults + 1
      /\ UNCHANGED <<emacs, cleared, late>>
  BY DEF Crash, Fault
<1>2. /\ proc' = "dying" /\ stdin' = << >> /\ typesetting' = {}
      /\ stdin' \in Seq(Request) /\ stdout' \in Seq(Piece)
      /\ \A k \in DOMAIN stdout' : k \in DOMAIN stdout /\ stdout'[k] = stdout[k]
  BY <1>1, DiesGives DEF Inv
<1>3. TypeOK'
  <2>1. faults' \in 0 .. MaxFaults
    BY <1>1, MathPreviewAssumption DEF Inv, TypeOK
  <2> QED
    BY <1>1, <1>2, <2>1 DEF Inv, TypeOK, emacs
<1>4. ASSUME Flights PROVE Flights'
  <2>1. \A k \in Due' : k \in Due /\ Stream'[k] = Stream[k]
    BY <1>1, <1>2, FewerDue DEF Inv, TypeOK, emacs
  <2>2. Images' /\ Suits'
    BY <1>1, <1>2, <1>4, <2>1 DEF Flights, Images, Suits, Fits, emacs, Range
  <2> QED
    BY <1>2, <2>2 DEF Flights
<1> QED
  BY <1>1, <1>2, <1>3, <1>4, EmacsKeeps DEF Inv, Stopped

LEMMA ReapKeeps == ASSUME Inv, Reap PROVE Inv'
<1>1. /\ proc = "dying" /\ stdout = << >> /\ proc' = "none"
      /\ UNCHANGED <<emacs, node, faults, cleared, late>>
  BY DEF Reap
<1>2. TypeOK'
  BY <1>1 DEF Inv, TypeOK, Stopped, emacs, node
<1>3. ASSUME Flights PROVE Flights'
  <2>1. Stream' = Stream /\ Due' = Due
    BY <1>1 DEF Stream, Due, emacs, node
  <2> QED
    BY <1>1, <1>3, <2>1 DEF Flights, Images, Suits, Fits, emacs, node
<1> QED
  BY <1>1, <1>2, <1>3, EmacsKeeps DEF Inv, Stopped, node

(***************************************************************************)
(* Overlays that are deleted, and a queue that is emptied.                 *)
(***************************************************************************)

\* Deleting overlays changes nothing else about them.
OnlyDeleted(new) ==
    /\ DOMAIN new = DOMAIN overlays
    /\ \A o \in DOMAIN overlays :
         /\ new[o].equation = overlays[o].equation /\ new[o].data = overlays[o].data
         /\ new[o].category = overlays[o].category
         /\ new[o].alive => overlays[o].alive

\* The queue that a new job meets, or that a process starts with.
LEMMA WithoutProcessingGives ==
    ASSUME TypeOK, NEW visible
    PROVE  LET new == WithoutProcessing(visible) IN
           /\ new \in Seq(Overlay) /\ Len(new) = Len(overlays) /\ OnlyDeleted(new)
           /\ \A o \in DOMAIN new :
                new[o].category = "processing" /\ new[o].equation \in visible =>
                  ~new[o].alive
<1> DEFINE n == Len(overlays)
           new == WithoutProcessing(visible)
<1>1. n \in Nat /\ DOMAIN overlays = 1 .. n /\ \A o \in 1 .. n : overlays[o] \in Overlay
  BY DEF TypeOK
<1>2. \A v \in Overlay :
        LET w == [v EXCEPT !.alive = FALSE] IN
        /\ w \in Overlay /\ w.equation = v.equation /\ w.data = v.data
        /\ w.category = v.category /\ w.alive = FALSE
  BY DEF Overlay
<1>3. DOMAIN new = 1 .. n /\ new = [o \in 1 .. n |-> new[o]]
  BY <1>1 DEF WithoutProcessing
<1>4. ASSUME NEW o \in 1 .. n
      PROVE  new[o] = IF overlays[o].category = "processing" /\ overlays[o].equation \in visible
                      THEN [overlays[o] EXCEPT !.alive = FALSE] ELSE overlays[o]
  BY <1>1 DEF WithoutProcessing
<1> HIDE DEF n, new
<1>5. \A o \in 1 .. n : new[o] \in Overlay
  BY <1>1, <1>2, <1>4
<1>6. OnlyDeleted(new)
  BY <1>1, <1>2, <1>3, <1>4 DEF OnlyDeleted
<1>7. \A o \in 1 .. n :
        new[o].category = "processing" /\ new[o].equation \in visible => ~new[o].alive
  BY <1>1, <1>2, <1>4
<1>8. new \in [1 .. n -> Overlay]
  BY <1>3, <1>5
<1>9. new \in Seq(Overlay) /\ Len(new) = n
  BY <1>1, <1>8, AsSequence
<1> QED
  BY <1>3, <1>6, <1>7, <1>9 DEF n, new

\* Once nothing is queued, nothing waits in view.
LEMMA EmptiedKeeps ==
    ASSUME Inv, NEW visible \in SUBSET Equations, queue' = << >>, overlays' = WithoutProcessing(visible),
           cleared' = visible, UNCHANGED inputBuffer
    PROVE  /\ queue' \in Seq(Job) /\ overlays' \in Seq(Overlay) /\ Len(overlays') <= MaxJobs
           /\ JobsOK' /\ Waited' /\ (Images => Images')
<1>1. /\ overlays' \in Seq(Overlay) /\ Len(overlays') = Len(overlays) /\ OnlyDeleted(overlays')
      /\ \A o \in DOMAIN overlays' :
           overlays'[o].category = "processing" /\ overlays'[o].equation \in visible =>
             ~overlays'[o].alive
  BY WithoutProcessingGives DEF Inv
<1>2. queue' \in Seq(Job) /\ Range(queue') = {} /\ DOMAIN queue' = {}
  BY DEF Range
<1>3. Images => Images'
  BY <1>1 DEF Images, OnlyDeleted
<1>4. JobsOK' /\ Waited'
  BY <1>1, <1>2 DEF Inv, JobsOK, Ordered, Waited
<1> QED
  BY <1>1, <1>2, <1>3, <1>4 DEF Inv, TypeOK

LEMMA StartProcessKeeps ==
    ASSUME Inv, NEW visible \in SUBSET Equations, StartProcess(visible)
    PROVE  Inv'
<1>1. /\ proc = "none" /\ proc' = "running"
      /\ queue' = << >> /\ overlays' = WithoutProcessing(visible) /\ cleared' = visible
      /\ late' = (late \/ Stale)
      /\ UNCHANGED <<inputBuffer, node, faults>>
  BY DEF StartProcess, Prepare
<1>2. /\ queue' \in Seq(Job) /\ overlays' \in Seq(Overlay) /\ Len(overlays') <= MaxJobs
      /\ JobsOK' /\ Waited' /\ (Images => Images')
  BY <1>1, EmptiedKeeps
<1>3. stdin' = << >> /\ typesetting' = {} /\ stdout' = stdout
  BY <1>1 DEF Inv, TypeOK, node
<1>4. TypeOK'
  BY <1>1, <1>2 DEF Inv, TypeOK, node
<1>5. ASSUME ~late' PROVE Flights'
  <2>1. ~late /\ ~Stale
    BY <1>1, <1>5
  <2>2. Due' = {}
    <3>1. Due = {}
      BY <1>1, <2>1, NothingDue
    <3>2. Due' = Due
      BY <1>1, <1>3 DEF Due, Stream
    <3> QED
      BY <3>1, <3>2
  <2>3. Images'
    BY <1>2, <2>1 DEF Inv, Flights
  <2> QED
    BY <1>3, <2>2, <2>3 DEF Flights, Suits, Expected, Once, Range
<1> QED
  BY <1>1, <1>2, <1>3, <1>4, <1>5 DEF Inv, Stopped

LEMMA StartFailsKeeps == ASSUME Inv, NEW visible \in SUBSET Equations, StartFails(visible) PROVE Inv'
<1>1. /\ proc = "none" /\ faults < MaxFaults /\ faults' = faults + 1
      /\ queue' = << >> /\ overlays' = WithoutProcessing(visible) /\ cleared' = visible
      /\ UNCHANGED <<inputBuffer, proc, node, late>>
  BY DEF StartFails, Fault, Prepare
<1>2. /\ queue' \in Seq(Job) /\ overlays' \in Seq(Overlay) /\ Len(overlays') <= MaxJobs
      /\ JobsOK' /\ Waited' /\ (Images => Images')
  BY <1>1, EmptiedKeeps
<1>3. TypeOK'
  <2>1. faults' \in 0 .. MaxFaults
    BY <1>1, MathPreviewAssumption DEF Inv, TypeOK
  <2> QED
    BY <1>1, <1>2, <2>1 DEF Inv, TypeOK, node
<1>4. ASSUME Flights PROVE Flights'
  BY <1>1, <1>2, <1>4 DEF Flights, Suits, Fits, Range
<1> QED
  BY <1>1, <1>2, <1>3, <1>4 DEF Inv, Stopped, node

LEMMA StopProcessKeeps == ASSUME Inv, NEW visible \in SUBSET Equations, StopProcess(visible) PROVE Inv'
<1>1. /\ faults < MaxFaults /\ faults' = faults + 1 /\ Dies
      /\ queue' = << >> /\ overlays' = WithoutProcessing(visible) /\ cleared' = visible
      /\ UNCHANGED <<inputBuffer, late>>
  BY DEF StopProcess, Fault
<1>2. /\ queue' \in Seq(Job) /\ overlays' \in Seq(Overlay) /\ Len(overlays') <= MaxJobs
      /\ JobsOK' /\ Waited' /\ (Images => Images')
  BY <1>1, EmptiedKeeps
<1>3. /\ proc' = "dying" /\ stdin' = << >> /\ typesetting' = {}
      /\ stdin' \in Seq(Request) /\ stdout' \in Seq(Piece)
  BY <1>1, DiesGives DEF Inv
<1>4. TypeOK'
  <2>1. faults' \in 0 .. MaxFaults
    BY <1>1, MathPreviewAssumption DEF Inv, TypeOK
  <2> QED
    BY <1>1, <1>2, <1>3, <2>1 DEF Inv, TypeOK
<1>5. ASSUME Flights PROVE Flights'
  BY <1>1, <1>2, <1>3, <1>5 DEF Flights, Suits, Fits, Range
<1> QED
  BY <1>1, <1>2, <1>3, <1>4, <1>5 DEF Inv, Stopped

LEMMA ClearRegionKeeps == ASSUME Inv, NEW region, ClearRegion(region) PROVE Inv'
<1>1. UNCHANGED <<queue, inputBuffer, proc, node, faults, cleared, late>>
  BY DEF ClearRegion
<1> DEFINE n == Len(overlays)
<1>2. n \in Nat /\ DOMAIN overlays = 1 .. n /\ \A o \in 1 .. n : overlays[o] \in Overlay
  BY DEF Inv, TypeOK
<1>3. \A v \in Overlay :
        LET w == [v EXCEPT !.alive = FALSE] IN
        /\ w \in Overlay /\ w.equation = v.equation /\ w.data = v.data
        /\ w.category = v.category /\ w.alive = FALSE
  BY DEF Overlay
<1>4. /\ DOMAIN overlays' = 1 .. n /\ overlays' = [o \in 1 .. n |-> overlays'[o]]
      /\ \A o \in 1 .. n : overlays'[o] = overlays[o] \/ overlays'[o] = [overlays[o] EXCEPT !.alive = FALSE]
  BY <1>2 DEF ClearRegion
<1> HIDE DEF n
<1>5. \A o \in 1 .. n : overlays'[o] \in Overlay
  BY <1>2, <1>3, <1>4
<1>6. OnlyDeleted(overlays')
  <2>1. ASSUME NEW o \in 1 .. n
        PROVE  /\ overlays'[o].equation = overlays[o].equation
               /\ overlays'[o].data = overlays[o].data
               /\ overlays'[o].category = overlays[o].category
               /\ overlays'[o].alive => overlays[o].alive
    <3>1. CASE overlays'[o] = overlays[o]
      BY <3>1
    <3>2. CASE overlays'[o] = [overlays[o] EXCEPT !.alive = FALSE]
      BY <1>2, <1>3, <3>2
    <3> QED
      BY <1>4, <3>1, <3>2
  <2> QED
    BY <1>2, <1>4, <2>1 DEF OnlyDeleted
<1>7. overlays' \in Seq(Overlay) /\ Len(overlays') = n
  <2>1. overlays' \in [1 .. n -> Overlay]
    BY <1>4, <1>5
  <2> QED
    BY <1>2, <2>1, AsSequence
<1>8. TypeOK'
  BY <1>1, <1>7 DEF Inv, TypeOK, node, n
<1>9. JobsOK' /\ Waited'
  BY <1>1, <1>6 DEF Inv, JobsOK, Waited, OnlyDeleted
<1>10. ASSUME Flights PROVE Flights'
  <2>1. Images'
    BY <1>6, <1>10 DEF Flights, Images, OnlyDeleted
  <2>2. \A id, data : Fits(id, data) => Fits(id, data)'
    BY <1>1, <1>6 DEF Inv, JobsOK, Fits, OnlyDeleted
  <2>0. Stream' = Stream /\ Due' = Due
    BY <1>1 DEF Stream, Due, node
  <2>3. Suits'
    BY <1>1, <1>10, <2>0, <2>2 DEF Flights, Suits, node
  <2>4. Expected /\ Once => Expected' /\ Once'
    BY <1>1, <2>0 DEF Expected, Once, node
  <2> QED
    BY <1>1, <1>10, <2>1, <2>3, <2>4 DEF Flights
<1> QED
  BY <1>1, <1>8, <1>9, <1>10 DEF Inv, Stopped, node

(***************************************************************************)
(* A new job.                                                              *)
(***************************************************************************)

\* The newest job has the greatest number.
LEMMA NextIdGives ==
    ASSUME NEW jobs \in Seq(Job), Ordered(jobs)
    PROVE  NextId(jobs) \in Nat /\ NextId(jobs) > 0 /\ \A job \in Range(jobs) : job.id < NextId(jobs)
<1>1. CASE jobs = << >>
  BY <1>1 DEF NextId, Range
<1>2. CASE jobs # << >>
  <2>1. Head(jobs) = jobs[1] /\ 1 \in DOMAIN jobs /\ DOMAIN jobs = 1 .. Len(jobs) /\ Len(jobs) \in Nat
    BY <1>2
  <2>2. NextId(jobs) = 1 + jobs[1].id
    BY <1>2, <2>1 DEF NextId
  <2>3. \A i \in DOMAIN jobs : jobs[i].id \in Nat
    <3>1. \A i \in DOMAIN jobs : jobs[i] \in Job
      OBVIOUS
    <3> QED
      BY <3>1 DEF Job
  <2>4. \A i \in DOMAIN jobs : jobs[i].id <= jobs[1].id
    <3> SUFFICES ASSUME NEW i \in DOMAIN jobs PROVE jobs[i].id <= jobs[1].id
      OBVIOUS
    <3>1. i = 1 \/ 1 < i
      BY <2>1
    <3>2. 1 < i => jobs[1].id > jobs[i].id
      BY <2>1 DEF Ordered
    <3> QED
      BY <2>1, <2>3, <3>1, <3>2
  <2> QED
    BY <2>1, <2>2, <2>3, <2>4 DEF Range
<1> QED
  BY <1>1, <1>2

LEMMA PushGives ==
    ASSUME NEW jobs \in Seq(Job), Ordered(jobs), NEW job \in Job,
           \A other \in Range(jobs) : job.id > other.id /\ job.overlay > other.overlay
    PROVE  LET new == <<job>> \o jobs IN
           /\ new \in Seq(Job) /\ Ordered(new) /\ Head(new) = job
           /\ Range(new) = Range(jobs) \cup {job}
<1> DEFINE new == <<job>> \o jobs
           n == Len(jobs)
<1>1. n \in Nat /\ DOMAIN jobs = 1 .. n /\ new \in Seq(Job) /\ DOMAIN new = 1 .. n + 1
      /\ new[1] = job /\ Head(new) = job
  OBVIOUS
<1>2. \A i \in 1 .. n : new[i + 1] = jobs[i]
  OBVIOUS
<1> HIDE DEF new, n
<1>3. \A i \in 1 .. n + 1 : i = 1 \/ (i - 1 \in 1 .. n /\ new[i] = jobs[i - 1])
  BY <1>1, <1>2
<1>4. Range(new) \subseteq Range(jobs) \cup {job}
  <2> SUFFICES ASSUME NEW i \in 1 .. n + 1 PROVE new[i] \in Range(jobs) \cup {job}
    BY <1>1 DEF Range
  <2> QED
    BY <1>1, <1>3 DEF Range
<1>5. Range(jobs) \cup {job} \subseteq Range(new)
  <2>1. 1 \in 1 .. n + 1 /\ \A i \in 1 .. n : i + 1 \in 1 .. n + 1
    BY <1>1
  <2> QED
    BY <1>1, <1>2, <2>1 DEF Range
<1>6. Ordered(new)
  <2> SUFFICES ASSUME NEW i \in 1 .. n + 1, NEW j \in 1 .. n + 1, i < j
               PROVE  new[i].id > new[j].id /\ new[i].overlay > new[j].overlay
    BY <1>1 DEF Ordered
  <2>1. j - 1 \in 1 .. n /\ new[j] = jobs[j - 1]
    BY <1>1, <1>3
  <2>2. CASE i = 1
    BY <1>1, <2>1, <2>2 DEF Range
  <2>3. CASE i # 1
    <3>1. i - 1 \in 1 .. n /\ new[i] = jobs[i - 1] /\ i - 1 < j - 1
      BY <1>1, <1>3, <2>3
    <3> QED
      BY <1>1, <2>1, <3>1 DEF Ordered
  <2> QED
    BY <2>2, <2>3
<1> QED
  BY <1>1, <1>4, <1>5, <1>6 DEF new

\* The queue and the overlays that a new job meets.
LEMMA PrepareGives ==
    ASSUME Inv, NEW visible \in SUBSET Equations
    PROVE  LET before == Prepare(visible) IN
           /\ before.queue \in Seq(Job) /\ Ordered(before.queue)
           /\ before.overlays \in Seq(Overlay) /\ Len(before.overlays) = Len(overlays)
           /\ OnlyDeleted(before.overlays) /\ before.cleared \subseteq Equations
           /\ IF proc = "none" THEN before.queue = << >>
              ELSE before.queue = queue /\ before.overlays = overlays
           /\ \A job \in Range(before.queue) :
                /\ job.id > 0 /\ job.overlay \in DOMAIN overlays
                /\ overlays[job.overlay].category = "processing"
           /\ \A o \in DOMAIN overlays :
                (/\ before.overlays[o].alive /\ before.overlays[o].category = "processing"
                 /\ before.overlays[o].equation \in before.cleared)
                  => \E job \in Range(before.queue) : job.overlay = o
<1>1. CASE proc = "none"
  <2> DEFINE new == WithoutProcessing(visible)
  <2>1. /\ Prepare(visible).queue = << >> /\ Prepare(visible).overlays = new
        /\ Prepare(visible).cleared = visible
    BY <1>1 DEF Prepare
  <2>2. /\ new \in Seq(Overlay) /\ Len(new) = Len(overlays) /\ OnlyDeleted(new)
        /\ \A o \in DOMAIN new :
             new[o].category = "processing" /\ new[o].equation \in visible => ~new[o].alive
    BY WithoutProcessingGives DEF Inv
  <2>3. << >> \in Seq(Job) /\ Ordered(<< >>) /\ Range(<< >>) = {}
    BY DEF Ordered, Range
  <2> HIDE DEF new
  <2> QED
    BY <1>1, <2>1, <2>2, <2>3 DEF OnlyDeleted
<1>2. CASE proc # "none"
  <2>1. /\ Prepare(visible).queue = queue /\ Prepare(visible).overlays = overlays
        /\ Prepare(visible).cleared = cleared
    BY <1>2 DEF Prepare
  <2> QED
    BY <1>2, <2>1 DEF Inv, TypeOK, JobsOK, Waited, OnlyDeleted
<1> QED
  BY <1>1, <1>2


\* A new job: on the queue before the others, and what is on its way to or from
\* a process that runs still fits.
LEMMA EnqueueGives ==
    ASSUME Inv, NEW visible \in SUBSET Equations, NEW e \in visible, Enqueue(e, visible),
           UNCHANGED inputBuffer
    PROVE  /\ queue' \in Seq(Job) /\ overlays' \in Seq(Overlay) /\ Len(overlays') <= MaxJobs
           /\ cleared' \subseteq Equations /\ late' \in BOOLEAN
           /\ proc' = (IF proc = "none" THEN "running" ELSE proc)
           /\ JobsOK' /\ Waited' /\ (Images => Images')
           /\ \E job \in Range(queue') :
                /\ job \in Job /\ Head(queue') = job /\ Fits(job.id, e)'
                /\ proc # "none" =>
                     /\ \A other \in Range(queue) : other \in Range(queue') /\ other.id # job.id
                     /\ \A id, data : id # job.id /\ Fits(id, data) => Fits(id, data)'
<1> DEFINE before == Prepare(visible)
           jobs == before.queue
           marks == before.overlays
           n == Len(overlays)
           mark == [equation |-> e, alive |-> TRUE, category |-> "processing", data |-> "error"]
<1>0. PICK job : job = [id |-> NextId(jobs), overlay |-> n + 1]
  OBVIOUS
<1>1. e \in Equations
  OBVIOUS
<1>2. /\ jobs \in Seq(Job) /\ Ordered(jobs)
      /\ marks \in Seq(Overlay) /\ Len(marks) = Len(overlays)
      /\ OnlyDeleted(marks) /\ before.cleared \subseteq Equations
      /\ IF proc = "none" THEN jobs = << >> ELSE jobs = queue /\ marks = overlays
      /\ \A j \in Range(jobs) :
           /\ j.id > 0 /\ j.overlay \in DOMAIN overlays
           /\ overlays[j.overlay].category = "processing"
      /\ \A o \in DOMAIN overlays :
           (/\ marks[o].alive /\ marks[o].category = "processing"
            /\ marks[o].equation \in before.cleared)
             => \E j \in Range(jobs) : j.overlay = o
  BY PrepareGives
<1>3. /\ n < MaxJobs /\ n \in Nat /\ MaxJobs \in Nat /\ DOMAIN overlays = 1 .. n
      /\ overlays' = Append(marks, mark) /\ cleared' = before.cleared
      /\ proc' = (IF proc = "none" THEN "running" ELSE proc)
      /\ late' = (late \/ Stale)
  BY MathPreviewAssumption DEF Enqueue, Inv, TypeOK
<1>4. queue' = <<[id |-> NextId(jobs), overlay |-> Len(overlays')]>> \o jobs
  BY DEF Enqueue
<1>5. mark \in Overlay
  BY <1>1 DEF Overlay
<1> HIDE DEF before, jobs, marks, n, mark
<1>6. /\ overlays' \in Seq(Overlay) /\ Len(overlays') = n + 1 /\ DOMAIN overlays' = 1 .. n + 1
      /\ overlays'[n + 1] = mark /\ \A o \in 1 .. n : overlays'[o] = marks[o]
  BY <1>2, <1>3, <1>5 DEF n
<1>7. NextId(jobs) \in Nat /\ NextId(jobs) > 0 /\ \A j \in Range(jobs) : j.id < NextId(jobs)
  BY <1>2, NextIdGives
<1>8. job \in Job /\ job.id = NextId(jobs) /\ job.overlay = n + 1
  BY <1>0, <1>3, <1>7 DEF Job
<1>9. \A j \in Range(jobs) : job.id > j.id /\ job.overlay > j.overlay
  <2>1. \A j \in Range(jobs) : j.overlay \in 1 .. n /\ j.id \in Nat
    <3>1. \A j \in Range(jobs) : j \in Job
      BY <1>2 DEF Range
    <3> QED
      BY <1>2, <1>3, <3>1 DEF Job
  <2> QED
    BY <1>3, <1>7, <1>8, <2>1
<1>10. queue' = <<job>> \o jobs
  BY <1>0, <1>4, <1>6
<1>11. /\ queue' \in Seq(Job) /\ Ordered(queue') /\ Head(queue') = job
       /\ Range(queue') = Range(jobs) \cup {job}
  BY <1>2, <1>8, <1>9, <1>10, PushGives
<1>12. /\ mark.equation = e /\ mark.alive = TRUE /\ mark.category = "processing"
  BY DEF mark
<1>13. \A o \in 1 .. n : /\ overlays'[o].equation = overlays[o].equation
                        /\ overlays'[o].category = overlays[o].category
                        /\ overlays'[o].data = overlays[o].data
  BY <1>2, <1>3, <1>6 DEF OnlyDeleted
<1>14. JobsOK'
  <2>1. \A j \in Range(queue') :
          /\ j.id > 0 /\ j.overlay \in DOMAIN overlays'
          /\ overlays'[j.overlay].category = "processing"
    <3> SUFFICES ASSUME NEW j \in Range(queue')
                 PROVE  /\ j.id > 0 /\ j.overlay \in DOMAIN overlays'
                        /\ overlays'[j.overlay].category = "processing"
      OBVIOUS
    <3>1. CASE j = job
      BY <1>3, <1>6, <1>7, <1>8, <1>12, <3>1
    <3>2. CASE j \in Range(jobs)
      BY <1>2, <1>3, <1>6, <1>13, <3>2
    <3> QED
      BY <1>11, <3>1, <3>2
  <2> QED
    BY <1>11, <2>1 DEF Inv, JobsOK
<1>15. Waited'
  <2> SUFFICES ASSUME NEW o \in DOMAIN overlays', overlays'[o].alive,
                      overlays'[o].category = "processing",
                      overlays'[o].equation \in cleared'
               PROVE  \E j \in Range(queue') : j.overlay = o
    BY DEF Waited
  <2>1. CASE o = n + 1
    BY <1>8, <1>11, <2>1
  <2>2. CASE o \in 1 .. n
    BY <1>2, <1>3, <1>6, <1>11, <2>2
  <2> QED
    BY <1>3, <1>6, <2>1, <2>2
<1>16. Images => Images'
  <2> SUFFICES ASSUME Images, NEW o \in DOMAIN overlays', overlays'[o].category = "image"
               PROVE  overlays'[o].data = overlays'[o].equation
    BY DEF Images
  <2>1. o # n + 1
    BY <1>6, <1>12
  <2>2. o \in 1 .. n
    BY <1>3, <1>6, <2>1
  <2> QED
    BY <1>3, <1>13, <2>2 DEF Images
<1>17. Fits(job.id, e)'
  <2>1. \A j \in Range(queue') : j.id = job.id => j = job
    BY <1>8, <1>11, OrderedTells
  <2>2. \A j \in Range(queue') : j.id = job.id => overlays'[j.overlay].equation = e
    BY <1>6, <1>8, <1>12, <2>1
  <2> QED
    BY <2>2 DEF Fits
<1>18. ASSUME proc # "none"
       PROVE  /\ \A j \in Range(queue) : j \in Range(queue') /\ j.id # job.id
              /\ \A id, data : id # job.id /\ Fits(id, data) => Fits(id, data)'
  <2>1. jobs = queue
    BY <1>2, <1>18
  <2>2. \A j \in Range(queue) : j \in Range(queue') /\ j.id # job.id
    <3>1. \A j \in Range(queue) : j.id \in Nat
      <4>1. \A j \in Range(queue) : j \in Job
        BY <1>2, <2>1 DEF Range
      <4> QED
        BY <4>1 DEF Job
    <3> QED
      BY <1>9, <1>11, <2>1, <3>1, <1>7, <1>8
  <2>3. \A j \in Range(queue') : j.id # job.id => j \in Range(queue)
    BY <1>11, <2>1
  <2>4. \A j \in Range(queue) : overlays'[j.overlay].equation = overlays[j.overlay].equation
    BY <1>2, <1>3, <1>13, <2>1
  <2>5. ASSUME NEW id, NEW data, id # job.id, Fits(id, data) PROVE Fits(id, data)'
    BY <2>3, <2>4, <2>5 DEF Fits
  <2> QED
    BY <2>2, <2>5
<1>19. Len(overlays') <= MaxJobs /\ late' \in BOOLEAN /\ cleared' \subseteq Equations
  BY <1>2, <1>3, <1>6 DEF Inv, TypeOK
<1>20. job \in Range(queue')
  BY <1>11
<1>21. /\ job \in Job /\ Head(queue') = job /\ Fits(job.id, e)'
       /\ proc # "none" =>
            /\ \A other \in Range(queue) : other \in Range(queue') /\ other.id # job.id
            /\ \A id, data : id # job.id /\ Fits(id, data) => Fits(id, data)'
  BY <1>8, <1>11, <1>17, <1>18
<1> QED
  BY <1>3, <1>6, <1>11, <1>14, <1>15, <1>16, <1>19, <1>20, <1>21

LEMMA SubmitKeeps ==
    ASSUME Inv, NEW visible \in SUBSET Equations, NEW e \in visible, Submit(e, visible)
    PROVE  Inv'
<1>1. /\ Enqueue(e, visible) /\ UNCHANGED <<inputBuffer, typesetting, stdout, faults>>
      /\ stdin' = IF proc = "dying" THEN stdin
                  ELSE Append(stdin, [id |-> Head(queue').id, data |-> e])
  BY DEF Submit
<1>2. /\ queue' \in Seq(Job) /\ overlays' \in Seq(Overlay) /\ Len(overlays') <= MaxJobs
      /\ cleared' \subseteq Equations /\ late' \in BOOLEAN
      /\ proc' = (IF proc = "none" THEN "running" ELSE proc)
      /\ JobsOK' /\ Waited' /\ (Images => Images')
  BY <1>1, EnqueueGives
<1>3. PICK job \in Range(queue') :
        /\ job \in Job /\ Head(queue') = job /\ Fits(job.id, e)'
        /\ proc # "none" =>
             /\ \A other \in Range(queue) : other \in Range(queue') /\ other.id # job.id
             /\ \A id, data : id # job.id /\ Fits(id, data) => Fits(id, data)'
  BY <1>1, EnqueueGives
<1>4. PICK request : request = [id |-> job.id, data |-> e]
  OBVIOUS
<1>5. request \in Request /\ request.id = job.id /\ request.data = e
  BY <1>3, <1>4 DEF Request, Job
<1>6. stdin \in Seq(Request) /\ proc \in {"none", "running", "dying"}
  BY DEF Inv, TypeOK
<1>7. proc # "dying" => stdin' = Append(stdin, request)
  BY <1>1, <1>3, <1>4
<1>8. TypeOK'
  <2>1. stdin' \in Seq(Request)
    BY <1>1, <1>5, <1>6, <1>7
  <2>2. proc' \in {"running", "dying"}
    BY <1>2, <1>6
  <2> QED
    BY <1>1, <1>2, <2>1, <2>2 DEF Inv, TypeOK
<1>9. Stopped'
  BY <1>1, <1>2, <1>6 DEF Inv, Stopped
<1>10. ASSUME ~late' PROVE Flights'
  <2>1. ~late /\ ~Stale /\ proc # "dying" /\ proc' = "running"
    BY <1>1, <1>2, <1>6, <1>10 DEF Enqueue, Stale
  <2>2. Flights /\ (proc = "none" => stdin = << >> /\ typesetting = {} /\ Due = {})
    BY <2>1, NothingDue DEF Inv, TypeOK
  <2>0. Stream' = Stream /\ Due' = Due
    BY <1>1 DEF Stream, Due
  <2> DEFINE m == Len(stdin)
  <2>3. /\ m \in Nat /\ DOMAIN stdin = 1 .. m /\ DOMAIN stdin' = 1 .. m + 1
        /\ stdin'[m + 1] = request /\ \A k \in 1 .. m : stdin'[k] = stdin[k]
    BY <1>5, <1>6, <1>7, <2>1
  <2> HIDE DEF m
  <2>4. Range(stdin') = Range(stdin) \cup {request}
    <3>1. Range(stdin') \subseteq Range(stdin) \cup {request}
      <4> SUFFICES ASSUME NEW k \in 1 .. m + 1 PROVE stdin'[k] \in Range(stdin) \cup {request}
        BY <2>3 DEF Range
      <4>1. k = m + 1 \/ k \in 1 .. m
        BY <2>3
      <4> QED
        BY <2>3, <4>1 DEF Range
    <3>2. \A k \in 1 .. m : k \in 1 .. m + 1
      BY <2>3
    <3>3. m + 1 \in 1 .. m + 1
      BY <2>3
    <3> QED
      BY <2>3, <3>1, <3>2, <3>3 DEF Range
  \* The old requests and answers are for other jobs.
  <2>5. /\ \A r \in Range(stdin) \cup typesetting : r.id # job.id /\ Fits(r.id, r.data)'
        /\ \A r \in Range(stdin) \cup typesetting : \E j \in Range(queue') : j.id = r.id
    <3>1. CASE proc = "none"
      BY <2>2, <3>1 DEF Range
    <3>2. CASE proc = "running"
      BY <1>3, <2>2, <3>2 DEF Flights, Suits, Expected
    <3> QED
      BY <1>6, <2>1, <3>1, <3>2
  <2>6. ASSUME NEW k \in Due
        PROVE  /\ Stream[k].answer.id # job.id
               /\ Fits(Stream[k].answer.id, Stream[k].answer.data)'
               /\ Stream[k].answer.id # 0 => \E j \in Range(queue') : j.id = Stream[k].answer.id
    <3>1. proc = "running"
      BY <1>6, <2>1, <2>2
    <3>2. Stream[k].answer.id # 0 => \E j \in Range(queue) : j.id = Stream[k].answer.id
      BY <2>2, <2>6, <3>1 DEF Flights, Expected
    <3>3. job.id # 0
      BY <1>2, <1>3 DEF JobsOK
    <3>4. Stream[k].answer.id # job.id
      BY <1>3, <3>1, <3>2, <3>3
    <3>5. PICK answer : answer = Stream[k].answer
      OBVIOUS
    <3>6. Fits(answer.id, answer.data)
      BY <2>2, <2>6, <3>5 DEF Flights, Suits
    <3>7. Fits(answer.id, answer.data)'
      BY <1>3, <3>1, <3>4, <3>5, <3>6
    <3> QED
      BY <1>3, <2>0, <3>1, <3>2, <3>4, <3>5, <3>7 DEF Fits
  <2>7. Suits'
    <3>1. \A r \in Range(stdin') \cup typesetting' : Fits(r.id, r.data)'
      BY <1>1, <1>3, <1>5, <2>4, <2>5
    <3>2. ASSUME NEW k \in Due'
          PROVE  Fits(Stream[k].answer.id, Stream[k].answer.data)'
      BY <2>0, <2>6, <3>2
    <3> QED
      BY <3>1, <3>2 DEF Suits
  <2>8. Expected'
    <3>1. \A r \in Range(stdin') \cup typesetting' : \E j \in Range(queue') : j.id = r.id
      BY <1>1, <1>5, <2>4, <2>5
    <3> QED
      BY <2>0, <2>6, <3>1 DEF Expected
  <2>9. Once \/ (stdin = << >> /\ typesetting = {} /\ Due = {})
    BY <1>6, <2>1, <2>2 DEF Flights
  <2>10. /\ \A j, k \in 1 .. m : stdin[j].id = stdin[k].id => j = k
         /\ \A r, s \in typesetting : r.id = s.id => r = s
         /\ \A j, k \in Due :
              Stream[j].answer.id = Stream[k].answer.id /\ Stream[j].answer.id # 0 => j = k
         /\ \A r \in Range(stdin), s \in typesetting : r.id # s.id
         /\ \A r \in Range(stdin) \cup typesetting, k \in Due : r.id # Stream[k].answer.id
    <3>1. CASE Once
      BY <2>3, <3>1 DEF Once
    <3>2. CASE stdin = << >> /\ typesetting = {} /\ Due = {}
      BY <2>3, <3>2 DEF Range
    <3> QED
      BY <2>9, <3>1, <3>2
  <2>11. Once'
    <3>1. \A j, k \in DOMAIN stdin' : stdin'[j].id = stdin'[k].id => j = k
      <4> SUFFICES ASSUME NEW j \in 1 .. m + 1, NEW k \in 1 .. m + 1,
                          stdin'[j].id = stdin'[k].id
                   PROVE  j = k
        BY <2>3
      <4>1. \A i \in 1 .. m : stdin'[i].id # job.id
        BY <2>3, <2>5 DEF Range
      <4>2. (j = m + 1 \/ j \in 1 .. m) /\ (k = m + 1 \/ k \in 1 .. m)
        BY <2>3
      <4> QED
        BY <1>5, <2>3, <2>10, <4>1, <4>2
    <3>2. \A r, s \in typesetting' : r.id = s.id => r = s
      BY <1>1, <2>10
    <3>3. \A r \in Range(stdin'), s \in typesetting' : r.id # s.id
      BY <1>1, <1>5, <2>4, <2>5, <2>10
    <3>4. \A r \in Range(stdin') \cup typesetting', k \in Due' : r.id # Stream'[k].answer.id
      BY <1>1, <1>5, <2>0, <2>4, <2>6, <2>10
    <3>5. \A j, k \in Due' :
            Stream'[j].answer.id = Stream'[k].answer.id /\ Stream'[j].answer.id # 0 => j = k
      BY <2>0, <2>10
    <3> QED
      BY <3>1, <3>2, <3>3, <3>4, <3>5 DEF Once
  <2> QED
    BY <1>2, <2>2, <2>7, <2>8, <2>11 DEF Flights
<1> QED
  BY <1>2, <1>8, <1>9, <1>10 DEF Inv

LEMMA SubmitFailsKeeps ==
    ASSUME Inv, NEW visible \in SUBSET Equations, NEW e \in visible, SubmitFails(e, visible)
    PROVE  Inv'
<1>1. /\ Enqueue(e, visible) /\ UNCHANGED <<inputBuffer, node>>
      /\ faults < MaxFaults /\ faults' = faults + 1
  BY DEF SubmitFails, Fault
<1>2. /\ queue' \in Seq(Job) /\ overlays' \in Seq(Overlay) /\ Len(overlays') <= MaxJobs
      /\ cleared' \subseteq Equations /\ late' \in BOOLEAN
      /\ proc' = (IF proc = "none" THEN "running" ELSE proc)
      /\ JobsOK' /\ Waited' /\ (Images => Images')
  BY <1>1, EnqueueGives
<1>3. PICK job \in Range(queue') :
        proc # "none" =>
          /\ \A other \in Range(queue) : other \in Range(queue') /\ other.id # job.id
          /\ \A id, data : id # job.id /\ Fits(id, data) => Fits(id, data)'
  BY <1>1, EnqueueGives
<1>4. proc \in {"none", "running", "dying"}
  BY DEF Inv, TypeOK
<1>5. TypeOK'
  <2>1. faults' \in 0 .. MaxFaults
    BY <1>1, MathPreviewAssumption DEF Inv, TypeOK
  <2> QED
    BY <1>1, <1>2, <1>4, <2>1 DEF Inv, TypeOK, node
<1>6. Stopped'
  BY <1>1, <1>2, <1>4 DEF Inv, Stopped, node
<1>7. ASSUME ~late' PROVE Flights'
  <2>1. ~late /\ ~Stale /\ proc # "dying" /\ proc' = "running"
    BY <1>1, <1>2, <1>4, <1>7 DEF Enqueue, Stale
  <2>2. Flights
    BY <2>1 DEF Inv
  <2>3. UNCHANGED <<stdin, typesetting>> /\ Stream' = Stream /\ Due' = Due
    BY <1>1 DEF node, Stream, Due
  <2>4. CASE proc = "none"
    <3>1. stdin = << >> /\ typesetting = {} /\ Due = {}
      BY <2>1, <2>4, NothingDue DEF Inv, TypeOK
    <3> QED
      BY <1>2, <2>2, <2>3, <3>1 DEF Flights, Suits, Expected, Once, Range
  <2>5. CASE proc = "running"
    <3>1. ASSUME NEW r \in Range(stdin) \cup typesetting
          PROVE  Fits(r.id, r.data)' /\ \E j \in Range(queue') : j.id = r.id
      BY <1>3, <2>2, <2>5, <3>1 DEF Flights, Suits, Expected
    <3>2. ASSUME NEW k \in Due
          PROVE  /\ Fits(Stream[k].answer.id, Stream[k].answer.data)'
                 /\ Stream[k].answer.id # 0 => \E j \in Range(queue') : j.id = Stream[k].answer.id
      <4>1. Stream[k].answer.id # 0 => \E j \in Range(queue) : j.id = Stream[k].answer.id
        BY <2>2, <2>5, <3>2 DEF Flights, Expected
      <4>2. job.id # 0
        BY <1>2 DEF JobsOK
      <4>3. Stream[k].answer.id # job.id
        BY <1>3, <2>5, <4>1, <4>2
      <4>4. PICK answer : answer = Stream[k].answer
        OBVIOUS
      <4>5. Fits(answer.id, answer.data)'
        BY <1>3, <2>2, <2>5, <3>2, <4>3, <4>4 DEF Flights, Suits
      <4> QED
        BY <1>3, <2>3, <2>5, <4>1, <4>4, <4>5 DEF Fits
    <3>3. Suits'
      <4>1. \A r \in Range(stdin') \cup typesetting' : Fits(r.id, r.data)'
        BY <2>3, <3>1
      <4>2. ASSUME NEW k \in Due'
            PROVE  Fits(Stream[k].answer.id, Stream[k].answer.data)'
        BY <2>3, <3>2, <4>2
      <4> QED
        BY <4>1, <4>2 DEF Suits
    <3>4. Expected' /\ Once'
      BY <2>2, <2>3, <2>5, <3>1, <3>2 DEF Flights, Expected, Once
    <3> QED
      BY <1>2, <2>2, <3>3, <3>4 DEF Flights
  <2> QED
    BY <1>4, <2>1, <2>4, <2>5
<1> QED
  BY <1>2, <1>5, <1>6, <1>7 DEF Inv

(***************************************************************************)
(* Answers that Emacs reads.                                               *)
(***************************************************************************)

LEMMA FilterKeeps == ASSUME Inv, NEW n \in 1 .. Len(stdout), Filter(n) PROVE Inv'
<1> DEFINE first == SubSeq(stdout, 1, n)
           pieces == inputBuffer \o first
           end == ReadAll(pieces)
           l == Len(inputBuffer)
           m == Len(stdout)
<1>1. /\ queue' = end.queue /\ overlays' = end.overlays /\ inputBuffer' = end.line
      /\ stdout' = SubSeq(stdout, n + 1, Len(stdout))
      /\ UNCHANGED <<proc, stdin, typesetting, faults, cleared, late>>
  BY DEF Filter, Taken
<1>2. /\ stdout \in Seq(Piece) /\ m \in Nat /\ DOMAIN stdout = 1 .. m /\ n \in 1 .. m
      /\ inputBuffer \in Seq(Piece) /\ queue \in Seq(Job) /\ overlays \in Seq(Overlay)
      /\ TypeOK /\ Ordered(queue)
  BY DEF Inv, TypeOK, JobsOK
<1>3. first \in Seq(Piece) /\ Len(first) = n /\ \A k \in 1 .. n : first[k] = stdout[k]
  <2>1. \A k \in 1 .. n : stdout[k] \in Piece
    BY <1>2
  <2>2. /\ first \in Seq(Piece) /\ Len(first) = IF 1 <= n THEN n - 1 + 1 ELSE 0
        /\ \A k \in 1 .. n - 1 + 1 : first[k] = stdout[1 + k - 1]
    BY <2>1, SubSeqProperties
  <2> HIDE DEF first
  <2> QED
    BY <1>2, <2>2
<1>4. /\ stdout' \in Seq(Piece) /\ DOMAIN stdout' = 1 .. m - n
      /\ \A k \in 1 .. m - n : stdout'[k] = stdout[n + k]
  <2>1. \A k \in n + 1 .. m : stdout[k] \in Piece
    BY <1>2
  <2>2. /\ stdout' \in Seq(Piece) /\ Len(stdout') = IF n + 1 <= m THEN m - (n + 1) + 1 ELSE 0
        /\ \A k \in 1 .. m - (n + 1) + 1 : stdout'[k] = stdout[(n + 1) + k - 1]
    BY <1>1, <2>1, SubSeqProperties
  <2> HIDE DEF m
  <2>3. Len(stdout') = m - n /\ m - (n + 1) + 1 = m - n
    BY <1>2, <2>2
  <2>4. \A k \in 1 .. m - n : stdout'[k] = stdout[n + k]
    <3> SUFFICES ASSUME NEW k \in 1 .. m - n PROVE stdout'[k] = stdout[n + k]
      OBVIOUS
    <3>1. k \in 1 .. m - (n + 1) + 1 /\ (n + 1) + k - 1 = n + k
      BY <1>2, <2>3
    <3> QED
      BY <2>2, <3>1
  <2> QED
    BY <2>2, <2>3, <2>4
<1> HIDE DEF first, m
<1>5. /\ pieces \in Seq(Piece) /\ Len(pieces) = l + n /\ l \in Nat
      /\ \A k \in 1 .. l + n : pieces[k] = IF k <= l THEN inputBuffer[k] ELSE first[k - l]
  <2>1. inputBuffer \in Seq(Piece) /\ first \in Seq(Piece) /\ Len(first) = n
    BY <1>2, <1>3
  <2>2. /\ pieces \in Seq(Piece) /\ Len(pieces) = l + Len(first)
        /\ \A k \in 1 .. l + Len(first) : pieces[k] = IF k <= l THEN inputBuffer[k] ELSE first[k - l]
    BY <2>1, ConcatProperties, Zenon
  <2> HIDE DEF pieces
  <2> QED
    BY <2>1, <2>2
<1> HIDE DEF l, pieces, end
<1>6. PICK b : /\ IsLine(end.line, pieces, b, l + n)
               /\ SoFar(queue, overlays, end, Answers(pieces, b))
  BY <1>2, <1>5, ReadAllGives DEF end
<1>7. end \in Readings /\ b \in 0 .. l + n /\ b \in Nat
  <2>1. b \in 0 .. l + n
    BY <1>6 DEF IsLine
  <2> QED
    BY <1>2, <1>5, <2>1, ReadAllGives DEF end
<1> DEFINE read == Answers(pieces, b)
\* The pieces are the first of the stream.
<1>20. /\ Stream \in Seq(Piece) /\ DOMAIN Stream = 1 .. l + m
       /\ \A k \in 1 .. l + n : k \in DOMAIN Stream /\ pieces[k] = Stream[k]
       /\ \A k \in 1 .. m : Stream[l + k] = stdout[k]
  <2>1. /\ Stream \in Seq(Piece) /\ DOMAIN Stream = 1 .. l + m
        /\ \A k \in 1 .. l : Stream[k] = inputBuffer[k]
        /\ \A k \in 1 .. m : Stream[l + k] = stdout[k]
    BY <1>2, StreamGives DEF l, m
  <2>2. ASSUME NEW k \in 1 .. l + n PROVE k \in 1 .. l + m /\ pieces[k] = Stream[k]
    <3>1. k \in 1 .. l + m
      BY <1>2, <1>5
    <3>2. CASE k <= l
      BY <1>5, <2>1, <3>1, <3>2
    <3>3. CASE ~(k <= l)
      <4>1. k - l \in 1 .. n /\ k - l \in 1 .. m /\ l + (k - l) = k
        BY <1>2, <1>5, <3>3
      <4>2. pieces[k] = stdout[k - l]
        BY <1>3, <1>5, <3>3, <4>1
      <4>3. Stream[l + (k - l)] = stdout[k - l]
        BY <2>1, <4>1
      <4> QED
        BY <3>1, <4>1, <4>2, <4>3
    <3> QED
      BY <3>2, <3>3
  <2> QED
    BY <2>1, <2>2
<1>21. \A k \in 1 .. l + n : IsWhole(pieces, k) <=> IsWhole(Stream, k)
  <2>1. l + n \in Nat
    BY <1>2, <1>5
  <2> QED
    BY <1>20, <2>1, WholeSoFar
\* What is left of the stream: what follows the last line that was read.
<1>22. /\ b + 1 \in Nat /\ DOMAIN Stream' = 1 .. l + m - b
       /\ \A k \in 1 .. l + m - b : b + k \in DOMAIN Stream /\ Stream'[k] = Stream[b + k]
  <2>1. /\ end.line \in Seq(Piece) /\ Len(end.line) = l + n - b
        /\ \A i \in 1 .. l + n - b : end.line[i] = pieces[b + i]
    <3>1. end.line \in Seq(Piece)
      BY <1>7 DEF Readings
    <3>2. Len(end.line) = (l + n) - b
      BY <1>6 DEF IsLine
    <3>3. \A i \in 1 .. (l + n) - b : end.line[i] = pieces[b + i]
      BY <1>6 DEF IsLine
    <3> QED
      BY <1>2, <1>5, <1>7, <3>1, <3>2, <3>3
  <2>2. Stream' = end.line \o stdout' /\ Len(stdout') = m - n
    BY <1>1, <1>2, <1>4 DEF Stream
  <2>3. /\ end.line \o stdout' \in Seq(Piece)
        /\ Len(end.line \o stdout') = Len(end.line) + Len(stdout')
        /\ \A k \in 1 .. Len(end.line) + Len(stdout') :
             (end.line \o stdout')[k] =
               IF k <= Len(end.line) THEN end.line[k] ELSE stdout'[k - Len(end.line)]
    BY <1>4, <2>1, ConcatProperties
  <2>4. l + n - b + (m - n) = l + m - b
    BY <1>2, <1>5, <1>7
  <2>5. /\ DOMAIN Stream' = 1 .. l + m - b
        /\ \A k \in 1 .. l + m - b :
             Stream'[k] = IF k <= l + n - b THEN end.line[k] ELSE stdout'[k - (l + n - b)]
    BY <2>1, <2>2, <2>3, <2>4
  <2>6. ASSUME NEW k \in 1 .. l + m - b
        PROVE  b + k \in 1 .. l + m /\ Stream'[k] = Stream[b + k]
    <3>1. b + k \in 1 .. l + m
      BY <1>2, <1>5, <1>7
    <3>2. CASE k <= l + n - b
      <4>1. k \in 1 .. l + n - b /\ b + k \in 1 .. l + n
        BY <1>2, <1>5, <1>7, <3>2
      <4> QED
        BY <1>20, <2>1, <2>5, <3>1, <3>2, <4>1
    <3>3. CASE ~(k <= l + n - b)
      <4> DEFINE i == k - (l + n - b)
      <4>1. i \in 1 .. m - n /\ n + i \in 1 .. m /\ l + (n + i) = b + k
        BY <1>2, <1>5, <1>7, <3>3
      <4>2. Stream'[k] = stdout'[i]
        BY <2>5, <3>3
      <4> HIDE DEF i
      <4>3. stdout'[i] = stdout[n + i]
        BY <1>4, <4>1
      <4>4. Stream[l + (n + i)] = stdout[n + i]
        BY <1>20, <4>1
      <4> QED
        BY <3>1, <4>1, <4>2, <4>3, <4>4
    <3> QED
      BY <3>2, <3>3
  <2> QED
    BY <1>7, <1>20, <2>5, <2>6
<1>23. ASSUME NEW k \in Due'
       PROVE  b + k \in Due /\ Stream'[k] = Stream[b + k]
  <2>1. k \in 1 .. l + m - b /\ IsWhole(Stream', k) /\ k > 1
    BY <1>22 DEF Due, IsWhole
  <2>2. b + k \in DOMAIN Stream /\ Stream'[k] = Stream[b + k]
    BY <1>22, <2>1
  <2>3. k - 1 \in 1 .. l + m - b /\ b + (k - 1) = (b + k) - 1 /\ b + k > 1
    BY <1>2, <1>5, <1>7, <2>1
  <2>4. Stream'[k - 1] = Stream[(b + k) - 1]
    BY <1>22, <2>3
  <2>5. b + k > 2 => Stream[(b + k) - 2].part \in LineEnds
    <3>1. CASE k > 2
      <4>1. k - 2 \in 1 .. l + m - b /\ b + (k - 2) = (b + k) - 2
        BY <1>2, <1>5, <1>7, <2>1, <3>1
      <4> QED
        BY <1>22, <2>1, <3>1, <4>1 DEF IsWhole
    <3>2. CASE k = 2 /\ b > 0
      <4>1. (b + k) - 2 = b /\ b \in 1 .. l + n
        BY <1>7, <3>2
      <4>2. pieces[b].part \in LineEnds
        BY <1>6, <3>2 DEF IsLine
      <4> QED
        BY <1>20, <4>1, <4>2
    <3>3. k > 2 \/ (k = 2 /\ b > 0) \/ ~(b + k > 2)
      BY <1>7, <2>1
    <3> QED
      BY <3>1, <3>2, <3>3
  <2>6. IsWhole(Stream, b + k)
    BY <2>1, <2>2, <2>3, <2>4, <2>5 DEF IsWhole
  <2> QED
    BY <2>2, <2>6 DEF Due
\* What was read was due, and is no more.
<1>24. \A a \in read : \E k \in 1 .. b : k \in Due /\ Stream[k].answer = a
  <2>1. \A k \in 1 .. b : k \in 1 .. l + n
    BY <1>2, <1>5, <1>7
  <2> QED
    BY <1>20, <1>21, <2>1 DEF Answers, Due
<1> HIDE DEF read
<1>8. /\ Ordered(queue') /\ Range(queue') \subseteq Range(queue)
      /\ \A job \in Range(queue) : job \in Range(queue') \/ \E a \in read : a.id = job.id
      /\ DOMAIN overlays' = DOMAIN overlays
  BY <1>1, <1>6 DEF SoFar, read
<1>9. ASSUME NEW o \in DOMAIN overlays
      PROVE  \/ /\ overlays'[o] = overlays[o]
                /\ \A job \in Range(queue) : job.overlay = o => job \in Range(queue')
             \/ \E a \in read, job \in Range(queue) :
                  /\ job.overlay = o /\ job.id = a.id /\ job \notin Range(queue')
                  /\ overlays'[o] = Receive(overlays[o], a.data)
  BY <1>1, <1>6, <1>9 DEF SoFar, Untouched, Received, read
<1>10. ASSUME NEW v \in Overlay, NEW data
       PROVE  LET w == Receive(v, data) IN
              /\ w.equation = v.equation
              /\ data = "error" => ~w.alive /\ w.category = v.category /\ w.data = v.data
              /\ data # "error" => w.category = "image" /\ w.data = data
  BY DEF Receive, Overlay
<1>11. \A o \in DOMAIN overlays : overlays[o] \in Overlay /\ overlays'[o].equation = overlays[o].equation
  BY <1>2, <1>9, <1>10
<1>12. TypeOK'
  <2>1. /\ queue' \in Seq(Job) /\ overlays' \in Seq(Overlay) /\ inputBuffer' \in Seq(Piece)
    BY <1>1, <1>7 DEF Readings
  <2>2. Len(overlays') = Len(overlays)
    BY <1>2, <1>8, <2>1
  <2>3. proc # "none"
    <3>1. stdout # << >>
      BY <1>2
    <3> QED
      BY <3>1 DEF Inv, TypeOK
  <2> QED
    BY <1>1, <1>4, <2>1, <2>2, <2>3 DEF Inv, TypeOK
<1>13. JobsOK'
  <2>1. ASSUME NEW job \in Range(queue')
        PROVE  /\ job.id > 0 /\ job.overlay \in DOMAIN overlays'
               /\ overlays'[job.overlay].category = "processing"
    <3>1. job \in Range(queue)
      BY <1>8
    <3>2. /\ job.id > 0 /\ job.overlay \in DOMAIN overlays
          /\ overlays[job.overlay].category = "processing"
      BY <3>1 DEF Inv, JobsOK
    <3>3. overlays'[job.overlay] = overlays[job.overlay]
      BY <1>2, <1>9, <3>1, <3>2, OrderedTells
    <3> QED
      BY <1>8, <3>2, <3>3
  <2>2. \A k \in DOMAIN inputBuffer' : inputBuffer'[k].part \notin LineEnds
    <3>1. /\ DOMAIN end.line = 1 .. l + n - b
          /\ \A i \in 1 .. l + n - b : end.line[i].part \notin LineEnds
      <4>1. end.line \in Seq(Piece)
        BY <1>7 DEF Readings
      <4>2. Len(end.line) = (l + n) - b
        BY <1>6 DEF IsLine
      <4>3. \A i \in 1 .. (l + n) - b : end.line[i].part \notin LineEnds
        BY <1>6 DEF IsLine
      <4> QED
        BY <1>2, <1>5, <1>7, <4>1, <4>2, <4>3
    <3> QED
      BY <1>1, <3>1
  <2> QED
    BY <1>8, <2>1, <2>2 DEF JobsOK
<1>14. Waited'
  <2> SUFFICES ASSUME NEW o \in DOMAIN overlays, overlays'[o].alive,
                      overlays'[o].category = "processing",
                      overlays'[o].equation \in cleared
               PROVE  \E job \in Range(queue') : job.overlay = o
    BY <1>1, <1>8 DEF Waited
  <2>1. /\ overlays'[o] = overlays[o]
        /\ \A job \in Range(queue) : job.overlay = o => job \in Range(queue')
    BY <1>9, <1>10, <1>11
  <2> QED
    BY <2>1 DEF Inv, Waited
<1>15. ASSUME Flights PROVE Flights'
  <2>1. Images'
    <3> SUFFICES ASSUME NEW o \in DOMAIN overlays, overlays'[o].category = "image"
                 PROVE  overlays'[o].data = overlays'[o].equation
      BY <1>8 DEF Images
    <3>1. CASE overlays'[o] = overlays[o]
      BY <1>15, <3>1 DEF Flights, Images
    <3>2. CASE \E a \in read, job \in Range(queue) :
                 /\ job.overlay = o /\ job.id = a.id /\ job \notin Range(queue')
                 /\ overlays'[o] = Receive(overlays[o], a.data)
      <4>1. PICK a \in read, job \in Range(queue) :
              job.overlay = o /\ job.id = a.id /\ overlays'[o] = Receive(overlays[o], a.data)
        BY <3>2
      <4>2. PICK k \in Due : Stream[k].answer = a
        BY <1>24
      <4>4. a.data \in {"error", overlays[o].equation}
        BY <1>15, <4>1, <4>2 DEF Flights, Suits, Fits
      <4>5. CASE a.data = "error"
        BY <1>10, <1>11, <1>15, <4>1, <4>5 DEF Flights, Images
      <4>6. CASE a.data # "error"
        BY <1>10, <1>11, <4>1, <4>4, <4>6
      <4> QED
        BY <4>5, <4>6
    <3> QED
      BY <1>9, <3>1, <3>2
  <2>2. ASSUME NEW id, NEW data, Fits(id, data) PROVE Fits(id, data)'
    <3>1. ASSUME NEW job \in Range(queue'), job.id = id
          PROVE  data \in {"error", overlays'[job.overlay].equation}
      <4>1. job \in Range(queue)
        BY <1>8, <3>1
      <4>2. job.overlay \in DOMAIN overlays
        BY <4>1 DEF Inv, JobsOK
      <4>3. overlays'[job.overlay].equation = overlays[job.overlay].equation
        BY <1>11, <4>2
      <4> QED
        BY <2>2, <3>1, <4>1, <4>3 DEF Fits
    <3> QED
      BY <3>1 DEF Fits
  <2>4. Suits'
    <3>1. \A r \in Range(stdin') \cup typesetting' : Fits(r.id, r.data)'
      BY <1>1, <1>15, <2>2 DEF Flights, Suits
    <3>2. ASSUME NEW k \in Due'
          PROVE  Fits(Stream[k].answer.id, Stream[k].answer.data)'
      <4>1. PICK answer : answer = Stream'[k].answer
        OBVIOUS
      <4>2. Fits(answer.id, answer.data)
        BY <1>15, <1>23, <3>2, <4>1 DEF Flights, Suits
      <4>3. Fits(answer.id, answer.data)'
        BY <2>2, <4>2
      <4> QED
        BY <4>1, <4>3 DEF Fits
    <3> QED
      BY <3>1, <3>2 DEF Suits
  <2>5. ASSUME proc = "running" PROVE Expected' /\ Once'
    <3>1. Expected /\ Once
      BY <1>15, <2>5 DEF Flights
    \* No number that is still on its way was read.
    <3>2. \A r \in Range(stdin) \cup typesetting, a \in read : r.id # a.id
      <4> SUFFICES ASSUME NEW r \in Range(stdin) \cup typesetting, NEW a \in read
                   PROVE  r.id # a.id
        OBVIOUS
      <4>1. PICK k \in Due : Stream[k].answer = a
        BY <1>24
      <4> QED
        BY <3>1, <4>1 DEF Once
    <3>3. \A k \in Due', a \in read :
            Stream'[k].answer.id # 0 => Stream'[k].answer.id # a.id
      <4> SUFFICES ASSUME NEW k \in Due', NEW a \in read,
                          Stream'[k].answer.id # 0, Stream'[k].answer.id = a.id
                   PROVE  FALSE
        OBVIOUS
      <4>1. PICK j \in 1 .. b : j \in Due /\ Stream[j].answer = a
        BY <1>24
      <4>2. k \in 1 .. l + m - b
        BY <1>22 DEF Due
      <4>3. j # b + k
        BY <1>2, <1>5, <1>7, <4>2
      <4>4. b + k \in Due /\ Stream'[k] = Stream[b + k]
        BY <1>23
      <4>5. Stream[j].answer.id = Stream[b + k].answer.id /\ Stream[j].answer.id # 0
        BY <4>1, <4>4
      <4>6. j = b + k
        BY <3>1, <4>1, <4>4, <4>5 DEF Once
      <4> QED
        BY <4>3, <4>6
    <3>4. Expected'
      <4>1. \A r \in Range(stdin') \cup typesetting' : \E job \in Range(queue') : job.id = r.id
        BY <1>1, <1>8, <3>1, <3>2 DEF Expected
      <4>2. \A k \in Due' : Stream'[k].answer.id # 0 =>
              \E job \in Range(queue') : job.id = Stream'[k].answer.id
        BY <1>8, <1>23, <3>1, <3>3 DEF Expected
      <4> QED
        BY <4>1, <4>2 DEF Expected
    <3>5. Once'
      <4>1. \A j, k \in Due' :
              Stream'[j].answer.id = Stream'[k].answer.id /\ Stream'[j].answer.id # 0 => j = k
        <5> SUFFICES ASSUME NEW j \in Due', NEW k \in Due',
                            Stream'[j].answer.id = Stream'[k].answer.id,
                            Stream'[j].answer.id # 0
                     PROVE  j = k
          OBVIOUS
        <5>1. b + j = b + k
          BY <1>23, <3>1 DEF Once
        <5>2. j \in 1 .. l + m - b /\ k \in 1 .. l + m - b
          BY <1>22 DEF Due
        <5> QED
          BY <1>2, <1>5, <1>7, <5>1, <5>2
      <4>2. \A r \in Range(stdin') \cup typesetting', k \in Due' : r.id # Stream'[k].answer.id
        BY <1>1, <1>23, <3>1 DEF Once
      <4>3. /\ \A j, k \in DOMAIN stdin' : stdin'[j].id = stdin'[k].id => j = k
            /\ \A r, s \in typesetting' : r.id = s.id => r = s
            /\ \A r \in Range(stdin'), s \in typesetting' : r.id # s.id
        BY <1>1, <3>1 DEF Once
      <4> QED
        BY <4>1, <4>2, <4>3 DEF Once
    <3> QED
      BY <3>4, <3>5
  <2> QED
    BY <1>1, <2>1, <2>4, <2>5 DEF Flights
<1> QED
  BY <1>1, <1>12, <1>13, <1>14, <1>15 DEF Inv, Stopped

LEMMA InvNext == Inv /\ [Next]_vars => Inv'
<1> SUFFICES ASSUME Inv, [Next]_vars PROVE Inv'
  OBVIOUS
<1>1. CASE UNCHANGED vars
  <2>1. /\ UNCHANGED <<queue, overlays, inputBuffer, proc, stdin, typesetting, stdout>>
        /\ UNCHANGED <<faults, cleared, late>>
    BY <1>1 DEF vars, emacs, node
  <2>2. UNCHANGED <<Stream, Due>>
    BY <2>1 DEF Stream, Due
  <2>3. TypeOK' /\ JobsOK' /\ Waited' /\ Stopped'
    BY <2>1 DEF Inv, TypeOK, JobsOK, Waited, Stopped
  <2>4. (Images <=> Images') /\ (Suits <=> Suits')
    BY <2>1, <2>2 DEF Images, Suits, Fits
  <2>5. (Expected <=> Expected') /\ (Once <=> Once')
    BY <2>1, <2>2 DEF Expected, Once
  <2> QED
    BY <2>1, <2>3, <2>4, <2>5 DEF Inv, Flights
<1>2. ASSUME NEW visible \in Views, InBuffer(visible) PROVE Inv'
  <2>1. visible \in SUBSET Equations
    BY DEF Views
  <2> QED
    BY <1>2, <2>1, SubmitKeeps, SubmitFailsKeeps, StartProcessKeeps, StartFailsKeeps,
       StopProcessKeeps, ClearRegionKeeps DEF InBuffer
<1>3. ASSUME Read PROVE Inv'
  BY <1>3, FilterKeeps DEF Read
<1>4. ASSUME Work PROVE Inv'
  BY <1>4, OnLineKeeps, TypesetKeeps DEF Work
<1>5. ASSUME Warn \/ Crash \/ Reap PROVE Inv'
  BY <1>5, WarnKeeps, CrashKeeps, ReapKeeps
<1> QED
  BY <1>1, <1>2, <1>3, <1>4, <1>5 DEF Next

(***************************************************************************)
(* The theorems.                                                           *)
(***************************************************************************)

LEMMA Invariant == Spec => []Inv
  BY InvInit, InvNext, PTL DEF Spec

\* Whatever the answers, and however they arrive, Emacs's queue, its overlays
\* and what is between the processes have their types, and nothing is left of
\* a process that is gone.
THEOREM TypeCorrect == Spec => []TypeOK
<1>1. Inv => TypeOK
  BY DEF Inv
<1> QED
  BY <1>1, Invariant, PTL

\* The number of a job tells it from every other that waits.
THEOREM NumbersDescend == Spec => []IdsDescend
<1>1. Inv => IdsDescend
  <2> SUFFICES ASSUME Inv PROVE IdsDescend
    OBVIOUS
  <2>1. \A i \in DOMAIN queue : queue[i].id > 0
    BY DEF Inv, JobsOK, Range
  <2> QED
    BY <2>1 DEF Inv, JobsOK, Ordered, IdsDescend
<1> QED
  BY <1>1, Invariant, PTL

\* No overlay shows another equation's image, wherever the output of a process is
\* cut off, unless a job was submitted while a dead process was still there or a
\* process was started while a whole answer of the one before was held.
THEOREM OwnImage == Spec => []RightImage
<1>1. Inv => RightImage
  BY DEF Inv, Flights, Images, RightImage
<1> QED
  BY <1>1, Invariant, PTL

\* Jobs are for overlays that wait, and of what was in view when the queue was
\* last emptied no overlay waits without a job.
THEOREM OverlaysTracked == Spec => []Tracked
<1>1. Inv => Tracked
  <2> SUFFICES ASSUME Inv PROVE Tracked
    OBVIOUS
  <2>1. \A i \in DOMAIN queue : overlays[queue[i].overlay].category = "processing"
    BY DEF Inv, JobsOK, Range
  <2>2. \A o : (\E job \in Range(queue) : job.overlay = o) => \E i \in DOMAIN queue : queue[i].overlay = o
    BY DEF Range
  <2> QED
    BY <2>1, <2>2 DEF Inv, Waited, Tracked
<1> QED
  BY <1>1, Invariant, PTL

(***************************************************************************)
(* staticmathjax: the types.                                               *)
(***************************************************************************)

LEMMA PageTypes ==
    ASSUME page \in Pages, args \in CommandLines
    PROVE  /\ page.scripts \in Seq(Script) /\ page.rules \in Seq(Rule)
           /\ page.message \in BOOLEAN /\ page.writable \in BOOLEAN
           /\ args.embed \in BOOLEAN
           /\ \A k \in DOMAIN page.rules : page.rules[k] \in Rule
<1>1. page \in Page /\ args \in CommandLine
  BY StaticMathJaxAssumption
<1>2. page.scripts \in Seq(Script) /\ page.rules \in Seq(Rule)
  BY <1>1 DEF Page
<1>3. \A k \in DOMAIN page.rules : page.rules[k] \in Rule
  BY <1>2
<1> QED
  BY <1>1, <1>2, <1>3 DEF Page, CommandLine

LEMMA TagRemoved ==
    ASSUME NEW s \in Seq(Script), NEW n \in 1 .. Len(s)
    PROVE  /\ RemoveAt(s, n) \in Seq(Script) /\ Len(RemoveAt(s, n)) = Len(s) - 1
           /\ \A k \in 1 .. Len(s) - 1 :
                RemoveAt(s, n)[k] = IF k < n THEN s[k] ELSE s[k + 1]
<1> DEFINE front == SubSeq(s, 1, n - 1)
           back == SubSeq(s, n + 1, Len(s))
<1>1. front \in Seq(Script) /\ Len(front) = n - 1 /\ \A k \in 1 .. n - 1 : front[k] = s[k]
  OBVIOUS
<1>2. /\ back \in Seq(Script) /\ Len(back) = Len(s) - n
      /\ \A k \in 1 .. Len(s) - n : back[k] = s[k + n]
  OBVIOUS
<1>3. RemoveAt(s, n) = front \o back
  BY DEF RemoveAt
<1> HIDE DEF front, back
<1>4. ASSUME NEW k \in 1 .. Len(s) - 1
      PROVE  (front \o back)[k] = IF k < n THEN s[k] ELSE s[k + 1]
  <2>1. CASE k < n
    BY <1>1, <1>2, <2>1
  <2>2. CASE k >= n
    <3>1. k \in 1 .. (n - 1) + (Len(s) - n) /\ ~(k <= n - 1) /\ k - (n - 1) \in 1 .. Len(s) - n
      BY <2>2
    <3>2. (front \o back)[k] = back[k - (n - 1)]
      BY <1>1, <1>2, <3>1, ConcatProperties
    <3>3. back[k - (n - 1)] = s[(k - (n - 1)) + n] /\ (k - (n - 1)) + n = k + 1
      BY <1>2, <3>1
    <3> QED
      BY <2>2, <3>2, <3>3
  <2>3. k < n \/ k >= n
    OBVIOUS
  <2> QED
    BY <2>1, <2>2, <2>3, Zenon
<1>5. front \o back \in Seq(Script) /\ Len(front \o back) = Len(s) - 1
  BY <1>1, <1>2
<1> QED
  BY <1>3, <1>4, <1>5, Zenon

\* What replace changes is among what it found, and comes first there.
LEMMA FirstFound ==
    ASSUME StaticTyped, NEW search, Occurrences(search) # {}
    PROVE  /\ Min(Occurrences(search)) \in Occurrences(search)
           /\ \A k \in Occurrences(search) : Min(Occurrences(search)) <= k
<1> DEFINE found == Occurrences(search)
<1>1. found \in SUBSET Nat
  <2>1. DOMAIN page.rules \subseteq Nat
    BY PageTypes DEF StaticTyped
  <2> QED
    BY <2>1 DEF StaticTyped, Occurrences
<1> HIDE DEF found
<1>2. \E n \in found : \A m \in found : n <= m
  BY <1>1, LeastNumber DEF found
<1> QED
  BY <1>2 DEF Min, found

LEMMA StaticTypedNext == ASSUME StaticTyped, StaticNext PROVE StaticTyped'
<1>0. /\ Len(page.rules) \in Nat /\ Len(page.scripts) \in Nat
      /\ DOMAIN page.rules = 1 .. Len(page.rules)
      /\ \A k \in DOMAIN page.rules : page.rules[k] \in Rule
      /\ Len(searchURIList) \in Nat /\ Len(scripts) \in Nat
  BY PageTypes DEF StaticTyped
<1>1. CASE InitWindow
  BY <1>1 DEF InitWindow, StaticTyped, work
<1>2. CASE IframeLoaded
  BY <1>2 DEF IframeLoaded, StaticTyped, work
<1>3. CASE Serialize
  BY <1>0, <1>3 DEF Serialize, StaticTyped
<1>4. CASE CollectRule
  <2>1. page.rules[turn] \in Rule
    BY <1>0, <1>4 DEF StaticTyped, CollectRule
  <2>2. searchURIList' \in Seq(Urls)
    BY <1>4, <2>1 DEF StaticTyped, CollectRule
  <2>3. at' \in {"rules", "stuck"} /\ turn' = turn + 1 /\ turn <= Len(page.rules)
    BY <1>4 DEF CollectRule
  <2> QED
    BY <1>0, <1>4, <2>2, <2>3 DEF StaticTyped, CollectRule
<1>5. CASE RulesDone
  BY <1>0, <1>5 DEF RulesDone, StaticTyped
<1>6. CASE ExamineScript
  <2>1. turn \in 1 .. Len(scripts)
    BY <1>6 DEF StaticTyped, ExamineScript
  <2>2. scripts' \in Seq(Script) /\ Len(scripts') <= Len(scripts)
    BY <1>0, <1>6, <2>1, TagRemoved DEF StaticTyped, ExamineScript
  <2> QED
    BY <1>0, <1>6, <2>1, <2>2 DEF StaticTyped, ExamineScript
<1>7. CASE ScriptsDone
  <2>1. /\ DOMAIN Serialized \subseteq DOMAIN page.rules
        /\ \A k \in DOMAIN Serialized :
             Serialized[k] \in [url : Urls, by : Urls \cup {NotYet}]
    BY DEF Serialized
  <2> QED
    BY <1>0, <1>7, <2>1 DEF ScriptsDone, StaticTyped
<1>8. CASE Replace
  <2> DEFINE search == searchURIList[turn]
  <2>1. search \in Urls
    BY <1>0, <1>8 DEF StaticTyped, Replace
  <2>2. /\ DOMAIN xhtml' = DOMAIN xhtml
        /\ \A k \in DOMAIN xhtml : xhtml'[k] \in [url : Urls, by : Urls \cup {NotYet}]
    <3>1. CASE xhtml' = xhtml
      BY <3>1 DEF StaticTyped
    <3>2. CASE xhtml' = [xhtml EXCEPT ![Min(Occurrences(search))].by = search]
      <4> DEFINE first == Min(Occurrences(search))
      <4> HIDE DEF first
      <4>1. \A k \in DOMAIN xhtml :
              xhtml'[k] = IF k = first THEN [xhtml[k] EXCEPT !.by = search] ELSE xhtml[k]
        BY <3>2 DEF first
      <4>2. DOMAIN xhtml' = DOMAIN xhtml
        BY <3>2 DEF first
      <4> QED
        BY <2>1, <4>1, <4>2 DEF StaticTyped
    <3> QED
      BY <1>8, <3>1, <3>2 DEF Replace
  <2> QED
    BY <1>0, <1>8, <2>2 DEF StaticTyped, Replace
<1>9. CASE Save
  BY <1>0, <1>9, PageTypes DEF Save, StaticTyped
<1>10. CASE Dismiss
  BY <1>10 DEF Dismiss, StaticTyped, work
<1> QED
  BY <1>1, <1>2, <1>3, <1>4, <1>5, <1>6, <1>7, <1>8, <1>9, <1>10, Zenon DEF StaticNext

LEMMA StaticTypedInit == StaticInit => StaticTyped
<1> SUFFICES ASSUME StaticInit PROVE StaticTyped
  OBVIOUS
<1>1. page.scripts \in Seq(Script) /\ Len(page.scripts) \in Nat
  BY PageTypes DEF StaticInit
<1>2. xhtml = << >> => DOMAIN xhtml = {}
  OBVIOUS
<1>3. DOMAIN xhtml = {} /\ searchURIList \in Seq(Urls)
  BY <1>2 DEF StaticInit
<1>4. saved \in BOOLEAN
  BY Zenon DEF StaticInit
<1>5. scripts = page.scripts /\ at = "init" /\ turn = 1
  BY DEF StaticInit
<1>6. page \in Pages /\ args \in CommandLines
  BY DEF StaticInit
<1> QED
  BY <1>1, <1>3, <1>4, <1>5, <1>6 DEF StaticTyped

\* Every loop of staticmathjax goes through lists of the type it expects and
\* stays within them, the list of script tags only getting shorter.
THEOREM StaticTypeCorrect == StaticSpec => []StaticTyped
<1>1. StaticTyped /\ [StaticNext]_staticVars => StaticTyped'
  <2>1. ASSUME StaticTyped, UNCHANGED staticVars PROVE StaticTyped'
    BY <2>1 DEF StaticTyped, staticVars, work
  <2> QED
    BY <2>1, StaticTypedNext
<1> QED
  BY <1>1, StaticTypedInit, PTL DEF StaticSpec

(***************************************************************************)
(* staticmathjax: the script tags.                                         *)
(***************************************************************************)

\* From the n-th on, the tags that are left are as they were, moved by those that
\* are gone.
Ahead(left, tags, n, where) ==
    \A k \in DOMAIN left : n <= k => where[k] = k + (Len(tags) - Len(left))

\* Before the n-th, no tag of MathJax is left if none were neighbours.
CleanBefore(left, tags, n) ==
    ~Neighbours(tags) => \A k \in DOMAIN left : k < n => left[k] = "other"

TagsLeft(left, tags, stage, n, done) ==
    /\ \E where \in [DOMAIN left -> DOMAIN tags] :
         /\ LeftOut(left, tags, where)
         /\ stage = "scripts" => Ahead(left, tags, n, where)
    /\ stage \in {"init", "loading", "waiting", "rules"} => left = tags
    /\ stage = "scripts" => CleanBefore(left, tags, n)
    /\ stage = "replacing" \/ done => CleanBefore(left, tags, Len(left) + 1)
    /\ done => stage = "closed"

ScriptsLeft == TagsLeft(scripts, page.scripts, at, turn, saved)

LEMMA NoneLeftOut ==
    ASSUME StaticTyped, scripts = page.scripts
    PROVE  LET where == [k \in DOMAIN scripts |-> k]
           IN  /\ where \in [DOMAIN scripts -> DOMAIN page.scripts]
               /\ LeftOut(scripts, page.scripts, where) /\ Ahead(scripts, page.scripts, turn, where)
<1>1. DOMAIN scripts = 1 .. Len(scripts) /\ Len(scripts) \in Nat
  BY DEF StaticTyped
<1> QED
  BY <1>1 DEF LeftOut, Ahead

\* One turn of the loop: the tag is looked at, and goes or stays.
LEMMA ScriptsTurn == ASSUME StaticTyped, ScriptsLeft, ExamineScript PROVE ScriptsLeft'
<1> DEFINE n == Len(scripts)
           all == Len(page.scripts)
<1>1. /\ n = Len(scripts) /\ all = Len(page.scripts)
      /\ n \in Nat /\ all \in Nat /\ n <= all /\ turn \in 1 .. n
      /\ DOMAIN scripts = 1 .. n /\ DOMAIN page.scripts = 1 .. all
      /\ page.scripts \in Seq(Script) /\ scripts \in Seq(Script)
  BY PageTypes DEF StaticTyped, ExamineScript
<1> HIDE DEF n, all
<1>2. /\ at = "scripts" /\ at' = "scripts" /\ turn' = turn + 1 /\ page' = page
      /\ saved' = saved
  BY DEF ExamineScript
<1>3. ~saved
  BY <1>2 DEF ScriptsLeft, TagsLeft
<1>4. PICK where \in [1 .. n -> 1 .. all] :
        LeftOut(scripts, page.scripts, where) /\ Ahead(scripts, page.scripts, turn, where)
  BY <1>1, <1>2 DEF ScriptsLeft, TagsLeft
<1>5. /\ \A j, k \in 1 .. n : j < k => where[j] < where[k]
      /\ \A k \in 1 .. n : scripts[k] = page.scripts[where[k]]
      /\ \A m \in 1 .. all : page.scripts[m] = "other" => \E k \in 1 .. n : where[k] = m
      /\ \A k \in 1 .. n : turn <= k => where[k] = k + (all - n)
  BY <1>1, <1>4 DEF LeftOut, Ahead
<1>6. CASE scripts[turn] # "MathJax.js"
  <2>1. scripts' = scripts
    BY <1>6 DEF ExamineScript
  <2>2. scripts[turn] = "other"
    BY <1>1, <1>6 DEF Script
  <2>3. CleanBefore(scripts', page.scripts, turn + 1)
    <3>1. CleanBefore(scripts, page.scripts, turn)
      BY <1>2 DEF ScriptsLeft, TagsLeft
    <3> QED
      BY <1>1, <1>2, <2>1, <2>2, <3>1 DEF CleanBefore
  <2>4. Ahead(scripts', page.scripts, turn + 1, where)
    BY <1>1, <1>5, <2>1 DEF Ahead
  <2> QED
    BY <1>1, <1>2, <1>3, <1>4, <2>1, <2>3, <2>4 DEF ScriptsLeft, TagsLeft, CleanBefore
<1>7. CASE scripts[turn] = "MathJax.js"
  <2> DEFINE left == [k \in 1 .. n - 1 |-> IF k < turn THEN where[k] ELSE where[k + 1]]
  <2>1. scripts' = RemoveAt(scripts, turn)
    BY <1>7 DEF ExamineScript
  <2>2. /\ Len(scripts') = n - 1 /\ DOMAIN scripts' = 1 .. n - 1
        /\ \A k \in 1 .. n - 1 : scripts'[k] = IF k < turn THEN scripts[k] ELSE scripts[k + 1]
    <3>1. 1 .. Len(scripts) - 1 = 1 .. n - 1 /\ turn \in 1 .. Len(scripts)
      BY <1>1
    <3>2. scripts' \in Seq(Script) /\ Len(scripts') = n - 1
      BY <1>1, <2>1, <3>1, TagRemoved
    <3>3. DOMAIN scripts' = 1 .. n - 1
      BY <3>2
    <3> QED
      BY <1>1, <2>1, <3>1, <3>2, <3>3, TagRemoved
  <2>3. left \in [1 .. n - 1 -> 1 .. all]
    BY <1>1, <1>4
  <2>4. \A k \in 1 .. n - 1 : left[k] = IF k < turn THEN where[k] ELSE where[k + 1]
    OBVIOUS
  <2> HIDE DEF left
  <2>5. \A j, k \in 1 .. n - 1 : j < k => left[j] < left[k]
    <3> SUFFICES ASSUME NEW j \in 1 .. n - 1, NEW k \in 1 .. n - 1, j < k
                 PROVE  left[j] < left[k]
      OBVIOUS
    <3>1. /\ j \in 1 .. n /\ k \in 1 .. n /\ j + 1 \in 1 .. n /\ k + 1 \in 1 .. n
          /\ j + 1 < k + 1 /\ j < k + 1 /\ (k < turn => j < turn)
      BY <1>1
    <3> QED
      BY <1>5, <2>4, <3>1
  <2>6. \A k \in 1 .. n - 1 : scripts'[k] = page.scripts[left[k]]
    BY <1>1, <1>5, <2>2, <2>4
  <2>7. ASSUME NEW m \in 1 .. all, page.scripts[m] = "other"
        PROVE  \E k \in 1 .. n - 1 : left[k] = m
    <3>1. PICK k \in 1 .. n : where[k] = m
      BY <1>5, <2>7
    <3>2. k # turn
      BY <1>5, <1>7, <2>7, <3>1
    <3>3. CASE k < turn
      <4>1. k \in 1 .. n - 1
        BY <1>1, <3>3
      <4>2. left[k] = m
        BY <2>4, <3>1, <3>3, <4>1
      <4> QED
        BY <4>1, <4>2
    <3>4. CASE k > turn
      <4>1. k - 1 \in 1 .. n - 1 /\ ~(k - 1 < turn) /\ (k - 1) + 1 = k
        BY <1>1, <3>4
      <4> QED
        BY <2>4, <3>1, <4>1
    <3> QED
      BY <1>1, <3>2, <3>3, <3>4
  <2>8. LeftOut(scripts', page.scripts, left)
    BY <1>1, <2>2, <2>5, <2>6, <2>7 DEF LeftOut
  <2>9. \A k \in 1 .. n - 1 : turn + 1 <= k => left[k] = k + (all - (n - 1))
    <3> SUFFICES ASSUME NEW k \in 1 .. n - 1, turn + 1 <= k
                 PROVE  left[k] = k + (all - (n - 1))
      OBVIOUS
    <3>1. k + 1 \in 1 .. n /\ turn <= k + 1 /\ ~(k < turn)
      BY <1>1
    <3>2. left[k] = (k + 1) + (all - n)
      BY <1>5, <2>4, <3>1
    <3>3. n \in Int /\ all \in Int /\ k \in Int
      BY <1>1
    <3>4. (k + 1) + (all - n) = k + (all - (n - 1))
      BY <3>3
    <3> QED
      BY <3>2, <3>4
  <2>10. CleanBefore(scripts', page.scripts, turn + 1)
    <3>1. SUFFICES ASSUME ~Neighbours(page.scripts), NEW k \in 1 .. n - 1, k < turn + 1
                   PROVE  scripts'[k] = "other"
      BY <1>2, <2>2 DEF CleanBefore
    <3>2. CASE k < turn
      <4>1. CleanBefore(scripts, page.scripts, turn)
        BY <1>2 DEF ScriptsLeft, TagsLeft
      <4> QED
        BY <1>1, <2>2, <3>1, <3>2, <4>1 DEF CleanBefore
    <3>3. CASE k = turn
      <4>1. scripts'[k] = scripts[turn + 1] /\ turn + 1 \in 1 .. n
        BY <1>1, <2>2, <3>3
      <4> DEFINE m == turn + (all - n)
      <4>2. m \in 1 .. all - 1 /\ where[turn] = m /\ where[turn + 1] = m + 1
        BY <1>1, <1>5, <4>1
      <4>3. page.scripts[m] = "MathJax.js" /\ page.scripts[m + 1] = scripts[turn + 1]
        BY <1>1, <1>5, <1>7, <4>1, <4>2
      <4> HIDE DEF m
      <4>4. page.scripts[m + 1] # "MathJax.js"
        BY <1>1, <3>1, <4>2, <4>3 DEF Neighbours
      <4>5. scripts[turn + 1] \in Script
        BY <1>1, <4>1
      <4> QED
        BY <4>1, <4>3, <4>4, <4>5 DEF Script
    <3> QED
      BY <1>1, <3>1, <3>2, <3>3
  <2>11. Ahead(scripts', page.scripts, turn + 1, left)
    BY <1>1, <2>2, <2>9 DEF Ahead
  <2> QED
    BY <1>1, <1>2, <1>3, <2>2, <2>3, <2>8, <2>10, <2>11 DEF ScriptsLeft, TagsLeft, CleanBefore
<1> QED
  BY <1>6, <1>7

LEMMA ScriptsLeftNext ==
    ASSUME StaticTyped, ScriptsLeft, [StaticNext]_staticVars
    PROVE  ScriptsLeft'
<1>0. /\ Len(scripts) \in Nat /\ DOMAIN scripts = 1 .. Len(scripts)
      /\ DOMAIN page.scripts = 1 .. Len(page.scripts)
  BY PageTypes DEF StaticTyped
<1> DEFINE Same == page' = page /\ scripts' = scripts
<1>1. ASSUME Same, at' # "scripts", at' # "replacing", ~saved',
             at' \in {"loading", "waiting", "rules"} => at \in {"init", "loading", "waiting", "rules"},
             at' # "init"
      PROVE  ScriptsLeft'
  BY <1>1 DEF ScriptsLeft, TagsLeft, CleanBefore
<1>2. CASE InitWindow
  <2>1. ~saved
    BY <1>2 DEF InitWindow, ScriptsLeft, TagsLeft
  <2>2. at = "init" /\ at' \in {"loading", "alert"}
    BY <1>2 DEF InitWindow
  <2>3. page' = page /\ scripts' = scripts /\ ~saved'
    BY <1>2, <2>1 DEF InitWindow, work
  <2> QED
    BY <1>1, <2>1, <2>2, <2>3
<1>3. CASE IframeLoaded
  <2>1. ~saved
    BY <1>3 DEF IframeLoaded, ScriptsLeft, TagsLeft
  <2>2. at = "loading" /\ at' \in {"waiting", "stuck"}
    BY <1>3 DEF IframeLoaded
  <2>3. page' = page /\ scripts' = scripts /\ ~saved'
    BY <1>3, <2>1 DEF IframeLoaded, work
  <2> QED
    BY <1>1, <2>1, <2>2, <2>3
<1>4. CASE Serialize
  <2>1. ~saved
    BY <1>4 DEF Serialize, ScriptsLeft, TagsLeft
  <2>2. at = "waiting" /\ at' \in {"rules", "stuck"}
    BY <1>4 DEF Serialize
  <2>3. page' = page /\ scripts' = scripts /\ ~saved'
    BY <1>4, <2>1 DEF Serialize
  <2> QED
    BY <1>1, <2>1, <2>2, <2>3
<1>5. CASE CollectRule
  <2>1. ~saved /\ at' \in {"rules", "stuck"}
    BY <1>5 DEF CollectRule, ScriptsLeft, TagsLeft
  <2>2. at = "rules" /\ at' \in {"rules", "stuck"}
    BY <1>5 DEF CollectRule
  <2>3. page' = page /\ scripts' = scripts /\ ~saved'
    BY <1>5, <2>1 DEF CollectRule
  <2> QED
    BY <1>1, <2>1, <2>2, <2>3
<1>6. CASE RulesDone
  <2>1. /\ ~saved /\ ~saved' /\ at' = "scripts" /\ turn' = 1
        /\ page' = page /\ scripts' = scripts /\ scripts = page.scripts
    BY <1>6 DEF RulesDone, ScriptsLeft, TagsLeft
  <2> DEFINE where == [k \in DOMAIN scripts |-> k]
  <2>2. /\ where \in [DOMAIN scripts -> DOMAIN page.scripts]
        /\ LeftOut(scripts, page.scripts, where)
        /\ \A k \in DOMAIN scripts : where[k] = k + (Len(page.scripts) - Len(scripts))
    <3>1. \A k \in DOMAIN scripts : where[k] = k + (Len(page.scripts) - Len(scripts))
      BY <1>0, <2>1
    <3> QED
      BY <2>1, <3>1, NoneLeftOut
  <2> HIDE DEF where
  <2>3. Ahead(scripts, page.scripts, 1, where) /\ CleanBefore(scripts, page.scripts, 1)
    BY <1>0, <2>1, <2>2 DEF Ahead, CleanBefore
  <2> QED
    BY <2>1, <2>2, <2>3 DEF ScriptsLeft, TagsLeft
<1>7. CASE ExamineScript
  BY <1>7, ScriptsTurn
<1>8. CASE ScriptsDone
  <2>1. /\ ~saved /\ ~saved' /\ at' = "replacing" /\ at = "scripts"
        /\ page' = page /\ scripts' = scripts
    BY <1>8 DEF ScriptsDone, ScriptsLeft, TagsLeft
  <2>2. CleanBefore(scripts, page.scripts, Len(scripts) + 1)
    <3>1. CleanBefore(scripts, page.scripts, turn) /\ turn > Len(scripts) /\ turn \in Nat
      BY <1>8, <2>1 DEF ScriptsLeft, TagsLeft, ScriptsDone, StaticTyped
    <3> QED
      BY <1>0, <2>1, <3>1 DEF CleanBefore
  <2> QED
    BY <2>1, <2>2 DEF ScriptsLeft, TagsLeft
<1>9. CASE Replace
  <2>1. /\ ~saved /\ ~saved' /\ at' = "replacing" /\ at = "replacing"
        /\ page' = page /\ scripts' = scripts
    BY <1>9 DEF Replace, ScriptsLeft, TagsLeft
  <2> QED
    BY <2>1 DEF ScriptsLeft, TagsLeft, CleanBefore
<1>10. CASE Save
  <2>1. /\ at = "replacing" /\ at' \in {"closed", "alert"}
        /\ page' = page /\ scripts' = scripts /\ (saved' => at' = "closed")
    BY <1>10 DEF Save
  <2>2. CleanBefore(scripts, page.scripts, Len(scripts) + 1)
    BY <2>1 DEF ScriptsLeft, TagsLeft, CleanBefore
  <2> QED
    BY <2>1, <2>2 DEF ScriptsLeft, TagsLeft
<1>11. CASE Dismiss
  <2>1. ~saved
    BY <1>11 DEF Dismiss, ScriptsLeft, TagsLeft
  <2>2. page' = page /\ scripts' = scripts /\ ~saved' /\ at' = "closed"
    BY <1>11, <2>1 DEF Dismiss, work
  <2> QED
    BY <1>1, <2>2
<1>12. CASE UNCHANGED staticVars
  BY <1>12 DEF staticVars, work, ScriptsLeft, TagsLeft, CleanBefore, Ahead
<1> QED
  BY <1>2, <1>3, <1>4, <1>5, <1>6, <1>7, <1>8, <1>9, <1>10, <1>11, <1>12, Zenon DEF StaticNext

LEMMA ScriptsLeftAlways == StaticSpec => []ScriptsLeft
<1>1. StaticInit => ScriptsLeft
  <2> SUFFICES ASSUME StaticInit PROVE ScriptsLeft
    OBVIOUS
  <2>1. scripts = page.scripts /\ at = "init" /\ ~saved
    BY DEF StaticInit
  <2> QED
    BY <2>1, NoneLeftOut, StaticTypedInit DEF ScriptsLeft, TagsLeft
<1>2. StaticTyped /\ ScriptsLeft /\ [StaticNext]_staticVars => ScriptsLeft'
  BY ScriptsLeftNext
<1> QED
  BY <1>1, <1>2, StaticTypeCorrect, PTL DEF StaticSpec

\* Although the list of tags shrinks while it is gone through, so that the tag
\* after a removed one is never looked at, the saved page has all of the others in
\* their order, and no tag of MathJax unless two of them were neighbours.
THEOREM OthersKept == StaticSpec => []ScriptsGone
<1>1. StaticTyped /\ ScriptsLeft => ScriptsGone
  <2> SUFFICES ASSUME StaticTyped, ScriptsLeft, saved PROVE ScriptsGone
    BY DEF ScriptsGone
  <2>1. Len(scripts) \in Nat /\ DOMAIN scripts = 1 .. Len(scripts)
    BY DEF StaticTyped
  <2>2. CleanBefore(scripts, page.scripts, Len(scripts) + 1)
    BY DEF ScriptsLeft, TagsLeft
  <2>3. ~Neighbours(page.scripts) => \A k \in DOMAIN scripts : scripts[k] = "other"
    BY <2>1, <2>2 DEF CleanBefore
  <2> QED
    BY <2>3 DEF ScriptsLeft, TagsLeft, ScriptsGone
<1> QED
  BY <1>1, ScriptsLeftAlways, StaticTypeCorrect, PTL

(***************************************************************************)
(* staticmathjax: the fonts.                                               *)
(***************************************************************************)

\* from[j] is the rule that the j-th url was pushed for, of the first n rules.
Pushed(list, rules, n, from) ==
    /\ from \in [DOMAIN list -> 1 .. n]
    /\ \A j, k \in DOMAIN list : j < k => from[j] < from[k]
    /\ \A j \in DOMAIN list : list[j] = rules[from[j]].url
    /\ \A k \in 1 .. n : rules[k].url \in Urls => \E j \in DOMAIN list : from[j] = k

\* What the text is when n of the searches have been made.
Searched(text, list, n, from) ==
    \A j \in DOMAIN list :
      /\ from[j] \in DOMAIN text
      /\ text[from[j]].by = IF j < n /\ Changes(list[j]) THEN list[j] ELSE NotYet

AllInline == \A k \in DOMAIN page.rules : page.rules[k].inline

FontsLeft ==
    /\ at \in {"init", "loading", "waiting"} => searchURIList = << >>
    /\ at = "rules" => \E from : Pushed(searchURIList, page.rules, turn - 1, from)
    /\ at \in {"scripts", "replacing"} =>
         \E from :
           /\ Pushed(searchURIList, page.rules, Len(page.rules), from)
           /\ at = "replacing" /\ AllInline => Searched(xhtml, searchURIList, turn, from)
    /\ at = "replacing" \/ saved =>
         \A k \in DOMAIN xhtml : k \in DOMAIN page.rules /\ xhtml[k].url = page.rules[k].url
    /\ saved => FontsReplaced

LEMMA RulesTurn ==
    ASSUME StaticTyped, CollectRule, NEW from,
           Pushed(searchURIList, page.rules, turn - 1, from)
    PROVE  \E after : Pushed(searchURIList', page.rules, turn, after)
<1> DEFINE len == Len(searchURIList)
           rule == page.rules[turn]
<1>1. /\ len \in Nat /\ DOMAIN searchURIList = 1 .. len /\ searchURIList \in Seq(Urls)
      /\ turn \in Nat /\ 1 <= turn
  BY DEF StaticTyped
<1>2. CASE rule.url \in Urls
  <2> DEFINE after == [j \in 1 .. len + 1 |-> IF j = len + 1 THEN turn ELSE from[j]]
  <2>1. searchURIList' = Append(searchURIList, rule.url)
    BY <1>2 DEF CollectRule
  <2>2. /\ DOMAIN searchURIList' = 1 .. len + 1 /\ searchURIList'[len + 1] = rule.url
        /\ \A j \in 1 .. len : searchURIList'[j] = searchURIList[j]
    BY <1>1, <1>2, <2>1
  <2>3. \A j \in 1 .. len + 1 : j = len + 1 \/ j \in 1 .. len
    BY <1>1
  <2>4. from \in [1 .. len -> 1 .. turn - 1]
    BY <1>1 DEF Pushed
  <2>5. after \in [1 .. len + 1 -> 1 .. turn]
    BY <1>1, <2>3, <2>4
  <2>6. after[len + 1] = turn /\ \A j \in 1 .. len : after[j] = from[j]
    BY <1>1
  <2> HIDE DEF after
  <2>7. \A j, k \in 1 .. len + 1 : j < k => after[j] < after[k]
    <3> SUFFICES ASSUME NEW j \in 1 .. len + 1, NEW k \in 1 .. len + 1, j < k
                 PROVE  after[j] < after[k]
      OBVIOUS
    <3>1. j \in 1 .. len /\ from[j] \in 1 .. turn - 1
      BY <1>1, <2>3, <2>4
    <3>2. CASE k = len + 1
      BY <1>1, <2>6, <3>1, <3>2
    <3>3. CASE k \in 1 .. len
      BY <1>1, <2>6, <3>1, <3>3 DEF Pushed
    <3> QED
      BY <2>3, <3>2, <3>3
  <2>8. \A j \in 1 .. len + 1 : searchURIList'[j] = page.rules[after[j]].url
    BY <1>1, <2>2, <2>3, <2>6 DEF Pushed
  <2>9. ASSUME NEW k \in 1 .. turn, page.rules[k].url \in Urls
        PROVE  \E j \in 1 .. len + 1 : after[j] = k
    <3>1. CASE k = turn
      BY <1>1, <2>6, <3>1
    <3>2. CASE k # turn
      <4>1. k \in 1 .. turn - 1
        BY <1>1, <3>2
      <4>2. PICK j \in 1 .. len : from[j] = k
        BY <1>1, <2>9, <4>1 DEF Pushed
      <4> QED
        BY <1>1, <2>6, <4>2
    <3> QED
      BY <3>1, <3>2
  <2> DEFINE list == searchURIList'
  <2>10. DOMAIN list = 1 .. len + 1
    BY <2>2
  <2> HIDE DEF len
  <2>11. Pushed(list, page.rules, turn, after)
    BY <2>5, <2>7, <2>8, <2>9, <2>10 DEF Pushed
  <2> QED
    BY <2>11
<1>3. CASE rule.url \notin Urls
  <2>1. searchURIList' = searchURIList
    BY <1>3 DEF CollectRule
  <2>2. from \in [1 .. len -> 1 .. turn]
    BY <1>1 DEF Pushed
  <2>3. \A k \in 1 .. turn : k = turn \/ k \in 1 .. turn - 1
    BY <1>1
  <2>4. Pushed(searchURIList, page.rules, turn, from)
    BY <1>1, <1>3, <2>2, <2>3 DEF Pushed
  <2> QED
    BY <2>1, <2>4
<1> QED
  BY <1>2, <1>3

\* The first url found that is to be replaced is the one that the search is for.
LEMMA SearchFindsOwn ==
    ASSUME StaticTyped, at = "replacing", turn <= Len(searchURIList), NEW from,
           Pushed(searchURIList, page.rules, Len(page.rules), from),
           Searched(xhtml, searchURIList, turn, from),
           \A k \in DOMAIN xhtml : k \in DOMAIN page.rules /\ xhtml[k].url = page.rules[k].url,
           Changes(searchURIList[turn])
    PROVE  /\ Occurrences(searchURIList[turn]) # {}
           /\ Min(Occurrences(searchURIList[turn])) = from[turn]
<1> DEFINE search == searchURIList[turn]
           found  == Occurrences(search)
<1>1. /\ turn \in DOMAIN searchURIList /\ search \in Urls
      /\ DOMAIN page.rules = 1 .. Len(page.rules) /\ Len(page.rules) \in Nat
      /\ DOMAIN searchURIList \subseteq Nat
      /\ \A j \in DOMAIN searchURIList : searchURIList[j] \in Urls
  BY PageTypes DEF StaticTyped
<1>2. from[turn] \in found
  <2>1. from[turn] \in DOMAIN xhtml /\ xhtml[from[turn]].by = NotYet
    BY <1>1 DEF Searched
  <2>2. xhtml[from[turn]].url = search
    BY <1>1, <2>1 DEF Pushed
  <2>3. <<search, search>> \in Within
    BY <1>1, StaticMathJaxAssumption
  <2> QED
    BY <2>1, <2>2, <2>3 DEF Occurrences
<1>3. ASSUME NEW k \in found PROVE from[turn] <= k
  <2>1. /\ k \in DOMAIN xhtml /\ xhtml[k].by = NotYet /\ <<search, xhtml[k].url>> \in Within
        /\ k \in 1 .. Len(page.rules) /\ xhtml[k].url = page.rules[k].url
        /\ xhtml[k].url \in Urls
    BY <1>1 DEF Occurrences, StaticTyped
  <2>2. PICK j \in DOMAIN searchURIList : from[j] = k
    BY <2>1 DEF Pushed
  <2>3. searchURIList[j] = xhtml[k].url
    BY <2>1, <2>2 DEF Pushed
  <2>4. Changes(searchURIList[j])
    <3>1. search \in UnderRoot <=> searchURIList[j] \in UnderRoot
      BY <1>1, <2>1, <2>3, StaticMathJaxAssumption
    <3> QED
      BY <3>1 DEF Changes
  <2>5. ~(j < turn)
    <3> SUFFICES ASSUME j < turn PROVE FALSE
      OBVIOUS
    <3>1. xhtml[k].by = searchURIList[j]
      BY <2>2, <2>4 DEF Searched
    <3> QED
      BY <1>1, <2>1, <3>1, StaticMathJaxAssumption
  <2>6. CASE j = turn
    BY <2>1, <2>2, <2>6
  <2>7. CASE turn < j
    <3>1. from[turn] < from[j] /\ from[turn] \in 1 .. Len(page.rules)
      BY <1>1, <2>7 DEF Pushed
    <3> QED
      BY <1>1, <2>1, <2>2, <3>1
  <2> QED
    BY <1>1, <2>5, <2>6, <2>7
<1>4. Min(found) \in found /\ \A k \in found : Min(found) <= k
  BY <1>2, FirstFound
<1>5. Min(found) \in Nat /\ from[turn] \in Nat
  <2>1. found \subseteq Nat
    BY <1>1 DEF Occurrences, StaticTyped
  <2> QED
    BY <1>2, <1>4, <2>1
<1> HIDE DEF found
<1> QED
  BY <1>2, <1>3, <1>4, <1>5 DEF found

LEMMA ReplaceTurn ==
    ASSUME StaticTyped, ScriptsLeft, FontsLeft, Replace
    PROVE  FontsLeft'
<1> DEFINE search == searchURIList[turn]
           found  == Occurrences(search)
           first  == Min(found)
<1>1. /\ at = "replacing" /\ at' = "replacing" /\ turn <= Len(searchURIList)
      /\ turn' = turn + 1 /\ page' = page /\ args' = args
      /\ searchURIList' = searchURIList
      /\ xhtml' = IF found = {} \/ ~Changes(search) THEN xhtml
                  ELSE [xhtml EXCEPT ![first].by = search]
  BY DEF Replace
<1>2. /\ turn \in DOMAIN searchURIList /\ search \in Urls
      /\ DOMAIN searchURIList \subseteq Nat
  BY <1>1 DEF StaticTyped
<1>3. \A k \in DOMAIN xhtml : k \in DOMAIN page.rules /\ xhtml[k].url = page.rules[k].url
  BY <1>1 DEF FontsLeft
<1>4. ~saved /\ ~saved'
  <2>1. ~saved
    BY <1>1 DEF ScriptsLeft, TagsLeft
  <2> QED
    BY <2>1 DEF Replace
<1>5. PICK from :
        /\ Pushed(searchURIList, page.rules, Len(page.rules), from)
        /\ AllInline => Searched(xhtml, searchURIList, turn, from)
  BY <1>1 DEF FontsLeft
<1> HIDE DEF found, first
<1>6. /\ DOMAIN xhtml' = DOMAIN xhtml
      /\ \A k \in DOMAIN xhtml : xhtml'[k].url = xhtml[k].url
      /\ \A k \in DOMAIN xhtml : k # first => xhtml'[k] = xhtml[k]
  <2>1. CASE xhtml' = xhtml
    BY <2>1
  <2>2. CASE xhtml' = [xhtml EXCEPT ![first].by = search]
    <3>1. \A k \in DOMAIN xhtml :
            xhtml'[k] = IF k = first THEN [xhtml[k] EXCEPT !.by = search] ELSE xhtml[k]
      BY <2>2
    <3>2. \A k \in DOMAIN xhtml : xhtml[k] \in [url : Urls, by : Urls \cup {NotYet}]
      BY DEF StaticTyped
    <3> QED
      BY <2>2, <3>1, <3>2
  <2> QED
    BY <1>1, <2>1, <2>2
<1>7. ASSUME AllInline PROVE Searched(xhtml', searchURIList, turn + 1, from)
  <2>1. Searched(xhtml, searchURIList, turn, from)
    BY <1>5, <1>7
  <2>2. SUFFICES ASSUME NEW j \in DOMAIN searchURIList
                 PROVE  xhtml'[from[j]].by =
                          IF j < turn + 1 /\ Changes(searchURIList[j])
                          THEN searchURIList[j] ELSE NotYet
    BY <1>6, <2>1 DEF Searched
  <2>3. /\ from[j] \in DOMAIN xhtml /\ j \in Nat /\ turn \in Nat
        /\ xhtml[from[j]].by = IF j < turn /\ Changes(searchURIList[j])
                               THEN searchURIList[j] ELSE NotYet
    BY <1>2, <2>1 DEF Searched
  <2>4. CASE ~Changes(search)
    <3>1. xhtml' = xhtml
      BY <1>1, <2>4
    <3>2. j = turn => ~Changes(searchURIList[j])
      BY <2>4
    <3> QED
      BY <2>3, <3>1, <3>2
  <2>5. CASE Changes(search)
    <3>1. found # {} /\ first = from[turn]
      BY <1>1, <1>3, <1>5, <2>1, <2>5, SearchFindsOwn DEF found, first
    <3>2. xhtml' = [xhtml EXCEPT ![first].by = search]
      BY <1>1, <2>5, <3>1
    <3>3. CASE j = turn
      <4>1. xhtml[first] \in [url : Urls, by : Urls \cup {NotYet}] /\ first \in DOMAIN xhtml
        BY <2>3, <3>1, <3>3 DEF StaticTyped
      <4>2. xhtml'[first].by = search
        BY <3>2, <4>1
      <4>3. j < turn + 1 /\ searchURIList[j] = search /\ from[j] = first
        BY <2>3, <3>1, <3>3
      <4> QED
        BY <2>5, <4>2, <4>3
    <3>4. CASE j # turn
      <4>1. from[j] # first
        <5>1. /\ from[j] \in 1 .. Len(page.rules) /\ from[turn] \in 1 .. Len(page.rules)
              /\ (j < turn => from[j] < from[turn]) /\ (turn < j => from[turn] < from[j])
          BY <1>2, <1>5 DEF Pushed
        <5>2. Len(page.rules) \in Nat
          BY PageTypes DEF StaticTyped
        <5> QED
          BY <2>3, <3>1, <3>4, <5>1, <5>2
      <4>2. xhtml'[from[j]] = xhtml[from[j]]
        BY <1>6, <2>3, <4>1
      <4> QED
        BY <2>3, <3>4, <4>2
    <3> QED
      BY <3>3, <3>4
  <2> QED
    BY <2>4, <2>5
<1>8. AllInline' => AllInline
  BY <1>1 DEF AllInline
<1>9. AllInline => Searched(xhtml, searchURIList, turn, from)'
  BY <1>1, <1>7 DEF Searched, Changes
<1> QED
  BY <1>1, <1>3, <1>4, <1>5, <1>6, <1>8, <1>9 DEF FontsLeft

LEMMA FontsLeftNext ==
    ASSUME StaticTyped, ScriptsLeft, FontsLeft, [StaticNext]_staticVars
    PROVE  FontsLeft'
<1> DEFINE Same == UNCHANGED <<page, args, searchURIList, xhtml>>
<1>0. StaticNext => ~saved
  BY DEF StaticNext, ScriptsLeft, TagsLeft, InitWindow, IframeLoaded, Serialize, CollectRule,
         RulesDone, ExamineScript, ScriptsDone, Replace, Save, Dismiss
<1>1. ASSUME Same, ~saved', at' \in {"loading", "waiting", "alert", "closed", "stuck"},
             at' \in {"loading", "waiting"} => at \in {"init", "loading"}
      PROVE  FontsLeft'
  BY <1>1 DEF FontsLeft
<1>2. CASE InitWindow
  <2>1. Same /\ ~saved' /\ at = "init" /\ at' \in {"loading", "alert"}
    BY <1>0, <1>2 DEF InitWindow, work, StaticNext
  <2> QED
    BY <1>1, <2>1
<1>3. CASE IframeLoaded
  <2>1. Same /\ ~saved' /\ at = "loading" /\ at' \in {"waiting", "stuck"}
    BY <1>0, <1>3 DEF IframeLoaded, work, StaticNext
  <2> QED
    BY <1>1, <2>1
<1>4. CASE Serialize
  <2>1. Same /\ ~saved' /\ at = "waiting" /\ turn' = 1 /\ at' \in {"rules", "stuck"}
    BY <1>0, <1>4 DEF Serialize, StaticNext
  <2>2. searchURIList' = << >> /\ page' = page
    BY <2>1 DEF FontsLeft
  <2>3. Pushed(<< >>, page.rules, 0, << >>)
    BY DEF Pushed
  <2>4. \E from : Pushed(searchURIList', page'.rules, turn' - 1, from)
    <3>1. turn' - 1 = 0
      BY <2>1
    <3> QED
      BY <2>2, <2>3, <3>1
  <2> QED
    BY <2>1, <2>4 DEF FontsLeft
<1>5. CASE CollectRule
  <2>1. /\ at = "rules" /\ at' \in {"rules", "stuck"} /\ page' = page
        /\ turn' = turn + 1 /\ ~saved'
    BY <1>0, <1>5 DEF CollectRule, StaticNext
  <2>2. PICK from : Pushed(searchURIList, page.rules, turn - 1, from)
    BY <2>1 DEF FontsLeft
  <2>3. \E after : Pushed(searchURIList', page'.rules, turn' - 1, after)
    <3>1. turn' - 1 = turn
      BY <2>1 DEF StaticTyped
    <3> QED
      BY <1>5, <2>1, <2>2, <3>1, RulesTurn
  <2> QED
    BY <2>1, <2>3 DEF FontsLeft
<1>6. CASE RulesDone
  <2>1. at = "rules" /\ at' = "scripts" /\ Same /\ turn > Len(page.rules) /\ ~saved'
    BY <1>0, <1>6 DEF RulesDone, StaticNext
  <2>2. turn - 1 = Len(page.rules)
    BY <2>1, PageTypes DEF StaticTyped
  <2>3. \E from : Pushed(searchURIList', page'.rules, Len(page'.rules), from)
    BY <2>1, <2>2 DEF FontsLeft
  <2> QED
    BY <2>1, <2>3 DEF FontsLeft
<1>7. CASE ExamineScript
  <2>1. at = "scripts" /\ at' = "scripts" /\ Same /\ ~saved'
    BY <1>0, <1>7 DEF ExamineScript, StaticNext
  <2>2. \E from : Pushed(searchURIList', page'.rules, Len(page'.rules), from)
    BY <2>1 DEF FontsLeft
  <2> QED
    BY <2>1, <2>2 DEF FontsLeft
<1>8. CASE ScriptsDone
  <2>1. /\ at = "scripts" /\ at' = "replacing" /\ turn' = 1 /\ xhtml' = Serialized
        /\ UNCHANGED <<page, args, searchURIList>> /\ ~saved'
    BY <1>0, <1>8 DEF ScriptsDone, StaticNext
  <2>2. PICK from : Pushed(searchURIList, page.rules, Len(page.rules), from)
    BY <2>1 DEF FontsLeft
  <2>3. \A k \in DOMAIN xhtml' :
          k \in DOMAIN page.rules /\ xhtml'[k].url = page.rules[k].url
    BY <2>1 DEF Serialized
  <2>4. ASSUME AllInline PROVE Searched(xhtml, searchURIList, turn, from)'
    <3>1. SUFFICES ASSUME NEW j \in DOMAIN searchURIList
                   PROVE  from[j] \in DOMAIN Serialized /\ Serialized[from[j]].by = NotYet
                          /\ ~(j < 1)
      BY <2>1 DEF Searched
    <3>2. searchURIList[j] \in Urls /\ j \in Nat /\ 1 <= j
      BY DEF StaticTyped
    <3>3. from[j] \in DOMAIN page.rules /\ page.rules[from[j]].url \in Urls
      <4>1. DOMAIN page.rules = 1 .. Len(page.rules)
        BY PageTypes DEF StaticTyped
      <4> QED
        BY <2>2, <3>2, <4>1 DEF Pushed
    <3>4. page.rules[from[j]].inline
      BY <2>4, <3>3 DEF AllInline
    <3> QED
      BY <3>2, <3>3, <3>4 DEF Serialized
  <2>5. AllInline' => AllInline
    BY <2>1 DEF AllInline
  <2>6. /\ Pushed(searchURIList', page'.rules, Len(page'.rules), from)
        /\ at' = "replacing" /\ AllInline' => Searched(xhtml, searchURIList, turn, from)'
    BY <2>1, <2>2, <2>4, <2>5
  <2> QED
    BY <2>1, <2>3, <2>6 DEF FontsLeft
<1>9. CASE Replace
  BY <1>9, ReplaceTurn
<1>10. CASE Save
  <2>1. /\ at = "replacing" /\ at' \in {"closed", "alert"} /\ Same
        /\ turn > Len(searchURIList)
    BY <1>10 DEF Save
  <2>2. PICK from :
          /\ Pushed(searchURIList, page.rules, Len(page.rules), from)
          /\ AllInline => Searched(xhtml, searchURIList, turn, from)
    BY <2>1 DEF FontsLeft
  <2>3. \A k \in DOMAIN xhtml : k \in DOMAIN page.rules /\ xhtml[k].url = page.rules[k].url
    BY <2>1 DEF FontsLeft
  <2>4. ASSUME AllInline, NEW k \in DOMAIN xhtml
        PROVE  xhtml[k].by = IF Changes(xhtml[k].url) THEN xhtml[k].url ELSE NotYet
    <3>1. /\ k \in 1 .. Len(page.rules) /\ page.rules[k].url \in Urls
          /\ xhtml[k].url = page.rules[k].url
      BY <2>3, PageTypes DEF StaticTyped
    <3>2. PICK j \in DOMAIN searchURIList : from[j] = k
      BY <2>2, <3>1 DEF Pushed
    <3>3. searchURIList[j] = xhtml[k].url
      BY <2>2, <3>1, <3>2 DEF Pushed
    <3>4. j < turn
      <4>1. j \in 1 .. Len(searchURIList) /\ Len(searchURIList) \in Nat /\ turn \in Nat
        BY DEF StaticTyped
      <4> QED
        BY <2>1, <4>1
    <3> QED
      BY <2>2, <2>4, <3>2, <3>3, <3>4 DEF Searched
  <2>5. FontsReplaced'
    BY <2>1, <2>4 DEF FontsReplaced, AllInline, Changes
  <2> QED
    BY <2>1, <2>3, <2>5 DEF FontsLeft
<1>11. CASE Dismiss
  <2>1. Same /\ ~saved' /\ at' = "closed"
    BY <1>0, <1>11 DEF Dismiss, work, StaticNext
  <2> QED
    BY <1>1, <2>1
<1>12. CASE UNCHANGED staticVars
  BY <1>12 DEF staticVars, work, FontsLeft, FontsReplaced, AllInline, Searched, Changes
<1> QED
  BY <1>2, <1>3, <1>4, <1>5, <1>6, <1>7, <1>8, <1>9, <1>10, <1>11, <1>12, Zenon DEF StaticNext

\* Each search replaces the first place it is found at, be that the url it is for or
\* a longer one; in a page whose font rules are all in it, every url to be replaced
\* still is, by what is meant for it: when a url is searched for, all that come before
\* it and that it might be found in have been replaced.
THEOREM OwnFonts == StaticSpec => []FontsReplaced
<1>1. StaticInit => FontsLeft
  <2> SUFFICES ASSUME StaticInit PROVE FontsLeft
    OBVIOUS
  <2>1. at = "init" /\ ~saved /\ searchURIList = << >>
    BY DEF StaticInit
  <2> QED
    BY <2>1 DEF FontsLeft
<1>2. StaticTyped /\ ScriptsLeft /\ FontsLeft /\ [StaticNext]_staticVars => FontsLeft'
  BY FontsLeftNext
<1>3. FontsLeft => FontsReplaced
  BY DEF FontsLeft, FontsReplaced
<1> QED
  BY <1>1, <1>2, <1>3, ScriptsLeftAlways, StaticTypeCorrect, PTL DEF StaticSpec
=============================================================================
