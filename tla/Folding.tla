------------------------------- MODULE Folding -------------------------------
(***************************************************************************)
(* Induction over numbers, stated with sets, and what it says of folds and *)
(* of functions that are defined by recursion over a sequence.             *)
(***************************************************************************)
EXTENDS Integers, SequencesExt, WellFoundedInduction, TLAPS

LEMMA LeastNumber ==
    ASSUME NEW S \in SUBSET Nat, S # {}
    PROVE  \E n \in S : \A m \in S : n <= m
<1> DEFINE R == {ss \in Nat \X Nat : ss[1] < ss[2]}
<1>1. IsWellFoundedOn(R, Nat)
  BY NatLessThanWellFounded DEF OpToRel
<1> HIDE DEF R
<1>2. PICK n \in S : \A m \in S : ~(<<m, n>> \in R)
  BY <1>1, WFMin
<1>3. \A m \in S : ~(m < n)
  BY <1>2 DEF R
<1> QED
  BY <1>3

LEMMA SetInduction ==
    ASSUME NEW S, 0 \in S, \A n \in Nat : n \in S => n + 1 \in S
    PROVE  Nat \subseteq S
<1> DEFINE T == {n \in Nat : n \notin S}
<1>1. SUFFICES ASSUME T # {} PROVE FALSE
  OBVIOUS
<1>2. PICK n \in T : \A m \in T : n <= m
  <2>1. T \in SUBSET Nat
    OBVIOUS
  <2> HIDE DEF T
  <2> QED
    BY <1>1, <2>1, LeastNumber
<1>3. n - 1 \in Nat /\ n - 1 \notin T
  BY <1>2
<1> QED
  BY <1>2, <1>3

LEMMA AsSequence ==
    ASSUME NEW S, NEW n \in Nat, NEW f \in [1 .. n -> S]
    PROVE  f \in Seq(S) /\ Len(f) = n /\ DOMAIN f = 1 .. n
  OBVIOUS

\* A function over 0 .. n can be defined step by step.
Steps(h, base, op, n, last) ==
    /\ h[0] = base /\ h[n] = last
    /\ \A k \in 1 .. n : h[k] = op[<<h[k - 1], k>>]

LEMMA StepsExist ==
    ASSUME NEW V, NEW base \in V, NEW len \in Nat, NEW op \in [V \X (1 .. len) -> V]
    PROVE  \E h \in [0 .. len -> V] : Steps(h, base, op, len, h[len])
<1> DEFINE Defined(n) ==
             n <= len => \E h \in [0 .. n -> V] :
               h[0] = base /\ \A k \in 1 .. n : h[k] = op[<<h[k - 1], k>>]
           S == {n \in Nat : Defined(n)}
<1>1. 0 \in S
  <2> DEFINE h == [k \in 0 .. 0 |-> base]
  <2>1. h \in [0 .. 0 -> V] /\ h[0] = base
    OBVIOUS
  <2> HIDE DEF h
  <2>2. \A k \in 1 .. 0 : h[k] = op[<<h[k - 1], k>>]
    OBVIOUS
  <2>3. Defined(0)
    BY <2>1, <2>2
  <2> QED
    BY <2>3
<1>2. ASSUME NEW n \in Nat, n \in S
      PROVE  n + 1 \in S
  <2>1. SUFFICES ASSUME n + 1 <= len PROVE Defined(n + 1)
    OBVIOUS
  <2>2. PICK h \in [0 .. n -> V] :
          h[0] = base /\ \A k \in 1 .. n : h[k] = op[<<h[k - 1], k>>]
    BY <1>2, <2>1
  <2> DEFINE g == [k \in 0 .. n + 1 |-> IF k = n + 1 THEN op[<<h[n], n + 1>>] ELSE h[k]]
  <2>3. op[<<h[n], n + 1>>] \in V
    BY <2>1
  <2>4. g \in [0 .. n + 1 -> V] /\ g[0] = base
    BY <2>2, <2>3
  <2>5. ASSUME NEW k \in 1 .. n + 1
        PROVE  g[k] = op[<<g[k - 1], k>>]
    <3>1. CASE k = n + 1
      <4>1. k - 1 \in 0 .. n /\ k - 1 = n /\ k - 1 # n + 1 /\ k - 1 \in 0 .. n + 1
        BY <3>1
      <4>2. g[k - 1] = h[n]
        BY <4>1
      <4>3. g[k] = op[<<h[n], n + 1>>]
        BY <3>1
      <4> QED
        BY <3>1, <4>2, <4>3
    <3>2. CASE k # n + 1
      <4>1. k \in 1 .. n /\ k - 1 \in 0 .. n
        BY <3>2
      <4> QED
        BY <2>2, <4>1
    <3> QED
      BY <3>1, <3>2
  <2> QED
    BY <2>4, <2>5
<1>3. Nat \subseteq S
  <2> HIDE DEF S
  <2> QED
    BY <1>1, <1>2, SetInduction
<1>4. Defined(len)
  BY <1>3
<1> QED
  BY <1>4 DEF Steps

\* A function that is defined so takes its values from where its steps do.
Stepwise(V, f, base, op, n) ==
    f[0] = base /\ \A k \in 1 .. n : f[k - 1] \in V => f[k] = op[<<f[k - 1], k>>]

LEMMA StepwiseSteps ==
    ASSUME NEW V, NEW base \in V, NEW len \in Nat, NEW op \in [V \X (1 .. len) -> V],
           NEW f, Stepwise(V, f, base, op, len)
    PROVE  Steps(f, base, op, len, f[len]) /\ \A k \in 0 .. len : f[k] \in V
<1> DEFINE Typed(n) == n <= len => f[n] \in V
           S == {n \in Nat : Typed(n)}
<1>1. 0 \in S
  BY DEF Stepwise
<1>2. ASSUME NEW n \in Nat, n \in S PROVE n + 1 \in S
  <2> SUFFICES ASSUME n + 1 <= len PROVE f[n + 1] \in V
    OBVIOUS
  <2>1. n + 1 \in 1 .. len /\ (n + 1) - 1 = n /\ f[n] \in V
    BY <1>2
  <2>2. f[n + 1] = op[<<f[n], n + 1>>]
    BY <2>1 DEF Stepwise
  <2> QED
    BY <2>1, <2>2
<1>3. Nat \subseteq S
  <2> HIDE DEF S
  <2> QED
    BY <1>1, <1>2, SetInduction
<1>4. \A k \in 0 .. len : f[k] \in V
  BY <1>3
<1>5. \A k \in 1 .. len : f[k] = op[<<f[k - 1], k>>]
  <2> SUFFICES ASSUME NEW k \in 1 .. len PROVE f[k] = op[<<f[k - 1], k>>]
    OBVIOUS
  <2>1. k - 1 \in 0 .. len
    OBVIOUS
  <2> QED
    BY <1>4, <2>1 DEF Stepwise
<1> QED
  BY <1>4, <1>5 DEF Steps, Stepwise

(***************************************************************************)
(* FoldLeft of SequencesExt, which is a fold over the sets of indices that *)
(* takes the greatest one off first.                                       *)
(***************************************************************************)

LEMMA MaxOfRange ==
    ASSUME NEW n \in Nat, NEW s \in SUBSET (1 .. n), s # {}
    PROVE  Max(s) \in s /\ \A y \in s : y <= Max(s)
<1> DEFINE T == {n - y : y \in s}
<1>1. PICK m \in T : \A t \in T : m <= t
  <2>1. \A y \in s : n - y \in Nat
    OBVIOUS
  <2>2. T \in SUBSET Nat /\ T # {}
    BY <2>1
  <2> HIDE DEF T
  <2> QED
    BY <2>2, LeastNumber
<1>2. PICK x \in s : m = n - x
  BY <1>1
<1>3. \A y \in s : x >= y
  <2> TAKE y \in s
  <2>1. n - y \in T
    OBVIOUS
  <2>2. m <= n - y
    BY <1>1, <2>1
  <2>3. y \in 1 .. n /\ x \in 1 .. n
    OBVIOUS
  <2> QED
    BY <1>2, <2>2, <2>3
<1>4. Max(s) \in s /\ \A y \in s : Max(s) >= y
  BY <1>3 DEF Max
<1> QED
  BY <1>4

LEMMA MaxIs ==
    ASSUME NEW n \in Nat, NEW s \in SUBSET (1 .. n), NEW m \in s, \A y \in s : y <= m
    PROVE  Max(s) = m
<1>1. Max(s) \in s /\ \A y \in s : y <= Max(s)
  BY MaxOfRange
<1>2. m <= Max(s) /\ Max(s) <= m
  BY <1>1
<1>3. m \in 1 .. n /\ Max(s) \in 1 .. n
  BY <1>1
<1> QED
  BY <1>2, <1>3

\* g is the function that MapThenFoldSet defines, as far as sets below n go.
FoldsTo(g, base, op, n) ==
    /\ g[{}] = base
    /\ \A s \in SUBSET (1 .. n) : s # {} => g[s] = op[<<g[s \ {Max(s)}], Max(s)>>]

LEMMA FoldExists ==
    ASSUME NEW V, NEW base \in V, NEW len \in Nat, NEW op \in [V \X (1 .. len) -> V]
    PROVE  \E g \in [SUBSET (1 .. len) -> V] : FoldsTo(g, base, op, len)
<1> DEFINE Defined(n) ==
             n <= len => \E g \in [SUBSET (1 .. n) -> V] : FoldsTo(g, base, op, n)
<1>1. Defined(0)
  <2> DEFINE g == [s \in SUBSET (1 .. 0) |-> base]
  <2>1. g \in [SUBSET (1 .. 0) -> V]
    OBVIOUS
  <2>2. g[{}] = base
    OBVIOUS
  <2>3. \A s \in SUBSET (1 .. 0) : s = {}
    OBVIOUS
  <2> HIDE DEF g
  <2>4. FoldsTo(g, base, op, 0)
    BY <2>2, <2>3 DEF FoldsTo
  <2> QED
    BY <2>1, <2>4
<1>2. ASSUME NEW n \in Nat, Defined(n)
      PROVE  Defined(n + 1)
  <2>1. SUFFICES ASSUME n + 1 <= len
                 PROVE  \E g \in [SUBSET (1 .. n + 1) -> V] : FoldsTo(g, base, op, n + 1)
    OBVIOUS
  <2>2. PICK g \in [SUBSET (1 .. n) -> V] : FoldsTo(g, base, op, n)
    <3>1. n <= len
      BY <2>1
    <3> QED
      BY <1>2, <3>1, Zenon
  <2> DEFINE top == n + 1
             h == [s \in SUBSET (1 .. n + 1) |->
                     IF top \in s THEN op[<<g[s \ {top}], top>>] ELSE g[s]]
  <2>3. ASSUME NEW s \in SUBSET (1 .. n + 1)
        PROVE  /\ s \ {top} \in SUBSET (1 .. n)
               /\ top \notin s => s \in SUBSET (1 .. n)
               /\ top \in s => Max(s) = top
    <3>1. s \ {top} \in SUBSET (1 .. n) /\ (top \notin s => s \in SUBSET (1 .. n))
      OBVIOUS
    <3>2. ASSUME top \in s PROVE Max(s) = top
      <4>1. \A y \in s : y <= top
        OBVIOUS
      <4>2. n + 1 \in Nat
        OBVIOUS
      <4> HIDE DEF top
      <4> QED
        BY <3>2, <4>1, <4>2, MaxIs
    <3> QED
      BY <3>1, <3>2
  <2>4. h \in [SUBSET (1 .. n + 1) -> V]
    <3>1. ASSUME NEW s \in SUBSET (1 .. n + 1)
          PROVE  (IF top \in s THEN op[<<g[s \ {top}], top>>] ELSE g[s]) \in V
      <4>1. g[s \ {top}] \in V /\ (top \notin s => g[s] \in V)
        BY <2>2, <2>3
      <4>2. top \in 1 .. len
        BY <2>1
      <4> QED
        BY <4>1, <4>2
    <3> QED
      BY <3>1
  <2>5. \A s \in SUBSET (1 .. n) : h[s] = g[s]
    <3> SUFFICES ASSUME NEW s \in SUBSET (1 .. n) PROVE h[s] = g[s]
      OBVIOUS
    <3>1. s \in SUBSET (1 .. n + 1) /\ top \notin s
      OBVIOUS
    <3> QED
      BY <3>1
  <2>6. h[{}] = base
    BY <2>2, <2>5 DEF FoldsTo
  <2>7. ASSUME NEW s \in SUBSET (1 .. n + 1), s # {}
        PROVE  h[s] = op[<<h[s \ {Max(s)}], Max(s)>>]
    <3>1. CASE top \in s
      <4>1. h[s] = op[<<g[s \ {top}], top>>]
        BY <3>1
      <4>2. Max(s) = top /\ h[s \ {top}] = g[s \ {top}]
        BY <2>3, <2>5, <3>1
      <4> QED
        BY <4>1, <4>2
    <3>2. CASE top \notin s
      <4>1. s \in SUBSET (1 .. n)
        BY <2>3, <3>2
      <4>2. g[s] = op[<<g[s \ {Max(s)}], Max(s)>>]
        BY <2>2, <2>7, <4>1 DEF FoldsTo
      <4>3. s \ {Max(s)} \in SUBSET (1 .. n)
        BY <4>1
      <4> QED
        BY <2>5, <4>1, <4>2, <4>3
    <3> QED
      BY <3>1, <3>2
  <2> HIDE DEF h
  <2>8. FoldsTo(h, base, op, n + 1)
    BY <2>6, <2>7 DEF FoldsTo
  <2> QED
    BY <2>4, <2>8
<1>3. Defined(len)
  <2> HIDE DEF Defined
  <2> DEFINE S == {n \in Nat : Defined(n)}
  <2>1. 0 \in S /\ \A n \in Nat : n \in S => n + 1 \in S
    BY <1>1, <1>2
  <2> HIDE DEF S
  <2>2. Nat \subseteq S
    BY <2>1, SetInduction
  <2> QED
    BY <2>2 DEF S
<1>4. len <= len
  OBVIOUS
<1> QED
  BY <1>3, <1>4, Zenon

\* The same of a function whose values need not be in V.
FoldsIn(V, g, base, op, n) ==
    /\ g[{}] = base
    /\ \A s \in SUBSET (1 .. n) :
         s # {} /\ g[s \ {Max(s)}] \in V => g[s] = op[<<g[s \ {Max(s)}], Max(s)>>]

\* One value for each number of elements folded.
LEMMA FoldSteps ==
    ASSUME NEW V, NEW base \in V, NEW len \in Nat, NEW op \in [V \X (1 .. len) -> V],
           NEW iter, FoldsIn(V, iter, base, op, len)
    PROVE  \E h \in [0 .. len -> V] : Steps(h, base, op, len, iter[1 .. len])
<1>1. ASSUME NEW k \in 1 .. len, iter[1 .. k - 1] \in V
      PROVE  iter[1 .. k] = op[<<iter[1 .. k - 1], k>>]
  <2> DEFINE s == 1 .. k
  <2>1. s \in SUBSET (1 .. len) /\ s # {} /\ k \in s /\ \A y \in s : y <= k
    OBVIOUS
  <2>2. Max(s) = k
    <3> HIDE DEF s
    <3> QED
      BY <2>1, MaxIs
  <2>3. s \ {k} = 1 .. k - 1
    OBVIOUS
  <2> QED
    BY <1>1, <2>1, <2>2, <2>3 DEF FoldsIn
<1> DEFINE Typed(n) == n <= len => iter[1 .. n] \in V
           S == {n \in Nat : Typed(n)}
<1>2. 0 \in S
  <2>1. 1 .. 0 = {}
    OBVIOUS
  <2> QED
    BY <2>1 DEF FoldsIn
<1>3. ASSUME NEW n \in Nat, n \in S
      PROVE  n + 1 \in S
  <2> SUFFICES ASSUME n + 1 <= len PROVE iter[1 .. n + 1] \in V
    OBVIOUS
  <2> DEFINE k == n + 1
  <2>1. k \in 1 .. len /\ k - 1 = n /\ iter[1 .. n] \in V
    BY <1>3
  <2> HIDE DEF k
  <2>2. iter[1 .. k] = op[<<iter[1 .. k - 1], k>>]
    BY <1>1, <2>1
  <2>3. iter[1 .. k] \in V
    BY <2>1, <2>2
  <2> QED
    BY <2>3 DEF k
<1>4. Nat \subseteq S
  <2> HIDE DEF S
  <2> QED
    BY <1>2, <1>3, SetInduction
<1>5. \A k \in 0 .. len : iter[1 .. k] \in V
  BY <1>4
<1> DEFINE h == [k \in 0 .. len |-> iter[1 .. k]]
<1>6. h \in [0 .. len -> V]
  BY <1>5
<1>7. h[0] = base /\ h[len] = iter[1 .. len]
  <2>1. 1 .. 0 = {}
    OBVIOUS
  <2> QED
    BY <2>1 DEF FoldsIn
<1>8. ASSUME NEW k \in 1 .. len
      PROVE  h[k] = op[<<h[k - 1], k>>]
  <2>1. k - 1 \in 0 .. len /\ k \in 0 .. len
    OBVIOUS
  <2>2. iter[1 .. k] = op[<<iter[1 .. k - 1], k>>]
    BY <1>1, <1>5, <2>1
  <2> QED
    BY <2>1, <2>2
<1> HIDE DEF h
<1> QED
  BY <1>6, <1>7, <1>8 DEF Steps
=============================================================================
