---------------------------- MODULE EngineProofs ----------------------------
(***************************************************************************)
(* Engine keeps what its four invariants say and the promise of NameStore, *)
(* for any number of names, Objects, stamps, chunks, transactions in       *)
(* flight, reads and crashes.                                              *)
(*                                                                         *)
(* First what the operations and transactions do to a store; then that     *)
(* each step keeps the inductive invariant IInv of EngineInvariant: those  *)
(* of the callers, those of BlueStore (a transaction handed over, an       *)
(* operation applied, a transaction on disk), the crash, the mount and its *)
(* sweep; then the theorems; then what each step is to the lines of        *)
(* versions that NameStore speaks of.                                      *)
(***************************************************************************)
EXTENDS EngineInvariant, FiniteSetTheorems, SequenceTheorems, TLAPS

-----------------------------------------------------------------------------
(* Sequences of operations and what comes of them.                         *)

\* Any set of natural numbers that is not empty has a least element.
LEMMA LeastExists ==
  ASSUME NEW S, S \subseteq Nat, S # {}
  PROVE  \E x \in S : \A y \in S : x <= y
<1> DEFINE Segments == {0 .. x : x \in S}
           R == StrictSubsetOrdering(Nat)
<1>1. Segments \subseteq FiniteSubsetsOf(Nat) /\ Segments # {}
  <2>1. \A x \in S : IsFiniteSet(0 .. x)
    BY FS_Interval
  <2>2. \A x \in S : 0 .. x \in SUBSET Nat
    OBVIOUS
  <2>3. \A x \in S : 0 .. x \in FiniteSubsetsOf(Nat)
    BY <2>1, <2>2 DEF FiniteSubsetsOf
  <2> QED BY <2>3
<1>2. IsWellFoundedOn(R, FiniteSubsetsOf(Nat))
  BY FS_StrictSubsetOrderingWellFounded
<1> HIDE DEF R
<1>3. PICK s \in Segments : \A t \in Segments : ~(<<t, s>> \in R)
  <2> HIDE DEF Segments
  <2> QED BY <1>1, <1>2, WFMin
<1>4. PICK x \in S : s = 0 .. x
  OBVIOUS
<1>5. ASSUME NEW y \in S, y < x
      PROVE  FALSE
  <2>1. /\ 0 .. y \in Segments
        /\ 0 .. y \in SUBSET Nat /\ 0 .. x \in SUBSET Nat
        /\ 0 .. y \subseteq 0 .. x
        /\ x \in 0 .. x /\ x \notin 0 .. y
    BY <1>5
  <2>2. <<0 .. y, 0 .. x>> \in R
    BY <2>1 DEF R, StrictSubsetOrdering
  <2> QED BY <2>1, <2>2, <1>3, <1>4
<1> QED BY <1>5

\* Induction along a sequence.
LEMMA Upto ==
  ASSUME NEW n \in Nat, NEW P, 0 \in P, \A k \in 0 .. n - 1 : k \in P => k + 1 \in P
  PROVE  \A k \in 0 .. n : k \in P
<1> SUFFICES ASSUME NEW j \in 0 .. n, j \notin P
             PROVE  FALSE
  OBVIOUS
<1> DEFINE Bad == {k \in 0 .. n : k \notin P}
<1>1. Bad \subseteq Nat /\ Bad # {}
  OBVIOUS
<1>2. PICK k \in Bad : \A i \in Bad : k <= i
  <2> HIDE DEF Bad
  <2> QED BY <1>1, LeastExists
<1>3. k \in 0 .. n /\ k \notin P /\ k # 0
  OBVIOUS
<1>4. k - 1 \in 0 .. n - 1 /\ k - 1 \in 0 .. n
  BY <1>3
<1>5. k - 1 \in P
  <2>1. CASE k - 1 \in Bad
    BY <1>2, <1>3, <1>4, <2>1
  <2> QED BY <1>4, <2>1
<1>6. (k - 1) + 1 = k
  BY <1>3
<1> QED BY <1>3, <1>4, <1>5, <1>6

\* There is a function that holds the states of a run of operations.
LEMMA RunExists ==
  ASSUME NEW ops, NEW st, NEW n \in Nat
  PROVE  \E g : Run(g, ops, st, n)
<1> DEFINE P == {k \in Nat : \E g : Run(g, ops, st, k)}
<1>1. 0 \in P
  <2> DEFINE g == [i \in 0 .. 0 |-> st]
  <2>1. g = [i \in 0 .. 0 |-> IF i = 0 THEN st ELSE Apply(ops[i], g[i - 1])]
    OBVIOUS
  <2>2. Run(g, ops, st, 0)
    BY <2>1 DEF Run
  <2> QED BY <2>2
<1>2. ASSUME NEW k \in 0 .. n - 1, k \in P
      PROVE  k + 1 \in P
  <2>1. k \in Nat /\ k + 1 \in Nat
    OBVIOUS
  <2>2. PICK g : Run(g, ops, st, k)
    BY <1>2
  <2> DEFINE h == [i \in 0 .. k + 1 |-> IF i = k + 1 THEN Apply(ops[i], g[k]) ELSE g[i]]
  <2>3. \A i \in 0 .. k : g[i] = IF i = 0 THEN st ELSE Apply(ops[i], g[i - 1])
    BY <2>2 DEF Run
  <2>4. \A i \in 0 .. k + 1 : h[i] = IF i = 0 THEN st ELSE Apply(ops[i], h[i - 1])
    <3> TAKE i \in 0 .. k + 1
    <3>1. CASE i = k + 1
      <4>1. i # 0 /\ i - 1 = k /\ k \in 0 .. k + 1 /\ k # k + 1
        BY <2>1, <3>1
      <4> QED BY <3>1, <4>1
    <3>2. CASE i # k + 1
      <4>1. i \in 0 .. k /\ h[i] = g[i]
        BY <2>1, <3>2
      <4>2. i # 0 => /\ i - 1 \in 0 .. k + 1 /\ i - 1 # k + 1
                     /\ h[i - 1] = g[i - 1]
        BY <2>1, <3>2
      <4> HIDE DEF h
      <4> QED BY <2>3, <4>1, <4>2
    <3> QED BY <3>1, <3>2
  <2>5. h = [i \in 0 .. k + 1 |-> IF i = 0 THEN st ELSE Apply(ops[i], h[i - 1])]
    <3>1. h = [i \in 0 .. k + 1 |-> h[i]]
      OBVIOUS
    <3> HIDE DEF h
    <3> QED BY <3>1, <2>4
  <2>6. Run(h, ops, st, k + 1)
    BY <2>5 DEF Run
  <2> QED BY <2>1, <2>6
<1> HIDE DEF P
<1>3. n \in 0 .. n
  OBVIOUS
<1>4. n \in P
  BY <1>1, <1>2, <1>3, Upto
<1> QED BY <1>4 DEF P

\* ApplyAll takes the last state of such a run.
LEMMA ApplyAllRuns ==
  ASSUME NEW ops, NEW st, Len(ops) \in Nat
  PROVE  \E g : Run(g, ops, st, Len(ops)) /\ ApplyAll(ops, st) = g[Len(ops)]
<1> DEFINE g == CHOOSE g : g = [i \in 0 .. Len(ops) |->
                                  IF i = 0 THEN st ELSE Apply(ops[i], g[i - 1])]
<1>1. ApplyAll(ops, st) = g[Len(ops)]
  BY DEF ApplyAll
<1>2. \E f : f = [i \in 0 .. Len(ops) |-> IF i = 0 THEN st ELSE Apply(ops[i], f[i - 1])]
  <2>1. PICK f : Run(f, ops, st, Len(ops))
    BY RunExists
  <2>2. f = [i \in 0 .. Len(ops) |-> IF i = 0 THEN st ELSE Apply(ops[i], f[i - 1])]
    BY <2>1 DEF Run
  <2> QED BY <2>2
<1>3. Run(g, ops, st, Len(ops))
  BY <1>2 DEF Run
<1> QED BY <1>1, <1>3

\* Two runs that begin with the same operations pass through the same
\* states.
LEMMA RunsAgree ==
  ASSUME NEW ops, NEW more, NEW st, NEW g, NEW h, NEW n \in Nat, NEW m \in Nat,
         Run(g, ops, st, n), Run(h, more, st, m),
         NEW k \in Nat, k <= n, k <= m, \A i \in 1 .. k : ops[i] = more[i]
  PROVE  g[k] = h[k]
<1> DEFINE P == {j \in 0 .. k : g[j] = h[j]}
<1>0. /\ \A i \in 0 .. n : g[i] = IF i = 0 THEN st ELSE Apply(ops[i], g[i - 1])
      /\ \A i \in 0 .. m : h[i] = IF i = 0 THEN st ELSE Apply(more[i], h[i - 1])
  BY DEF Run
<1>1. 0 \in P
  BY <1>0
<1>2. ASSUME NEW j \in 0 .. k - 1, j \in P
      PROVE  j + 1 \in P
  <2>1. /\ j + 1 \in 0 .. n /\ j + 1 \in 0 .. m /\ j + 1 \in 1 .. k /\ j + 1 # 0
        /\ (j + 1) - 1 = j /\ j + 1 \in 0 .. k
    OBVIOUS
  <2>2. g[j + 1] = Apply(ops[j + 1], g[j]) /\ h[j + 1] = Apply(more[j + 1], h[j])
    BY <1>0, <2>1
  <2> QED BY <1>2, <2>1, <2>2
<1> HIDE DEF P
<1>3. k \in 0 .. k
  OBVIOUS
<1>4. k \in P
  BY <1>1, <1>2, <1>3, Upto
<1> QED BY <1>4 DEF P

\* After(ops, st, k) is the k-th state of the run.
LEMMA AfterRuns ==
  ASSUME NEW ops \in Seq(Ops), NEW st
  PROVE  \E g : /\ Run(g, ops, st, Len(ops))
                /\ \A k \in 0 .. Len(ops) : After(ops, st, k) = g[k]
<1>0. Len(ops) \in Nat
  OBVIOUS
<1>1. PICK g : Run(g, ops, st, Len(ops))
  BY <1>0, RunExists
<1>2. ASSUME NEW k \in 0 .. Len(ops)
      PROVE  After(ops, st, k) = g[k]
  <2> DEFINE part == SubSeq(ops, 1, k)
  <2>1. Len(part) = k /\ k \in Nat /\ \A i \in 1 .. k : part[i] = ops[i]
    OBVIOUS
  <2> HIDE DEF part
  <2>2. PICK h : Run(h, part, st, k) /\ ApplyAll(part, st) = h[k]
    BY <2>1, ApplyAllRuns
  <2>3. h[k] = g[k]
    BY <1>0, <1>1, <2>1, <2>2, RunsAgree
  <2> QED BY <2>2, <2>3 DEF After, part
<1> QED BY <1>1, <1>2

\* From one state to the next there is one operation, and the last is what
\* ApplyAll gives.
LEMMA AfterSteps ==
  ASSUME NEW ops \in Seq(Ops), NEW st
  PROVE  /\ After(ops, st, 0) = st
         /\ \A k \in 1 .. Len(ops) : After(ops, st, k) = Apply(ops[k], After(ops, st, k - 1))
         /\ After(ops, st, Len(ops)) = ApplyAll(ops, st)
<1>0. Len(ops) \in Nat
  OBVIOUS
<1>1. PICK g : /\ Run(g, ops, st, Len(ops))
               /\ \A k \in 0 .. Len(ops) : After(ops, st, k) = g[k]
  BY AfterRuns
<1>2. \A i \in 0 .. Len(ops) : g[i] = IF i = 0 THEN st ELSE Apply(ops[i], g[i - 1])
  BY <1>1 DEF Run
<1>3. SubSeq(ops, 1, Len(ops)) = ops
  OBVIOUS
<1>4. After(ops, st, Len(ops)) = ApplyAll(ops, st)
  BY <1>3 DEF After
<1>5. ASSUME NEW k \in 1 .. Len(ops)
      PROVE  After(ops, st, k) = Apply(ops[k], After(ops, st, k - 1))
  <2>1. k \in 0 .. Len(ops) /\ k - 1 \in 0 .. Len(ops) /\ k # 0
    BY <1>0
  <2> QED BY <1>1, <1>2, <2>1
<1> QED BY <1>0, <1>1, <1>2, <1>4, <1>5

\* The states while the first of two sequences is applied do not depend on
\* the second.
LEMMA AfterStart ==
  ASSUME NEW a \in Seq(Ops), NEW b \in Seq(Ops), NEW st, NEW k \in 0 .. Len(a)
  PROVE  After(a \o b, st, k) = After(a, st, k)
<1> DEFINE c == a \o b
           n == Len(a)
           m == Len(b)
<1>0. n \in Nat /\ m \in Nat /\ k \in 0 .. n
  OBVIOUS
<1>1. /\ c \in Seq(Ops) /\ Len(c) = n + m
      /\ \A i \in 1 .. n : c[i] = a[i]
  OBVIOUS
<1> HIDE DEF c, n, m
<1>2. PICK g : Run(g, c, st, n + m) /\ \A i \in 0 .. n + m : After(c, st, i) = g[i]
  <2>1. c \in Seq(Ops) /\ Len(c) = n + m
    BY <1>1
  <2>2. \E g : Run(g, c, st, Len(c)) /\ \A i \in 0 .. Len(c) : After(c, st, i) = g[i]
    BY <2>1, AfterRuns
  <2> QED BY <2>1, <2>2
<1>3. PICK h : Run(h, a, st, n) /\ \A i \in 0 .. n : After(a, st, i) = h[i]
  <2>1. \E h : Run(h, a, st, Len(a)) /\ \A i \in 0 .. Len(a) : After(a, st, i) = h[i]
    BY AfterRuns
  <2> QED BY <2>1 DEF n
<1>4. k \in Nat /\ k <= n + m /\ k <= n /\ n + m \in Nat /\ k \in 0 .. n + m
  BY <1>0
<1>5. \A i \in 1 .. k : c[i] = a[i]
  BY <1>0, <1>1
<1>6. g[k] = h[k]
  BY <1>0, <1>2, <1>3, <1>4, <1>5, RunsAgree
<1>7. After(c, st, k) = After(a, st, k)
  BY <1>0, <1>2, <1>3, <1>4, <1>6
<1> QED BY <1>7 DEF c

\* The second of two sequences starts in the state the first ends in.
LEMMA AfterCat ==
  ASSUME NEW a \in Seq(Ops), NEW b \in Seq(Ops), NEW st
  PROVE  /\ a \o b \in Seq(Ops) /\ Len(a \o b) = Len(a) + Len(b)
         /\ \A k \in 0 .. Len(b) :
               After(a \o b, st, Len(a) + k) = After(b, ApplyAll(a, st), k)
         /\ ApplyAll(a \o b, st) = ApplyAll(b, ApplyAll(a, st))
<1> DEFINE c == a \o b
           n == Len(a)
           m == Len(b)
           mid == ApplyAll(a, st)
<1>0. n \in Nat /\ m \in Nat
  OBVIOUS
<1>1. /\ c \in Seq(Ops) /\ Len(c) = n + m
      /\ \A i \in 1 .. n : c[i] = a[i]
      /\ \A i \in 1 .. m : c[n + i] = b[i]
  OBVIOUS
<1> HIDE DEF c, n, m
<1>2. \A k \in 0 .. n : After(c, st, k) = After(a, st, k)
  BY AfterStart DEF c, n
<1>3. After(c, st, n) = mid
  <2>1. n \in 0 .. n
    BY <1>0
  <2>2. After(a, st, n) = mid
    BY AfterSteps DEF n
  <2> QED BY <1>2, <2>1, <2>2
<1> HIDE DEF mid
<1>4. /\ \A k \in 1 .. n + m : After(c, st, k) = Apply(c[k], After(c, st, k - 1))
      /\ After(c, st, n + m) = ApplyAll(c, st)
  BY <1>1, AfterSteps
<1>5. /\ After(b, mid, 0) = mid
      /\ \A k \in 1 .. m : After(b, mid, k) = Apply(b[k], After(b, mid, k - 1))
      /\ After(b, mid, m) = ApplyAll(b, mid)
  BY AfterSteps DEF m
<1> DEFINE P == {k \in 0 .. m : After(c, st, n + k) = After(b, mid, k)}
<1>6. 0 \in P
  BY <1>0, <1>3, <1>5
<1>7. ASSUME NEW k \in 0 .. m - 1, k \in P
      PROVE  k + 1 \in P
  <2>1. /\ k + 1 \in 1 .. m /\ k + 1 \in 0 .. m /\ n + (k + 1) \in 1 .. n + m
        /\ (n + (k + 1)) - 1 = n + k /\ (k + 1) - 1 = k
    BY <1>0
  <2>2. After(c, st, n + (k + 1)) = Apply(c[n + (k + 1)], After(c, st, n + k))
    BY <1>4, <2>1
  <2>3. After(b, mid, k + 1) = Apply(b[k + 1], After(b, mid, k))
    BY <1>5, <2>1
  <2>4. c[n + (k + 1)] = b[k + 1]
    <3>1. \A i \in 1 .. m : c[n + i] = b[i]
      BY <1>1
    <3> QED BY <2>1, <3>1
  <2> QED BY <1>7, <2>1, <2>2, <2>3, <2>4
<1>8. \A k \in 0 .. m : k \in P
  <2> HIDE DEF P
  <2> QED BY <1>0, <1>6, <1>7, Upto
<1>9. ApplyAll(c, st) = ApplyAll(b, mid)
  <2>1. m \in 0 .. m
    BY <1>0
  <2> QED BY <1>4, <1>5, <1>8, <2>1
<1> QED BY <1>1, <1>8, <1>9 DEF c, n, m, mid

\* So the states passed through, and the operations met on the way, are
\* those of the two together.
LEMMA PassingCat ==
  ASSUME NEW a \in Seq(Ops), NEW b \in Seq(Ops), NEW st
  PROVE  /\ a \o b \in Seq(Ops)
         /\ ApplyAll(a \o b, st) = ApplyAll(b, ApplyAll(a, st))
         /\ PassingOf(a \o b, st) = PassingOf(a, st) \cup PassingOf(b, ApplyAll(a, st))
         /\ StagesOf(a \o b, st) = StagesOf(a, st) \cup StagesOf(b, ApplyAll(a, st))
<1> DEFINE c == a \o b
           n == Len(a)
           m == Len(b)
           mid == ApplyAll(a, st)
<1>0. n \in Nat /\ m \in Nat
  OBVIOUS
<1>1. /\ c \in Seq(Ops) /\ Len(c) = n + m
      /\ \A i \in 1 .. n : c[i] = a[i]
      /\ \A i \in 1 .. m : c[n + i] = b[i]
  OBVIOUS
<1>2. /\ \A k \in 0 .. n : After(c, st, k) = After(a, st, k)
      /\ \A k \in 0 .. m : After(c, st, n + k) = After(b, mid, k)
      /\ ApplyAll(c, st) = ApplyAll(b, mid)
  <2>1. ApplyAll(a \o b, st) = ApplyAll(b, ApplyAll(a, st))
    BY AfterCat
  <2>2. \A k \in 0 .. Len(a) : After(a \o b, st, k) = After(a, st, k)
    BY AfterStart
  <2>3. \A k \in 0 .. Len(b) :
              After(a \o b, st, Len(a) + k) = After(b, ApplyAll(a, st), k)
    BY AfterCat
  <2> QED BY <2>1, <2>2, <2>3
<1>3. After(a, st, n) = mid /\ After(b, mid, 0) = mid
  BY AfterSteps
<1> HIDE DEF c, n, m, mid
<1>4. PassingOf(c, st) = PassingOf(a, st) \cup PassingOf(b, mid)
  <2>1. ASSUME NEW k \in 0 .. n + m
        PROVE  After(c, st, k) \in PassingOf(a, st) \cup PassingOf(b, mid)
    <3>1. CASE k <= n
      <4>1. k \in 0 .. n
        BY <1>0, <3>1
      <4>2. After(a, st, k) \in PassingOf(a, st)
        BY <4>1 DEF PassingOf, n
      <4> QED BY <1>2, <4>1, <4>2
    <3>2. CASE ~(k <= n)
      <4>1. k - n \in 0 .. m /\ n + (k - n) = k
        BY <1>0, <3>2
      <4>2. After(b, mid, k - n) \in PassingOf(b, mid)
        BY <4>1 DEF PassingOf, m
      <4> QED BY <1>2, <4>1, <4>2
    <3> QED BY <3>1, <3>2
  <2>2. ASSUME NEW k \in 0 .. n
        PROVE  After(a, st, k) \in PassingOf(c, st)
    <3>1. k \in 0 .. n + m
      BY <1>0
    <3>2. After(c, st, k) \in PassingOf(c, st)
      BY <1>1, <3>1 DEF PassingOf
    <3> QED BY <1>2, <3>2
  <2>3. ASSUME NEW k \in 0 .. m
        PROVE  After(b, mid, k) \in PassingOf(c, st)
    <3>1. n + k \in 0 .. n + m
      BY <1>0
    <3>2. After(c, st, n + k) \in PassingOf(c, st)
      BY <1>1, <3>1 DEF PassingOf
    <3> QED BY <1>2, <3>2
  <2> QED BY <1>1, <2>1, <2>2, <2>3 DEF PassingOf, n, m
<1>5. StagesOf(c, st) = StagesOf(a, st) \cup StagesOf(b, mid)
  <2>1. ASSUME NEW k \in 1 .. n
        PROVE  <<After(c, st, k - 1), c[k]>> = <<After(a, st, k - 1), a[k]>>
    <3>1. k - 1 \in 0 .. n
      BY <1>0
    <3> QED BY <1>1, <1>2, <3>1
  <2>2. ASSUME NEW k \in 1 .. m
        PROVE  <<After(c, st, (n + k) - 1), c[n + k]>> = <<After(b, mid, k - 1), b[k]>>
    <3>1. k - 1 \in 0 .. m /\ (n + k) - 1 = n + (k - 1)
      BY <1>0
    <3>2. After(c, st, n + (k - 1)) = After(b, mid, k - 1)
      BY <1>2, <3>1, Zenon
    <3>3. c[n + k] = b[k]
      BY <1>1, Zenon
    <3> QED BY <3>1, <3>2, <3>3
  <2>3. ASSUME NEW k \in 1 .. n + m
        PROVE  <<After(c, st, k - 1), c[k]>> \in StagesOf(a, st) \cup StagesOf(b, mid)
    <3>1. CASE k <= n
      <4>1. k \in 1 .. n
        BY <1>0, <3>1
      <4>2. <<After(a, st, k - 1), a[k]>> \in StagesOf(a, st)
        BY <4>1 DEF StagesOf, n
      <4> QED BY <2>1, <4>1, <4>2
    <3>2. CASE ~(k <= n)
      <4>1. k - n \in 1 .. m /\ n + (k - n) = k
        BY <1>0, <3>2
      <4>2. <<After(b, mid, (k - n) - 1), b[k - n]>> \in StagesOf(b, mid)
        BY <4>1 DEF StagesOf, m
      <4> QED BY <2>2, <4>1, <4>2
    <3> QED BY <3>1, <3>2
  <2>4. ASSUME NEW k \in 1 .. n
        PROVE  <<After(a, st, k - 1), a[k]>> \in StagesOf(c, st)
    <3>1. k \in 1 .. n + m
      BY <1>0
    <3>2. <<After(c, st, k - 1), c[k]>> \in StagesOf(c, st)
      BY <1>1, <3>1 DEF StagesOf
    <3> QED BY <2>1, <3>2
  <2>5. ASSUME NEW k \in 1 .. m
        PROVE  <<After(b, mid, k - 1), b[k]>> \in StagesOf(c, st)
    <3>1. n + k \in 1 .. n + m
      BY <1>0
    <3>2. <<After(c, st, (n + k) - 1), c[n + k]>> \in StagesOf(c, st)
      BY <1>1, <3>1 DEF StagesOf
    <3> QED BY <2>2, <3>2
  <2> QED BY <1>1, <2>3, <2>4, <2>5 DEF StagesOf, n, m
<1> QED BY <1>1, <1>2, <1>4, <1>5 DEF c, mid

\* No operation, no change.
LEMMA NoOps ==
  ASSUME NEW st
  PROVE  /\ ApplyAll(<<>>, st) = st /\ PassingOf(<<>>, st) = {st} /\ StagesOf(<<>>, st) = {}
<1>1. <<>> \in Seq(Ops) /\ Len(<<>>) = 0
  OBVIOUS
<1>2. After(<<>>, st, 0) = st /\ After(<<>>, st, 0) = ApplyAll(<<>>, st)
  BY <1>1, AfterSteps
<1>3. \A k \in 0 .. Len(<<>>) : k = 0
  BY <1>1
<1>4. PassingOf(<<>>, st) = {st}
  BY <1>1, <1>2, <1>3 DEF PassingOf
<1>5. StagesOf(<<>>, st) = {}
  BY <1>1 DEF StagesOf
<1> QED BY <1>2, <1>4, <1>5

\* What a single operation passes through.
LEMMA OneOp ==
  ASSUME NEW a \in Ops, NEW st
  PROVE  /\ <<a>> \in Seq(Ops)
         /\ ApplyAll(<<a>>, st) = Apply(a, st)
         /\ PassingOf(<<a>>, st) = {st, Apply(a, st)}
         /\ StagesOf(<<a>>, st) = {<<st, a>>}
<1> DEFINE ops == <<a>>
<1>1. ops \in Seq(Ops) /\ Len(ops) = 1 /\ ops[1] = a
  OBVIOUS
<1> HIDE DEF ops
<1>2. /\ After(ops, st, 0) = st
      /\ \A k \in 1 .. Len(ops) : After(ops, st, k) = Apply(ops[k], After(ops, st, k - 1))
      /\ After(ops, st, Len(ops)) = ApplyAll(ops, st)
  BY <1>1, AfterSteps
<1>3. After(ops, st, 1) = Apply(a, st)
  <2>1. 1 \in 1 .. Len(ops) /\ 1 - 1 = 0
    BY <1>1
  <2> QED BY <1>1, <1>2, <2>1
<1>4. ApplyAll(ops, st) = Apply(a, st)
  BY <1>1, <1>2, <1>3
<1>5. PassingOf(ops, st) = {st, Apply(a, st)}
  <2>1. 0 .. Len(ops) = {0, 1}
    BY <1>1
  <2> QED BY <1>2, <1>3, <2>1 DEF PassingOf
<1>6. StagesOf(ops, st) = {<<st, a>>}
  <2>1. 1 .. Len(ops) = {1} /\ 1 - 1 = 0
    BY <1>1
  <2>2. StagesOf(ops, st) = {<<After(ops, st, 1 - 1), ops[1]>>}
    BY <2>1 DEF StagesOf
  <2> QED BY <1>1, <1>2, <2>1, <2>2
<1> QED BY <1>1, <1>4, <1>5, <1>6 DEF ops

\* The first operation, and then the others.
LEMMA MoreOps ==
  ASSUME NEW a \in Ops, NEW more \in Seq(Ops), NEW ops \in Seq(Ops), NEW st,
         Len(ops) = Len(more) + 1, ops[1] = a, \A i \in 1 .. Len(more) : ops[i + 1] = more[i]
  PROVE  /\ ApplyAll(ops, st) = ApplyAll(more, Apply(a, st))
         /\ PassingOf(ops, st) = {st} \cup PassingOf(more, Apply(a, st))
         /\ StagesOf(ops, st) = {<<st, a>>} \cup StagesOf(more, Apply(a, st))
<1> DEFINE one == <<a>>
<1>1. /\ one \in Seq(Ops) /\ Len(one) = 1 /\ one[1] = a
      /\ ApplyAll(one, st) = Apply(a, st)
      /\ PassingOf(one, st) = {st, Apply(a, st)}
      /\ StagesOf(one, st) = {<<st, a>>}
  BY OneOp
<1> HIDE DEF one
<1>2. Apply(a, st) \in PassingOf(more, Apply(a, st))
  <2>1. 0 \in 0 .. Len(more)
    OBVIOUS
  <2>2. After(more, Apply(a, st), 0) = Apply(a, st)
    BY AfterSteps
  <2> QED BY <2>1, <2>2 DEF PassingOf
<1>3. ops = one \o more
  <2> DEFINE c == one \o more
  <2>1. /\ c \in Seq(Ops) /\ Len(c) = 1 + Len(more) /\ c[1] = one[1]
        /\ \A i \in 1 .. Len(more) : c[1 + i] = more[i]
    <3>1. /\ c \in Seq(Ops) /\ Len(c) = Len(one) + Len(more)
          /\ \A i \in 1 .. Len(one) + Len(more) :
                c[i] = IF i <= Len(one) THEN one[i] ELSE more[i - Len(one)]
      BY <1>1, ConcatProperties
    <3> QED BY <1>1, <3>1
  <2> HIDE DEF c
  <2>2. Len(more) \in Nat /\ Len(ops) = Len(c)
    BY <2>1
  <2>3. \A i \in 1 .. Len(ops) : ops[i] = c[i]
    <3> TAKE i \in 1 .. Len(ops)
    <3>1. CASE i = 1
      BY <1>1, <2>1, <3>1
    <3>2. CASE i # 1
      <4>1. PICK j \in 1 .. Len(more) : i = j + 1
        <5>1. i - 1 \in 1 .. Len(more) /\ i = (i - 1) + 1
          BY <2>2, <3>2
        <5> QED BY <5>1
      <4>2. i = 1 + j
        BY <4>1, <2>2
      <4>3. c[1 + j] = more[j] /\ ops[j + 1] = more[j]
        BY <2>1
      <4> QED BY <4>1, <4>2, <4>3
    <3> QED BY <3>1, <3>2
  <2>4. ops = c
    BY <2>1, <2>2, <2>3, SeqEqual
  <2> QED BY <2>4 DEF c
<1>4. /\ ApplyAll(one \o more, st) = ApplyAll(more, ApplyAll(one, st))
      /\ PassingOf(one \o more, st) = PassingOf(one, st) \cup PassingOf(more, ApplyAll(one, st))
      /\ StagesOf(one \o more, st) = StagesOf(one, st) \cup StagesOf(more, ApplyAll(one, st))
  <2>1. one \in Seq(Ops)
    BY <1>1
  <2>2. \A u, v \in Seq(Ops) :
           /\ ApplyAll(u \o v, st) = ApplyAll(v, ApplyAll(u, st))
           /\ PassingOf(u \o v, st) = PassingOf(u, st) \cup PassingOf(v, ApplyAll(u, st))
           /\ StagesOf(u \o v, st) = StagesOf(u, st) \cup StagesOf(v, ApplyAll(u, st))
    BY PassingCat
  <2> QED BY <2>1, <2>2
<1> QED BY <1>1, <1>2, <1>3, <1>4

\* MoreOps, of operations that begin with one.
LEMMA BeginsWith ==
  ASSUME NEW a \in Ops, NEW more \in Seq(Ops), NEW ops \in Seq(Ops), NEW st,
         Begins(ops, a, more)
  PROVE  /\ ApplyAll(ops, st) = ApplyAll(more, Apply(a, st))
         /\ PassingOf(ops, st) = {st} \cup PassingOf(more, Apply(a, st))
         /\ StagesOf(ops, st) = {<<st, a>>} \cup StagesOf(more, Apply(a, st))
BY MoreOps DEF Begins

\* Two operations pass through three states.
LEMMA TwoOps ==
  ASSUME NEW a \in Ops, NEW b \in Ops,
         NEW st, NEW s1, NEW s2,
         s1 = Apply(a, st), s2 = Apply(b, s1)
  PROVE  /\ <<a, b>> \in Seq(Ops)
         /\ ApplyAll(<<a, b>>, st) = s2
         /\ PassingOf(<<a, b>>, st) = {st, s1, s2}
         /\ StagesOf(<<a, b>>, st) = {<<st, a>>, <<s1, b>>}
<1> DEFINE ops == <<a, b>>
           more == <<b>>
<1>1. /\ ops \in Seq(Ops) /\ more \in Seq(Ops)
      /\ Len(ops) = Len(more) + 1 /\ ops[1] = a
      /\ \A i \in 1 .. Len(more) : ops[i + 1] = more[i]
  OBVIOUS
<1>2. /\ ApplyAll(more, s1) = s2
      /\ PassingOf(more, s1) = {s1, s2}
      /\ StagesOf(more, s1) = {<<s1, b>>}
  BY OneOp
<1> HIDE DEF ops, more
<1>3. /\ ApplyAll(ops, st) = ApplyAll(more, s1)
      /\ PassingOf(ops, st) = {st} \cup PassingOf(more, s1)
      /\ StagesOf(ops, st) = {<<st, a>>} \cup StagesOf(more, s1)
  BY <1>1, MoreOps
<1>4. PassingOf(ops, st) = {st, s1, s2} /\ StagesOf(ops, st) = {<<st, a>>, <<s1, b>>}
  BY <1>2, <1>3
<1> QED BY <1>1, <1>2, <1>3, <1>4 DEF ops

\* Three operations pass through four.
LEMMA ThreeOps ==
  ASSUME NEW a \in Ops, NEW b \in Ops, NEW c \in Ops,
         NEW st, NEW s1, NEW s2, NEW s3,
         s1 = Apply(a, st), s2 = Apply(b, s1), s3 = Apply(c, s2)
  PROVE  /\ <<a, b, c>> \in Seq(Ops)
         /\ ApplyAll(<<a, b, c>>, st) = s3
         /\ PassingOf(<<a, b, c>>, st) = {st, s1, s2, s3}
         /\ StagesOf(<<a, b, c>>, st) = {<<st, a>>, <<s1, b>>, <<s2, c>>}
<1> DEFINE ops == <<a, b, c>>
           more == <<b, c>>
<1>1. /\ ops \in Seq(Ops) /\ more \in Seq(Ops)
      /\ Len(ops) = Len(more) + 1 /\ ops[1] = a
      /\ \A i \in 1 .. Len(more) : ops[i + 1] = more[i]
  OBVIOUS
<1>2. /\ ApplyAll(more, s1) = s3
      /\ PassingOf(more, s1) = {s1, s2, s3}
      /\ StagesOf(more, s1) = {<<s1, b>>, <<s2, c>>}
  BY TwoOps
<1> HIDE DEF ops, more
<1>3. /\ ApplyAll(ops, st) = ApplyAll(more, s1)
      /\ PassingOf(ops, st) = {st} \cup PassingOf(more, s1)
      /\ StagesOf(ops, st) = {<<st, a>>} \cup StagesOf(more, s1)
  BY <1>1, MoreOps
<1>4. PassingOf(ops, st) = {st, s1, s2, s3} /\ StagesOf(ops, st) = {<<st, a>>, <<s1, b>>, <<s2, c>>}
  BY <1>2, <1>3
<1> QED BY <1>1, <1>2, <1>3, <1>4 DEF ops

\* Four operations, a put that retires a holder, pass through five.
LEMMA FourOps ==
  ASSUME NEW a \in Ops, NEW b \in Ops, NEW c \in Ops, NEW d \in Ops,
         NEW st, NEW s1, NEW s2, NEW s3, NEW s4,
         s1 = Apply(a, st), s2 = Apply(b, s1), s3 = Apply(c, s2), s4 = Apply(d, s3)
  PROVE  /\ <<a, b, c, d>> \in Seq(Ops)
         /\ ApplyAll(<<a, b, c, d>>, st) = s4
         /\ PassingOf(<<a, b, c, d>>, st) = {st, s1, s2, s3, s4}
         /\ StagesOf(<<a, b, c, d>>, st) = {<<st, a>>, <<s1, b>>, <<s2, c>>, <<s3, d>>}
<1> DEFINE ops == <<a, b, c, d>>
           more == <<b, c, d>>
<1>1. /\ ops \in Seq(Ops) /\ more \in Seq(Ops)
      /\ Len(ops) = Len(more) + 1 /\ ops[1] = a
      /\ \A i \in 1 .. Len(more) : ops[i + 1] = more[i]
  OBVIOUS
<1>2. /\ ApplyAll(more, s1) = s4
      /\ PassingOf(more, s1) = {s1, s2, s3, s4}
      /\ StagesOf(more, s1) = {<<s1, b>>, <<s2, c>>, <<s3, d>>}
  BY ThreeOps
<1> HIDE DEF ops, more
<1>3. /\ ApplyAll(ops, st) = ApplyAll(more, s1)
      /\ PassingOf(ops, st) = {st} \cup PassingOf(more, s1)
      /\ StagesOf(ops, st) = {<<st, a>>} \cup StagesOf(more, s1)
  BY <1>1, MoreOps
<1>4. PassingOf(ops, st) = {st, s1, s2, s3, s4} /\ StagesOf(ops, st) = {<<st, a>>, <<s1, b>>, <<s2, c>>, <<s3, d>>}
  BY <1>2, <1>3
<1> QED BY <1>1, <1>2, <1>3, <1>4 DEF ops

\* A set of states that the pending operations do not lead out of has all
\* the states they lead through.
LEMMA AllTheWay ==
  ASSUME NEW ops \in Seq(Ops), NEW st, NEW Q, st \in Q,
         \A S \in Q, op \in Ops : <<S, op>> \in StagesOf(ops, st) => Apply(op, S) \in Q
  PROVE  PassingOf(ops, st) \subseteq Q /\ ApplyAll(ops, st) \in Q
<1> DEFINE n == Len(ops)
           P == {k \in 0 .. n : After(ops, st, k) \in Q}
<1>0. n \in Nat /\ \A k \in 1 .. n : ops[k] \in Ops
  OBVIOUS
<1>1. /\ After(ops, st, 0) = st
      /\ \A k \in 1 .. Len(ops) : After(ops, st, k) = Apply(ops[k], After(ops, st, k - 1))
      /\ After(ops, st, Len(ops)) = ApplyAll(ops, st)
  BY AfterSteps
<1>2. 0 \in P
  BY <1>0, <1>1
<1>3. ASSUME NEW k \in 0 .. n - 1, k \in P
      PROVE  k + 1 \in P
  <2>1. k + 1 \in 1 .. n /\ (k + 1) - 1 = k /\ k + 1 \in 0 .. n
    BY <1>0
  <2>2. <<After(ops, st, (k + 1) - 1), ops[k + 1]>> \in StagesOf(ops, st)
    BY <2>1 DEF StagesOf
  <2>3. After(ops, st, k + 1) = Apply(ops[k + 1], After(ops, st, k))
    BY <1>1, <2>1
  <2>4. Apply(ops[k + 1], After(ops, st, k)) \in Q
    BY <1>0, <1>3, <2>1, <2>2
  <2> QED BY <2>1, <2>3, <2>4
<1>4. \A k \in 0 .. n : k \in P
  <2> HIDE DEF P, n
  <2> QED BY <1>0, <1>2, <1>3, Upto
<1>5. PassingOf(ops, st) \subseteq Q
  BY <1>4 DEF PassingOf
<1>6. n \in 0 .. n
  BY <1>0
<1>7. ApplyAll(ops, st) \in Q
  BY <1>1, <1>4, <1>6
<1> QED BY <1>5, <1>7

\* The first and the last state are among those passed through.
LEMMA EndsPassing ==
  ASSUME NEW ops \in Seq(Ops), NEW st
  PROVE  st \in PassingOf(ops, st) /\ ApplyAll(ops, st) \in PassingOf(ops, st)
<1>1. 0 \in 0 .. Len(ops) /\ Len(ops) \in 0 .. Len(ops)
  OBVIOUS
<1>2. After(ops, st, 0) = st /\ After(ops, st, Len(ops)) = ApplyAll(ops, st)
  BY AfterSteps
<1>3. After(ops, st, 0) \in PassingOf(ops, st) /\ After(ops, st, Len(ops)) \in PassingOf(ops, st)
  BY <1>1 DEF PassingOf
<1> QED BY <1>2, <1>3

\* A stage is a state passed through and the operation that comes next.
LEMMA StagesTyped ==
  ASSUME NEW ops \in Seq(Ops), NEW st, NEW g \in StagesOf(ops, st)
  PROVE  /\ g = <<g[1], g[2]>> /\ g[1] \in PassingOf(ops, st) /\ g[2] \in Ops
         /\ \E k \in 1 .. Len(ops) : g[2] = ops[k]
<1>1. PICK k \in 1 .. Len(ops) : g = <<After(ops, st, k - 1), ops[k]>>
  BY DEF StagesOf
<1>2. k - 1 \in 0 .. Len(ops) /\ ops[k] \in Ops
  OBVIOUS
<1>3. After(ops, st, k - 1) \in PassingOf(ops, st)
  BY <1>2 DEF PassingOf
<1> QED BY <1>1, <1>2, <1>3

-----------------------------------------------------------------------------
(* Addresses, and what each operation does to what is there.               *)

\* What a put of a name takes is a time, and none its Objects begin with.
LEMMA Apart ==
  \A n : /\ \A t \in Puts(n) : t \in Stamps /\ t \in Nat /\ t > 0 /\ t # 0 /\ t \notin Times(n)
         /\ \A t \in Times(n) : t \in Ticks /\ t \in Nat /\ t > 0 /\ t # 0
BY EngineAssumption DEF Puts, Times

\* An address is the ordinary one of a name or a temporary one of a name
\* and a stamp.
LEMMA AddressFacts ==
  /\ \A n \in Names : Ordinary(n) \in Addresses /\ Ordinary(n).name = n /\ ~Ordinary(n).temp
  /\ \A n \in Names : \A t \in Puts(n) \cup Times(n) :
        /\ Temporary(n, t) \in Addresses
        /\ Temporary(n, t).name = n /\ Temporary(n, t).temp /\ Temporary(n, t).gen = t
  /\ \A at \in Addresses :
        /\ at.name \in Names /\ at.temp \in BOOLEAN
        /\ at.temp => at.gen \in Ticks \cup Stamps /\ at = Temporary(at.name, at.gen)
        /\ ~at.temp => at = Ordinary(at.name)
<1>1. \A n \in Names : Ordinary(n) \in Addresses /\ Ordinary(n).name = n /\ ~Ordinary(n).temp
  BY DEF Ordinary, Addresses
<1>2. \A n \in Names : \A t \in Puts(n) \cup Times(n) :
        /\ Temporary(n, t) \in Addresses
        /\ Temporary(n, t).name = n /\ Temporary(n, t).temp /\ Temporary(n, t).gen = t
  BY Apart DEF Temporary, Addresses
<1>3. ASSUME NEW at \in Addresses
      PROVE  /\ at.name \in Names /\ at.temp \in BOOLEAN
             /\ at.temp => at.gen \in Ticks \cup Stamps /\ at = Temporary(at.name, at.gen)
             /\ ~at.temp => at = Ordinary(at.name)
  <2>1. CASE at \in [name : Names, temp : {TRUE}, gen : Ticks \cup Stamps]
    BY <2>1 DEF Temporary
  <2>2. CASE at \in [name : Names, temp : {FALSE}, gen : {0}]
    BY <2>2 DEF Ordinary
  <2> QED BY <2>1, <2>2 DEF Addresses
<1> QED BY <1>1, <1>2, <1>3

\* What there is where there is nothing.
LEMMA EmptyEntry ==
  /\ NoEntry \in Entries
  /\ NoEntry.ts = 0 /\ ~NoEntry.old /\ NoEntry.data = <<>> /\ NoEntry.id = <<>>
  /\ NoEntry.meta = 0 /\ ~NoEntry.deleted
BY DEF NoEntry, Entries, Ids, NoWriter

\* The constructors of operations give operations, with the fields they
\* were given.
LEMMA OpsTyped ==
  /\ \A at \in Addresses, id \in Ids :
        /\ Touch(at, id) \in Ops /\ Touch(at, id).op = "touch"
        /\ Touch(at, id).at = at /\ Touch(at, id).id = id
  /\ \A at \in Addresses, ts \in Nat, deleted, old \in BOOLEAN :
        LET op == SetAttrs(at, ts, deleted, old) IN
        /\ op \in Ops /\ op.op = "setattrs" /\ op.at = at /\ op.ts = ts
        /\ op.deleted = deleted /\ op.old = old
  /\ \A at \in Addresses, off \in Nat, id \in Ids :
        /\ WriteAt(at, off, id) \in Ops /\ WriteAt(at, off, id).op = "write"
        /\ WriteAt(at, off, id).at = at
        /\ WriteAt(at, off, id).off = off /\ WriteAt(at, off, id).id = id
  /\ \A at \in Addresses, meta \in Nat :
        /\ SetHeader(at, meta) \in Ops /\ SetHeader(at, meta).op = "header"
        /\ SetHeader(at, meta).at = at /\ SetHeader(at, meta).meta = meta
  /\ \A at, to \in Addresses :
        /\ Rename(at, to) \in Ops /\ Rename(at, to).op = "rename"
        /\ Rename(at, to).at = at /\ Rename(at, to).to = to
  /\ \A at \in Addresses :
        /\ Unlink(at) \in Ops /\ Unlink(at).op = "remove" /\ Unlink(at).at = at
<1>1. \A at \in Addresses, id \in Ids :
        /\ Touch(at, id) \in Ops /\ Touch(at, id).op = "touch"
        /\ Touch(at, id).at = at /\ Touch(at, id).id = id
  BY DEF Touch, Ops
<1>2. \A at \in Addresses, ts \in Nat, deleted, old \in BOOLEAN :
        LET op == SetAttrs(at, ts, deleted, old) IN
        /\ op \in Ops /\ op.op = "setattrs" /\ op.at = at /\ op.ts = ts
        /\ op.deleted = deleted /\ op.old = old
  BY DEF SetAttrs, Ops
<1>3. \A at \in Addresses, off \in Nat, id \in Ids :
        /\ WriteAt(at, off, id) \in Ops /\ WriteAt(at, off, id).op = "write"
        /\ WriteAt(at, off, id).at = at
        /\ WriteAt(at, off, id).off = off /\ WriteAt(at, off, id).id = id
  BY DEF WriteAt, Ops
<1>4. \A at \in Addresses, meta \in Nat :
        /\ SetHeader(at, meta) \in Ops /\ SetHeader(at, meta).op = "header"
        /\ SetHeader(at, meta).at = at /\ SetHeader(at, meta).meta = meta
  BY DEF SetHeader, Ops
<1>5. \A at, to \in Addresses :
        /\ Rename(at, to) \in Ops /\ Rename(at, to).op = "rename"
        /\ Rename(at, to).at = at /\ Rename(at, to).to = to
  BY DEF Rename, Ops
<1>6. \A at \in Addresses :
        /\ Unlink(at) \in Ops /\ Unlink(at).op = "remove" /\ Unlink(at).at = at
  BY DEF Unlink, Ops
<1> QED BY <1>1, <1>2, <1>3, <1>4, <1>5, <1>6

\* The fields of an operation have the types its kind calls for.
LEMMA OpFields ==
  ASSUME NEW op \in Ops
  PROVE  /\ op.op \in {"touch", "setattrs", "write", "header", "rename", "remove"}
         /\ op.at \in Addresses
         /\ op.op = "touch" => op.id \in Ids
         /\ op.op = "setattrs" => op.ts \in Nat /\ op.deleted \in BOOLEAN /\ op.old \in BOOLEAN
         /\ op.op = "write" => op.off \in Nat /\ op.id \in Ids
         /\ op.op = "header" => op.meta \in Nat
         /\ op.op = "rename" => op.to \in Addresses
BY DEF Ops

\* An entry with another writer.
LEMMA TouchedEntry ==
  ASSUME NEW e \in Entries, NEW id \in Ids
  PROVE  LET x == [e EXCEPT !.id = id] IN
         /\ x \in Entries /\ x.id = id /\ x.ts = e.ts /\ x.deleted = e.deleted
         /\ x.old = e.old /\ x.data = e.data /\ x.meta = e.meta
BY DEF Entries

\* A write leaves at least one chunk; at the end of the data it appends.
LEMMA OverwriteTyped ==
  ASSUME NEW data \in Seq(Ids), NEW off \in Nat, NEW id \in Ids
  PROVE  /\ Overwrite(data, off, id) \in Seq(Ids) /\ Len(Overwrite(data, off, id)) > 0
         /\ Len(data) <= off => Overwrite(data, off, id) = Append(data, id)
<1>1. Len(data) \in Nat
  OBVIOUS
<1>2. CASE off < Len(data)
  <2>1. off + 1 \in 1 .. Len(data)
    BY <1>1, <1>2
  <2>2. [data EXCEPT ![off + 1] = id] \in Seq(Ids) /\ Len([data EXCEPT ![off + 1] = id]) = Len(data)
    BY <2>1, ExceptSeq
  <2>3. Overwrite(data, off, id) = [data EXCEPT ![off + 1] = id]
    BY <1>2 DEF Overwrite
  <2>4. Len(Overwrite(data, off, id)) = Len(data) /\ Overwrite(data, off, id) \in Seq(Ids)
    BY <2>2, <2>3
  <2>5. Len(Overwrite(data, off, id)) > 0 /\ ~(Len(data) <= off)
    BY <1>1, <1>2, <2>4
  <2> QED BY <2>4, <2>5
<1>3. CASE ~(off < Len(data))
  <2>1. Overwrite(data, off, id) = Append(data, id)
    BY <1>3 DEF Overwrite
  <2>2. Append(data, id) \in Seq(Ids) /\ Len(Append(data, id)) = Len(data) + 1
    BY AppendProperties
  <2> QED BY <1>1, <2>1, <2>2
<1> QED BY <1>2, <1>3

\* An entry with a chunk written.
LEMMA WrittenEntry ==
  ASSUME NEW e \in Entries, NEW off \in Nat, NEW id \in Ids
  PROVE  LET x == [e EXCEPT !.data = Overwrite(e.data, off, id)] IN
         /\ x \in Entries /\ x.id = e.id /\ x.ts = e.ts /\ x.deleted = e.deleted
         /\ x.old = e.old /\ x.data = Overwrite(e.data, off, id) /\ x.meta = e.meta
<1>1. e.data \in Seq(Ids)
  BY DEF Entries
<1>2. Overwrite(e.data, off, id) \in Seq(Ids)
  BY <1>1, OverwriteTyped
<1> QED BY <1>2 DEF Entries

\* An entry with another header.
LEMMA HeadedEntry ==
  ASSUME NEW e \in Entries, NEW meta \in Nat
  PROVE  LET x == [e EXCEPT !.meta = meta] IN
         /\ x \in Entries /\ x.id = e.id /\ x.ts = e.ts /\ x.deleted = e.deleted
         /\ x.old = e.old /\ x.data = e.data /\ x.meta = meta
BY DEF Entries

\* Storing one entry.
LEMMA PutAt ==
  ASSUME NEW st \in Contents, NEW at \in Addresses, NEW e \in Entries
  PROVE  LET s == [st EXCEPT ![at] = e] IN
         /\ s \in Contents /\ s[at] = e
         /\ \A a \in Addresses : a # at => s[a] = st[a]
BY DEF Contents

\* touch creates an entry where there is none and changes none that is
\* there.
LEMMA ApplyTouch ==
  ASSUME NEW op \in Ops, op.op = "touch", NEW st \in Contents
  PROVE  LET s == Apply(op, st) IN
         /\ s \in Contents
         /\ \A a \in Addresses : a # op.at => s[a] = st[a]
         /\ st[op.at] # NoEntry => s[op.at] = st[op.at]
         /\ st[op.at] = NoEntry =>
               /\ s[op.at].id = op.id /\ s[op.at].ts = 0 /\ ~s[op.at].deleted
               /\ ~s[op.at].old /\ s[op.at].data = <<>> /\ s[op.at].meta = 0
<1>0. op.at \in Addresses /\ op.id \in Ids /\ st[op.at] \in Entries
  BY OpFields DEF Contents
<1> DEFINE e == st[op.at]
           x == [e EXCEPT !.id = op.id]
           y == IF e = NoEntry THEN x ELSE e
<1>1. /\ x \in Entries /\ x.id = op.id /\ x.ts = e.ts /\ x.deleted = e.deleted
      /\ x.old = e.old /\ x.data = e.data /\ x.meta = e.meta
  BY <1>0, TouchedEntry
<1>2. Apply(op, st) = [st EXCEPT ![op.at] = y]
  BY <1>0 DEF Apply, Contents
<1>3. y \in Entries
  BY <1>0, <1>1
<1> HIDE DEF x
<1>4. y = NoEntry \/ y # NoEntry
  OBVIOUS
<1>5. /\ e # NoEntry => y = e
      /\ e = NoEntry => y = x
  OBVIOUS
<1> HIDE DEF y
<1>6. LET s == [st EXCEPT ![op.at] = y] IN
      /\ s \in Contents /\ s[op.at] = y
      /\ \A a \in Addresses : a # op.at => s[a] = st[a]
  BY <1>0, <1>3, PutAt
<1> QED BY <1>1, <1>2, <1>5, <1>6, EmptyEntry

\* setattrs changes the attributes of one entry, and no bytes.
LEMMA ApplySetAttrs ==
  ASSUME NEW op \in Ops, op.op = "setattrs", NEW st \in Contents
  PROVE  LET s == Apply(op, st) IN
         /\ s \in Contents
         /\ \A a \in Addresses : a # op.at => s[a] = st[a]
         /\ s[op.at].id = st[op.at].id /\ s[op.at].ts = op.ts
         /\ s[op.at].deleted = op.deleted /\ s[op.at].old = op.old
         /\ s[op.at].data = st[op.at].data /\ s[op.at].meta = st[op.at].meta
<1>0. /\ op.at \in Addresses /\ st[op.at] \in Entries
      /\ op.ts \in Nat /\ op.deleted \in BOOLEAN /\ op.old \in BOOLEAN
  BY OpFields DEF Contents
<1> DEFINE e == st[op.at]
           x == [e EXCEPT !.ts = op.ts, !.deleted = op.deleted, !.old = op.old]
<1>1. /\ x \in Entries /\ x.id = e.id /\ x.ts = op.ts /\ x.deleted = op.deleted
      /\ x.old = op.old /\ x.data = e.data /\ x.meta = e.meta
  BY <1>0 DEF Entries
<1>2. Apply(op, st) = [st EXCEPT ![op.at] = x]
  BY <1>0 DEF Apply, Contents
<1> HIDE DEF x
<1>6. LET s == [st EXCEPT ![op.at] = x] IN
      /\ s \in Contents /\ s[op.at] = x
      /\ \A a \in Addresses : a # op.at => s[a] = st[a]
  BY <1>0, <1>1, PutAt
<1> QED BY <1>1, <1>2, <1>6

\* write changes the bytes of one entry, and no attributes.
LEMMA ApplyWrite ==
  ASSUME NEW op \in Ops, op.op = "write", NEW st \in Contents
  PROVE  LET s == Apply(op, st) IN
         /\ s \in Contents
         /\ \A a \in Addresses : a # op.at => s[a] = st[a]
         /\ s[op.at].id = st[op.at].id /\ s[op.at].ts = st[op.at].ts
         /\ s[op.at].deleted = st[op.at].deleted /\ s[op.at].old = st[op.at].old
         /\ s[op.at].data = Overwrite(st[op.at].data, op.off, op.id)
         /\ s[op.at].meta = st[op.at].meta
<1>0. /\ op.at \in Addresses /\ st[op.at] \in Entries
      /\ op.off \in Nat /\ op.id \in Ids
  BY OpFields DEF Contents
<1> DEFINE e == st[op.at]
           x == [e EXCEPT !.data = Overwrite(e.data, op.off, op.id)]
<1>1. /\ x \in Entries /\ x.id = e.id /\ x.ts = e.ts /\ x.deleted = e.deleted
      /\ x.old = e.old /\ x.data = Overwrite(e.data, op.off, op.id) /\ x.meta = e.meta
  BY <1>0, WrittenEntry
<1>2. Apply(op, st) = [st EXCEPT ![op.at] = x]
  BY <1>0 DEF Apply, Contents
<1> HIDE DEF x
<1>6. LET s == [st EXCEPT ![op.at] = x] IN
      /\ s \in Contents /\ s[op.at] = x
      /\ \A a \in Addresses : a # op.at => s[a] = st[a]
  BY <1>0, <1>1, PutAt
<1> QED BY <1>1, <1>2, <1>6

\* omap_setheader changes the metadata of one entry only.
LEMMA ApplyHeader ==
  ASSUME NEW op \in Ops, op.op = "header", NEW st \in Contents
  PROVE  LET s == Apply(op, st) IN
         /\ s \in Contents
         /\ \A a \in Addresses : a # op.at => s[a] = st[a]
         /\ s[op.at].id = st[op.at].id /\ s[op.at].ts = st[op.at].ts
         /\ s[op.at].deleted = st[op.at].deleted /\ s[op.at].old = st[op.at].old
         /\ s[op.at].data = st[op.at].data /\ s[op.at].meta = op.meta
<1>0. op.at \in Addresses /\ st[op.at] \in Entries /\ op.meta \in Nat
  BY OpFields DEF Contents
<1> DEFINE e == st[op.at]
           x == [e EXCEPT !.meta = op.meta]
<1>1. /\ x \in Entries /\ x.id = e.id /\ x.ts = e.ts /\ x.deleted = e.deleted
      /\ x.old = e.old /\ x.data = e.data /\ x.meta = op.meta
  BY <1>0, HeadedEntry
<1>2. Apply(op, st) = [st EXCEPT ![op.at] = x]
  BY <1>0 DEF Apply, Contents
<1> HIDE DEF x
<1>6. LET s == [st EXCEPT ![op.at] = x] IN
      /\ s \in Contents /\ s[op.at] = x
      /\ \A a \in Addresses : a # op.at => s[a] = st[a]
  BY <1>0, <1>1, PutAt
<1> QED BY <1>1, <1>2, <1>6

\* collection_move_rename takes an entry to another address, whole; from
\* where there is nothing, it does nothing.
LEMMA ApplyRename ==
  ASSUME NEW op \in Ops, op.op = "rename", NEW st \in Contents
  PROVE  LET s == Apply(op, st) IN
         /\ s \in Contents
         /\ \A a \in Addresses : a # op.at /\ a # op.to => s[a] = st[a]
         /\ st[op.at] # NoEntry /\ op.at # op.to =>
               s[op.to] = st[op.at] /\ s[op.at] = NoEntry
         /\ st[op.at] = NoEntry => s = st
<1>0. /\ op.at \in Addresses /\ op.to \in Addresses
      /\ st[op.at] \in Entries
  BY OpFields DEF Contents
<1>1. CASE st[op.at] = NoEntry
  <2>1. Apply(op, st) = st
    BY <1>1 DEF Apply
  <2> QED BY <1>1, <2>1
<1>2. CASE st[op.at] # NoEntry
  <2> DEFINE mid == [st EXCEPT ![op.at] = NoEntry]
             s == [mid EXCEPT ![op.to] = st[op.at]]
  <2>1. Apply(op, st) = s
    BY <1>2 DEF Apply
  <2>2. /\ mid \in Contents /\ mid[op.at] = NoEntry
        /\ \A a \in Addresses : a # op.at => mid[a] = st[a]
    BY <1>0, EmptyEntry, PutAt
  <2> HIDE DEF mid
  <2>3. /\ s \in Contents /\ s[op.to] = st[op.at]
        /\ \A a \in Addresses : a # op.to => s[a] = mid[a]
    BY <1>0, <2>2, PutAt
  <2> HIDE DEF s
  <2> QED BY <1>0, <1>2, <2>1, <2>2, <2>3
<1> QED BY <1>1, <1>2

\* remove leaves nothing at one address.
LEMMA ApplyRemove ==
  ASSUME NEW op \in Ops, op.op = "remove", NEW st \in Contents
  PROVE  LET s == Apply(op, st) IN
         /\ s \in Contents
         /\ \A a \in Addresses : a # op.at => s[a] = st[a]
         /\ s[op.at] = NoEntry
<1>0. op.at \in Addresses
  BY OpFields
<1>2. Apply(op, st) = [st EXCEPT ![op.at] = NoEntry]
  BY <1>0 DEF Apply
<1> DEFINE s == [st EXCEPT ![op.at] = NoEntry]
<1>3. /\ s \in Contents /\ s[op.at] = NoEntry
      /\ \A a \in Addresses : a # op.at => s[a] = st[a]
  BY <1>0, EmptyEntry, PutAt
<1> HIDE DEF s
<1>4. Apply(op, st) = s
  BY <1>2 DEF s
<1> QED BY <1>3, <1>4

\* An operation changes nothing but the addresses it names.
LEMMA ApplyTyped ==
  ASSUME NEW op \in Ops, NEW st \in Contents
  PROVE  /\ Apply(op, st) \in Contents
         /\ \A a \in Addresses :
               a # op.at /\ (op.op = "rename" => a # op.to) => Apply(op, st)[a] = st[a]
<1>1. CASE op.op = "touch"
  BY <1>1, ApplyTouch
<1>2. CASE op.op = "setattrs"
  BY <1>2, ApplySetAttrs
<1>3. CASE op.op = "write"
  BY <1>3, ApplyWrite
<1>4. CASE op.op = "header"
  BY <1>4, ApplyHeader
<1>5. CASE op.op = "rename"
  BY <1>5, ApplyRename
<1>6. CASE op.op = "remove"
  BY <1>6, ApplyRemove
<1> QED BY <1>1, <1>2, <1>3, <1>4, <1>5, <1>6, OpFields

\* States of the store are followed by states of the store.
LEMMA ApplyAllTyped ==
  ASSUME NEW ops \in Seq(Ops), NEW st \in Contents
  PROVE  PassingOf(ops, st) \subseteq Contents /\ ApplyAll(ops, st) \in Contents
BY ApplyTyped, AllTheWay

\* An operation on one name changes nothing of another.
LEMMA ApplyElsewhere ==
  ASSUME NEW n, NEW m, n # m, NEW op \in OpsOf(m), NEW st \in Contents
  PROVE  Agree(n, Apply(op, st), st)
<1>1. op \in Ops /\ op.at.name = m /\ (op.op = "rename" => op.to.name = m)
  BY DEF OpsOf
<1>2. \A a \in Addresses :
               a # op.at /\ (op.op = "rename" => a # op.to) => Apply(op, st)[a] = st[a]
  BY <1>1, ApplyTyped
<1> QED BY <1>1, <1>2 DEF Agree

\* What an operation does to a name depends on what there is of that name
\* only.
LEMMA ApplyAgrees ==
  ASSUME NEW n, NEW op \in OpsOf(n), NEW a \in Contents, NEW b \in Contents, Agree(n, a, b)
  PROVE  Agree(n, Apply(op, a), Apply(op, b))
<1>1. /\ op \in Ops /\ op.at.name = n /\ (op.op = "rename" => op.to.name = n)
      /\ op.at \in Addresses /\ (op.op = "rename" => op.to \in Addresses)
  BY OpFields DEF OpsOf
<1>2. /\ \A at \in Addresses : at.name = n => a[at] = b[at]
      /\ a[op.at] = b[op.at] /\ a[op.at] \in Entries
  BY <1>1 DEF Agree, Contents
<1> DEFINE c == Apply(op, a)
           d == Apply(op, b)
<1>3. /\ c \in Contents /\ d \in Contents
      /\ \A x \in Addresses : x # op.at /\ (op.op = "rename" => x # op.to) => c[x] = a[x] /\ d[x] = b[x]
  BY <1>1, ApplyTyped
<1>4. c[op.at] = d[op.at] /\ (op.op = "rename" => c[op.to] = d[op.to])
  <2>1. CASE op.op = "touch"
    BY <1>1, <1>2, <2>1 DEF Apply, Contents
  <2>2. CASE op.op = "setattrs"
    BY <1>1, <1>2, <2>2 DEF Apply, Contents
  <2>3. CASE op.op = "write"
    BY <1>1, <1>2, <2>3 DEF Apply, Contents
  <2>4. CASE op.op = "header"
    BY <1>1, <1>2, <2>4 DEF Apply, Contents
  <2>5. CASE op.op = "rename"
    <3>1. CASE a[op.at] = NoEntry
      BY <1>1, <1>2, <2>5, <3>1, ApplyRename
    <3>2. CASE a[op.at] # NoEntry
      <4>1. /\ c = [[a EXCEPT ![op.at] = NoEntry] EXCEPT ![op.to] = a[op.at]]
            /\ d = [[b EXCEPT ![op.at] = NoEntry] EXCEPT ![op.to] = b[op.at]]
        BY <1>2, <2>5, <3>2 DEF Apply
      <4> QED BY <1>1, <1>2, <2>5, <4>1 DEF Contents
    <3> QED BY <3>1, <3>2
  <2>6. CASE op.op = "remove"
    BY <1>1, <2>6, ApplyRemove
  <2> QED BY <1>1, <2>1, <2>2, <2>3, <2>4, <2>5, <2>6, OpFields
<1> HIDE DEF c, d
<1>5. Agree(n, c, d)
  BY <1>1, <1>2, <1>3, <1>4 DEF Agree
<1> QED BY <1>5 DEF c, d

\* A sequence of operations on one name changes nothing of another.
LEMMA ApplyAllElsewhere ==
  ASSUME NEW n, NEW m, n # m, NEW ops \in Seq(Ops), NEW st \in Contents,
         \A i \in 1 .. Len(ops) : ops[i] \in OpsOf(m)
  PROVE  Agree(n, ApplyAll(ops, st), st)
<1> DEFINE Q == {S \in Contents : Agree(n, S, st)}
<1>1. st \in Q
  BY DEF Agree
<1>2. ASSUME NEW S \in Q, NEW op \in Ops, <<S, op>> \in StagesOf(ops, st)
      PROVE  Apply(op, S) \in Q
  <2>1. op \in OpsOf(m)
    <3> DEFINE g == <<S, op>>
    <3>1. \E k \in 1 .. Len(ops) : g[2] = ops[k]
      <4> HIDE DEF g
      <4>1. g \in StagesOf(ops, st)
        BY <1>2 DEF g
      <4> QED BY <4>1, StagesTyped
    <3> QED BY <3>1
  <2>2. Agree(n, Apply(op, S), S)
    BY <2>1, ApplyElsewhere
  <2>3. Apply(op, S) \in Contents
    BY ApplyTyped
  <2> QED BY <2>2, <2>3 DEF Agree
<1>3. ApplyAll(ops, st) \in Q
  <2> HIDE DEF Q
  <2> QED BY <1>1, <1>2, AllTheWay
<1> QED BY <1>3

\* What a sequence of operations on a name does to it depends on that name
\* only.
LEMMA ApplyAllAgrees ==
  ASSUME NEW n, NEW ops \in Seq(Ops), NEW a \in Contents, NEW b \in Contents,
         \A i \in 1 .. Len(ops) : ops[i] \in OpsOf(n), Agree(n, a, b)
  PROVE  Agree(n, ApplyAll(ops, a), ApplyAll(ops, b))
<1> DEFINE P == {k \in 0 .. Len(ops) : Agree(n, After(ops, a, k), After(ops, b, k))}
<1>0. Len(ops) \in Nat
  OBVIOUS
<1>1. /\ After(ops, a, 0) = a
      /\ \A k \in 1 .. Len(ops) : After(ops, a, k) = Apply(ops[k], After(ops, a, k - 1))
      /\ After(ops, a, Len(ops)) = ApplyAll(ops, a)
  BY AfterSteps
<1>2. /\ After(ops, b, 0) = b
      /\ \A k \in 1 .. Len(ops) : After(ops, b, k) = Apply(ops[k], After(ops, b, k - 1))
      /\ After(ops, b, Len(ops)) = ApplyAll(ops, b)
  BY AfterSteps
<1>3. \A k \in 0 .. Len(ops) : After(ops, a, k) \in Contents /\ After(ops, b, k) \in Contents
  BY ApplyAllTyped DEF PassingOf
<1>4. 0 \in P
  BY <1>0, <1>1, <1>2
<1>5. ASSUME NEW k \in 0 .. Len(ops) - 1, k \in P
      PROVE  k + 1 \in P
  <2>1. /\ k + 1 \in 1 .. Len(ops) /\ k + 1 \in 0 .. Len(ops) /\ k \in 0 .. Len(ops)
        /\ (k + 1) - 1 = k
    BY <1>0
  <2>2. Agree(n, Apply(ops[k + 1], After(ops, a, k)), Apply(ops[k + 1], After(ops, b, k)))
    BY <1>3, <1>5, <2>1, ApplyAgrees
  <2> QED BY <1>1, <1>2, <2>1, <2>2
<1>6. \A k \in 0 .. Len(ops) : k \in P
  <2> HIDE DEF P
  <2> QED BY <1>0, <1>4, <1>5, Upto
<1>7. Len(ops) \in 0 .. Len(ops)
  BY <1>0
<1> QED BY <1>1, <1>2, <1>6, <1>7

\* An operation makes at most two addresses used.
LEMMA ApplySmall ==
  ASSUME NEW op \in Ops, NEW st \in Contents, Small(st)
  PROVE  Small(Apply(op, st))
<1> DEFINE on == IF op.op = "rename" THEN {op.at, op.to} ELSE {op.at}
<1>1. IsFiniteSet(on)
  <2>1. IsFiniteSet({op.at})
    BY FS_Singleton
  <2>2. IsFiniteSet({op.to} \cup {op.at})
    BY <2>1, FS_AddElement
  <2>3. {op.to} \cup {op.at} = {op.at, op.to}
    OBVIOUS
  <2> QED BY <2>1, <2>2, <2>3
<1>2. Used(Apply(op, st)) \subseteq Used(st) \cup on
  BY ApplyTyped DEF Used
<1>3. IsFiniteSet(Used(st) \cup on)
  BY <1>1, FS_Union DEF Small
<1> QED BY <1>2, <1>3, FS_Subset DEF Small

\* The addresses in use stay finitely many.
LEMMA ApplyAllSmall ==
  ASSUME NEW ops \in Seq(Ops), NEW st \in Contents, Small(st)
  PROVE  Small(ApplyAll(ops, st))
<1> DEFINE Q == {S \in Contents : Small(S)}
<1>1. st \in Q
  OBVIOUS
<1>2. \A S \in Q, op \in Ops : Apply(op, S) \in Q
  BY ApplyTyped, ApplySmall
<1>3. ApplyAll(ops, st) \in Q
  <2> HIDE DEF Q
  <2> QED BY <1>1, <1>2, AllTheWay
<1> QED BY <1>3

-----------------------------------------------------------------------------
(* The operations of a queue of transactions, one after the other.         *)

\* Concatenation is associative.
LEMMA CatAssociates ==
  ASSUME NEW A, NEW u \in Seq(A), NEW v \in Seq(A), NEW w \in Seq(A)
  PROVE  Cat(Cat(u, v), w) = Cat(u, Cat(v, w))
BY ConcatAssociative DEF Cat

\* There is a function that holds the partial results of FlattenSeq.
LEMMA JoinedExists ==
  ASSUME NEW s, NEW n \in Nat, n > 0
  PROVE  \E f : Joined(f, s, n)
<1> DEFINE P == {k \in Nat : \E f : Joined(f, s, k + 1)}
<1>1. 0 \in P
  <2> DEFINE f == [i \in 1 .. 1 |-> s[i]]
  <2>1. f = [i \in 1 .. 1 |-> IF i = 1 THEN s[i] ELSE f[i - 1] \o s[i]]
    OBVIOUS
  <2>2. Joined(f, s, 0 + 1)
    BY <2>1 DEF Joined
  <2> QED BY <2>2
<1>2. ASSUME NEW k \in 0 .. (n - 1) - 1, k \in P
      PROVE  k + 1 \in P
  <2>1. k \in Nat /\ k + 1 \in Nat
    OBVIOUS
  <2>2. PICK f : Joined(f, s, k + 1)
    BY <1>2
  <2> DEFINE m == (k + 1) + 1
             h == [i \in 1 .. m |-> IF i = m THEN f[k + 1] \o s[i] ELSE f[i]]
  <2>3. \A i \in 1 .. k + 1 : f[i] = IF i = 1 THEN s[i] ELSE f[i - 1] \o s[i]
    BY <2>2 DEF Joined
  <2>4. \A i \in 1 .. m : h[i] = IF i = 1 THEN s[i] ELSE h[i - 1] \o s[i]
    <3> TAKE i \in 1 .. m
    <3>1. CASE i = m
      <4>1. i # 1 /\ i - 1 = k + 1 /\ k + 1 \in 1 .. m /\ k + 1 # m
        BY <2>1, <3>1
      <4> QED BY <3>1, <4>1
    <3>2. CASE i # m
      <4>1. i \in 1 .. k + 1 /\ h[i] = f[i]
        BY <2>1, <3>2
      <4>2. i # 1 => i - 1 \in 1 .. m /\ i - 1 # m /\ h[i - 1] = f[i - 1]
        BY <2>1, <3>2
      <4> HIDE DEF h
      <4> QED BY <2>3, <4>1, <4>2
    <3> QED BY <3>1, <3>2
  <2>5. h = [i \in 1 .. m |-> IF i = 1 THEN s[i] ELSE h[i - 1] \o s[i]]
    <3>1. h = [i \in 1 .. m |-> h[i]]
      OBVIOUS
    <3> HIDE DEF h
    <3> QED BY <3>1, <2>4
  <2>6. Joined(h, s, (k + 1) + 1)
    BY <2>5 DEF Joined
  <2> QED BY <2>1, <2>6
<1> HIDE DEF P
<1>3. n - 1 \in Nat /\ n - 1 \in 0 .. n - 1 /\ (n - 1) + 1 = n
  OBVIOUS
<1>4. n - 1 \in P
  BY <1>1, <1>2, <1>3, Upto
<1> QED BY <1>3, <1>4 DEF P

\* FlattenSeq takes the last of them.
LEMMA FlattenJoins ==
  ASSUME NEW s, Len(s) \in Nat, Len(s) > 0
  PROVE  \E f : Joined(f, s, Len(s)) /\ FlattenSeq(s) = f[Len(s)]
<1> DEFINE f == CHOOSE f : f = [i \in 1 .. Len(s) |->
                                  IF i = 1 THEN s[i] ELSE f[i - 1] \o s[i]]
<1>1. FlattenSeq(s) = f[Len(s)]
  BY DEF FlattenSeq
<1>2. \E g : g = [i \in 1 .. Len(s) |-> IF i = 1 THEN s[i] ELSE g[i - 1] \o s[i]]
  <2>1. PICK g : Joined(g, s, Len(s))
    BY JoinedExists
  <2>2. g = [i \in 1 .. Len(s) |-> IF i = 1 THEN s[i] ELSE g[i - 1] \o s[i]]
    BY <2>1 DEF Joined
  <2> QED BY <2>2
<1>3. Joined(f, s, Len(s))
  BY <1>2 DEF Joined
<1> QED BY <1>1, <1>3

\* The partial results are sequences of the same elements.
LEMMA JoinedTyped ==
  ASSUME NEW A, NEW s \in Seq(Seq(A)), NEW f, NEW n \in 1 .. Len(s), Joined(f, s, n)
  PROVE  /\ \A i \in 1 .. n : f[i] = IF i = 1 THEN s[i] ELSE f[i - 1] \o s[i]
         /\ \A i \in 1 .. n : f[i] \in Seq(A)
<1>0. n \in Nat /\ n > 0 /\ \A i \in 1 .. n : s[i] \in Seq(A)
  OBVIOUS
<1>1. \A i \in 1 .. n : f[i] = IF i = 1 THEN s[i] ELSE f[i - 1] \o s[i]
  BY DEF Joined
<1> DEFINE P == {k \in 0 .. n - 1 : f[k + 1] \in Seq(A)}
<1>2. 0 \in P
  <2>1. f[1] = s[1] /\ 1 \in 1 .. n /\ 0 + 1 = 1
    BY <1>0, <1>1
  <2> QED BY <1>0, <2>1
<1>3. ASSUME NEW k \in 0 .. (n - 1) - 1, k \in P
      PROVE  k + 1 \in P
  <2>1. /\ (k + 1) + 1 \in 1 .. n /\ (k + 1) + 1 # 1 /\ ((k + 1) + 1) - 1 = k + 1
        /\ k + 1 \in 0 .. n - 1
    BY <1>0
  <2> DEFINE a == f[k + 1]
             b == s[(k + 1) + 1]
  <2>2. f[(k + 1) + 1] = a \o b
    BY <1>1, <2>1
  <2>3. a \in Seq(A) /\ b \in Seq(A)
    BY <1>0, <1>3, <2>1
  <2> HIDE DEF a, b
  <2>4. a \o b \in Seq(A)
    BY <2>3
  <2> QED BY <2>1, <2>2, <2>4
<1>4. \A k \in 0 .. n - 1 : k \in P
  <2>1. n - 1 \in Nat
    BY <1>0
  <2> HIDE DEF P
  <2> QED BY <1>2, <1>3, <2>1, Upto
<1>5. ASSUME NEW i \in 1 .. n
      PROVE  f[i] \in Seq(A)
  <2>1. i - 1 \in 0 .. n - 1 /\ (i - 1) + 1 = i
    BY <1>0
  <2>2. i - 1 \in P
    BY <1>4, <2>1
  <2> QED BY <2>1, <2>2
<1> QED BY <1>1, <1>5

\* One more sequence at the end: its elements follow the others.
LEMMA FlattenSnoc ==
  ASSUME NEW A, NEW s \in Seq(Seq(A)), NEW x \in Seq(A), Len(s) > 0
  PROVE  FlattenSeq(Append(s, x)) = FlattenSeq(s) \o x
<1> DEFINE n == Len(s)
           t == Append(s, x)
<1>0. /\ n \in Nat /\ n > 0 /\ t \in Seq(Seq(A)) /\ Len(t) = n + 1 /\ t[n + 1] = x
      /\ \A i \in 1 .. n : t[i] = s[i]
  OBVIOUS
<1> HIDE DEF t
<1>1. PICK f : Joined(f, s, n) /\ FlattenSeq(s) = f[n]
  BY <1>0, FlattenJoins
<1>2. PICK g : Joined(g, t, n + 1) /\ FlattenSeq(t) = g[n + 1]
  <2>1. Len(t) \in Nat /\ Len(t) > 0
    BY <1>0
  <2>2. PICK g : Joined(g, t, Len(t)) /\ FlattenSeq(t) = g[Len(t)]
    BY <2>1, FlattenJoins
  <2> QED BY <1>0, <2>2
<1>3. /\ \A i \in 1 .. n : f[i] = IF i = 1 THEN s[i] ELSE f[i - 1] \o s[i]
      /\ \A i \in 1 .. n + 1 : g[i] = IF i = 1 THEN t[i] ELSE g[i - 1] \o t[i]
  BY <1>1, <1>2 DEF Joined
<1> DEFINE P == {k \in 0 .. n - 1 : f[k + 1] = g[k + 1]}
<1>4. 0 \in P
  BY <1>0, <1>3
<1>5. ASSUME NEW k \in 0 .. (n - 1) - 1, k \in P
      PROVE  k + 1 \in P
  <2>1. /\ (k + 1) + 1 \in 1 .. n /\ (k + 1) + 1 \in 1 .. n + 1 /\ (k + 1) + 1 # 1
        /\ ((k + 1) + 1) - 1 = k + 1 /\ k + 1 \in 0 .. n - 1
    BY <1>0
  <2>2. /\ f[(k + 1) + 1] = f[k + 1] \o s[(k + 1) + 1]
        /\ g[(k + 1) + 1] = g[k + 1] \o t[(k + 1) + 1]
    BY <1>3, <2>1
  <2> QED BY <1>0, <1>5, <2>1, <2>2
<1>6. n - 1 \in P
  <2>1. n - 1 \in Nat /\ n - 1 \in 0 .. n - 1
    BY <1>0
  <2> HIDE DEF P
  <2> QED BY <1>4, <1>5, <2>1, Upto
<1>7. f[n] = g[n]
  <2>1. (n - 1) + 1 = n
    BY <1>0
  <2> QED BY <1>6, <2>1
<1>8. g[n + 1] = g[n] \o x
  <2>1. n + 1 \in 1 .. n + 1 /\ n + 1 # 1 /\ (n + 1) - 1 = n
    BY <1>0
  <2> QED BY <1>0, <1>3, <2>1
<1> QED BY <1>1, <1>2, <1>7, <1>8 DEF t

\* One more sequence at the front: its elements precede the others.
LEMMA FlattenCons ==
  ASSUME NEW A, NEW s \in Seq(Seq(A)), NEW t \in Seq(Seq(A)), Len(t) > 0, Follows(s, t)
  PROVE  FlattenSeq(s) = s[1] \o FlattenSeq(t)
<1> DEFINE n == Len(t)
<1>0. n \in Nat /\ n > 0 /\ Len(s) = n + 1 /\ \A i \in 1 .. n : s[i + 1] = t[i]
  <2>1. n \in Nat
    OBVIOUS
  <2>2. Len(s) = n + 1 /\ \A i \in 1 .. n : s[i + 1] = t[i]
    BY DEF Follows
  <2> QED BY <2>1, <2>2
<1>1. PICK f : Joined(f, s, n + 1) /\ FlattenSeq(s) = f[n + 1]
  <2>1. Len(s) \in Nat /\ Len(s) > 0
    BY <1>0
  <2>2. PICK f : Joined(f, s, Len(s)) /\ FlattenSeq(s) = f[Len(s)]
    BY <2>1, FlattenJoins
  <2> QED BY <1>0, <2>2
<1>2. PICK g : Joined(g, t, n) /\ FlattenSeq(t) = g[n]
  BY <1>0, FlattenJoins
<1>3. /\ \A i \in 1 .. n : g[i] = IF i = 1 THEN t[i] ELSE g[i - 1] \o t[i]
      /\ \A i \in 1 .. n : g[i] \in Seq(A)
  <2>1. n \in 1 .. Len(t)
    BY <1>0
  <2> QED BY <1>2, <2>1, JoinedTyped
<1>4. \A i \in 1 .. n + 1 : f[i] = IF i = 1 THEN s[i] ELSE f[i - 1] \o s[i]
  BY <1>1 DEF Joined
<1>5. s[1] \in Seq(A) /\ \A i \in 1 .. n : t[i] \in Seq(A)
  BY <1>0 DEF Follows
<1> DEFINE P == {k \in 0 .. n - 1 : f[(k + 1) + 1] = s[1] \o g[k + 1]}
<1>6. 0 \in P
  <2>1. 1 \in 1 .. n + 1 /\ 2 \in 1 .. n + 1 /\ 1 \in 1 .. n /\ 2 - 1 = 1 /\ (0 + 1) + 1 = 2
    BY <1>0
  <2>2. f[1] = s[1] /\ g[1] = t[1]
    BY <1>3, <1>4, <2>1
  <2>4. f[2] = f[1] \o s[2]
    <3>1. 2 # 1
      OBVIOUS
    <3>2. f[2] = f[2 - 1] \o s[2]
      BY <1>4, <2>1, <3>1
    <3> QED BY <2>1, <3>2
  <2>3. s[2] = t[1]
    <3>1. s[1 + 1] = t[1]
      BY <1>0, <2>1
    <3> QED BY <3>1
  <2>5. f[(0 + 1) + 1] = s[1] \o g[0 + 1]
    <3>1. (0 + 1) + 1 = 2 /\ 0 + 1 = 1
      OBVIOUS
    <3> QED BY <2>2, <2>3, <2>4, <3>1
  <2>6. 0 \in 0 .. n - 1
    BY <1>0
  <2> QED BY <2>5, <2>6
<1>7. ASSUME NEW k \in 0 .. (n - 1) - 1, k \in P
      PROVE  k + 1 \in P
  <2> DEFINE j == (k + 1) + 1
  <2>1. /\ j \in 1 .. n /\ j # 1 /\ j - 1 = k + 1 /\ j + 1 \in 1 .. n + 1 /\ j + 1 # 1
        /\ (j + 1) - 1 = j /\ k + 1 \in 0 .. n - 1 /\ k + 1 \in 1 .. n
    BY <1>0
  <2>2. f[j + 1] = f[j] \o s[j + 1] /\ s[j + 1] = t[j] /\ g[j] = g[k + 1] \o t[j]
    BY <1>0, <1>3, <1>4, <2>1
  <2>3. f[j] = s[1] \o g[k + 1]
    BY <1>7
  <2>4. (s[1] \o g[k + 1]) \o t[j] = s[1] \o (g[k + 1] \o t[j])
    <3>1. s[1] \in Seq(A) /\ g[k + 1] \in Seq(A) /\ t[j] \in Seq(A)
      BY <1>3, <1>5, <2>1
    <3>2. Cat(Cat(s[1], g[k + 1]), t[j]) = Cat(s[1], Cat(g[k + 1], t[j]))
      BY <3>1, CatAssociates
    <3> QED BY <3>2 DEF Cat
  <2> QED BY <2>1, <2>2, <2>3, <2>4
<1>8. n - 1 \in P
  <2>1. n - 1 \in Nat /\ n - 1 \in 0 .. n - 1
    BY <1>0
  <2> HIDE DEF P
  <2> QED BY <1>6, <1>7, <2>1, Upto
<1>9. f[n + 1] = s[1] \o g[n]
  <2>1. (n - 1) + 1 = n
    BY <1>0
  <2> QED BY <1>8, <2>1
<1> QED BY <1>1, <1>2, <1>9

\* The operations of the transactions of a queue, one sequence each.
LEMMA PartsTyped ==
  ASSUME NEW B, NEW q \in Seq(Txns), \A i \in 1 .. Len(q) : q[i].ops \in Seq(B)
  PROVE  /\ Parts(q) \in Seq(Seq(B)) /\ Len(Parts(q)) = Len(q)
         /\ \A i \in 1 .. Len(q) : Parts(q)[i] = q[i].ops
<1>1. Len(q) \in Nat
  OBVIOUS
<1>2. Parts(q) \in Seq(Seq(B))
  BY <1>1, IsASeq DEF Parts
<1>3. DOMAIN Parts(q) = 1 .. Len(q)
  BY DEF Parts
<1>4. Len(Parts(q)) = Len(q)
  BY <1>1, <1>2, <1>3, LenProperties
<1>5. \A i \in 1 .. Len(q) : Parts(q)[i] = q[i].ops
  BY DEF Parts
<1> QED BY <1>2, <1>4, <1>5

\* What a queue holds are transactions.
LEMMA TxnOps ==
  ASSUME NEW q \in Seq(Txns)
  PROVE  Len(q) \in Nat /\ \A i \in 1 .. Len(q) : q[i] \in Txns /\ q[i].ops \in Seq(Ops)
<1>1. Len(q) \in Nat /\ \A i \in 1 .. Len(q) : q[i] \in Txns
  OBVIOUS
<1>2. \A T \in Txns : T.ops \in Seq(Ops)
  BY DEF Txns
<1> QED BY <1>1, <1>2

\* An empty queue has no operations.
LEMMA FlatNone ==
  ASSUME NEW q \in Seq(Txns), Len(q) < 1
  PROVE  Flat(q) = <<>>
<1>1. Parts(q) \in Seq(Seq(Ops)) /\ Len(Parts(q)) = Len(q)
  BY TxnOps, PartsTyped
<1>2. Len(Parts(q)) = 0
  BY <1>1
<1>3. FlattenSeq(Parts(q)) = Parts(q)
  BY <1>2 DEF FlattenSeq
<1>4. Parts(q) = <<>>
  BY <1>1, <1>2, EmptySeq
<1> QED BY <1>3, <1>4 DEF Flat, Parts

\* A queue of one transaction has its operations.
LEMMA FlatOne ==
  ASSUME NEW q \in Seq(Txns), Len(q) = 1
  PROVE  Flat(q) = q[1].ops
<1>1. Parts(q) \in Seq(Seq(Ops)) /\ Len(Parts(q)) = 1 /\ Parts(q)[1] = q[1].ops
  BY TxnOps, PartsTyped
<1>2. PICK f : Joined(f, Parts(q), Len(Parts(q))) /\ FlattenSeq(Parts(q)) = f[Len(Parts(q))]
  <2>1. Len(Parts(q)) \in Nat /\ Len(Parts(q)) > 0
    BY <1>1
  <2> QED BY <2>1, FlattenJoins
<1>3. f[1] = Parts(q)[1]
  BY <1>1, <1>2 DEF Joined
<1> QED BY <1>1, <1>2, <1>3 DEF Flat, Parts

\* The operations of a queue are those of its transactions.
LEMMA FlatTyped ==
  ASSUME NEW B, NEW q \in Seq(Txns), \A i \in 1 .. Len(q) : q[i].ops \in Seq(B)
  PROVE  Flat(q) \in Seq(B)
<1>1. /\ Parts(q) \in Seq(Seq(B)) /\ Len(Parts(q)) = Len(q) /\ Len(q) \in Nat
  BY PartsTyped
<1>2. CASE Len(q) < 1
  <2>1. Flat(q) = <<>>
    BY <1>2, FlatNone
  <2> QED BY <2>1
<1>3. CASE Len(q) > 0
  <2> DEFINE n == Len(q)
             s == Parts(q)
  <2>1. Len(s) = n /\ n > 0 /\ n \in Nat /\ s \in Seq(Seq(B)) /\ n \in 1 .. Len(s)
    BY <1>1, <1>3
  <2> HIDE DEF n, s
  <2>2. PICK f : Joined(f, s, Len(s)) /\ FlattenSeq(s) = f[Len(s)]
    BY <2>1, FlattenJoins
  <2>3. \A i \in 1 .. n : f[i] \in Seq(B)
    BY <2>1, <2>2, JoinedTyped
  <2>4. FlattenSeq(s) \in Seq(B)
    BY <2>1, <2>2, <2>3
  <2> QED BY <2>4 DEF Flat, Parts, s
<1> QED BY <1>1, <1>2, <1>3

\* A transaction prepared: its operations come last.
LEMMA FlatAppend ==
  ASSUME NEW q \in Seq(Txns), NEW T \in Txns
  PROVE  Append(q, T) \in Seq(Txns) /\ Flat(Append(q, T)) = Flat(q) \o T.ops
<1> DEFINE r == Append(q, T)
<1>1. /\ r \in Seq(Txns) /\ Len(r) = Len(q) + 1 /\ r[Len(q) + 1] = T
      /\ \A i \in 1 .. Len(q) : r[i] = q[i]
      /\ Len(q) \in Nat
  OBVIOUS
<1>2. T.ops \in Seq(Ops)
  BY DEF Txns
<1> HIDE DEF r
<1>3. /\ Parts(r) \in Seq(Seq(Ops)) /\ Len(Parts(r)) = Len(r)
      /\ \A i \in 1 .. Len(r) : Parts(r)[i] = r[i].ops
  BY <1>1, TxnOps, PartsTyped
<1>4. /\ Parts(q) \in Seq(Seq(Ops)) /\ Len(Parts(q)) = Len(q)
      /\ \A i \in 1 .. Len(q) : Parts(q)[i] = q[i].ops
  BY TxnOps, PartsTyped
<1>5. CASE Len(q) < 1
  <2>1. Flat(q) = <<>>
    BY <1>5, FlatNone
  <2>2. Len(r) = 1 /\ r[1] = T
    BY <1>1, <1>5
  <2>3. Flat(r) = T.ops
    BY <1>1, <2>2, FlatOne
  <2>4. <<>> \o T.ops = T.ops
    BY <1>2, ConcatEmptySeq
  <2> QED BY <1>1, <2>1, <2>3, <2>4 DEF r
<1>6. CASE Len(q) > 0
  <2> DEFINE s == Parts(q)
             t == Parts(r)
             x == T.ops
  <2>1. /\ s \in Seq(Seq(Ops)) /\ t \in Seq(Seq(Ops)) /\ x \in Seq(Ops)
        /\ Len(s) = Len(q) /\ Len(t) = Len(q) + 1 /\ t[Len(q) + 1] = x
        /\ \A i \in 1 .. Len(q) : t[i] = s[i]
    <3>1. s \in Seq(Seq(Ops)) /\ t \in Seq(Seq(Ops)) /\ Len(s) = Len(q) /\ Len(t) = Len(q) + 1
      BY <1>1, <1>3, <1>4
    <3>2. t[Len(q) + 1] = x
      <4>1. Len(q) + 1 \in 1 .. Len(r)
        BY <1>1
      <4> QED BY <1>1, <1>3, <4>1
    <3>3. ASSUME NEW i \in 1 .. Len(q)
          PROVE  t[i] = s[i]
      <4>1. i \in 1 .. Len(r)
        BY <1>1
      <4> QED BY <1>1, <1>3, <1>4, <4>1
    <3> QED BY <1>2, <3>1, <3>2, <3>3
  <2> HIDE DEF s, t, x
  <2>2. Append(s, x) \in Seq(Seq(Ops)) /\ Len(Append(s, x)) = Len(s) + 1
        /\ \A i \in 1 .. Len(s) : Append(s, x)[i] = s[i]
        /\ Append(s, x)[Len(s) + 1] = x
    BY <2>1, AppendProperties
  <2>3. t = Append(s, x)
    <3>1. Len(t) = Len(Append(s, x))
      BY <2>1, <2>2
    <3>2. \A i \in 1 .. Len(t) : t[i] = Append(s, x)[i]
      BY <1>1, <2>1, <2>2
    <3> QED BY <2>1, <2>2, <3>1, <3>2, SeqEqual
  <2>4. FlattenSeq(Append(s, x)) = FlattenSeq(s) \o x
    BY <1>6, <2>1, FlattenSnoc
  <2>5. Flat(r) = FlattenSeq(t) /\ Flat(q) = FlattenSeq(s)
    BY DEF Flat, Parts, s, t
  <2> QED BY <1>1, <2>3, <2>4, <2>5 DEF r, x
<1> QED BY <1>1, <1>5, <1>6

\* A transaction handed over: its operations came first.
LEMMA FlatHead ==
  ASSUME NEW q \in Seq(Txns), Len(q) > 0
  PROVE  Tail(q) \in Seq(Txns) /\ Flat(q) = Head(q).ops \o Flat(Tail(q))
<1> DEFINE r == Tail(q)
<1>0. q # <<>>
  OBVIOUS
<1>1. /\ r \in Seq(Txns) /\ Len(q) = Len(r) + 1 /\ Head(q) = q[1] /\ Head(q) \in Txns
      /\ \A i \in 1 .. Len(r) : r[i] = q[i + 1]
      /\ Len(q) \in Nat /\ Len(r) \in Nat
  BY <1>0, HeadTailProperties
<1>2. Head(q).ops \in Seq(Ops)
  BY <1>1 DEF Txns
<1> HIDE DEF r
<1>3. /\ Parts(r) \in Seq(Seq(Ops)) /\ Len(Parts(r)) = Len(r)
      /\ \A i \in 1 .. Len(r) : Parts(r)[i] = r[i].ops
  BY <1>1, TxnOps, PartsTyped
<1>4. /\ Parts(q) \in Seq(Seq(Ops)) /\ Len(Parts(q)) = Len(q)
      /\ \A i \in 1 .. Len(q) : Parts(q)[i] = q[i].ops
  BY TxnOps, PartsTyped
<1>5. CASE Len(r) < 1
  <2>1. Flat(r) = <<>>
    BY <1>1, <1>5, FlatNone
  <2>2. Len(q) = 1
    BY <1>1, <1>5
  <2>3. Flat(q) = Head(q).ops
    BY <1>1, <2>2, FlatOne
  <2>4. Head(q).ops \o <<>> = Head(q).ops
    BY <1>2, ConcatEmptySeq
  <2> QED BY <1>1, <2>1, <2>3, <2>4 DEF r
<1>6. CASE Len(r) > 0
  <2> DEFINE s == Parts(q)
             t == Parts(r)
  <2>1. /\ s \in Seq(Seq(Ops)) /\ t \in Seq(Seq(Ops))
        /\ Len(t) > 0 /\ Len(s) = Len(t) + 1
        /\ \A i \in 1 .. Len(t) : s[i + 1] = t[i]
        /\ s[1] = Head(q).ops
    <3>1. s \in Seq(Seq(Ops)) /\ t \in Seq(Seq(Ops)) /\ Len(t) > 0 /\ Len(s) = Len(t) + 1
      BY <1>1, <1>3, <1>4, <1>6
    <3>2. s[1] = Head(q).ops
      <4>1. 1 \in 1 .. Len(q)
        BY <1>1
      <4> QED BY <1>1, <1>4, <4>1
    <3>3. ASSUME NEW i \in 1 .. Len(t)
          PROVE  s[i + 1] = t[i]
      <4>1. i \in 1 .. Len(r) /\ i + 1 \in 1 .. Len(q)
        BY <1>1, <1>3
      <4>2. s[i + 1] = q[i + 1].ops
        BY <1>4, <4>1
      <4>3. t[i] = r[i].ops
        BY <1>3, <4>1
      <4> QED BY <1>1, <4>1, <4>2, <4>3
    <3> QED BY <3>1, <3>2, <3>3
  <2>2. Follows(s, t)
    BY <2>1 DEF Follows
  <2> HIDE DEF s, t
  <2>4. FlattenSeq(s) = s[1] \o FlattenSeq(t)
    BY <2>1, <2>2, FlattenCons
  <2>5. Flat(r) = FlattenSeq(t) /\ Flat(q) = FlattenSeq(s)
    BY DEF Flat, Parts, s, t
  <2> QED BY <1>1, <2>1, <2>4, <2>5 DEF r
<1> QED BY <1>1, <1>5, <1>6

\* What is on its way to the store are operations.
LEMMA OpsOnTyped ==
  ASSUME NEW B, NEW c \in Seq(B), NEW q \in Seq(Txns),
         \A i \in 1 .. Len(q) : q[i].ops \in Seq(B)
  PROVE  OpsOn(c, q) \in Seq(B)
<1>1. Flat(q) \in Seq(B)
  BY FlatTyped
<1> QED BY <1>1, ConcatProperties DEF OpsOn

\* A transaction prepared adds its operations behind what is on its way.
LEMMA OpsOnAppend ==
  ASSUME NEW c \in Seq(Ops), NEW q \in Seq(Txns), NEW T \in Txns
  PROVE  OpsOn(c, Append(q, T)) = OpsOn(c, q) \o T.ops
<1>1. Flat(Append(q, T)) = Flat(q) \o T.ops
  BY FlatAppend
<1>2. T.ops \in Seq(Ops) /\ Flat(q) \in Seq(Ops)
  BY TxnOps, FlatTyped DEF Txns
<1>3. Cat(Cat(c, Flat(q)), T.ops) = Cat(c, Cat(Flat(q), T.ops))
  BY <1>2, CatAssociates
<1> QED BY <1>1, <1>3 DEF Cat, OpsOn

\* A transaction handed over changes nothing in what is on its way.
LEMMA OpsOnTake ==
  ASSUME NEW c \in Seq(Ops), Len(c) < 1, NEW q \in Seq(Txns), Len(q) > 0
  PROVE  OpsOn(Head(q).ops, Tail(q)) = OpsOn(c, q)
<1>1. Flat(q) = Head(q).ops \o Flat(Tail(q))
  BY FlatHead
<1>2. c = <<>>
  BY EmptySeq
<1>3. Flat(q) \in Seq(Ops)
  BY TxnOps, FlatTyped
<1>4. <<>> \o Flat(q) = Flat(q)
  BY <1>3, ConcatEmptySeq
<1> QED BY <1>1, <1>2, <1>4 DEF OpsOn

\* Nothing handed over in part and nothing queued: nothing on its way.
LEMMA OpsOnNone ==
  ASSUME NEW c \in Seq(Ops), Len(c) < 1, NEW q \in Seq(Txns), Len(q) < 1
  PROVE  OpsOn(c, q) = <<>>
<1>1. Flat(q) = <<>>
  BY FlatNone
<1>2. c = <<>>
  BY EmptySeq
<1>3. <<>> \o <<>> = <<>>
  OBVIOUS
<1> QED BY <1>1, <1>2, <1>3 DEF OpsOn

\* Applying the next operation ends in the state it would have ended in,
\* and passes through no state that was not to come.
LEMMA OpsOnApply ==
  ASSUME NEW c \in Seq(Ops), Len(c) > 0, NEW q \in Seq(Txns), NEW st
  PROVE  LET ops == OpsOn(c, q)
             rest == OpsOn(Tail(c), q)
             next == Apply(Head(c), st)
         IN  /\ Head(c) \in Ops /\ Tail(c) \in Seq(Ops)
             /\ ApplyAll(rest, next) = ApplyAll(ops, st)
             /\ PassingOf(rest, next) \subseteq PassingOf(ops, st)
             /\ StagesOf(rest, next) \subseteq StagesOf(ops, st)
             /\ <<st, Head(c)>> \in StagesOf(ops, st)
             /\ next \in PassingOf(ops, st)
<1> DEFINE ops == OpsOn(c, q)
           rest == OpsOn(Tail(c), q)
           next == Apply(Head(c), st)
<1>0. c # <<>>
  OBVIOUS
<1>1. /\ Head(c) = c[1] /\ Head(c) \in Ops /\ Tail(c) \in Seq(Ops) /\ Len(c) = Len(Tail(c)) + 1
      /\ \A i \in 1 .. Len(Tail(c)) : Tail(c)[i] = c[i + 1]
  BY <1>0, HeadTailProperties
<1>2. ops \in Seq(Ops) /\ rest \in Seq(Ops)
  <2>1. \A i \in 1 .. Len(q) : q[i].ops \in Seq(Ops)
    BY TxnOps
  <2> QED BY <1>1, <2>1, OpsOnTyped
<1>3. Len(ops) = Len(rest) + 1 /\ ops[1] = Head(c) /\ \A i \in 1 .. Len(rest) : ops[i + 1] = rest[i]
  <2> DEFINE f == Flat(q)
             d == Tail(c)
  <2>1. f \in Seq(Ops)
    BY TxnOps, FlatTyped
  <2>2. /\ d \in Seq(Ops) /\ Len(c) = Len(d) + 1 /\ \A i \in 1 .. Len(d) : d[i] = c[i + 1]
        /\ Len(d) \in Nat /\ Len(f) \in Nat
    BY <1>1, <2>1
  <2> HIDE DEF f, d
  <2>3. /\ Len(c \o f) = Len(c) + Len(f)
        /\ \A i \in 1 .. Len(c) + Len(f) :
              (c \o f)[i] = IF i <= Len(c) THEN c[i] ELSE f[i - Len(c)]
    BY <2>1, ConcatProperties
  <2>4. /\ Len(d \o f) = Len(d) + Len(f)
        /\ \A i \in 1 .. Len(d) + Len(f) :
              (d \o f)[i] = IF i <= Len(d) THEN d[i] ELSE f[i - Len(d)]
    BY <2>1, <2>2, ConcatProperties
  <2>5. ops = c \o f /\ rest = d \o f
    BY DEF OpsOn, f, d
  <2> HIDE DEF ops, rest
  <2>6. Len(ops) = Len(rest) + 1
    BY <2>2, <2>3, <2>4, <2>5
  <2>7. ops[1] = Head(c)
    <3>1. 1 \in 1 .. Len(c) + Len(f) /\ 1 <= Len(c)
      BY <2>2
    <3> QED BY <1>1, <2>3, <2>5, <3>1
  <2>8. ASSUME NEW i \in 1 .. Len(rest)
        PROVE  ops[i + 1] = rest[i]
    <3>1. i \in 1 .. Len(d) + Len(f) /\ i + 1 \in 1 .. Len(c) + Len(f)
      BY <2>2, <2>4, <2>5
    <3>2. CASE i <= Len(d)
      <4>1. i \in 1 .. Len(d) /\ i + 1 <= Len(c)
        BY <2>2, <3>1, <3>2
      <4>2. ops[i + 1] = c[i + 1] /\ rest[i] = d[i]
        BY <2>3, <2>4, <2>5, <3>1, <3>2, <4>1
      <4> QED BY <2>2, <4>1, <4>2
    <3>3. CASE ~(i <= Len(d))
      <4>1. ~(i + 1 <= Len(c)) /\ (i + 1) - Len(c) = i - Len(d)
        BY <2>2, <3>1, <3>3
      <4>2. ops[i + 1] = f[(i + 1) - Len(c)] /\ rest[i] = f[i - Len(d)]
        BY <2>3, <2>4, <2>5, <3>1, <3>3, <4>1
      <4> QED BY <4>1, <4>2
    <3> QED BY <3>2, <3>3
  <2> QED BY <2>6, <2>7, <2>8
<1> HIDE DEF ops, rest
<1>4. /\ ApplyAll(ops, st) = ApplyAll(rest, next)
      /\ PassingOf(ops, st) = {st} \cup PassingOf(rest, next)
      /\ StagesOf(ops, st) = {<<st, Head(c)>>} \cup StagesOf(rest, next)
  <2>1. Begins(ops, Head(c), rest)
    BY <1>3 DEF Begins
  <2>2. Head(c) \in Ops
    BY <1>1
  <2> QED BY <1>2, <2>1, <2>2, BeginsWith
<1>5. next \in PassingOf(rest, next)
  BY <1>2, EndsPassing
<1> QED BY <1>1, <1>4, <1>5 DEF ops, rest

\* What is on its way was given by a transaction.
LEMMA OpsOnFrom ==
  ASSUME NEW c \in Seq(Ops), NEW q \in Seq(Txns), NEW B \in SUBSET Ops,
         \A i \in 1 .. Len(c) : c[i] \in B,
         \A i \in 1 .. Len(q) : Given(q[i]) \subseteq B
  PROVE  \A i \in 1 .. Len(OpsOn(c, q)) : OpsOn(c, q)[i] \in B
<1>1. c \in Seq(B)
  OBVIOUS
<1>2. ASSUME NEW i \in 1 .. Len(q)
      PROVE  q[i].ops \in Seq(B)
  <2>1. q[i].ops \in Seq(Ops)
    BY TxnOps
  <2>2. \A k \in 1 .. Len(q[i].ops) : q[i].ops[k] \in B
    BY DEF Given
  <2> DEFINE a == q[i].ops
  <2> HIDE DEF a
  <2>3. a \in Seq(Ops) /\ \A k \in 1 .. Len(a) : a[k] \in B
    BY <2>1, <2>2 DEF a
  <2>4. a \in Seq(B)
    BY <2>3
  <2> QED BY <2>4 DEF a
<1>3. OpsOn(c, q) \in Seq(B)
  BY <1>1, <1>2, OpsOnTyped
<1> QED BY <1>3, ElementOfSeq

-----------------------------------------------------------------------------
\* The store ends settled, in one of the states it passes through.
LEMMA Queued ==
  ASSUME Types
  PROVE  /\ Pending \in Seq(Ops)
         /\ Settled = ApplyAll(Pending, store)
         /\ Settled \in Passing /\ store \in Passing
         /\ Passing \subseteq Contents
         /\ \A g \in Stages : g = <<g[1], g[2]>> /\ g[1] \in Passing /\ g[2] \in Ops
<1>1. Pending \in Seq(Ops)
  <2>1. \A i \in 1 .. Len(queue) : queue[i].ops \in Seq(Ops)
    BY TxnOps DEF Types
  <2> QED BY <2>1, OpsOnTyped DEF Types, Pending
<1>2. Settled = ApplyAll(Pending, store)
  BY DEF Settled, Pending, OpsOn, Flat
<1>3. Settled \in Passing /\ store \in Passing
  BY <1>1, <1>2, EndsPassing DEF Passing
<1>4. Passing \subseteq Contents
  BY <1>1, ApplyAllTyped DEF Passing, Types
<1>5. \A g \in Stages : g = <<g[1], g[2]>> /\ g[1] \in Passing /\ g[2] \in Ops
  BY <1>1, StagesTyped DEF Stages, Passing
<1> QED BY <1>1, <1>2, <1>3, <1>4, <1>5

\* A transaction prepared adds its states to those to come.
LEMMA Prepared ==
  ASSUME Types, NEW T \in Txns, queue' = Append(queue, T), UNCHANGED <<current, store>>
  PROVE  /\ Settled' = ApplyAll(T.ops, Settled)
         /\ Passing' = Passing \cup PassingOf(T.ops, Settled)
         /\ Stages' = Stages \cup StagesOf(T.ops, Settled)
         /\ queue' \in Seq(Txns)
<1>1. T.ops \in Seq(Ops) /\ Pending \in Seq(Ops) /\ Settled = ApplyAll(Pending, store)
  BY Queued DEF Txns
<1>2. Pending' = Pending \o T.ops
  BY OpsOnAppend DEF Pending, Types
<1>3. Settled' = ApplyAll(Pending', store')
  BY DEF Settled, Pending, OpsOn, Flat
<1>4. queue' \in Seq(Txns)
  BY FlatAppend DEF Types
<1>5. /\ ApplyAll(Pending \o T.ops, store) = ApplyAll(T.ops, Settled)
      /\ PassingOf(Pending \o T.ops, store) = Passing \cup PassingOf(T.ops, Settled)
      /\ StagesOf(Pending \o T.ops, store) = Stages \cup StagesOf(T.ops, Settled)
  BY <1>1, PassingCat DEF Passing, Stages
<1> QED BY <1>2, <1>3, <1>4, <1>5 DEF Passing, Stages

\* Where nothing is prepared or applied, all that is to come stays.
LEMMA NotPrepared ==
  ASSUME UNCHANGED <<queue, current, store>>
  PROVE  Settled' = Settled /\ Passing' = Passing /\ Stages' = Stages /\ Pending' = Pending
BY DEF Settled, Passing, Stages, Pending, OpsOn, Flat

-----------------------------------------------------------------------------
(* Reading.                                                                *)

\* What a step that leaves the store and what is coming to it alone keeps.
LEMMA SameStore ==
  ASSUME IInv, UNCHANGED <<bluestore, phase, crashes, aborted>>
  PROVE  /\ Ending' /\ MidPut' /\ DiskTrue'
         /\ Coming' = Coming /\ Settled' = Settled /\ Passing' = Passing
         /\ Stages' = Stages /\ (phase' = "serving") = (phase = "serving")
<1>1. Ending' /\ MidPut'
  BY DEF IInv, bluestore, Ending, MidPut
<1>2. DiskTrue'
  BY DEF IInv, bluestore, DiskTrue
<1>3. Coming' = Coming
  BY DEF Coming, bluestore
<1>4. Settled' = Settled /\ Passing' = Passing /\ Stages' = Stages
  BY NotPrepared DEF bluestore
<1> QED BY <1>1, <1>2, <1>3, <1>4

\* A step that only changes what is being read.
LEMMA OnlyReads ==
  ASSUME IInv, phase = "serving", NEW f, reads' = [o \in Objects |-> f[o]],
         UNCHANGED <<objs, held, last, bluestore, phase, crashes, aborted>>,
         \A o \in Objects : reads'[o] # NoRead => Reading(reads'[o], objs[o])
  PROVE  IInv'
<1>1. /\ Ending' /\ MidPut' /\ DiskTrue'
      /\ Coming' = Coming /\ Settled' = Settled /\ Passing' = Passing
      /\ Stages' = Stages /\ (phase' = "serving") = (phase = "serving")
  BY SameStore
<1>2. Types'
  BY DEF IInv, Types, bluestore
<1>3. Frozen'
  BY DEF Frozen, bluestore
<1>4. PassingTrue' /\ StagesTrue' /\ SettledTrue'
  BY <1>1 DEF IInv, PassingTrue, StagesTrue, SettledTrue
<1>5. ObjectsTrue' /\ HeldTrue' /\ Answered'
  BY <1>1 DEF IInv, ObjectsTrue, HeldTrue, Answered
<1>6. ReadsTrue'
  <2>1. ASSUME NEW o \in Objects, reads'[o] # NoRead
        PROVE  Reading(reads[o], objs[o])'
    <3>1. Reading(reads'[o], objs[o])
      BY <2>1
    <3> QED BY <1>1, <3>1 DEF Reading, Gone, bluestore
  <2> QED BY <2>1 DEF ReadsTrue, Idle
<1> QED BY <1>1, <1>2, <1>3, <1>4, <1>5, <1>6 DEF IInv

\* read_bytes(): what is at the address has the bytes of the Object, or
\* has left the name for good.
LEMMA ReadBytesStep ==
  ASSUME IInv, NEW o \in Objects, ReadBytes(o)
  PROVE  IInv'
<1> DEFINE r == reads[o]
           x == objs[o]
           f == [reads EXCEPT ![o] = IF store[r.at] # NoEntry
                     THEN [at |-> r.at, got |-> "bytes", data |-> store[r.at].data]
                     ELSE NoRead]
<1>1. /\ phase = "serving" /\ reads[o] # NoRead /\ r.got = "no"
      /\ reads' = f
      /\ UNCHANGED <<objs, held, last, bluestore, phase, crashes, aborted>>
  BY DEF ReadBytes, Running, Idle
<1>2. Types
  BY DEF IInv
<1>3. /\ f = [p \in Objects |-> f[p]]
      /\ \A p \in Objects : p # o => f[p] = reads[p]
      /\ f[o] = IF store[r.at] # NoEntry
                     THEN [at |-> r.at, got |-> "bytes", data |-> store[r.at].data]
                     ELSE NoRead
  BY <1>2 DEF Types
<1>4. Reading(r, x)
  BY <1>1 DEF IInv, ReadsTrue, Idle
<1>5. ASSUME store[r.at] # NoEntry
      PROVE  Reading([at |-> r.at, got |-> "bytes", data |-> store[r.at].data], x)
  <2> DEFINE S == store
  <2>1. store \in Passing
    BY <1>2, Queued
  <2>2. Seen(store, Settled, objs, phase = "serving")
    BY <2>1 DEF IInv, PassingTrue
  <2>3. Placed(x) /\ r.at \in {Ordinary(x.name), Temporary(x.name, x.ts)}
    BY <1>4 DEF Reading
  <2>4. x.name \in Names /\ x.ts \in Nat /\ x.ts \in Puts(x.name)
    BY <1>2, <2>3 DEF Types, Placed, Objs, IInv, ObjectsTrue, Stamped
  <2>5. r.at \in Addresses
    BY <2>3, <2>4, AddressFacts
  <2>6. Whole(store[r.at]) /\ Knows(x, store)
    BY <2>2, <2>3, <2>5 DEF Seen
  <2>7. Own(x, store[r.at]) => store[r.at].data = Bytes(x)
    BY <2>6 DEF Own, Whole, Bytes
  <2>8. store[r.at].data = Bytes(x) \/ (r.at = Ordinary(x.name) /\ Gone(x))
    <3>1. CASE r.at = Ordinary(x.name)
      BY <1>4, <2>6, <2>7, <3>1 DEF Reading, Knows
    <3>2. CASE r.at = Temporary(x.name, x.ts)
      BY <1>5, <2>6, <2>7, <3>2 DEF Knows
    <3> QED BY <2>3, <3>1, <3>2
  <2>9. r.at = Ordinary(x.name) => store[r.at].ts = x.ts \/ Gone(x)
    BY <1>4 DEF Reading
  <2> QED BY <2>3, <2>8, <2>9 DEF Reading
<1>6. \A p \in Objects : reads'[p] # NoRead => Reading(reads'[p], objs[p])
  <2> TAKE p \in Objects
  <2>1. CASE p # o
    BY <1>1, <1>3, <2>1 DEF IInv, ReadsTrue, Idle
  <2>2. CASE p = o
    BY <1>1, <1>3, <1>5, <2>2
  <2> QED BY <2>1, <2>2
<1> HIDE DEF f
<1> QED BY <1>1, <1>3, <1>6, OnlyReads

\* check(): an entry with the timestamp of the Object is its own, so that
\* what was read before it is too.
LEMMA CheckStep ==
  ASSUME IInv, NEW o \in Objects, Check(o)
  PROVE  IInv'
<1> DEFINE r == reads[o]
           x == objs[o]
           f == [reads EXCEPT ![o] = IF Unchanged(o) THEN [r EXCEPT !.got = "ok"] ELSE NoRead]
<1>1. /\ phase = "serving" /\ reads[o] # NoRead /\ r.got = "bytes"
      /\ reads' = f
      /\ UNCHANGED <<objs, held, last, bluestore, phase, crashes, aborted>>
  BY DEF Check, Running, Idle
<1>2. Types
  BY DEF IInv
<1>3. /\ f = [p \in Objects |-> f[p]]
      /\ \A p \in Objects : p # o => f[p] = reads[p]
      /\ f[o] = IF Unchanged(o) THEN [r EXCEPT !.got = "ok"] ELSE NoRead
  BY <1>2 DEF Types
<1>4. Reading(r, x)
  BY <1>1 DEF IInv, ReadsTrue, Idle
<1>5. ASSUME Unchanged(o)
      PROVE  Reading([r EXCEPT !.got = "ok"], x)
  <2>1. store[r.at].ts = x.ts
    BY <1>5 DEF Unchanged
  <2>2. store \in Passing
    BY <1>2, Queued
  <2>3. ~(r.at = Ordinary(x.name) /\ Gone(x))
    BY <2>1, <2>2 DEF Gone
  <2>4. r.data = Bytes(x)
    BY <1>1, <1>4, <2>3 DEF Reading
  <2> DEFINE s == [r EXCEPT !.got = "ok"]
  <2>5. s.at = r.at /\ s.data = r.data /\ (s.got = "ok" \/ s.got = r.got)
    OBVIOUS
  <2> HIDE DEF s
  <2>6. Reading(s, x)
    BY <1>1, <1>4, <2>4, <2>5 DEF Reading
  <2> QED BY <2>6 DEF s
<1>6. \A p \in Objects : reads'[p] # NoRead => Reading(reads'[p], objs[p])
  <2> TAKE p \in Objects
  <2>1. CASE p # o
    BY <1>1, <1>3, <2>1 DEF IInv, ReadsTrue, Idle
  <2>2. CASE p = o
    BY <1>1, <1>3, <1>5, <2>2
  <2> QED BY <2>1, <2>2
<1> HIDE DEF f
<1> QED BY <1>1, <1>3, <1>6, OnlyReads

\* The end of a read gives nothing to keep.
LEMMA ReadEndStep ==
  ASSUME IInv, NEW o \in Objects, ReadEnd(o)
  PROVE  IInv'
<1> DEFINE f == [reads EXCEPT ![o] = NoRead]
<1>1. /\ phase = "serving" /\ reads' = f
      /\ UNCHANGED <<objs, held, last, bluestore, phase, crashes, aborted>>
  BY DEF ReadEnd, Running
<1>2. /\ f = [p \in Objects |-> f[p]]
      /\ \A p \in Objects : p # o => f[p] = reads[p]
      /\ f[o] = NoRead
  BY DEF IInv, Types
<1>3. \A p \in Objects : reads'[p] # NoRead => Reading(reads'[p], objs[p])
  BY <1>1, <1>2 DEF IInv, ReadsTrue, Idle
<1> HIDE DEF f
<1> QED BY <1>1, <1>2, <1>3, OnlyReads

\* Every operation on its way is one of a transaction not yet durable.
LEMMA ComingOps ==
  ASSUME Types, Ending
  PROVE  /\ Coming \in Seq(Txns) /\ Len(Coming) = Len(handed) + Len(queue)
         /\ Len(handed) \in Nat /\ Len(queue) \in Nat
         /\ \A i \in 1 .. Len(handed) : Coming[i] = handed[i]
         /\ \A i \in 1 .. Len(queue) : Coming[Len(handed) + i] = queue[i]
         /\ \A i \in 1 .. Len(Coming) : Proper(Coming[i])
         /\ \A g \in Stages : \E i \in 1 .. Len(Coming) : g[2] \in Given(Coming[i])
<1>1. /\ Coming \in Seq(Txns) /\ Len(Coming) = Len(handed) + Len(queue)
      /\ Len(handed) \in Nat /\ Len(queue) \in Nat
      /\ \A i \in 1 .. Len(handed) + Len(queue) :
            Coming[i] = IF i <= Len(handed) THEN handed[i] ELSE queue[i - Len(handed)]
  BY ConcatProperties DEF Types, Coming
<1>2. \A i \in 1 .. Len(handed) : Coming[i] = handed[i] /\ i \in 1 .. Len(Coming)
  BY <1>1
<1>3. \A i \in 1 .. Len(queue) :
         Coming[Len(handed) + i] = queue[i] /\ Len(handed) + i \in 1 .. Len(Coming)
  BY <1>1
<1>4. ASSUME NEW i \in 1 .. Len(Coming)
      PROVE  Proper(Coming[i])
  <2>1. CASE i <= Len(handed)
    <3>1. i \in 1 .. Len(handed)
      BY <1>1, <2>1
    <3> QED BY <1>2, <3>1 DEF Types
  <2>2. CASE ~(i <= Len(handed))
    <3>1. i - Len(handed) \in 1 .. Len(queue) /\ Coming[i] = queue[i - Len(handed)]
      BY <1>1, <2>2
    <3> QED BY <3>1 DEF Types
  <2> QED BY <2>1, <2>2
<1> DEFINE B == {op \in Ops : \E i \in 1 .. Len(Coming) : op \in Given(Coming[i])}
<1>5. \A i \in 1 .. Len(Pending) : Pending[i] \in B
  <2>1. \A i \in 1 .. Len(queue) : Given(queue[i]) \subseteq B
    <3> TAKE i \in 1 .. Len(queue)
    <3>1. Given(queue[i]) \subseteq Ops
      BY TxnOps DEF Types, Given
    <3> QED BY <1>3, <3>1
  <2>2. \A i \in 1 .. Len(current) : current[i] \in B
    <3> TAKE i \in 1 .. Len(current)
    <3>1. Len(current) > 0 /\ current[i] \in Ops
      BY DEF Types
    <3>2. Len(handed) > 0 /\ current[i] \in Given(handed[Len(handed)])
      BY <3>1 DEF Ending
    <3>3. Len(handed) \in 1 .. Len(handed)
      BY <1>1, <3>2
    <3> QED BY <1>2, <3>1, <3>2, <3>3
  <2> HIDE DEF B
  <2>3. B \in SUBSET Ops
    BY DEF B
  <2> QED BY <2>1, <2>2, <2>3, OpsOnFrom DEF Types, Pending
<1>6. ASSUME NEW g \in Stages
      PROVE  \E i \in 1 .. Len(Coming) : g[2] \in Given(Coming[i])
  <2>1. Pending \in Seq(Ops) /\ g \in StagesOf(Pending, store)
    BY Queued DEF Stages
  <2>2. \E k \in 1 .. Len(Pending) : g[2] = Pending[k]
    BY <2>1, StagesTyped
  <2> QED BY <1>5, <2>2
<1> QED BY <1>1, <1>2, <1>3, <1>4, <1>6

\* A set of states that no operation to come leads out of.
LEMMA Stays ==
  ASSUME Types, NEW Q, store \in Q,
         \A S, op : <<S, op>> \in Stages /\ S \in Q => Apply(op, S) \in Q
  PROVE  Passing \subseteq Q /\ Settled \in Q
<1>1. Pending \in Seq(Ops) /\ Settled = ApplyAll(Pending, store)
  BY Queued
<1> QED BY <1>1, AllTheWay DEF Passing, Stages

\* Nobody touches the name: what holds it stays as it is.
LEMMA Untouched ==
  ASSUME Types, Ending, NEW n \in Names,
         \A i \in 1 .. Len(Coming) : ~Touches(Coming[i], n)
  PROVE  \A S \in Passing : S[Ordinary(n)] = store[Ordinary(n)]
<1> DEFINE at == Ordinary(n)
           Q == {S \in Contents : S[at] = store[at]}
<1>1. store \in Q
  BY DEF Types
<1>2. ASSUME NEW S, NEW op, <<S, op>> \in Stages, S \in Q
      PROVE  Apply(op, S) \in Q
  <2> DEFINE g == <<S, op>>
  <2>1. g[1] = S /\ g[2] = op
    OBVIOUS
  <2>2. op \in Ops /\ \E i \in 1 .. Len(Coming) : op \in Given(Coming[i])
    <3> HIDE DEF g
    <3>1. g \in Stages
      BY <1>2 DEF g
    <3> QED BY <2>1, <3>1, Queued, ComingOps
  <2>3. ~On(op, at)
    BY <2>2 DEF Touches
  <2>4. at \in Addresses
    BY AddressFacts
  <2> QED BY <1>2, <2>2, <2>3, <2>4, ApplyTyped DEF On
<1>3. Passing \subseteq Q
  <2> HIDE DEF Q
  <2> QED BY <1>1, <1>2, Stays
<1> QED BY <1>3

\* Nobody moves the name: who holds it keeps its stamp.
LEMMA Unmoved ==
  ASSUME IInv, NEW n \in Names, store[Ordinary(n)].ts \notin Times(n),
         \A i \in 1 .. Len(Coming) : ~Moves(Coming[i], n)
  PROVE  \A S \in Passing : S[Ordinary(n)].ts = store[Ordinary(n)].ts
<1> DEFINE at == Ordinary(n)
           Q == {S \in Contents : S[at].ts = store[at].ts}
<1>0. Types /\ Ending /\ StagesTrue
  BY DEF IInv
<1>1. store \in Q
  BY <1>0 DEF Types
<1>2. ASSUME NEW S, NEW op, <<S, op>> \in Stages, S \in Q
      PROVE  Apply(op, S) \in Q
  <2> DEFINE g == <<S, op>>
  <2>1. g[1] = S /\ g[2] = op
    OBVIOUS
  <2>2. /\ op \in Ops /\ \E i \in 1 .. Len(Coming) : op \in Given(Coming[i])
        /\ Due(S, op, Settled, objs, phase = "serving")
    <3> HIDE DEF g
    <3>1. g \in Stages
      BY <1>2 DEF g
    <3> QED BY <1>0, <2>1, <3>1, Queued, ComingOps DEF StagesTrue
  <2>3. op.op = "rename" => op.at # at /\ op.to # at
    BY <2>2 DEF Moves, On
  <2>4. at \in Addresses /\ ~at.temp /\ at.name = n
    BY AddressFacts
  <2>5. S \in Contents /\ S[at].ts \notin Times(n) /\ S[at].ts = store[at].ts
    BY <1>2
  <2>6. Apply(op, S) \in Contents
    BY <2>2, <2>5, ApplyTyped
  <2>7. CASE op.op = "rename"
    BY <2>2, <2>3, <2>4, <2>5, <2>6, <2>7, ApplyTyped
  <2>8. CASE op.op # "rename" /\ op.at # at
    BY <2>2, <2>4, <2>5, <2>6, <2>8, ApplyTyped
  <2>9. CASE op.op # "rename" /\ op.at = at
    <3>1. op.op \notin {"write", "touch", "remove"}
      BY <2>2, <2>4, <2>9 DEF Due
    <3>2. op.op = "setattrs" \/ op.op = "header"
      BY <2>2, <2>9, <3>1, OpFields
    <3>3. CASE op.op = "setattrs"
      <4>1. op.ts = S[at].ts
        BY <2>2, <2>4, <2>5, <2>9, <3>3 DEF Due
      <4> QED BY <2>2, <2>5, <2>6, <2>9, <3>3, <4>1, ApplySetAttrs
    <3>4. CASE op.op = "header"
      BY <2>2, <2>5, <2>6, <2>9, <3>4, ApplyHeader
    <3> QED BY <3>2, <3>3, <3>4
  <2> QED BY <2>7, <2>8, <2>9
<1>3. Passing \subseteq Q
  <2> HIDE DEF Q
  <2> QED BY <1>0, <1>1, <1>2, Stays
<1> QED BY <1>3

\* A read that starts changes nothing but itself.
LEMMA ReadStartOnly ==
  ASSUME IInv, phase = "serving", NEW o \in Objects, NEW f, NEW r, reads' = f,
         f = [p \in Objects |-> f[p]], f[o] = r,
         \A p \in Objects : p # o => f[p] = reads[p],
         Reading(r, objs[o]),
         UNCHANGED <<objs, held, last, bluestore, phase, crashes, aborted>>
  PROVE  IInv'
<1>1. \A p \in Objects : reads'[p] # NoRead => Reading(reads'[p], objs[p])
  BY DEF IInv, ReadsTrue, Idle
<1> QED BY <1>1, OnlyReads

\* A read starts at the address of the Object, which holds the entry
\* unless a put of that name has moved it for good.
LEMMA ReadStartStep ==
  ASSUME IInv, NEW o \in Objects, ReadStart(o)
  PROVE  IInv'
<1> DEFINE x == objs[o]
           n == x.name
           r == [at |-> Address(x), got |-> "no"]
           f == [reads EXCEPT ![o] = r]
<1>1. /\ phase = "serving" /\ Placed(x) /\ ~Taking(o)
      /\ reads' = f
      /\ UNCHANGED <<objs, held, last, bluestore, phase, crashes, aborted>>
  BY DEF ReadStart, Running, Placed
<1>2. /\ Types /\ Ending
      /\ f = [p \in Objects |-> f[p]]
      /\ \A p \in Objects : p # o => f[p] = reads[p]
      /\ f[o] = r
  BY DEF IInv, Types
<1>3. /\ n \in Names /\ x.ts \in Puts(n) /\ x.ts \in Nat
      /\ x.state = "ACTIVE" => held[n] = o
      /\ Kept(x)
  BY <1>1, <1>2 DEF Types, Objs, IInv, ObjectsTrue, Stamped, Placed, Kept
<1>4. Settled[Address(x)] = Told(x)
  BY <1>3 DEF IInv, SettledTrue, Settles
<1>5. CASE x.state = "OLD"
  <2>1. Address(x) = Temporary(n, x.ts) /\ Temporary(n, x.ts) # Ordinary(n)
    <3>1. Address(x) = Temporary(n, x.ts)
      BY <1>5 DEF Address
    <3>2. Temporary(n, x.ts).temp /\ ~Ordinary(n).temp
      BY <1>3, AddressFacts
    <3> QED BY <3>1, <3>2
  <2>2. Reading(r, x)
    BY <1>1, <2>1 DEF Reading
  <2> QED BY <2>2, <1>1, <1>2, ReadStartOnly
<1>6. CASE x.state = "ACTIVE"
  <2>1. Address(x) = Ordinary(n)
    BY <1>6 DEF Address, Writing
  <2>2. \A i \in 1 .. Len(Coming) : ~Moves(Coming[i], n)
    <3> SUFFICES ASSUME NEW i \in 1 .. Len(Coming), Moves(Coming[i], n)
                 PROVE  FALSE
      OBVIOUS
    <3>1. PICK j \in i .. Len(Coming) : Coming[j].of = held[n] /\ Moves(Coming[j], n)
      BY <1>3 DEF IInv, Answered, Answers
    <3>2. j \in 1 .. Len(Coming) /\ Coming[j].of = o
      BY <1>2, <1>3, <1>6, <3>1, ComingOps
    <3>3. PICK op \in Given(Coming[j]) : op.op = "rename"
      BY <3>1 DEF Moves
    <3>4. \E k \in 1 .. Len(Coming[j].ops) : Coming[j].ops[k].op = "rename"
      BY <3>3 DEF Given
    <3>5. Taking(o)
      BY <3>2, <3>4 DEF Taking, Coming
    <3> QED BY <1>1, <3>5
  <2>3. store[Ordinary(n)].ts \notin Times(n)
    <3> SUFFICES ASSUME store[Ordinary(n)].ts \in Times(n)
                 PROVE  FALSE
      OBVIOUS
    <3>1. Len(current) > 0 /\ Moves(handed[Len(handed)], n)
      BY <1>3 DEF IInv, MidPut
    <3>2. Len(handed) > 0
      BY <1>2, <3>1 DEF Ending
    <3>3. Len(handed) \in 1 .. Len(handed) /\ Len(handed) \in 1 .. Len(Coming)
      BY <1>2, <3>2, ComingOps
    <3>4. Moves(Coming[Len(handed)], n)
      BY <1>2, <3>1, <3>3, ComingOps
    <3> QED BY <2>2, <3>3, <3>4
  <2>4. Settled[Ordinary(n)].ts = store[Ordinary(n)].ts
    <3>1. Settled \in Passing
      BY <1>2, Queued
    <3> QED BY <1>3, <2>2, <2>3, <3>1, Unmoved
  <2>5. store[Ordinary(n)].ts = x.ts
    BY <1>4, <2>1, <2>4 DEF Told
  <2>6. Reading(r, x)
    BY <1>1, <2>1, <2>5 DEF Reading
  <2> QED BY <2>6, <1>1, <1>2, ReadStartOnly
<1> QED BY <1>1, <1>5, <1>6 DEF Placed

-----------------------------------------------------------------------------
(* Objects come and go.                                                    *)

\* A step of an Object that has nothing in the store afterwards, and had
\* nothing or the name before.
LEMMA Unkept ==
  ASSUME IInv, phase = "serving", NEW o \in Objects, NEW y \in Objs, ~Kept(y),
         reads[o] = NoRead, Kept(objs[o]) => objs[o].state = "ACTIVE",
         objs' = [objs EXCEPT ![o] = y],
         UNCHANGED <<reads, bluestore, phase, crashes, aborted>>
  PROVE  /\ objs' \in [Objects -> Objs]
         /\ objs'[o] = y /\ \A p \in Objects : p # o => objs'[p] = objs[p]
         /\ Frozen' /\ PassingTrue' /\ StagesTrue' /\ SettledTrue' /\ ReadsTrue'
<1>1. /\ objs' \in [Objects -> Objs]
      /\ objs'[o] = y /\ \A p \in Objects : p # o => objs'[p] = objs[p]
  BY DEF IInv, Types
<1>2. /\ Coming' = Coming /\ Settled' = Settled /\ Passing' = Passing
      /\ Stages' = Stages /\ (phase' = "serving") = (phase = "serving")
  BY SameStore
<1>3. Frozen'
  BY DEF Frozen, bluestore
<1>4. /\ ~Placed(y) /\ \A p \in Objects : Placed(objs'[p]) => p # o /\ objs'[p] = objs[p]
      /\ \A p \in Objects : Kept(objs'[p]) => p # o /\ objs'[p] = objs[p]
  BY <1>1 DEF Placed, Kept
<1>5. PassingTrue'
  <2>1. ASSUME NEW S \in Passing
        PROVE  Seen(S, Settled, objs', phase = "serving")
    <3>1. Seen(S, Settled, objs, phase = "serving")
      BY DEF IInv, PassingTrue
    <3> QED BY <1>4, <3>1 DEF Seen
  <2> QED BY <1>2, <2>1 DEF PassingTrue
<1>6. StagesTrue'
  <2>1. ASSUME NEW g \in Stages
        PROVE  Due(g[1], g[2], Settled, objs', phase = "serving")
    <3>1. Due(g[1], g[2], Settled, objs, phase = "serving")
      BY DEF IInv, StagesTrue
    <3>2. DueRemove(g[2], Settled, objs) => DueRemove(g[2], Settled, objs')
      BY <1>4 DEF DueRemove
    <3> QED BY <3>1, <3>2 DEF Due
  <2> QED BY <1>2, <2>1 DEF StagesTrue
<1>7. SettledTrue'
  <2>0. Settles(Settled, objs, TRUE)
    BY DEF IInv, SettledTrue
  <2>1. ASSUME NEW at \in Addresses, at.temp, Settled[at] # NoEntry
        PROVE  \E p \in Objects : Kept(objs'[p]) /\ Address(objs'[p]) = at
    <3>1. PICK p \in Objects : Kept(objs[p]) /\ Address(objs[p]) = at
      BY <2>0, <2>1 DEF Settles
    <3>2. p # o
      BY <2>1, <3>1 DEF Address, Ordinary, Writing
    <3> QED BY <1>1, <3>1, <3>2
  <2>2. Settles(Settled, objs', TRUE)
    BY <1>4, <2>0, <2>1 DEF Settles
  <2>3. phase' # "mounted"
    OBVIOUS
  <2> QED BY <1>2, <2>2, <2>3 DEF SettledTrue
<1>8. ReadsTrue'
  <2>1. ASSUME NEW p \in Objects, reads[p] # NoRead
        PROVE  Reading(reads[p], objs[p])'
    <3>1. Reading(reads[p], objs[p]) /\ p # o /\ objs'[p] = objs[p]
      BY <1>1, <2>1 DEF IInv, ReadsTrue, Idle
    <3> QED BY <1>2, <3>1 DEF Reading, Gone, bluestore
  <2> QED BY <2>1 DEF ReadsTrue, Idle
<1> QED BY <1>1, <1>3, <1>5, <1>6, <1>7, <1>8

\* A free place, and the Objects find() and create() put there.
LEMMA FreeTyped ==
  /\ Free \in Objs /\ Free.state = "NONE" /\ Free.ts = 0 /\ ~Kept(Free)
  /\ \A n \in Names : LET y == [Free EXCEPT !.name = n, !.state = "PRE_SEARCH"] IN
        /\ y \in Objs /\ y.name = n /\ y.state = "PRE_SEARCH" /\ y.ts = 0 /\ ~Kept(y)
  /\ \A n \in Names, ts \in Nat, id \in Ids :
        LET y == [Free EXCEPT !.name = n, !.state = "PRE_WRITE", !.ts = ts, !.id = id] IN
        /\ y \in Objs /\ y.name = n /\ y.state = "PRE_WRITE" /\ y.ts = ts
        /\ y.written = 0 /\ y.metas = 0 /\ ~y.deleted /\ ~Kept(y)
<1>1. <<>> \in Ids
  BY DEF Ids
<1>2. Free \in Objs /\ Free.state = "NONE" /\ Free.ts = 0 /\ ~Kept(Free)
  BY <1>1 DEF Free, Objs, States, Kept, NoWriter
<1>3. ASSUME NEW n \in Names
      PROVE  LET y == [Free EXCEPT !.name = n, !.state = "PRE_SEARCH"] IN
             /\ y \in Objs /\ y.name = n /\ y.state = "PRE_SEARCH" /\ y.ts = 0 /\ ~Kept(y)
  BY <1>1 DEF Free, Objs, States, Kept, NoWriter
<1>4. ASSUME NEW n \in Names, NEW ts \in Nat, NEW id \in Ids
      PROVE  LET y == [Free EXCEPT !.name = n, !.state = "PRE_WRITE", !.ts = ts, !.id = id] IN
        /\ y \in Objs /\ y.name = n /\ y.state = "PRE_WRITE" /\ y.ts = ts
        /\ y.written = 0 /\ y.metas = 0 /\ ~y.deleted /\ ~Kept(y)
  BY <1>1 DEF Free, Objs, States, Kept, NoWriter
<1> QED BY <1>2, <1>3, <1>4

\* Nobody reads an Object that is not there.
LEMMA FreeIdle ==
  ASSUME IInv, NEW o \in Objects, objs[o] = Free
  PROVE  reads[o] = NoRead
BY FreeTyped DEF IInv, ReadsTrue, Reading, Placed, Idle

\* Whoever moves a name touches it.
LEMMA MovesTouches ==
  ASSUME NEW T, NEW n, Moves(T, n)
  PROVE  Touches(T, n)
BY DEF Moves, Touches

\* find(): a new Object holds a name that nobody held.
LEMMA FindStep ==
  ASSUME IInv, NEW o \in Objects, NEW n \in Names, Find(o, n)
  PROVE  IInv'
<1> DEFINE y == [Free EXCEPT !.name = n, !.state = "PRE_SEARCH"]
<1>1. /\ phase = "serving" /\ objs[o] = Free /\ held[n] = NoObject
      /\ objs' = [objs EXCEPT ![o] = y] /\ held' = [held EXCEPT ![n] = o]
      /\ UNCHANGED <<reads, last, bluestore, phase, crashes, aborted>>
  BY DEF Find, Running
<1>2. y \in Objs /\ y.name = n /\ y.state = "PRE_SEARCH" /\ y.ts = 0 /\ ~Kept(y)
  BY FreeTyped
<1> HIDE DEF y
<1>3. reads[o] = NoRead /\ ~Kept(objs[o]) /\ objs[o].state = "NONE"
  BY <1>1, FreeIdle, FreeTyped
<1>4. /\ objs' \in [Objects -> Objs]
      /\ objs'[o] = y /\ \A p \in Objects : p # o => objs'[p] = objs[p]
      /\ Frozen' /\ PassingTrue' /\ StagesTrue' /\ SettledTrue' /\ ReadsTrue'
  BY <1>1, <1>2, <1>3, Unkept
<1>5. /\ Ending' /\ MidPut' /\ DiskTrue' /\ Coming' = Coming /\ Settled' = Settled
  BY <1>1, SameStore
<1>6. /\ held' \in [Names -> Objects \cup {NoObject}] /\ held'[n] = o
      /\ \A m \in Names : m # n => held'[m] = held[m]
  BY <1>1 DEF IInv, Types
<1>7. Types'
  BY <1>1, <1>2, <1>4, <1>6 DEF IInv, Types, bluestore
<1>8. /\ NoObject \notin Objects
      /\ \A m \in Names : held[m] # NoObject => held[m] \in Objects /\ held[m] # o
  <2>1. \A m \in Names : held[m] \in Objects \cup {NoObject}
    BY DEF IInv, Types
  <2>2. \A m \in Names : held[m] # NoObject => objs[held[m]].state # "NONE"
    BY DEF IInv, HeldTrue, Holds
  <2> QED BY <1>3, <2>1, <2>2, EngineAssumption
<1>9. ObjectsTrue'
  <2>1. Stamped(Settled, objs, held, last)
    BY DEF IInv, ObjectsTrue
  <2>2. ASSUME NEW p \in Objects, p # o, objs[p].state \in {"PRE_SEARCH", "ACTIVE"}
        PROVE  held'[objs[p].name] = p
    <3>1. held[objs[p].name] = p /\ objs[p].name \in Names
      BY <2>1, <2>2 DEF Stamped, IInv, Types
    <3>2. objs[p].name # n
      BY <1>1, <1>8, <3>1
    <3> QED BY <1>6, <3>1, <3>2
  <2>3. Stamped(Settled, objs', held', last)
    <3> SUFFICES ASSUME NEW p \in Objects
                 PROVE  LET x == objs'[p] IN
        /\ x.state \in Writing =>
              /\ x.ts \in Times(x.name) /\ x.ts <= last
              /\ \A q \in Objects : q # p /\ objs'[q].state \in Writing => objs'[q].ts # x.ts
        /\ x.state = "PRE_WRITE" => x.id # NoWriter /\ x.written = 0 /\ x.metas = 0 /\ ~x.deleted
        /\ x.state \in {"PRE_SEARCH", "MISSING"} => x.ts = 0
        /\ x.state \in {"PRE_SEARCH", "ACTIVE"} => held'[x.name] = p
        /\ x.state \in {"ACTIVE", "OLD"} => x.ts \in Puts(x.name)
        /\ x.state = "OLD" =>
              /\ x.ts < Settled[Ordinary(x.name)].ts
              /\ \A q \in Objects : q # p /\ objs'[q].state = "OLD" /\ objs'[q].name = x.name =>
                    objs'[q].ts # x.ts
      BY DEF Stamped
    <3>1. CASE p = o
      BY <1>2, <1>4, <1>6, <3>1 DEF Writing
    <3>2. CASE p # o
      <4>1. \A q \in Objects : objs'[q].state \in Writing \cup {"OLD"} => q # o /\ objs'[q] = objs[q]
        BY <1>2, <1>4 DEF Writing
      <4>2. objs'[p] = objs[p]
        BY <1>4, <3>2
      <4> QED BY <2>1, <2>2, <3>2, <4>1, <4>2 DEF Stamped
    <3> QED BY <3>1, <3>2
  <2> QED BY <1>1, <1>5, <2>3 DEF ObjectsTrue
<1>10. HeldTrue'
  <2>1. Holds(Settled, objs', held')
    BY <1>2, <1>4, <1>6, <1>8 DEF IInv, HeldTrue, Holds
  <2> QED BY <1>5, <2>1 DEF HeldTrue
<1>11. Answered'
  <2>1. ASSUME NEW m \in Names
        PROVE  Answers(Coming, m, objs', held')
    <3>1. Answers(Coming, m, objs, held)
      BY DEF IInv, Answered
    <3>2. CASE m = n
      <4>1. \A i \in 1 .. Len(Coming) : ~Touches(Coming[i], n)
        BY <1>1, <3>1, <3>2 DEF Answers
      <4> QED BY <3>2, <4>1, MovesTouches DEF Answers
    <3>3. CASE m # n
      <4>1. held'[m] = held[m] /\ (held[m] # NoObject => objs'[held[m]] = objs[held[m]])
        BY <1>4, <1>6, <1>8, <3>3
      <4> QED BY <3>1, <4>1 DEF Answers
    <3> QED BY <3>2, <3>3
  <2> QED BY <1>5, <2>1 DEF Answered
<1> QED BY <1>4, <1>5, <1>7, <1>9, <1>10, <1>11 DEF IInv

\* Who writes and who is retired stays as it is when the Object that
\* changes is neither, before and after.
LEMMA StampsKept ==
  ASSUME NEW F, NEW os, NEW hd, NEW clock, Stamped(F, os, hd, clock),
         NEW new, NEW hd2, NEW clock2 \in Nat, clock \in Nat, clock <= clock2,
         NEW o \in Objects, \A p \in Objects : p # o => new[p] = os[p],
         \A p \in Objects : os[p].ts \in Nat,
         new[o].state \notin Writing \cup {"OLD"},
         new[o].state \in {"PRE_SEARCH", "MISSING"} => new[o].ts = 0,
         new[o].state \in {"PRE_SEARCH", "ACTIVE"} => hd2[new[o].name] = o,
         new[o].state = "ACTIVE" => new[o].ts \in Puts(new[o].name),
         \A p \in Objects : p # o /\ os[p].state \in {"PRE_SEARCH", "ACTIVE"} =>
               hd2[os[p].name] = p
  PROVE  Stamped(F, new, hd2, clock2)
<1> SUFFICES ASSUME NEW p \in Objects
             PROVE  LET x == new[p] IN
        /\ x.state \in Writing =>
              /\ x.ts \in Times(x.name) /\ x.ts <= clock2
              /\ \A q \in Objects : q # p /\ new[q].state \in Writing => new[q].ts # x.ts
        /\ x.state = "PRE_WRITE" => x.id # NoWriter /\ x.written = 0 /\ x.metas = 0 /\ ~x.deleted
        /\ x.state \in {"PRE_SEARCH", "MISSING"} => x.ts = 0
        /\ x.state \in {"PRE_SEARCH", "ACTIVE"} => hd2[x.name] = p
        /\ x.state \in {"ACTIVE", "OLD"} => x.ts \in Puts(x.name)
        /\ x.state = "OLD" =>
              /\ x.ts < F[Ordinary(x.name)].ts
              /\ \A q \in Objects : q # p /\ new[q].state = "OLD" /\ new[q].name = x.name =>
                    new[q].ts # x.ts
  BY DEF Stamped
<1>1. CASE p = o
  BY <1>1 DEF Writing
<1>2. CASE p # o
  <2>1. \A q \in Objects : new[q].state \in Writing \cup {"OLD"} => q # o /\ new[q] = os[q]
    OBVIOUS
  <2>2. new[p] = os[p]
    BY <1>2
  <2>3. os[p].ts <= clock => os[p].ts <= clock2
    OBVIOUS
  <2> QED BY <1>2, <2>1, <2>2, <2>3 DEF Stamped
<1> QED BY <1>1, <1>2

\* The engine's clock and the timestamps are numbers.
LEMMA Clock ==
  ASSUME IInv
  PROVE  last \in Nat /\ \A o \in Objects : objs[o] \in Objs /\ objs[o].ts \in Nat
BY EngineAssumption DEF IInv, Types, Objs

\* create(): a new Object with a stamp of the clock that no other has.
LEMMA CreateStep ==
  ASSUME IInv, NEW o \in Objects, NEW n \in Names, NEW tick \in Times(n), Create(o, n, tick)
  PROVE  IInv'
<1> DEFINE y == [Free EXCEPT !.name = n, !.state = "PRE_WRITE", !.ts = tick,
                             !.id = <<crashes, tick>>]
<1>1. /\ phase = "serving" /\ objs[o] = Free /\ tick > last /\ last' = tick
      /\ objs' = [objs EXCEPT ![o] = y]
      /\ UNCHANGED <<held, reads, bluestore, phase, crashes, aborted>>
  BY DEF Create, Running
<1>2. /\ tick \in Nat /\ crashes \in Nat /\ <<crashes, tick>> \in Ids
      /\ <<crashes, tick>> # NoWriter
      /\ last \in Nat
  BY EngineAssumption, Apart DEF IInv, Types, Ids, NoWriter
<1>3. /\ y \in Objs /\ y.name = n /\ y.state = "PRE_WRITE" /\ y.ts = tick
      /\ y.id # NoWriter
      /\ y.written = 0 /\ y.metas = 0 /\ ~y.deleted /\ ~Kept(y)
  <2>1. y.id = <<crashes, tick>>
    BY DEF Free
  <2>2. y.id # NoWriter
    BY <1>2, <2>1
  <2>3. /\ y \in Objs /\ y.name = n /\ y.state = "PRE_WRITE" /\ y.ts = tick
        /\ y.written = 0 /\ y.metas = 0 /\ ~y.deleted /\ ~Kept(y)
    BY <1>2, FreeTyped
  <2> QED BY <2>2, <2>3
<1> HIDE DEF y
<1>4. reads[o] = NoRead /\ ~Kept(objs[o]) /\ objs[o].state = "NONE"
  BY <1>1, FreeIdle, FreeTyped
<1>5. /\ objs' \in [Objects -> Objs]
      /\ objs'[o] = y /\ \A p \in Objects : p # o => objs'[p] = objs[p]
      /\ Frozen' /\ PassingTrue' /\ StagesTrue' /\ SettledTrue' /\ ReadsTrue'
  BY <1>1, <1>3, <1>4, Unkept
<1>6. /\ Ending' /\ MidPut' /\ DiskTrue' /\ Coming' = Coming /\ Settled' = Settled
  BY <1>1, SameStore
<1>7. Types'
  BY <1>1, <1>3, <1>5, Apart DEF IInv, Types, bluestore
<1>8. \A m \in Names : held[m] # NoObject => held[m] \in Objects /\ held[m] # o
  <2>1. \A m \in Names : held[m] \in Objects \cup {NoObject}
    BY DEF IInv, Types
  <2>2. \A m \in Names : held[m] # NoObject => objs[held[m]].state # "NONE"
    BY DEF IInv, HeldTrue, Holds
  <2> QED BY <1>4, <2>1, <2>2
<1>9. ObjectsTrue'
  <2>1. Stamped(Settled, objs, held, last)
    BY DEF IInv, ObjectsTrue
  <2>2. \A p \in Objects : objs[p].ts \in Nat
    BY Clock
  <2>3. Stamped(Settled, objs', held, tick)
    <3> SUFFICES ASSUME NEW p \in Objects
                 PROVE  LET x == objs'[p] IN
        /\ x.state \in Writing =>
              /\ x.ts \in Times(x.name) /\ x.ts <= tick
              /\ \A q \in Objects : q # p /\ objs'[q].state \in Writing => objs'[q].ts # x.ts
        /\ x.state = "PRE_WRITE" => x.id # NoWriter /\ x.written = 0 /\ x.metas = 0 /\ ~x.deleted
        /\ x.state \in {"PRE_SEARCH", "MISSING"} => x.ts = 0
        /\ x.state \in {"PRE_SEARCH", "ACTIVE"} => held[x.name] = p
        /\ x.state \in {"ACTIVE", "OLD"} => x.ts \in Puts(x.name)
        /\ x.state = "OLD" =>
              /\ x.ts < Settled[Ordinary(x.name)].ts
              /\ \A q \in Objects : q # p /\ objs'[q].state = "OLD" /\ objs'[q].name = x.name =>
                    objs'[q].ts # x.ts
      BY DEF Stamped
    <3>1. \A q \in Objects : q # o /\ objs[q].state \in Writing => objs[q].ts < tick
      BY <1>1, <1>2, <2>1, <2>2 DEF Stamped
    <3>2. CASE p = o
      <4>1. \A q \in Objects : q # p /\ objs'[q].state \in Writing => objs'[q].ts # tick
        BY <1>2, <1>5, <2>2, <3>1, <3>2
      <4> QED BY <1>2, <1>3, <1>5, <3>2, <4>1 DEF Writing
    <3>3. CASE p # o
      <4>1. \A q \in Objects : q # o => objs'[q] = objs[q]
        BY <1>5
      <4>2. objs'[p] = objs[p] /\ objs'[o].state # "OLD"
        BY <1>3, <1>5, <3>3
      <4>3. objs[p].state \in Writing => objs'[o].ts # objs[p].ts /\ objs[p].ts <= tick
        BY <1>2, <1>3, <1>5, <2>2, <3>1, <3>3
      <4> QED BY <2>1, <3>3, <4>1, <4>2, <4>3 DEF Stamped
    <3> QED BY <3>2, <3>3
  <2> QED BY <1>1, <1>6, <2>3 DEF ObjectsTrue
<1>10. HeldTrue'
  <2>1. Holds(Settled, objs', held)
    BY <1>5, <1>8 DEF IInv, HeldTrue, Holds
  <2> QED BY <1>1, <1>6, <2>1 DEF HeldTrue
<1>11. Answered'
  <2>1. ASSUME NEW m \in Names
        PROVE  Answers(Coming, m, objs', held)
    <3>1. Answers(Coming, m, objs, held)
      BY DEF IInv, Answered
    <3>2. held[m] # NoObject => objs'[held[m]] = objs[held[m]]
      BY <1>5, <1>8
    <3> QED BY <3>1, <3>2 DEF Answers
  <2> QED BY <1>1, <1>6, <2>1 DEF Answered
<1> QED BY <1>5, <1>6, <1>7, <1>9, <1>10, <1>11 DEF IInv

\* An entry is told by its fields.
LEMMA EntryIs ==
  ASSUME NEW e \in Entries, NEW x,
         e.id = x.id, e.ts = x.ts, e.deleted = x.deleted, e.old = (x.state = "OLD"),
         e.data = [i \in 1 .. x.written |-> x.id], e.meta = x.metas
  PROVE  e = Told(x)
BY DEF Entries, Told

\* open(): what is at the ordinary address of the name is settled there,
\* since nobody who holds it has anything coming.
LEMMA OpenStep ==
  ASSUME IInv, NEW o \in Objects, Open(o)
  PROVE  IInv'
<1> DEFINE n == objs[o].name
           at == Ordinary(n)
           e == store[at]
           y == IF e # NoEntry THEN Loaded(at, e) ELSE [objs[o] EXCEPT !.state = "MISSING"]
<1>1. /\ phase = "serving" /\ objs[o].state = "PRE_SEARCH"
      /\ objs' = [objs EXCEPT ![o] = y]
      /\ UNCHANGED <<held, reads, last, bluestore, phase, crashes, aborted>>
  BY DEF Open, Running
<1>2. /\ Types /\ Ending /\ Stamped(Settled, objs, held, last)
      /\ n \in Names /\ objs[o].ts = 0 /\ objs[o] \in Objs /\ held[n] = o
      /\ at \in Addresses /\ ~at.temp /\ at.name = n
      /\ e \in Entries
  BY <1>1, AddressFacts DEF IInv, Types, ObjectsTrue, Stamped, Contents
<1>3. reads[o] = NoRead /\ ~Kept(objs[o]) /\ ~Placed(objs[o])
  BY <1>1 DEF IInv, ReadsTrue, Reading, Placed, Idle, Kept
<1>4. \A i \in 1 .. Len(Coming) : ~Touches(Coming[i], n)
  BY <1>1, <1>2 DEF IInv, Answered, Answers
<1>5. (\A S \in Passing : S[at] = e) /\ Settled[at] = e
  BY <1>2, <1>4, Untouched, Queued
<1>6. /\ Ending' /\ MidPut' /\ DiskTrue'
      /\ Coming' = Coming /\ Settled' = Settled /\ Passing' = Passing
      /\ Stages' = Stages /\ (phase' = "serving") = (phase = "serving")
  BY <1>1, SameStore
<1>7. \A m \in Names : held[m] # NoObject /\ m # n => held[m] \in Objects /\ held[m] # o
  BY <1>2 DEF IInv, Types, HeldTrue, Holds
<1>8. ASSUME objs'[o] = y, \A p \in Objects : p # o => objs'[p] = objs[p],
             objs' \in [Objects -> Objs], y.name = n,
             \/ y.state = "MISSING" /\ y.ts = 0 /\ Settled[at] = NoEntry
             \/ y.state = "ACTIVE" /\ y.ts \in Puts(n)
      PROVE  Types' /\ ObjectsTrue' /\ HeldTrue' /\ Answered'
  <2> HIDE DEF y
  <2>1. Types'
    BY <1>1, <1>2, <1>8 DEF Types, bluestore
  <2>2. ObjectsTrue'
    <3>1. /\ \A p \in Objects : objs[p].ts \in Nat
          /\ last \in Nat /\ last <= last
          /\ objs'[o].state \notin Writing \cup {"OLD"}
          /\ objs'[o].state \in {"PRE_SEARCH", "MISSING"} => objs'[o].ts = 0
          /\ objs'[o].state \in {"PRE_SEARCH", "ACTIVE"} => held[objs'[o].name] = o
          /\ objs'[o].state = "ACTIVE" => objs'[o].ts \in Puts(objs'[o].name)
          /\ \A p \in Objects : p # o /\ objs[p].state \in {"PRE_SEARCH", "ACTIVE"} =>
                held[objs[p].name] = p
      BY <1>2, <1>8, Clock DEF Writing, Stamped
    <3>2. Stamped(Settled, objs', held, last)
      BY <1>2, <1>8, <3>1, StampsKept
    <3> QED BY <1>1, <1>6, <3>2 DEF ObjectsTrue
  <2>3. HeldTrue'
    <3>1. Holds(Settled, objs', held)
      BY <1>2, <1>7, <1>8 DEF IInv, HeldTrue, Holds
    <3> QED BY <1>1, <1>6, <3>1 DEF HeldTrue
  <2>4. Answered'
    <3>1. ASSUME NEW m \in Names
          PROVE  Answers(Coming, m, objs', held)
      <4>1. Answers(Coming, m, objs, held)
        BY DEF IInv, Answered
      <4>2. CASE m = n
        BY <1>4, <4>2, MovesTouches DEF Answers
      <4>3. CASE m # n
        <5>1. held[m] # NoObject => objs'[held[m]] = objs[held[m]]
          BY <1>7, <1>8, <4>3
        <5> QED BY <4>1, <5>1 DEF Answers
      <4> QED BY <4>2, <4>3
    <3> QED BY <1>1, <1>6, <3>1 DEF Answered
  <2> QED BY <2>1, <2>2, <2>3, <2>4
<1>9. CASE e = NoEntry
  <2>1. y \in Objs /\ y.name = n /\ y.state = "MISSING" /\ y.ts = 0
    BY <1>2, <1>9 DEF Objs, States
  <2>2. ~Kept(y)
    BY <2>1 DEF Kept
  <2> HIDE DEF y
  <2>3. /\ objs' \in [Objects -> Objs]
        /\ objs'[o] = y /\ \A p \in Objects : p # o => objs'[p] = objs[p]
        /\ Frozen' /\ PassingTrue' /\ StagesTrue' /\ SettledTrue' /\ ReadsTrue'
    BY <1>1, <1>3, <2>1, <2>2, Unkept
  <2>4. Types' /\ ObjectsTrue' /\ HeldTrue' /\ Answered'
    <3>1. Settled[at] = NoEntry
      BY <1>5, <1>9
    <3> QED BY <1>8, <2>1, <2>3, <3>1
  <2> QED BY <1>6, <2>3, <2>4 DEF IInv
<1>10. CASE e # NoEntry
  <2>1. /\ y = Loaded(at, e) /\ y.state = "ACTIVE" /\ y.name = n /\ y.ts = e.ts
        /\ y.deleted = e.deleted /\ y.id = e.id /\ y.written = Len(e.data) /\ y.metas = e.meta
    BY <1>2, <1>10 DEF Loaded, StateOf
  <2>2. y \in Objs
    BY <1>2, <1>10 DEF Loaded, StateOf, Objs, States, Entries
  <2>3. /\ Placed(y) /\ Address(y) = at
    BY <2>1 DEF Placed, Address, Writing
  <2> HIDE DEF y
  <2>4. /\ objs' \in [Objects -> Objs]
        /\ objs'[o] = y /\ \A p \in Objects : p # o => objs'[p] = objs[p]
    BY <1>1, <2>2 DEF IInv, Types
  <2>5. e.ts \in Puts(n) /\ ~e.old /\ e.ts \in Nat
    BY <1>2, <1>5, <1>10, Apart DEF IInv, SettledTrue, Settles, Sane, Entries
  <2>6. Types' /\ ObjectsTrue' /\ HeldTrue' /\ Answered'
    BY <1>8, <2>1, <2>4, <2>5
  <2>7. Frozen'
    BY <1>1 DEF Frozen, bluestore
  <2>8. PassingTrue'
    <3>1. ASSUME NEW S \in Passing
          PROVE  Seen(S, Settled, objs', phase = "serving")
      <4>1. Seen(S, Settled, objs, phase = "serving")
        BY DEF IInv, PassingTrue
      <4>2. S[at] = e
        BY <1>5
      <4>3. S[Temporary(n, e.ts)] = NoEntry
        <5>1. S[Temporary(n, e.ts)] # NoEntry => e.ts < e.ts
          BY <1>1, <1>2, <1>5, <2>5, <4>1 DEF Seen
        <5> QED BY <2>5, <5>1
      <4>4. Knows(y, S)
        BY <2>1, <4>2, <4>3 DEF Knows, Own
      <4>5. \A p \in Objects : Placed(objs'[p]) => Knows(objs'[p], S)
        BY <2>4, <4>1, <4>4 DEF Seen
      <4> QED BY <4>1, <4>5 DEF Seen
    <3> QED BY <1>6, <3>1 DEF PassingTrue
  <2>9. StagesTrue'
    <3>1. ASSUME NEW g \in Stages
          PROVE  Due(g[1], g[2], Settled, objs', phase = "serving")
      <4>1. Due(g[1], g[2], Settled, objs, phase = "serving") /\ g[2] \in Ops
        BY <1>2, Queued DEF IInv, StagesTrue
      <4>2. DueRemove(g[2], Settled, objs) => DueRemove(g[2], Settled, objs')
        <5> SUFFICES ASSUME DueRemove(g[2], Settled, objs), g[2].at.gen \in Puts(g[2].at.name)
                     PROVE  DueRemove(g[2], Settled, objs')
          BY DEF DueRemove
        <5>1. g[2].at.gen < Settled[Ordinary(g[2].at.name)].ts /\ g[2].at.gen \in Nat
          BY Apart DEF DueRemove
        <5>2. g[2].at.name = n => y.ts # g[2].at.gen
          BY <1>5, <2>1, <2>5, <5>1
        <5> QED BY <2>1, <2>4, <5>1, <5>2 DEF DueRemove
      <4> QED BY <4>1, <4>2 DEF Due
    <3> QED BY <1>6, <3>1 DEF StagesTrue
  <2>10. SettledTrue'
    <3>0. Settles(Settled, objs, TRUE)
      BY <1>1 DEF IInv, SettledTrue
    <3>1. ASSUME NEW a \in Addresses, a.temp, Settled[a] # NoEntry
          PROVE  \E p \in Objects : Kept(objs'[p]) /\ Address(objs'[p]) = a
      <4>1. PICK p \in Objects : Kept(objs[p]) /\ Address(objs[p]) = a
        BY <3>0, <3>1 DEF Settles
      <4>2. p # o
        BY <1>3, <4>1
      <4> QED BY <2>4, <4>1, <4>2
    <3>2. Settled[at] = Told(y)
      <4>1. Settled \in Passing
        BY <1>2, Queued
      <4>2. Whole(e)
        BY <1>2, <1>5, <4>1 DEF IInv, PassingTrue, Seen
      <4>3. e.data = [i \in 1 .. y.written |-> y.id]
        BY <2>1, <4>2 DEF Whole
      <4>4. e.old = (y.state = "OLD")
        BY <2>1, <2>5, <1>2 DEF Entries
      <4>5. e = Told(y)
        BY <1>2, <2>1, <4>3, <4>4, EntryIs
      <4> QED BY <1>5, <4>5
    <3>3. Settles(Settled, objs', TRUE)
      BY <2>3, <2>4, <3>0, <3>1, <3>2 DEF Settles
    <3>4. phase' # "mounted"
      BY <1>1
    <3> QED BY <1>6, <3>3, <3>4 DEF SettledTrue
  <2>11. ReadsTrue'
    <3>1. ASSUME NEW p \in Objects, reads'[p] # NoRead
          PROVE  Reading(reads[p], objs[p])'
      <4>1. reads[p] # NoRead /\ reads' = reads
        BY <1>1, <3>1
      <4>2. Reading(reads[p], objs[p]) /\ p # o /\ objs'[p] = objs[p]
        BY <1>3, <2>4, <4>1 DEF IInv, ReadsTrue, Idle
      <4> QED BY <1>1, <1>6, <4>2 DEF Reading, Gone, bluestore
    <3> QED BY <3>1 DEF ReadsTrue, Idle
  <2> QED BY <1>6, <2>6, <2>7, <2>8, <2>9, <2>10, <2>11 DEF IInv
<1> QED BY <1>9, <1>10

\* The address of an Object by its state.
LEMMA AddressIs ==
  ASSUME NEW x
  PROVE  /\ x.state \in {"PRE_WRITE", "IN_WRITE", "OLD"} => Address(x) = Temporary(x.name, x.ts)
         /\ x.state = "ACTIVE" => Address(x) = Ordinary(x.name)
BY DEF Address, Writing

\* No two Objects are at one address: the one that holds the name is at
\* its own, those being written have stamps of the clock, each another,
\* those retired have stamps of clients, for one name each another.
LEMMA Distinct ==
  ASSUME IInv, NEW p \in Objects, NEW q \in Objects, p # q,
         objs[p].state \in {"PRE_WRITE", "IN_WRITE", "ACTIVE", "OLD"},
         objs[q].state \in {"PRE_WRITE", "IN_WRITE", "ACTIVE", "OLD"}
  PROVE  /\ Address(objs[p]) # Address(objs[q])
         /\ Address(objs[p]) \in Addresses /\ objs[p].name \in Names
<1>1. /\ objs[p].name \in Names /\ objs[q].name \in Names
      /\ Stamped(Settled, objs, held, last)
  BY DEF IInv, Types, ObjectsTrue
<1>2. /\ /\ objs[p].state \in {"PRE_WRITE", "IN_WRITE"}
         /\ objs[q].state \in {"PRE_WRITE", "IN_WRITE"}
         => objs[p].ts # objs[q].ts
      /\ objs[q].state \in {"PRE_WRITE", "IN_WRITE"} => objs[q].ts \in Times(objs[q].name)
      /\ objs[p].state \in {"PRE_WRITE", "IN_WRITE"} => objs[p].ts \in Times(objs[p].name)
      /\ objs[p].state = "OLD" => objs[p].ts \in Puts(objs[p].name)
      /\ objs[q].state = "OLD" => objs[q].ts \in Puts(objs[q].name)
      /\ objs[p].state = "OLD" /\ objs[q].state = "OLD" /\ objs[p].name = objs[q].name =>
            objs[p].ts # objs[q].ts
      /\ objs[p].state = "ACTIVE" => held[objs[p].name] = p
      /\ objs[q].state = "ACTIVE" => held[objs[q].name] = q
  BY <1>1 DEF Stamped, Writing
<1>3. /\ objs[p].state # "ACTIVE" => /\ Address(objs[p]) = Temporary(objs[p].name, objs[p].ts)
                                     /\ objs[p].ts \in Times(objs[p].name) \cup Puts(objs[p].name)
      /\ objs[q].state # "ACTIVE" => /\ Address(objs[q]) = Temporary(objs[q].name, objs[q].ts)
                                     /\ objs[q].ts \in Times(objs[q].name) \cup Puts(objs[q].name)
      /\ objs[p].state = "ACTIVE" => Address(objs[p]) = Ordinary(objs[p].name)
      /\ objs[q].state = "ACTIVE" => Address(objs[q]) = Ordinary(objs[q].name)
  BY <1>2, AddressIs
<1>4. Address(objs[p]) \in Addresses
  BY <1>1, <1>3, AddressFacts
<1>5. CASE objs[p].state = "ACTIVE" /\ objs[q].state = "ACTIVE"
  <2>1. objs[p].name # objs[q].name
    BY <1>2, <1>5
  <2> QED BY <1>1, <1>3, <1>4, <1>5, <2>1, AddressFacts
<1>6. CASE objs[p].state = "ACTIVE" /\ objs[q].state # "ACTIVE"
  <2>1. ~Address(objs[p]).temp /\ Address(objs[q]).temp
    BY <1>1, <1>3, <1>6, AddressFacts
  <2> QED BY <1>1, <1>4, <2>1
<1>7. CASE objs[p].state # "ACTIVE" /\ objs[q].state = "ACTIVE"
  <2>1. Address(objs[p]).temp /\ ~Address(objs[q]).temp
    BY <1>1, <1>3, <1>7, AddressFacts
  <2> QED BY <1>1, <1>4, <2>1
<1>8. CASE objs[p].state # "ACTIVE" /\ objs[q].state # "ACTIVE"
  <2>1. objs[p].name = objs[q].name => objs[p].ts # objs[q].ts
    BY <1>2, <1>8, Apart
  <2>2. /\ Address(objs[p]).name = objs[p].name /\ Address(objs[p]).gen = objs[p].ts
        /\ Address(objs[q]).name = objs[q].name /\ Address(objs[q]).gen = objs[q].ts
    BY <1>1, <1>3, <1>8, AddressFacts
  <2> QED BY <1>1, <1>4, <2>1, <2>2
<1> QED BY <1>5, <1>6, <1>7, <1>8

\* What holds a name in the settled state is no stamp of the clock.
LEMMA SettledStamps ==
  ASSUME IInv, NEW n \in Names
  PROVE  Settled[Ordinary(n)].ts \notin Times(n) /\ Settled \in Contents
<1>1. Sane(n, Settled[Ordinary(n)]) /\ Settled \in Contents
  BY Queued DEF IInv, SettledTrue, Settles
<1>2. 0 \notin Times(n)
  BY Apart
<1> QED BY <1>1, <1>2, EmptyEntry, Apart DEF Sane

\* The last reference to an Object that leaves nothing behind: one
\* searched for, missing, not written, or the holder whose put is durable.
LEMMA DropIdleStep ==
  ASSUME IInv, NEW o \in Objects, Drop(o), objs[o].state \notin {"IN_WRITE", "OLD"}
  PROVE  IInv'
<1> DEFINE x == objs[o]
           n == x.name
<1>1. /\ phase = "serving" /\ x # Free /\ x.state # "PRE_SEARCH" /\ reads[o] = NoRead
      /\ x.state = "ACTIVE" => ~Unsettled(o)
      /\ objs' = [objs EXCEPT ![o] = Free]
      /\ held' = IF held[n] = o THEN [held EXCEPT ![n] = NoObject] ELSE held
      /\ UNCHANGED <<reads, last, bluestore, phase, crashes, aborted>>
  BY DEF Drop, Running, Idle, bluestore
<1>2. /\ Types /\ Ending /\ Stamped(Settled, objs, held, last) /\ Holds(Settled, objs, held)
      /\ n \in Names /\ x \in Objs
  BY <1>1 DEF IInv, Types, ObjectsTrue, HeldTrue
<1>3. Kept(x) => x.state = "ACTIVE"
  BY DEF Kept
<1>4. /\ objs' \in [Objects -> Objs]
      /\ objs'[o] = Free /\ \A p \in Objects : p # o => objs'[p] = objs[p]
      /\ Frozen' /\ PassingTrue' /\ StagesTrue' /\ SettledTrue' /\ ReadsTrue'
  BY <1>1, <1>3, FreeTyped, Unkept
<1>5. /\ Ending' /\ MidPut' /\ DiskTrue' /\ Coming' = Coming /\ Settled' = Settled
  BY <1>1, SameStore
<1>6. /\ held' \in [Names -> Objects \cup {NoObject}]
      /\ held[n] = o => held'[n] = NoObject
      /\ held[n] # o => held'[n] = held[n]
      /\ \A m \in Names : m # n => held'[m] = held[m]
  BY <1>1, <1>2 DEF Types
<1>7. Types'
  <2>1. Free.state = "NONE"
    BY FreeTyped
  <2>2. \A p \in Objects :
          /\ objs'[p].state = "NONE" => objs'[p] = Free
          /\ objs'[p].state # "NONE" => objs'[p].name \in Names
    BY <1>2, <1>4, <2>1 DEF Types
  <2> QED BY <1>1, <1>2, <1>4, <1>6, <2>2 DEF Types, bluestore
<1>8. \A m \in Names : held'[m] # NoObject => held[m] \in Objects /\ held[m] # o /\ held'[m] = held[m]
  BY <1>2, <1>6 DEF Types, Holds
<1>9. ObjectsTrue'
  <2>1. /\ \A p \in Objects : objs[p].ts \in Nat
        /\ last \in Nat /\ last <= last
        /\ objs'[o].state \notin Writing \cup {"OLD"}
        /\ objs'[o].state \in {"PRE_SEARCH", "MISSING"} => objs'[o].ts = 0
        /\ objs'[o].state \in {"PRE_SEARCH", "ACTIVE"} => held'[objs'[o].name] = o
        /\ objs'[o].state = "ACTIVE" => objs'[o].ts \in Puts(objs'[o].name)
    <3>1. objs'[o].state = "NONE"
      BY <1>4, FreeTyped
    <3>2. /\ \A p \in Objects : objs[p].ts \in Nat
          /\ last \in Nat /\ last <= last
      BY Clock
    <3> QED BY <3>1, <3>2 DEF Writing
  <2>2. ASSUME NEW p \in Objects, p # o, objs[p].state \in {"PRE_SEARCH", "ACTIVE"}
        PROVE  held'[objs[p].name] = p
    <3>1. held[objs[p].name] = p /\ objs[p].name \in Names
      BY <1>2, <2>2 DEF Stamped, Types
    <3> QED BY <1>6, <2>2, <3>1
  <2>3. Stamped(Settled, objs', held', last)
    BY <1>2, <1>4, <2>1, <2>2, StampsKept
  <2> QED BY <1>1, <1>5, <2>3 DEF ObjectsTrue
<1>10. HeldTrue'
  <2>1. Holds(Settled, objs', held')
    BY <1>2, <1>4, <1>8 DEF Holds
  <2> QED BY <1>5, <2>1 DEF HeldTrue
<1>11. Answered'
  <2>1. ASSUME NEW m \in Names
        PROVE  Answers(Coming, m, objs', held')
    <3>1. Answers(Coming, m, objs, held)
      BY DEF IInv, Answered
    <3>2. CASE held[m] = o
      <4>1. ASSUME NEW i \in 1 .. Len(Coming), Touches(Coming[i], m)
            PROVE  FALSE
        <5>1. x.state = "ACTIVE"
          BY <3>1, <3>2, <4>1 DEF Answers
        <5>2. PICK j \in i .. Len(Coming) : Coming[j].of = o
          BY <3>1, <3>2, <4>1 DEF Answers
        <5>3. /\ Len(Coming) = Len(handed) + Len(queue)
              /\ Len(handed) \in Nat /\ Len(queue) \in Nat
              /\ \A k \in 1 .. Len(handed) : Coming[k] = handed[k]
              /\ \A k \in 1 .. Len(queue) : Coming[Len(handed) + k] = queue[k]
          BY <1>2, ComingOps
        <5>4. CASE j <= Len(handed)
          <6>1. j \in 1 .. Len(handed)
            BY <5>3, <5>4
          <6>2. handed[j].of = o
            BY <5>2, <5>3, <6>1
          <6> QED BY <1>1, <5>1, <6>1, <6>2 DEF Unsettled
        <5>5. CASE ~(j <= Len(handed))
          <6>1. j - Len(handed) \in 1 .. Len(queue) /\ Len(handed) + (j - Len(handed)) = j
            BY <5>3, <5>5
          <6>2. queue[j - Len(handed)].of = o
            BY <5>2, <5>3, <6>1
          <6> QED BY <1>1, <5>1, <6>1, <6>2 DEF Unsettled
        <5> QED BY <5>4, <5>5
      <4> QED BY <4>1, MovesTouches DEF Answers
    <3>3. CASE held[m] # o
      <4>1. held'[m] = held[m]
        BY <1>6, <3>3
      <4>2. held[m] # NoObject => objs'[held[m]] = objs[held[m]]
        BY <1>4, <1>8, <4>1
      <4> QED BY <3>1, <4>1, <4>2 DEF Answers
    <3> QED BY <3>2, <3>3
  <2> QED BY <1>5, <2>1 DEF Answered
<1> QED BY <1>4, <1>5, <1>7, <1>9, <1>10, <1>11 DEF IInv

-----------------------------------------------------------------------------
(* What a step that prepares a transaction, and no more, keeps.            *)

\* Who holds a name still has something coming that does as much.
LEMMA AnswersMore ==
  ASSUME NEW ts \in Seq(Txns), NEW T \in Txns, NEW n,
         NEW os, NEW hd, NEW new, NEW hd2, Answers(ts, n, os, hd),
         \/ /\ hd2[n] # NoObject /\ new[hd2[n]].state = "ACTIVE" /\ T.of = hd2[n]
            /\ Touches(T, n) /\ Moves(T, n)
         \/ /\ hd2[n] = hd[n]
            /\ hd[n] # NoObject /\ os[hd[n]].state = "ACTIVE" => new[hd[n]].state = "ACTIVE"
            /\ Touches(T, n) =>
                  hd[n] # NoObject /\ os[hd[n]].state = "ACTIVE" /\ T.of = hd[n]
  PROVE  Answers(Append(ts, T), n, new, hd2)
<1> DEFINE more == Append(ts, T)
           k == Len(ts) + 1
<1>1. /\ Len(more) = k /\ k \in Nat /\ Len(ts) \in Nat /\ more[k] = T
      /\ \A i \in 1 .. Len(ts) : more[i] = ts[i]
  OBVIOUS
<1> HIDE DEF more
<1> SUFFICES ASSUME NEW i \in 1 .. Len(more)
             PROVE  /\ Touches(more[i], n) =>
                         /\ hd2[n] # NoObject /\ new[hd2[n]].state = "ACTIVE"
                         /\ \E j \in i .. Len(more) : more[j].of = hd2[n] /\ Touches(more[j], n)
                    /\ Moves(more[i], n) =>
                         \E j \in i .. Len(more) : more[j].of = hd2[n] /\ Moves(more[j], n)
  BY DEF Answers, more
<1>2. k \in i .. Len(more)
  BY <1>1
<1>3. CASE /\ hd2[n] # NoObject /\ new[hd2[n]].state = "ACTIVE" /\ T.of = hd2[n]
           /\ Touches(T, n) /\ Moves(T, n)
  BY <1>1, <1>2, <1>3
<1>4. CASE /\ hd2[n] = hd[n]
           /\ hd[n] # NoObject /\ os[hd[n]].state = "ACTIVE" => new[hd[n]].state = "ACTIVE"
           /\ Touches(T, n) =>
                 hd[n] # NoObject /\ os[hd[n]].state = "ACTIVE" /\ T.of = hd[n]
  <2>1. CASE i = k
    BY <1>1, <1>2, <1>4, <2>1, MovesTouches
  <2>2. CASE i # k
    <3>1. i \in 1 .. Len(ts) /\ more[i] = ts[i]
      BY <1>1, <2>2
    <3>2. \A j \in i .. Len(ts) : j \in i .. Len(more) /\ more[j] = ts[j]
      BY <1>1, <3>1
    <3>3. /\ Touches(ts[i], n) =>
               /\ hd[n] # NoObject /\ os[hd[n]].state = "ACTIVE"
               /\ \E j \in i .. Len(ts) : ts[j].of = hd[n] /\ Touches(ts[j], n)
          /\ Moves(ts[i], n) =>
               \E j \in i .. Len(ts) : ts[j].of = hd[n] /\ Moves(ts[j], n)
      BY <3>1 DEF Answers
    <3> QED BY <1>4, <3>1, <3>2, <3>3
  <2> QED BY <2>1, <2>2
<1> QED BY <1>3, <1>4

\* The store, the disk and what is handed over stay as they are.
LEMMA OnlyPrepared ==
  ASSUME IInv, NEW T \in Txns, Proper(T), queue' = Append(queue, T),
         UNCHANGED <<current, handed, store, disk>>
  PROVE  /\ Ending' /\ MidPut' /\ DiskTrue'
         /\ Coming \in Seq(Txns) /\ Coming' = Append(Coming, T)
         /\ queue' \in Seq(Txns) /\ \A i \in 1 .. Len(queue') : Proper(queue'[i])
         /\ Settled' = ApplyAll(T.ops, Settled)
         /\ Passing' = Passing \cup PassingOf(T.ops, Settled)
         /\ Stages' = Stages \cup StagesOf(T.ops, Settled)
<1>0. Types /\ Ending
  BY DEF IInv
<1>1. Ending' /\ MidPut' /\ DiskTrue'
  BY DEF IInv, Ending, MidPut, DiskTrue
<1>2. /\ Settled' = ApplyAll(T.ops, Settled)
      /\ Passing' = Passing \cup PassingOf(T.ops, Settled)
      /\ Stages' = Stages \cup StagesOf(T.ops, Settled)
      /\ queue' \in Seq(Txns)
  BY <1>0, Prepared
<1>3. \A i \in 1 .. Len(queue') : Proper(queue'[i])
  <2>1. queue \in Seq(Txns) /\ \A i \in 1 .. Len(queue) : Proper(queue[i])
    BY <1>0 DEF Types
  <2>2. \A i \in 1 .. Len(queue') : i \in 1 .. Len(queue) \/ queue'[i] = T
    BY <2>1
  <2>3. \A i \in 1 .. Len(queue) : queue'[i] = queue[i]
    BY <2>1
  <2> QED BY <2>1, <2>2, <2>3
<1>4. Coming \in Seq(Txns)
  BY <1>0, ComingOps
<1>5. Coming' = Append(Coming, T)
  <2>1. handed \in Seq(Txns) /\ queue \in Seq(Txns)
    BY <1>0 DEF Types
  <2>2. handed \o Append(queue, T) = Append(handed \o queue, T)
    BY <2>1
  <2> QED BY <2>2 DEF Coming
<1> QED BY <1>1, <1>2, <1>3, <1>4, <1>5

\* What a state says stays true of the same places and the same stamps.
LEMMA SeenStill ==
  ASSUME NEW S, NEW F, NEW G, NEW os, NEW new, NEW serving,
         Seen(S, F, os, serving), SameStamps(G, F), SamePlaces(os, new)
  PROVE  Seen(S, G, new, serving)
<1>1. \A p \in Objects : Placed(new[p]) => Knows(new[p], S)
  BY DEF Seen, SamePlaces, Knows, Own
<1> QED BY <1>1 DEF Seen, SameStamps

\* What an operation to come finds stays true of the same places and the
\* same stamps.
LEMMA DueStill ==
  ASSUME NEW S, NEW op \in Ops, NEW F, NEW G, NEW os, NEW new, NEW serving,
         Due(S, op, F, os, serving), SameStamps(G, F), SamePlaces(os, new)
  PROVE  Due(S, op, G, new, serving)
<1>1. op.at.name \in Names
  BY OpFields, AddressFacts
<1>2. DueRemove(op, F, os) => DueRemove(op, G, new)
  BY <1>1 DEF DueRemove, SameStamps, SamePlaces
<1> QED BY <1>2 DEF Due

\* Preparing what leaves every name with its stamp.
LEMMA Steady ==
  ASSUME IInv, phase = "serving", NEW T \in Txns, Proper(T), queue' = Append(queue, T),
         UNCHANGED <<reads, current, handed, store, disk, phase, crashes, aborted>>,
         SamePlaces(objs, objs'),
         \A p \in Objects : Placed(objs[p]) /\ reads[p] # NoRead => Placed(objs'[p]),
         \A S \in PassingOf(T.ops, Settled) :
            Seen(S, Settled, objs, TRUE) /\ SameStamps(S, Settled),
         \A g \in StagesOf(T.ops, Settled) : Due(g[1], g[2], Settled, objs', TRUE)
  PROVE  /\ Frozen' /\ PassingTrue' /\ StagesTrue' /\ ReadsTrue'
         /\ SameStamps(Settled', Settled)
<1>0. Types /\ T.ops \in Seq(Ops) /\ Settled \in Passing
  BY Queued DEF IInv, Txns
<1>1. /\ Settled' = ApplyAll(T.ops, Settled)
      /\ Passing' = Passing \cup PassingOf(T.ops, Settled)
      /\ Stages' = Stages \cup StagesOf(T.ops, Settled)
      /\ (phase' = "serving") = TRUE /\ (phase = "serving") = TRUE
  BY OnlyPrepared
<1>2. SameStamps(Settled', Settled)
  BY <1>0, <1>1, EndsPassing
<1>3. Frozen'
  BY DEF Frozen
<1>4. PassingTrue'
  <2>1. ASSUME NEW S \in Passing'
        PROVE  Seen(S, Settled', objs', TRUE)
    <3>1. Seen(S, Settled, objs, TRUE)
      BY <1>1 DEF IInv, PassingTrue
    <3> QED BY <1>2, <3>1, SeenStill
  <2> QED BY <1>1, <2>1 DEF PassingTrue
<1>5. StagesTrue'
  <2>0. SamePlaces(objs', objs')
    BY DEF SamePlaces
  <2>1. ASSUME NEW g \in Stages'
        PROVE  Due(g[1], g[2], Settled', objs', TRUE)
    <3>1. CASE g \in Stages
      <4>1. Due(g[1], g[2], Settled, objs, TRUE) /\ g[2] \in Ops
        BY <1>0, <1>1, <3>1, Queued DEF IInv, StagesTrue
      <4> QED BY <1>2, <4>1, DueStill
    <3>2. CASE g \in StagesOf(T.ops, Settled)
      <4>1. Due(g[1], g[2], Settled, objs', TRUE)
        BY <3>2
      <4>2. g[2] \in Ops
        BY <1>0, <3>2, StagesTyped
      <4> QED BY <1>2, <2>0, <4>1, <4>2, DueStill
    <3> QED BY <1>1, <3>1, <3>2
  <2> QED BY <1>1, <2>1 DEF StagesTrue
<1>6. ReadsTrue'
  <2>1. ASSUME NEW p \in Objects, reads[p] # NoRead
        PROVE  Reading(reads[p], objs[p])'
    <3>1. Reading(reads[p], objs[p])
      BY <2>1 DEF IInv, ReadsTrue, Idle
    <3>2. /\ Placed(objs'[p]) /\ objs'[p].name = objs[p].name /\ objs'[p].ts = objs[p].ts
          /\ objs'[p].id = objs[p].id /\ objs'[p].written = objs[p].written
          /\ objs[p].name \in Names
      BY <1>0, <2>1, <3>1 DEF SamePlaces, Reading, Placed, Types
    <3>3. Gone(objs[p]) => Gone(objs[p])'
      <4> SUFFICES ASSUME Gone(objs[p]), NEW S \in Passing'
                   PROVE  S[Ordinary(objs'[p].name)].ts # objs'[p].ts
        BY DEF Gone
      <4>1. CASE S \in Passing
        BY <3>2, <4>1 DEF Gone
      <4>2. CASE S \in PassingOf(T.ops, Settled)
        <5>1. S[Ordinary(objs[p].name)].ts = Settled[Ordinary(objs[p].name)].ts
          BY <3>2, <4>2 DEF SameStamps
        <5> QED BY <1>0, <3>2, <5>1 DEF Gone
      <4> QED BY <1>1, <4>1, <4>2
    <3>4. Bytes(objs[p])' = Bytes(objs[p])
      BY <3>2 DEF Bytes
    <3> QED BY <3>1, <3>2, <3>3, <3>4 DEF Reading
  <2> QED BY <2>1 DEF ReadsTrue, Idle
<1> QED BY <1>2, <1>3, <1>4, <1>5, <1>6

\* A transaction on one name that does not begin by saving.
LEMMA TxnIs ==
  ASSUME NEW n \in Names, NEW o \in Objects \cup {NoObject}, NEW ops \in Seq(Ops),
         Len(ops) > 0, ops[1].op # "setattrs", \A i \in 1 .. Len(ops) : ops[i] \in OpsOf(n)
  PROVE  /\ Txn(n, o, ops) \in Txns /\ Proper(Txn(n, o, ops))
         /\ Txn(n, o, ops).of = o /\ Txn(n, o, ops).ops = ops
         /\ Given(Txn(n, o, ops)) = {ops[i] : i \in 1 .. Len(ops)}
BY DEF Txn, Txns, Proper, Given

\* A transaction of one operation.
LEMMA TxnOne ==
  ASSUME NEW n \in Names, NEW o \in Objects \cup {NoObject}, NEW op \in OpsOf(n),
         op.op # "setattrs"
  PROVE  /\ Txn(n, o, <<op>>) \in Txns /\ Proper(Txn(n, o, <<op>>))
         /\ Txn(n, o, <<op>>).of = o /\ Txn(n, o, <<op>>).ops = <<op>>
         /\ Given(Txn(n, o, <<op>>)) = {op}
<1> DEFINE ops == <<op>>
<1>1. /\ ops \in Seq(Ops) /\ Len(ops) = 1 /\ Len(ops) > 0 /\ ops[1] = op
      /\ ops[1].op # "setattrs" /\ \A i \in 1 .. Len(ops) : ops[i] = op
  BY DEF OpsOf
<1>2. {ops[i] : i \in 1 .. Len(ops)} = {op}
  <2> HIDE DEF ops
  <2> QED BY <1>1
<1> HIDE DEF ops
<1>0. /\ \A i \in 1 .. Len(ops) : ops[i] \in OpsOf(n)
  BY <1>1
<1>3. /\ Txn(n, o, ops) \in Txns /\ Proper(Txn(n, o, ops))
      /\ Txn(n, o, ops).of = o /\ Txn(n, o, ops).ops = ops
      /\ Given(Txn(n, o, ops)) = {op}
  <2>1. \A s \in Seq(Ops) : Len(s) > 0 /\ s[1].op # "setattrs"
              /\ (\A i \in 1 .. Len(s) : s[i] \in OpsOf(n)) =>
           /\ Txn(n, o, s) \in Txns /\ Proper(Txn(n, o, s))
           /\ Txn(n, o, s).of = o /\ Txn(n, o, s).ops = s
           /\ Given(Txn(n, o, s)) = {s[i] : i \in 1 .. Len(s)}
    BY TxnIs
  <2> QED BY <1>0, <1>1, <1>2, <2>1
<1> QED BY <1>3 DEF ops

\* Fewer entries in the temporary space are as good.
LEMMA SeenLess ==
  ASSUME NEW S, NEW G \in Contents, NEW F, NEW os \in [Objects -> Objs], NEW serving,
         \A p \in Objects : Placed(os[p]) => os[p].name \in Names /\ os[p].ts \in Puts(os[p].name),
         Seen(S, F, os, serving),
         \A at \in Addresses : G[at] = S[at] \/ (at.temp /\ G[at] = NoEntry)
  PROVE  Seen(G, F, os, serving)
<1>1. \A at \in Addresses : Whole(G[at])
  BY EmptyEntry DEF Seen, Whole
<1>2. \A n \in Names : Ordinary(n) \in Addresses /\ G[Ordinary(n)] = S[Ordinary(n)]
  BY AddressFacts
<1>3. \A n \in Names : \A s \in Puts(n) :
         G[Temporary(n, s)] # NoEntry => G[Temporary(n, s)] = S[Temporary(n, s)]
  BY AddressFacts
<1>4. \A p \in Objects : Placed(os[p]) => Knows(os[p], G)
  BY <1>2, <1>3 DEF Seen, Knows
<1> QED BY <1>1, <1>2, <1>3, <1>4 DEF Seen

\* Who has which stamp depends on the stamps at the names only.
LEMMA StampsAt ==
  ASSUME NEW F, NEW G, NEW os, NEW hd, NEW clock, Stamped(F, os, hd, clock),
         \A p \in Objects : os[p].state = "OLD" => os[p].name \in Names,
         SameStamps(G, F)
  PROVE  Stamped(G, os, hd, clock)
BY DEF Stamped, SameStamps

\* What the invariant says of the Objects.
LEMMA ObjectFacts ==
  ASSUME IInv
  PROVE  /\ Types /\ Stamped(Settled, objs, held, last) /\ Holds(Settled, objs, held)
         /\ \A p \in Objects : objs[p] \in Objs /\ objs[p].ts \in Nat
         /\ \A p \in Objects : objs[p].state # "NONE" => objs[p].name \in Names
         /\ \A p \in Objects : Placed(objs[p]) =>
               objs[p].name \in Names /\ objs[p].ts \in Puts(objs[p].name)
         /\ last \in Nat /\ Settled \in Contents
         /\ Seen(Settled, Settled, objs, phase = "serving")
BY Clock, Queued DEF IInv, Types, ObjectsTrue, HeldTrue, Placed, Stamped, PassingTrue

\* The last reference to an Object that was being written, or that was
\* retired: its entry, at an address nobody else has, is removed.
LEMMA DropRemovesStep ==
  ASSUME IInv, NEW o \in Objects, Drop(o), objs[o].state \in {"IN_WRITE", "OLD"}
  PROVE  IInv'
<1> DEFINE x == objs[o]
           n == x.name
           A == Temporary(n, x.ts)
           op == Unlink(A)
           T == Txn(n, NoObject, <<op>>)
           F == Apply(op, Settled)
<1>0. Address(x) = A
  BY AddressIs
<1>1. /\ phase = "serving" /\ reads[o] = NoRead
      /\ objs' = [objs EXCEPT ![o] = Free]
      /\ held' = IF held[n] = o THEN [held EXCEPT ![n] = NoObject] ELSE held
      /\ queue' = Append(queue, T)
      /\ UNCHANGED <<reads, last, current, handed, store, disk, phase, crashes, aborted>>
  BY <1>0 DEF Drop, Running, Idle, Prepare
<1>2. /\ Types /\ Stamped(Settled, objs, held, last) /\ Holds(Settled, objs, held)
      /\ n \in Names /\ x \in Objs
      /\ x.state = "IN_WRITE" => x.ts \in Times(n)
      /\ x.state = "OLD" => x.ts \in Puts(n) /\ x.ts < Settled[Ordinary(n)].ts
  <2>1. n \in Names
    BY ObjectFacts
  <2> QED BY <2>1, ObjectFacts DEF Stamped, Writing
<1>3. /\ A \in Addresses /\ A.temp /\ A.name = n /\ A.gen = x.ts
      /\ \A m \in Names : Ordinary(m) \in Addresses /\ Ordinary(m) # A
  BY <1>2, AddressFacts
<1>4. /\ op \in Ops /\ op.op = "remove" /\ op.at = A /\ op \in OpsOf(n)
      /\ Settled \in Contents
  <2>1. op \in Ops /\ op.op = "remove" /\ op.at = A
    BY <1>3, OpsTyped
  <2> HIDE DEF op
  <2> QED BY <1>3, <2>1, ObjectFacts DEF OpsOf
<1>5. /\ F \in Contents /\ F[A] = NoEntry
      /\ \A a \in Addresses : a # A => F[a] = Settled[a]
  BY <1>4, ApplyRemove
<1>6. /\ T \in Txns /\ Proper(T) /\ T.ops = <<op>> /\ T.of = NoObject
      /\ \A m \in Names : ~Touches(T, m)
  <2> HIDE DEF op
  <2>2. /\ T \in Txns /\ Proper(T) /\ T.ops = <<op>> /\ T.of = NoObject
        /\ Given(T) = {op}
    BY <1>2, <1>4, TxnOne
  <2> HIDE DEF T
  <2> QED BY <1>3, <1>4, <2>2 DEF Touches, On
<1>7. /\ ApplyAll(T.ops, Settled) = F /\ PassingOf(T.ops, Settled) = {Settled, F}
      /\ StagesOf(T.ops, Settled) = {<<Settled, op>>}
  BY <1>4, <1>6, OneOp
<1> HIDE DEF F, T, op
<1>8. /\ Ending' /\ MidPut' /\ DiskTrue'
      /\ Coming \in Seq(Txns) /\ Coming' = Append(Coming, T)
      /\ queue' \in Seq(Txns) /\ (\A i \in 1 .. Len(queue') : Proper(queue'[i]))
      /\ Settled' = F
  BY <1>1, <1>6, <1>7, OnlyPrepared
<1>9. /\ objs' \in [Objects -> Objs] /\ objs'[o] = Free
      /\ \A p \in Objects : p # o => objs'[p] = objs[p]
      /\ Free.state = "NONE" /\ ~Kept(Free)
  <2>1. Free.state = "NONE" /\ ~Kept(Free) /\ Free \in Objs
    BY FreeTyped
  <2>2. objs \in [Objects -> Objs]
    BY <1>2 DEF Types
  <2> QED BY <1>1, <2>1, <2>2
<1>10. held' = held /\ \A m \in Names : held[m] # o
  <2>1. \A m \in Names : held[m] # o
    BY <1>2, EngineAssumption DEF Holds
  <2> QED BY <1>1, <1>2, <2>1
<1>11. /\ SamePlaces(objs, objs')
       /\ \A p \in Objects : Placed(objs[p]) /\ reads[p] # NoRead => Placed(objs'[p])
  BY <1>1, <1>9 DEF SamePlaces, Placed
<1>12. SameStamps(F, Settled) /\ SameStamps(Settled, Settled)
  BY <1>3, <1>5 DEF SameStamps
<1>13. Seen(Settled, Settled, objs, TRUE) /\ Seen(F, Settled, objs, TRUE)
  <2>1. Seen(Settled, Settled, objs, TRUE)
    BY <1>1, ObjectFacts
  <2>2. /\ objs \in [Objects -> Objs]
        /\ \A p \in Objects : Placed(objs[p]) => objs[p].name \in Names /\ objs[p].ts \in Puts(objs[p].name)
        /\ \A at \in Addresses : F[at] = Settled[at] \/ (at.temp /\ F[at] = NoEntry)
    BY <1>2, <1>3, <1>5, ObjectFacts DEF Types
  <2> QED BY <1>5, <2>1, <2>2, SeenLess
<1>14. Due(Settled, op, Settled, objs', TRUE)
  <2>1. DueRemove(op, Settled, objs')
    <3> SUFFICES ASSUME x.ts \in Puts(n)
                 PROVE  /\ x.ts < Settled[Ordinary(n)].ts
                        /\ \A p \in Objects : Placed(objs'[p]) /\ objs'[p].name = n =>
                              objs'[p].ts # x.ts
      BY <1>3, <1>4 DEF DueRemove
    <3>1. x.state = "OLD" /\ x.ts < Settled[Ordinary(n)].ts
      BY <1>2, Apart
    <3>2. ASSUME NEW p \in Objects, Placed(objs'[p]), objs'[p].name = n
          PROVE  objs'[p].ts # x.ts
      <4>1. p # o /\ objs'[p] = objs[p] /\ Placed(objs[p]) /\ objs[p].name = n
        BY <1>9, <3>2 DEF Placed
      <4>2. CASE objs[p].state = "OLD"
        BY <1>2, <3>1, <4>1, <4>2 DEF Stamped
      <4>3. CASE objs[p].state = "ACTIVE"
        <5>1. Settled[Ordinary(n)] = Told(objs[p])
          BY <4>1, <4>3, AddressIs DEF IInv, SettledTrue, Settles, Kept
        <5>2. Settled[Ordinary(n)].ts = objs[p].ts
          BY <5>1 DEF Told
        <5>3. x.ts \in Nat
          BY ObjectFacts
        <5> QED BY <3>1, <4>1, <5>2, <5>3
      <4> QED BY <4>1, <4>2, <4>3 DEF Placed
    <3> QED BY <3>1, <3>2
  <2>2. \A m \in Names : Settled[Ordinary(m)].ts \notin Times(m)
    BY SettledStamps
  <2> QED BY <1>3, <1>4, <2>1, <2>2 DEF Due
<1>15. /\ Frozen' /\ PassingTrue' /\ StagesTrue' /\ ReadsTrue'
  <2>1. \A S \in PassingOf(T.ops, Settled) :
            Seen(S, Settled, objs, TRUE) /\ SameStamps(S, Settled)
    BY <1>7, <1>12, <1>13
  <2>2. \A g \in StagesOf(T.ops, Settled) : Due(g[1], g[2], Settled, objs', TRUE)
    <3> TAKE g \in StagesOf(T.ops, Settled)
    <3>1. g = <<Settled, op>>
      BY <1>7
    <3>2. g[1] = Settled /\ g[2] = op
      BY <3>1
    <3> QED BY <1>14, <3>2
  <2> QED BY <1>1, <1>6, <1>11, <2>1, <2>2, Steady
<1>16. SettledTrue'
  <2>0. Settles(Settled, objs, TRUE)
    BY <1>1 DEF IInv, SettledTrue
  <2>1. \A m \in Names : Sane(m, F[Ordinary(m)])
    BY <1>3, <1>5, <2>0 DEF Settles
  <2>2. ASSUME NEW at \in Addresses, at.temp, F[at] # NoEntry
        PROVE  \E p \in Objects : Kept(objs'[p]) /\ Address(objs'[p]) = at
    <3>1. at # A /\ Settled[at] # NoEntry
      BY <1>5, <2>2
    <3>2. PICK p \in Objects : Kept(objs[p]) /\ Address(objs[p]) = at
      BY <2>0, <2>2, <3>1 DEF Settles
    <3> QED BY <1>0, <1>9, <3>1, <3>2
  <2>3. ASSUME NEW p \in Objects, Kept(objs'[p])
        PROVE  F[Address(objs'[p])] = Told(objs'[p])
    <3>1. p # o /\ objs'[p] = objs[p] /\ Kept(objs[p])
      BY <1>9, <2>3
    <3>2. Address(objs[p]) # A /\ Address(objs[p]) \in Addresses
      BY <1>0, <3>1, Distinct DEF Kept
    <3> QED BY <1>5, <2>0, <3>1, <3>2 DEF Settles
  <2>4. Settles(F, objs', TRUE)
    BY <2>1, <2>2, <2>3 DEF Settles
  <2>5. phase' # "mounted"
    BY <1>1
  <2> QED BY <1>8, <2>4, <2>5 DEF SettledTrue
<1>17. Types'
  <2>1. \A p \in Objects :
          /\ objs'[p].state = "NONE" => objs'[p] = Free
          /\ objs'[p].state # "NONE" => objs'[p].name \in Names
    BY <1>2, <1>9 DEF Types
  <2> QED BY <1>1, <1>2, <1>8, <1>9, <1>10, <2>1 DEF Types
<1>18. ObjectsTrue'
  <2>1. /\ \A p \in Objects : objs[p].ts \in Nat
        /\ last \in Nat /\ last <= last
    BY ObjectFacts
  <2>2. /\ objs'[o].state \notin Writing \cup {"OLD"}
        /\ objs'[o].state \in {"PRE_SEARCH", "MISSING"} => objs'[o].ts = 0
        /\ objs'[o].state \in {"PRE_SEARCH", "ACTIVE"} => held[objs'[o].name] = o
        /\ objs'[o].state = "ACTIVE" => objs'[o].ts \in Puts(objs'[o].name)
    BY <1>9 DEF Writing
  <2>3. \A p \in Objects : p # o /\ objs[p].state \in {"PRE_SEARCH", "ACTIVE"} =>
                held[objs[p].name] = p
    BY <1>2 DEF Stamped
  <2>4. Stamped(Settled, objs', held, last)
    BY <1>2, <1>9, <2>1, <2>2, <2>3, StampsKept
  <2>5. \A p \in Objects : objs'[p].state = "OLD" => objs'[p].name \in Names
    BY <1>2, <1>9 DEF Types
  <2>6. Stamped(F, objs', held, last)
    BY <1>12, <2>4, <2>5, StampsAt
  <2> QED BY <1>1, <1>8, <1>10, <2>6 DEF ObjectsTrue
<1>19. HeldTrue'
  <2>1. \A m \in Names : held[m] # NoObject => held[m] \in Objects /\ objs'[held[m]] = objs[held[m]]
    BY <1>2, <1>9, <1>10 DEF Types
  <2>2. Holds(F, objs', held)
    BY <1>2, <1>3, <1>5, <2>1 DEF Holds
  <2> QED BY <1>8, <1>10, <2>2 DEF HeldTrue
<1>20. Answered'
  <2>1. ASSUME NEW m \in Names
        PROVE  Answers(Append(Coming, T), m, objs', held)
    <3>1. Answers(Coming, m, objs, held)
      BY DEF IInv, Answered
    <3>2. held[m] # NoObject => objs'[held[m]] = objs[held[m]]
      BY <1>2, <1>9, <1>10 DEF Types
    <3> QED BY <1>6, <1>8, <3>1, <3>2, AnswersMore
  <2> QED BY <1>8, <1>10, <2>1 DEF Answered
<1> QED BY <1>8, <1>15, <1>16, <1>17, <1>18, <1>19, <1>20 DEF IInv

-----------------------------------------------------------------------------
(* Writing: everything happens at the Object's own address.                *)

\* A state that differs at one temporary address, or not in stamps, says
\* no less.
LEMMA SeenThere ==
  ASSUME IInv, phase = "serving", NEW S, NEW A \in Addresses,
         OnlyAt(S, Settled, A), Whole(S[A]), Writable(S, Settled, A)
  PROVE  Seen(S, Settled, objs, TRUE) /\ SameStamps(S, Settled)
<1>1. /\ Seen(Settled, Settled, objs, TRUE)
      /\ \A p \in Objects : Placed(objs[p]) =>
               objs[p].name \in Names /\ objs[p].ts \in Puts(objs[p].name)
  BY ObjectFacts
<1>2. \A m \in Names : Ordinary(m) \in Addresses /\ ~Ordinary(m).temp
  BY AddressFacts
<1>3. \A m \in Names : \A s \in Puts(m) : S[Temporary(m, s)] = Settled[Temporary(m, s)]
  <2> TAKE m \in Names
  <2> TAKE s \in Puts(m)
  <2>1. /\ Temporary(m, s) \in Addresses /\ Temporary(m, s).temp /\ Temporary(m, s).name = m /\ Temporary(m, s).gen = s
    BY AddressFacts
  <2>2. Temporary(m, s) # A
    BY <2>1, Apart DEF Writable
  <2> QED BY <2>1, <2>2 DEF OnlyAt
<1>4. \A m \in Names :
         /\ S[Ordinary(m)].ts = Settled[Ordinary(m)].ts
         /\ S[Ordinary(m)].id = Settled[Ordinary(m)].id
         /\ S[Ordinary(m)].data = Settled[Ordinary(m)].data
         /\ S[Ordinary(m)] = Settled[Ordinary(m)] \/ Sane(m, S[Ordinary(m)])
  <2> TAKE m \in Names
  <2>1. CASE Ordinary(m) # A
    BY <1>2, <2>1 DEF OnlyAt
  <2>2. CASE Ordinary(m) = A
    BY <1>2, <2>2, AddressFacts DEF Writable, Sane
  <2> QED BY <2>1, <2>2
<1>5. \A a \in Addresses : Whole(S[a])
  BY <1>1 DEF OnlyAt, Seen
<1>6. \A p \in Objects : Placed(objs[p]) => Knows(objs[p], S)
  BY <1>1, <1>3, <1>4 DEF Seen, Knows, Own
<1>7. S \in Contents
  BY DEF OnlyAt
<1>8. \A m \in Names : Sane(m, Settled[Ordinary(m)]) /\ Settled[Ordinary(m)].ts \in Nat
  BY <1>2, ObjectFacts DEF IInv, SettledTrue, Settles, Contents, Entries
<1>9. SameStamps(S, Settled)
  BY <1>4 DEF SameStamps
<1>10. \A m \in Names : /\ Sane(m, S[Ordinary(m)])
                        /\ S[Ordinary(m)].ts <= Settled[Ordinary(m)].ts
  BY <1>4, <1>8
<1>11. \A m \in Names : \A s \in Puts(m) : S[Temporary(m, s)] # NoEntry =>
          s < Settled[Ordinary(m)].ts /\ S[Ordinary(m)].ts # s
  BY <1>1, <1>3, <1>4 DEF Seen
<1> QED BY <1>5, <1>6, <1>7, <1>9, <1>10, <1>11 DEF Seen

\* What a write or a save finds where stamps stay.
LEMMA DueThere ==
  ASSUME IInv, NEW S, NEW op \in Ops, SameStamps(S, Settled),
         op.op \in {"touch", "write", "header", "setattrs"},
         op.op \in {"touch", "write"} => op.at.temp,
         op.op \in {"setattrs", "header"} => S[op.at] # NoEntry,
         op.op = "setattrs" => op.ts > 0,
         op.op = "setattrs" /\ ~op.at.temp => op.ts = S[op.at].ts,
         op.op = "header" => op.meta > 0
  PROVE  Due(S, op, Settled, objs, TRUE)
<1>1. \A m \in Names : S[Ordinary(m)].ts \notin Times(m)
  BY SettledStamps DEF SameStamps
<1> QED BY <1>1 DEF Due

\* An Object being written keeps its stamp.
LEMMA StampsWritten ==
  ASSUME NEW F, NEW os, NEW hd, NEW clock, Stamped(F, os, hd, clock),
         NEW o \in Objects, NEW new, WrittenTo(o, os, new)
  PROVE  Stamped(F, new, hd, clock)
<1>0. /\ \A p \in Objects : p # o => new[p] = os[p]
      /\ new[o].name = os[o].name /\ new[o].ts = os[o].ts
      /\ \/ os[o].state \in Writing /\ new[o].state = "IN_WRITE"
         \/ os[o].state = "ACTIVE" /\ new[o].state = "ACTIVE"
  BY DEF WrittenTo
<1> SUFFICES ASSUME NEW p \in Objects
             PROVE  LET x == new[p] IN
        /\ x.state \in Writing =>
              /\ x.ts \in Times(x.name) /\ x.ts <= clock
              /\ \A q \in Objects : q # p /\ new[q].state \in Writing => new[q].ts # x.ts
        /\ x.state = "PRE_WRITE" => x.id # NoWriter /\ x.written = 0 /\ x.metas = 0 /\ ~x.deleted
        /\ x.state \in {"PRE_SEARCH", "MISSING"} => x.ts = 0
        /\ x.state \in {"PRE_SEARCH", "ACTIVE"} => hd[x.name] = p
        /\ x.state \in {"ACTIVE", "OLD"} => x.ts \in Puts(x.name)
        /\ x.state = "OLD" =>
              /\ x.ts < F[Ordinary(x.name)].ts
              /\ \A q \in Objects : q # p /\ new[q].state = "OLD" /\ new[q].name = x.name =>
                    new[q].ts # x.ts
  BY DEF Stamped
<1>1. \A q \in Objects :
         /\ new[q].name = os[q].name /\ new[q].ts = os[q].ts
         /\ new[q].state \in Writing <=> os[q].state \in Writing
         /\ new[q].state = "OLD" <=> os[q].state = "OLD"
         /\ new[q].state \in {"ACTIVE", "OLD"} <=> os[q].state \in {"ACTIVE", "OLD"}
         /\ new[q].state \in {"PRE_SEARCH", "ACTIVE"} <=> os[q].state \in {"PRE_SEARCH", "ACTIVE"}
  BY <1>0 DEF Writing
<1>2. new[p].state \in {"PRE_WRITE", "PRE_SEARCH", "MISSING"} => new[p] = os[p]
  BY <1>0
<1> QED BY <1>1, <1>2 DEF Stamped

\* A transaction that writes to the entry of one Object, and nothing else.
LEMMA WritesStep ==
  ASSUME IInv, phase = "serving", NEW o \in Objects, NEW y \in Objs,
         NEW T \in Txns, Proper(T), T.of = o,
         objs' = [objs EXCEPT ![o] = y], queue' = Append(queue, T),
         UNCHANGED <<held, reads, last, current, handed, store, disk, phase, crashes, aborted>>,
         y.name = objs[o].name, y.ts = objs[o].ts, y.id = objs[o].id,
         \/ objs[o].state \in Writing /\ y.state = "IN_WRITE"
         \/ objs[o].state = "ACTIVE" /\ y.state = "ACTIVE" /\ y.written = objs[o].written,
         \A op \in Given(T) : op.at = Address(y) /\ op.op # "rename",
         ApplyAll(T.ops, Settled)[Address(y)] = Told(y),
         \A S \in PassingOf(T.ops, Settled) :
            OnlyAt(S, Settled, Address(y)) /\ Whole(S[Address(y)]) /\ Writable(S, Settled, Address(y)),
         \A g \in StagesOf(T.ops, Settled) : Due(g[1], g[2], Settled, objs, TRUE)
  PROVE  IInv'
<1> DEFINE x == objs[o]
           n == x.name
           A == Address(y)
           F == ApplyAll(T.ops, Settled)
<1>1. /\ Types /\ Stamped(Settled, objs, held, last) /\ Holds(Settled, objs, held)
      /\ n \in Names /\ x \in Objs /\ x.state \in {"PRE_WRITE", "IN_WRITE", "ACTIVE"}
      /\ x.state = "ACTIVE" => held[n] = o /\ x.ts \in Puts(n)
      /\ x.state # "ACTIVE" => x.ts \in Times(n)
      /\ T.ops \in Seq(Ops)
  <2>1. x.state \in {"PRE_WRITE", "IN_WRITE", "ACTIVE"} /\ x.state # "NONE"
    BY DEF Writing
  <2> QED BY <2>1, ObjectFacts DEF Stamped, Writing, Txns
<1>2. /\ Address(x) = A /\ A \in Addresses /\ A.name = n
      /\ x.state = "ACTIVE" => A = Ordinary(n) /\ ~A.temp
      /\ x.state # "ACTIVE" => A = Temporary(n, x.ts) /\ A.temp
  <2>1. /\ x.state = "ACTIVE" => Address(x) = Ordinary(n) /\ A = Ordinary(n)
        /\ x.state # "ACTIVE" => Address(x) = Temporary(n, x.ts) /\ A = Temporary(n, x.ts)
    BY <1>1, AddressIs DEF Writing
  <2> QED BY <1>1, <2>1, AddressFacts
<1>3. \A m \in Names : Ordinary(m) \in Addresses /\ (Ordinary(m) = A => m = n /\ x.state = "ACTIVE")
  BY <1>2, AddressFacts
<1>4. /\ F \in PassingOf(T.ops, Settled) /\ OnlyAt(F, Settled, A)
  BY <1>1, EndsPassing
<1>5. /\ Ending' /\ MidPut' /\ DiskTrue'
      /\ Coming \in Seq(Txns) /\ Coming' = Append(Coming, T)
      /\ queue' \in Seq(Txns) /\ (\A i \in 1 .. Len(queue') : Proper(queue'[i]))
      /\ Settled' = F
  BY OnlyPrepared
<1>6. /\ objs' \in [Objects -> Objs] /\ objs'[o] = y
      /\ \A p \in Objects : p # o => objs'[p] = objs[p]
  BY <1>1 DEF Types
<1>7. /\ SamePlaces(objs, objs')
      /\ \A p \in Objects : Placed(objs[p]) => Placed(objs'[p])
  BY <1>6 DEF SamePlaces, Placed, Writing
<1>8. \A S \in PassingOf(T.ops, Settled) :
         Seen(S, Settled, objs, TRUE) /\ SameStamps(S, Settled)
  BY <1>2, SeenThere
<1>9. \A g \in StagesOf(T.ops, Settled) : Due(g[1], g[2], Settled, objs', TRUE)
  <2> TAKE g \in StagesOf(T.ops, Settled)
  <2>1. g[2] \in Ops
    BY <1>1, StagesTyped
  <2>2. SameStamps(Settled, Settled)
    BY DEF SameStamps
  <2> QED BY <1>7, <2>1, <2>2, DueStill
<1>10. /\ Frozen' /\ PassingTrue' /\ StagesTrue' /\ ReadsTrue'
  BY <1>7, <1>8, <1>9, Steady
<1>11. SameStamps(F, Settled)
  BY <1>4, <1>8
<1> HIDE DEF F, A
<1>12. SettledTrue'
  <2>0. Settles(Settled, objs, TRUE)
    BY DEF IInv, SettledTrue
  <2>1. F[A] = Told(y)
    BY DEF F, A
  <2>2. Kept(y) /\ Address(y) = A
    BY DEF Kept, A
  <2>3. \A m \in Names : Sane(m, F[Ordinary(m)])
    <3> TAKE m \in Names
    <3>1. CASE Ordinary(m) = A
      <4>1. y.state = "ACTIVE" /\ y.ts \in Puts(n)
        BY <1>1, <1>3, <3>1 DEF Writing
      <4>2. Told(y).ts \in Puts(n) /\ ~Told(y).old
        BY <4>1 DEF Told
      <4> QED BY <1>2, <2>1, <3>1, <4>2, AddressFacts DEF Sane
    <3>2. CASE Ordinary(m) # A
      BY <1>3, <1>4, <2>0, <3>2 DEF OnlyAt, Settles
    <3> QED BY <3>1, <3>2
  <2>4. ASSUME NEW at \in Addresses, at.temp, F[at] # NoEntry
        PROVE  \E p \in Objects : Kept(objs'[p]) /\ Address(objs'[p]) = at
    <3>1. CASE at = A
      BY <1>6, <2>2, <3>1
    <3>2. CASE at # A
      <4>1. Settled[at] # NoEntry
        BY <1>4, <2>4, <3>2 DEF OnlyAt
      <4>2. PICK p \in Objects : Kept(objs[p]) /\ Address(objs[p]) = at
        BY <2>0, <2>4, <4>1 DEF Settles
      <4> QED BY <1>2, <1>6, <3>2, <4>2
    <3> QED BY <3>1, <3>2
  <2>5. ASSUME NEW p \in Objects, Kept(objs'[p])
        PROVE  F[Address(objs'[p])] = Told(objs'[p])
    <3>1. CASE p = o
      BY <1>6, <2>1, <2>2, <3>1
    <3>2. CASE p # o
      <4>1. objs'[p] = objs[p] /\ Kept(objs[p])
        BY <1>6, <2>5, <3>2
      <4>2. Address(objs[p]) # A /\ Address(objs[p]) \in Addresses
        BY <1>1, <1>2, <3>2, <4>1, Distinct DEF Kept
      <4> QED BY <1>4, <2>0, <4>1, <4>2 DEF Settles, OnlyAt
    <3> QED BY <3>1, <3>2
  <2>6. Settles(F, objs', TRUE)
    BY <2>3, <2>4, <2>5 DEF Settles
  <2>7. phase' # "mounted"
    OBVIOUS
  <2> QED BY <1>5, <2>6, <2>7 DEF SettledTrue
<1>13. Types'
  <2>1. \A p \in Objects :
          /\ objs'[p].state = "NONE" => objs'[p] = Free
          /\ objs'[p].state # "NONE" => objs'[p].name \in Names
    BY <1>1, <1>6 DEF Types
  <2> QED BY <1>1, <1>5, <1>6, <2>1 DEF Types
<1>14. ObjectsTrue'
  <2>1. Stamped(Settled, objs', held, last)
    <3>1. /\ objs'[o].name = objs[o].name /\ objs'[o].ts = objs[o].ts
          /\ \/ objs[o].state \in Writing /\ objs'[o].state = "IN_WRITE"
             \/ objs[o].state = "ACTIVE" /\ objs'[o].state = "ACTIVE"
      BY <1>6
    <3> HIDE DEF x, n
    <3>2. Stamped(Settled, objs, held, last)
      BY <1>1
    <3>3. WrittenTo(o, objs, objs')
      BY <1>6, <3>1 DEF WrittenTo
    <3> QED BY <3>2, <3>3, StampsWritten
  <2>2. \A p \in Objects : objs'[p].state = "OLD" => objs'[p].name \in Names
    BY <1>1, <1>6 DEF Types
  <2>3. Stamped(F, objs', held, last)
    BY <1>11, <2>1, <2>2, StampsAt
  <2> QED BY <1>5, <2>3 DEF ObjectsTrue
<1>15. ASSUME NEW m \in Names, held[m] # NoObject
       PROVE  /\ held[m] \in Objects
              /\ objs'[held[m]].state = objs[held[m]].state
              /\ objs'[held[m]].name = objs[held[m]].name
  <2>1. held[m] \in Objects /\ objs[held[m]].state \in {"PRE_SEARCH", "MISSING", "ACTIVE"}
    BY <1>1, <1>15 DEF Types, Holds
  <2>2. CASE held[m] = o
    BY <1>6, <2>1, <2>2 DEF Writing
  <2>3. CASE held[m] # o
    BY <1>6, <2>1, <2>3
  <2> QED BY <2>1, <2>2, <2>3
<1>16. HeldTrue'
  <2>1. ASSUME NEW m \in Names, held[m] # NoObject
        PROVE  /\ objs'[held[m]].name = m
               /\ objs'[held[m]].state \in {"PRE_SEARCH", "MISSING", "ACTIVE"}
               /\ objs'[held[m]].state = "MISSING" => F[Ordinary(m)] = NoEntry
    <3>1. objs[held[m]].state = "MISSING" => Ordinary(m) # A
      BY <1>1, <1>3
    <3> QED BY <1>1, <1>3, <1>4, <1>15, <2>1, <3>1 DEF Holds, OnlyAt
  <2>2. Holds(F, objs', held)
    BY <2>1 DEF Holds
  <2> QED BY <1>5, <2>2 DEF HeldTrue
<1>17. Answered'
  <2>1. ASSUME NEW m \in Names
        PROVE  Answers(Append(Coming, T), m, objs', held)
    <3>1. Answers(Coming, m, objs, held)
      BY DEF IInv, Answered
    <3>2. held[m] # NoObject /\ objs[held[m]].state = "ACTIVE" => objs'[held[m]].state = "ACTIVE"
      BY <1>15
    <3>3. Touches(T, m) =>
             held[m] # NoObject /\ objs[held[m]].state = "ACTIVE" /\ T.of = held[m]
      <4> SUFFICES ASSUME Touches(T, m)
                   PROVE  held[m] # NoObject /\ objs[held[m]].state = "ACTIVE" /\ T.of = held[m]
        OBVIOUS
      <4>1. Ordinary(m) = A
        BY DEF Touches, On, A
      <4>2. held[m] = o /\ x.state = "ACTIVE"
        BY <1>1, <1>3, <4>1
      <4> QED BY <4>2, EngineAssumption
    <3> QED BY <1>5, <3>1, <3>2, <3>3, AnswersMore
  <2> QED BY <1>5, <2>1 DEF Answered
<1> QED BY <1>5, <1>10, <1>12, <1>13, <1>14, <1>16, <1>17 DEF IInv

\* One more chunk of one writer.
LEMMA FullChunks ==
  ASSUME NEW id \in Ids, NEW k \in Nat
  PROVE  LET d == [i \in 1 .. k |-> id] IN
         /\ d \in Seq(Ids) /\ Len(d) = k
         /\ Overwrite(d, k, id) = [i \in 1 .. k + 1 |-> id]
<1> DEFINE d == [i \in 1 .. k |-> id]
<1>1. d \in Seq(Ids) /\ Len(d) = k
  OBVIOUS
<1>2. Overwrite(d, k, id) = Append(d, id)
  BY <1>1 DEF Overwrite
<1>3. Append(d, id) = [i \in 1 .. k + 1 |-> id]
  <2>1. Append(d, id) \in Seq(Ids) /\ Len(Append(d, id)) = k + 1
    BY <1>1
  <2>2. \A i \in 1 .. k + 1 : Append(d, id)[i] = id
    BY <1>1
  <2>3. /\ [i \in 1 .. k + 1 |-> id] \in Seq(Ids) /\ Len([i \in 1 .. k + 1 |-> id]) = k + 1
        /\ \A j \in 1 .. k + 1 : [i \in 1 .. k + 1 |-> id][j] = id
    OBVIOUS
  <2> HIDE DEF d
  <2> QED BY <2>1, <2>2, <2>3, SeqEqual
<1> QED BY <1>1, <1>2, <1>3

\* Bytes of one writer are whole.
LEMMA WholeIs ==
  ASSUME NEW e
  PROVE  /\ e.data = <<>> => Whole(e)
         /\ \A k \in Nat : e.id \in Ids /\ e.data = [i \in 1 .. k |-> e.id] => Whole(e)
<1>1. ASSUME e.data = <<>>
      PROVE  Whole(e)
  <2>1. Len(e.data) = 0 /\ <<>> = [i \in 1 .. 0 |-> e.id]
    BY <1>1
  <2> QED BY <1>1, <2>1 DEF Whole
<1>2. ASSUME NEW k \in Nat, e.id \in Ids, e.data = [i \in 1 .. k |-> e.id]
      PROVE  Whole(e)
  <2>1. Len(e.data) = k
    BY <1>2, FullChunks
  <2> QED BY <1>2, <2>1 DEF Whole
<1> QED BY <1>1, <1>2

\* The address of an Object that has written nothing yet is free.
LEMMA StartsEmpty ==
  ASSUME IInv, phase = "serving", NEW o \in Objects, objs[o].state = "PRE_WRITE"
  PROVE  Settled[Temporary(objs[o].name, objs[o].ts)] = NoEntry
<1> DEFINE A == Temporary(objs[o].name, objs[o].ts)
<1>1. /\ Settles(Settled, objs, TRUE) /\ Stamped(Settled, objs, held, last)
      /\ objs[o].name \in Names /\ Address(objs[o]) = A
  BY ObjectFacts, AddressIs DEF IInv, SettledTrue
<1>2. A \in Addresses /\ A.temp
  BY <1>1, AddressFacts DEF Stamped, Writing
<1> SUFFICES ASSUME Settled[A] # NoEntry
             PROVE  FALSE
  OBVIOUS
<1>3. PICK p \in Objects : Kept(objs[p]) /\ Address(objs[p]) = A
  BY <1>1, <1>2 DEF Settles
<1>4. p # o
  BY <1>3 DEF Kept
<1> QED BY <1>1, <1>3, <1>4, Distinct DEF Kept

\* The fields of an Object that writes.
LEMMA ObjectWrites ==
  ASSUME NEW x \in Objs, x.state \in {"PRE_WRITE", "IN_WRITE", "ACTIVE"}
  PROVE  /\ LET y == [x EXCEPT !.state = "IN_WRITE"] IN
            /\ y \in Objs /\ y.name = x.name /\ y.state = "IN_WRITE" /\ y.ts = x.ts
            /\ y.deleted = x.deleted /\ y.id = x.id /\ y.written = x.written
            /\ y.metas = x.metas
         /\ LET y == [x EXCEPT !.written = @ + 1] IN
            /\ y \in Objs /\ y.name = x.name /\ y.state = x.state /\ y.ts = x.ts
            /\ y.deleted = x.deleted /\ y.id = x.id /\ y.written = x.written + 1
            /\ y.metas = x.metas
         /\ \A deleted \in BOOLEAN :
            LET y == [x EXCEPT !.state = IF @ = "ACTIVE" THEN @ ELSE "IN_WRITE",
                               !.metas = @ + 1, !.deleted = @ \/ deleted]
            IN  /\ y \in Objs /\ y.name = x.name /\ y.ts = x.ts
                /\ y.state = IF x.state = "ACTIVE" THEN "ACTIVE" ELSE "IN_WRITE"
                /\ y.deleted = (x.deleted \/ deleted) /\ y.id = x.id
                /\ y.written = x.written /\ y.metas = x.metas + 1
<1>1. LET y == [x EXCEPT !.state = "IN_WRITE"] IN
            /\ y \in Objs /\ y.name = x.name /\ y.state = "IN_WRITE" /\ y.ts = x.ts
            /\ y.deleted = x.deleted /\ y.id = x.id /\ y.written = x.written
            /\ y.metas = x.metas
  BY DEF Objs, States
<1>2. LET y == [x EXCEPT !.written = @ + 1] IN
            /\ y \in Objs /\ y.name = x.name /\ y.state = x.state /\ y.ts = x.ts
            /\ y.deleted = x.deleted /\ y.id = x.id /\ y.written = x.written + 1
            /\ y.metas = x.metas
  BY DEF Objs, States
<1>3. ASSUME NEW deleted \in BOOLEAN
      PROVE  LET y == [x EXCEPT !.state = IF @ = "ACTIVE" THEN @ ELSE "IN_WRITE",
                                !.metas = @ + 1, !.deleted = @ \/ deleted]
             IN  /\ y \in Objs /\ y.name = x.name /\ y.ts = x.ts
                 /\ y.state = IF x.state = "ACTIVE" THEN "ACTIVE" ELSE "IN_WRITE"
                 /\ y.deleted = (x.deleted \/ deleted) /\ y.id = x.id
                 /\ y.written = x.written /\ y.metas = x.metas + 1
  <2>1. ASSUME NEW s \in States, NEW m \in Nat, NEW d \in BOOLEAN
        PROVE  LET y == [x EXCEPT !.state = s, !.metas = m, !.deleted = d] IN
               /\ y \in Objs /\ y.name = x.name /\ y.ts = x.ts /\ y.state = s
               /\ y.deleted = d /\ y.id = x.id /\ y.written = x.written /\ y.metas = m
    BY DEF Objs
  <2> DEFINE s == IF x.state = "ACTIVE" THEN x.state ELSE "IN_WRITE"
             m == x.metas + 1
             d == x.deleted \/ deleted
  <2>2. s \in States /\ m \in Nat /\ d \in BOOLEAN
    BY DEF Objs, States
  <2>3. s = IF x.state = "ACTIVE" THEN "ACTIVE" ELSE "IN_WRITE"
    OBVIOUS
  <2> HIDE DEF s, m, d
  <2>4. LET y == [x EXCEPT !.state = s, !.metas = m, !.deleted = d] IN
               /\ y \in Objs /\ y.name = x.name /\ y.ts = x.ts /\ y.state = s
               /\ y.deleted = d /\ y.id = x.id /\ y.written = x.written /\ y.metas = m
    <3> USE DEF Objs
    <3> QED BY <2>2
  <2> QED BY <2>3, <2>4 DEF s, m, d
<1> QED BY <1>1, <1>2, <1>3

\* A transaction of one operation and what it passes through.
LEMMA OneGiven ==
  ASSUME NEW n \in Names, NEW o \in Objects,
         NEW a \in OpsOf(n),
         NEW st, NEW s1, a.op # "setattrs",
         s1 = Apply(a, st)
  PROVE  Does(Txn(n, o, <<a>>), o, st, {a}, s1, {st, s1},
              {<<st, a>>})
<1> DEFINE ops == <<a>>
<1>0. a \in Ops
  BY DEF OpsOf
<1>1. /\ ApplyAll(ops, st) = s1 /\ PassingOf(ops, st) = {st, s1}
      /\ StagesOf(ops, st) = {<<st, a>>} /\ ops \in Seq(Ops)
  BY <1>0, OneOp
<1>2. /\ Len(ops) = 1 /\ Len(ops) > 0 /\ ops[1] = a
      /\ \A i \in 1 .. Len(ops) : ops[i] \in {a}
  OBVIOUS
<1>3. \A g \in StagesOf(ops, st) : g = <<g[1], g[2]>> /\ g \in {<<st, a>>}
  BY <1>1
<1> HIDE DEF ops
<1>4. /\ ops[1].op # "setattrs" /\ \A i \in 1 .. Len(ops) : ops[i] \in OpsOf(n)
      /\ {ops[i] : i \in 1 .. Len(ops)} = {a}
  BY <1>2
<1>5. LET T == Txn(n, o, ops) IN
      T \in Txns /\ Proper(T) /\ T.of = o /\ T.ops = ops /\ Given(T) = {a}
  <2>1. \A s \in Seq(Ops) : Len(s) > 0 /\ s[1].op # "setattrs"
              /\ (\A i \in 1 .. Len(s) : s[i] \in OpsOf(n)) =>
           /\ Txn(n, o, s) \in Txns /\ Proper(Txn(n, o, s))
           /\ Txn(n, o, s).of = o /\ Txn(n, o, s).ops = s
           /\ Given(Txn(n, o, s)) = {s[i] : i \in 1 .. Len(s)}
    BY TxnIs
  <2> QED BY <1>1, <1>2, <1>4, <2>1
<1>6. Does(Txn(n, o, ops), o, st, {a}, s1, {st, s1},
           {<<st, a>>})
  BY <1>1, <1>3, <1>5 DEF Does
<1> QED BY <1>6 DEF ops

\* A transaction of two operations and what it passes through.
LEMMA TwoGiven ==
  ASSUME NEW n \in Names, NEW o \in Objects,
         NEW a \in OpsOf(n), NEW b \in OpsOf(n),
         NEW st, NEW s1, NEW s2, a.op # "setattrs",
         s1 = Apply(a, st), s2 = Apply(b, s1)
  PROVE  Does(Txn(n, o, <<a, b>>), o, st, {a, b}, s2, {st, s1, s2},
              {<<st, a>>, <<s1, b>>})
<1> DEFINE ops == <<a, b>>
<1>0. a \in Ops /\ b \in Ops
  BY DEF OpsOf
<1>1. /\ ApplyAll(ops, st) = s2 /\ PassingOf(ops, st) = {st, s1, s2}
      /\ StagesOf(ops, st) = {<<st, a>>, <<s1, b>>} /\ ops \in Seq(Ops)
  BY <1>0, TwoOps
<1>2. /\ Len(ops) = 2 /\ Len(ops) > 0 /\ ops[1] = a /\ ops[2] = b
      /\ \A i \in 1 .. Len(ops) : ops[i] \in {a, b}
  OBVIOUS
<1>3. \A g \in StagesOf(ops, st) : g = <<g[1], g[2]>> /\ g \in {<<st, a>>, <<s1, b>>}
  BY <1>1
<1> HIDE DEF ops
<1>4. /\ ops[1].op # "setattrs" /\ \A i \in 1 .. Len(ops) : ops[i] \in OpsOf(n)
      /\ {ops[i] : i \in 1 .. Len(ops)} = {a, b}
  BY <1>2
<1>5. LET T == Txn(n, o, ops) IN
      T \in Txns /\ Proper(T) /\ T.of = o /\ T.ops = ops /\ Given(T) = {a, b}
  <2>1. \A s \in Seq(Ops) : Len(s) > 0 /\ s[1].op # "setattrs"
              /\ (\A i \in 1 .. Len(s) : s[i] \in OpsOf(n)) =>
           /\ Txn(n, o, s) \in Txns /\ Proper(Txn(n, o, s))
           /\ Txn(n, o, s).of = o /\ Txn(n, o, s).ops = s
           /\ Given(Txn(n, o, s)) = {s[i] : i \in 1 .. Len(s)}
    BY TxnIs
  <2> QED BY <1>1, <1>2, <1>4, <2>1
<1>6. Does(Txn(n, o, ops), o, st, {a, b}, s2, {st, s1, s2},
           {<<st, a>>, <<s1, b>>})
  BY <1>1, <1>3, <1>5 DEF Does
<1> QED BY <1>6 DEF ops

\* A transaction of three operations and what it passes through.
LEMMA ThreeGiven ==
  ASSUME NEW n \in Names, NEW o \in Objects,
         NEW a \in OpsOf(n), NEW b \in OpsOf(n), NEW c \in OpsOf(n),
         NEW st, NEW s1, NEW s2, NEW s3, a.op # "setattrs",
         s1 = Apply(a, st), s2 = Apply(b, s1), s3 = Apply(c, s2)
  PROVE  Does(Txn(n, o, <<a, b, c>>), o, st, {a, b, c}, s3, {st, s1, s2, s3},
              {<<st, a>>, <<s1, b>>, <<s2, c>>})
<1> DEFINE ops == <<a, b, c>>
<1>0. a \in Ops /\ b \in Ops /\ c \in Ops
  BY DEF OpsOf
<1>1. /\ ApplyAll(ops, st) = s3 /\ PassingOf(ops, st) = {st, s1, s2, s3}
      /\ StagesOf(ops, st) = {<<st, a>>, <<s1, b>>, <<s2, c>>} /\ ops \in Seq(Ops)
  BY <1>0, ThreeOps
<1>2. /\ Len(ops) = 3 /\ Len(ops) > 0 /\ ops[1] = a /\ ops[2] = b /\ ops[3] = c
      /\ \A i \in 1 .. Len(ops) : ops[i] \in {a, b, c}
  OBVIOUS
<1>3. \A g \in StagesOf(ops, st) : g = <<g[1], g[2]>> /\ g \in {<<st, a>>, <<s1, b>>, <<s2, c>>}
  BY <1>1
<1> HIDE DEF ops
<1>4. /\ ops[1].op # "setattrs" /\ \A i \in 1 .. Len(ops) : ops[i] \in OpsOf(n)
      /\ {ops[i] : i \in 1 .. Len(ops)} = {a, b, c}
  BY <1>2
<1>5. LET T == Txn(n, o, ops) IN
      T \in Txns /\ Proper(T) /\ T.of = o /\ T.ops = ops /\ Given(T) = {a, b, c}
  <2>1. \A s \in Seq(Ops) : Len(s) > 0 /\ s[1].op # "setattrs"
              /\ (\A i \in 1 .. Len(s) : s[i] \in OpsOf(n)) =>
           /\ Txn(n, o, s) \in Txns /\ Proper(Txn(n, o, s))
           /\ Txn(n, o, s).of = o /\ Txn(n, o, s).ops = s
           /\ Given(Txn(n, o, s)) = {s[i] : i \in 1 .. Len(s)}
    BY TxnIs
  <2> QED BY <1>1, <1>2, <1>4, <2>1
<1>6. Does(Txn(n, o, ops), o, st, {a, b, c}, s3, {st, s1, s2, s3},
           {<<st, a>>, <<s1, b>>, <<s2, c>>})
  BY <1>1, <1>3, <1>5 DEF Does
<1> QED BY <1>6 DEF ops

\* A transaction of four operations and what it passes through.
LEMMA FourGiven ==
  ASSUME NEW n \in Names, NEW o \in Objects,
         NEW a \in OpsOf(n), NEW b \in OpsOf(n), NEW c \in OpsOf(n), NEW d \in OpsOf(n),
         NEW st, NEW s1, NEW s2, NEW s3, NEW s4, a.op # "setattrs",
         s1 = Apply(a, st), s2 = Apply(b, s1), s3 = Apply(c, s2), s4 = Apply(d, s3)
  PROVE  Does(Txn(n, o, <<a, b, c, d>>), o, st, {a, b, c, d}, s4, {st, s1, s2, s3, s4},
              {<<st, a>>, <<s1, b>>, <<s2, c>>, <<s3, d>>})
<1> DEFINE ops == <<a, b, c, d>>
<1>0. a \in Ops /\ b \in Ops /\ c \in Ops /\ d \in Ops
  BY DEF OpsOf
<1>1. /\ ApplyAll(ops, st) = s4 /\ PassingOf(ops, st) = {st, s1, s2, s3, s4}
      /\ StagesOf(ops, st) = {<<st, a>>, <<s1, b>>, <<s2, c>>, <<s3, d>>} /\ ops \in Seq(Ops)
  BY <1>0, FourOps
<1>2. /\ Len(ops) = 4 /\ Len(ops) > 0 /\ ops[1] = a /\ ops[2] = b /\ ops[3] = c /\ ops[4] = d
      /\ \A i \in 1 .. Len(ops) : ops[i] \in {a, b, c, d}
  OBVIOUS
<1>3. \A g \in StagesOf(ops, st) : g = <<g[1], g[2]>> /\ g \in {<<st, a>>, <<s1, b>>, <<s2, c>>, <<s3, d>>}
  BY <1>1
<1> HIDE DEF ops
<1>4. /\ ops[1].op # "setattrs" /\ \A i \in 1 .. Len(ops) : ops[i] \in OpsOf(n)
      /\ {ops[i] : i \in 1 .. Len(ops)} = {a, b, c, d}
  BY <1>2
<1>5. LET T == Txn(n, o, ops) IN
      T \in Txns /\ Proper(T) /\ T.of = o /\ T.ops = ops /\ Given(T) = {a, b, c, d}
  <2>1. \A s \in Seq(Ops) : Len(s) > 0 /\ s[1].op # "setattrs"
              /\ (\A i \in 1 .. Len(s) : s[i] \in OpsOf(n)) =>
           /\ Txn(n, o, s) \in Txns /\ Proper(Txn(n, o, s))
           /\ Txn(n, o, s).of = o /\ Txn(n, o, s).ops = s
           /\ Given(Txn(n, o, s)) = {s[i] : i \in 1 .. Len(s)}
    BY TxnIs
  <2> QED BY <1>1, <1>2, <1>4, <2>1
<1>6. Does(Txn(n, o, ops), o, st, {a, b, c, d}, s4, {st, s1, s2, s3, s4},
           {<<st, a>>, <<s1, b>>, <<s2, c>>, <<s3, d>>})
  BY <1>1, <1>3, <1>5 DEF Does
<1> QED BY <1>6 DEF ops

\* The operations a step puts together.
LEMMA Together ==
  ASSUME NEW A, NEW a \in A, NEW b \in A, NEW c \in A
  PROVE  /\ <<>> \o <<a>> = <<a>> /\ <<>> \o <<a, b>> = <<a, b>>
         /\ <<a>> \o <<b, c>> = <<a, b, c>>
         /\ <<a, b>> \o <<c>> = <<a, b, c>>
<1>1. <<>> \o <<a>> = <<a>> /\ <<>> \o <<a, b>> = <<a, b>>
  OBVIOUS
<1>2. <<a>> \o <<b, c>> = <<a, b, c>>
  <2> DEFINE s == <<a>>
             t == <<b, c>>
             u == <<a, b, c>>
             w == s \o t
  <2>1. /\ s \in Seq(A) /\ t \in Seq(A) /\ u \in Seq(A)
        /\ Len(s) = 1 /\ Len(t) = 2 /\ Len(u) = 3
        /\ s[1] = a /\ t[1] = b /\ t[2] = c
        /\ u[1] = a /\ u[2] = b /\ u[3] = c
    OBVIOUS
  <2> HIDE DEF s, t, u
  <2>2. /\ w \in Seq(A) /\ Len(w) = 3
        /\ \A i \in 1 .. 3 : w[i] = IF i <= 1 THEN s[i] ELSE t[i - 1]
    <3>1. /\ w \in Seq(A) /\ Len(w) = Len(s) + Len(t)
          /\ \A i \in 1 .. Len(s) + Len(t) : w[i] = IF i <= Len(s) THEN s[i] ELSE t[i - Len(s)]
      BY <2>1, ConcatProperties
    <3> QED BY <2>1, <3>1
  <2> HIDE DEF w
  <2>3. w[1] = u[1] /\ w[2] = u[2] /\ w[3] = u[3]
    BY <2>1, <2>2
  <2>4. \A i \in 1 .. 3 : i \in {1, 2, 3}
    OBVIOUS
  <2>5. \A i \in 1 .. 3 : w[i] = u[i]
    BY <2>3, <2>4
  <2>6. w \in Seq(A) /\ u \in Seq(A) /\ Len(w) = 3 /\ Len(u) = 3
    BY <2>1, <2>2
  <2>7. w = u
    BY <2>5, <2>6, SeqEqual
  <2> QED BY <2>7 DEF s, t, u, w
<1>3. <<a, b>> \o <<c>> = <<a, b, c>>
  <2> DEFINE s == <<a, b>>
             t == <<c>>
             u == <<a, b, c>>
             w == s \o t
  <2>1. /\ s \in Seq(A) /\ t \in Seq(A) /\ u \in Seq(A)
        /\ Len(s) = 2 /\ Len(t) = 1 /\ Len(u) = 3
        /\ s[1] = a /\ s[2] = b /\ t[1] = c
        /\ u[1] = a /\ u[2] = b /\ u[3] = c
    OBVIOUS
  <2> HIDE DEF s, t, u
  <2>2. /\ w \in Seq(A) /\ Len(w) = 3
        /\ \A i \in 1 .. 3 : w[i] = IF i <= 2 THEN s[i] ELSE t[i - 2]
    <3>1. /\ w \in Seq(A) /\ Len(w) = Len(s) + Len(t)
          /\ \A i \in 1 .. Len(s) + Len(t) : w[i] = IF i <= Len(s) THEN s[i] ELSE t[i - Len(s)]
      BY <2>1, ConcatProperties
    <3> QED BY <2>1, <3>1
  <2> HIDE DEF w
  <2>3. w[1] = u[1] /\ w[2] = u[2] /\ w[3] = u[3]
    BY <2>1, <2>2
  <2>4. \A i \in 1 .. 3 : i \in {1, 2, 3}
    OBVIOUS
  <2>5. \A i \in 1 .. 3 : w[i] = u[i]
    BY <2>3, <2>4
  <2>6. w \in Seq(A) /\ u \in Seq(A) /\ Len(w) = 3 /\ Len(u) = 3
    BY <2>1, <2>2
  <2>7. w = u
    BY <2>5, <2>6, SeqEqual
  <2> QED BY <2>7 DEF s, t, u, w
<1> QED BY <1>1, <1>2, <1>3

\* What is done at an address is about its name.
LEMMA OpsAt ==
  ASSUME NEW at \in Addresses
  PROVE  /\ \A id \in Ids : Touch(at, id) \in OpsOf(at.name)
         /\ \A ts \in Nat, deleted, old \in BOOLEAN :
               SetAttrs(at, ts, deleted, old) \in OpsOf(at.name)
         /\ \A off \in Nat, id \in Ids : WriteAt(at, off, id) \in OpsOf(at.name)
         /\ \A meta \in Nat : SetHeader(at, meta) \in OpsOf(at.name)
<1>1. \A id \in Ids : Touch(at, id) \in OpsOf(at.name)
  BY OpsTyped DEF OpsOf
<1>2. ASSUME NEW ts \in Nat, NEW deleted \in BOOLEAN, NEW old \in BOOLEAN
      PROVE  SetAttrs(at, ts, deleted, old) \in OpsOf(at.name)
  <2>1. SetAttrs(at, ts, deleted, old) \in Ops
    BY OpsTyped
  <2>2. SetAttrs(at, ts, deleted, old).at = at /\ SetAttrs(at, ts, deleted, old).op # "rename"
    BY DEF SetAttrs
  <2> QED BY <2>1, <2>2 DEF OpsOf
<1>3. \A off \in Nat, id \in Ids : WriteAt(at, off, id) \in OpsOf(at.name)
  BY OpsTyped DEF OpsOf
<1>4. \A meta \in Nat : SetHeader(at, meta) \in OpsOf(at.name)
  BY OpsTyped DEF OpsOf
<1> QED BY <1>1, <1>2, <1>3, <1>4

\* One more chunk of an Object that has been written to.
LEMMA WriteMoreStep ==
  ASSUME IInv, NEW o \in Objects, Write(o), objs[o].state = "IN_WRITE"
  PROVE  IInv'
<1> DEFINE x0 == objs[o]
           x == [objs[o] EXCEPT !.state = "IN_WRITE"]
           y == [x EXCEPT !.written = @ + 1]
           n == x0.name
           A == Temporary(n, x0.ts)
           w == WriteAt(A, x0.written, x0.id)
           F == Apply(w, Settled)
           T == Txn(n, o, <<w>>)
<1>1. /\ n \in Names /\ x0 \in Objs /\ x0.ts \in Times(n) /\ x0.id \in Ids /\ x0.written \in Nat
      /\ Settled \in Contents
  BY ObjectFacts DEF Stamped, Writing, Objs
<1>2. x \in Objs /\ x.name = n /\ x.state = "IN_WRITE" /\ x.ts = x0.ts /\ x.id = x0.id
      /\ x.written = x0.written /\ x.deleted = x0.deleted /\ x.metas = x0.metas
  BY <1>1, ObjectWrites
<1>3. /\ y \in Objs /\ y.name = n /\ y.state = "IN_WRITE" /\ y.ts = x0.ts /\ y.id = x0.id
      /\ y.written = x0.written + 1 /\ y.deleted = x0.deleted /\ y.metas = x0.metas
  <2> HIDE DEF x
  <2>1. /\ y \in Objs /\ y.name = x.name /\ y.state = x.state /\ y.ts = x.ts /\ y.id = x.id
        /\ y.written = x.written + 1 /\ y.deleted = x.deleted /\ y.metas = x.metas
    BY <1>2, ObjectWrites
  <2> QED BY <1>2, <2>1
<1> HIDE DEF x, y
<1>4. Address(x) = A /\ Address(y) = A /\ Address(x0) = A
  BY <1>2, <1>3, AddressIs
<1>5. /\ A \in Addresses /\ A.temp /\ A.name = n /\ A.gen \in Times(n)
  BY <1>1, AddressFacts
<1>6. Settled[A] = Told(x0)
  BY <1>4 DEF Write, Running, IInv, SettledTrue, Settles, Kept
<1>7. /\ w \in Ops /\ w \in OpsOf(n) /\ w.op = "write" /\ w.at = A
      /\ w.off = x0.written /\ w.id = x0.id
  BY <1>1, <1>5, OpsAt, OpsTyped
<1>8. /\ phase = "serving" /\ objs' = [objs EXCEPT ![o] = y]
      /\ queue' = Append(queue, T)
      /\ UNCHANGED <<held, reads, last, current, handed, store, disk, phase, crashes, aborted>>
  <2>1. <<>> \o <<w>> = <<w>>
    OBVIOUS
  <2>2. objs[o].state # "PRE_WRITE"
    OBVIOUS
  <2> QED BY <1>2, <1>4, <2>1, <2>2 DEF Write, Running, Prepare, x, y
<1>9. Does(T, o, Settled, {w}, F, {Settled, F}, {<<Settled, w>>})
  <2> HIDE DEF w, n
  <2>1. w \in OpsOf(n) /\ w.op # "setattrs" /\ n \in Names
    BY <1>1, <1>7
  <2> QED BY <2>1, OneGiven
<1> HIDE DEF w, T
<1>10. /\ OnlyAt(F, Settled, A) /\ F[A] \in Entries
       /\ F[A].id = Settled[A].id /\ F[A].ts = Settled[A].ts
       /\ F[A].deleted = Settled[A].deleted /\ F[A].old = Settled[A].old
       /\ F[A].data = Overwrite(Settled[A].data, w.off, w.id)
       /\ F[A].meta = Settled[A].meta
  BY <1>1, <1>5, <1>7, ApplyWrite DEF OnlyAt, Contents
<1> HIDE DEF F, A
<1>11. /\ Settled[A].id = x0.id /\ Settled[A].ts = x0.ts /\ Settled[A].deleted = x0.deleted
       /\ Settled[A].old = (x0.state = "OLD") /\ Settled[A].meta = x0.metas
       /\ Settled[A].data = [i \in 1 .. x0.written |-> x0.id]
  BY <1>6 DEF Told
<1>12. F[A].data = [i \in 1 .. y.written |-> y.id]
  BY <1>1, <1>3, <1>7, <1>10, <1>11, FullChunks
<1>13. F[A].old = (y.state = "OLD")
  BY <1>3, <1>10, <1>11
<1>14. F[A] = Told(y)
  BY <1>3, <1>10, <1>11, <1>12, <1>13, EntryIs
<1>15. Whole(F[A]) /\ Whole(Settled[A]) /\ OnlyAt(Settled, Settled, A)
  <2>1. Whole(Settled[A])
    BY <1>1, <1>11, WholeIs
  <2>2. F[A].id \in Ids /\ F[A].data = [i \in 1 .. y.written |-> F[A].id] /\ y.written \in Nat
    BY <1>1, <1>3, <1>10, <1>11, <1>12
  <2>3. Whole(F[A])
    BY <2>2, WholeIs
  <2> QED BY <1>1, <2>1, <2>3 DEF OnlyAt
<1>16. Due(Settled, w, Settled, objs, TRUE)
  <2>1. SameStamps(Settled, Settled)
    BY DEF SameStamps
  <2> QED BY <1>5, <1>7, <2>1, DueThere
<1>17. \A S \in PassingOf(T.ops, Settled) :
          OnlyAt(S, Settled, A) /\ Whole(S[A]) /\ Writable(S, Settled, A)
  BY <1>5, <1>9, <1>10, <1>15 DEF Writable, Does
<1>18. /\ \A op \in Given(T) : op.at = A /\ op.op # "rename"
       /\ ApplyAll(T.ops, Settled)[A] = Told(y)
       /\ \A g \in StagesOf(T.ops, Settled) : Due(g[1], g[2], Settled, objs, TRUE)
  <2>1. \A g \in StagesOf(T.ops, Settled) : g[1] = Settled /\ g[2] = w
    BY <1>9 DEF Does
  <2> QED BY <1>7, <1>9, <1>14, <1>16, <2>1 DEF Does
<1>19. objs[o].state \in Writing /\ T \in Txns /\ Proper(T) /\ T.of = o
  BY <1>9 DEF Writing, Does
<1>20. /\ y \in Objs /\ y.name = objs[o].name /\ y.ts = objs[o].ts /\ y.id = objs[o].id
       /\ objs[o].state \in Writing /\ y.state = "IN_WRITE"
  BY <1>3, <1>19
<1>21. /\ \A op \in Given(T) : op.at = Address(y) /\ op.op # "rename"
       /\ ApplyAll(T.ops, Settled)[Address(y)] = Told(y)
       /\ \A S \in PassingOf(T.ops, Settled) :
             OnlyAt(S, Settled, Address(y)) /\ Whole(S[Address(y)]) /\ Writable(S, Settled, Address(y))
  BY <1>4, <1>17, <1>18
<1> HIDE DEF n, x0
<1> QED BY <1>8, <1>18, <1>19, <1>20, <1>21, WritesStep

\* The fields of an Object.
LEMMA ObjFields ==
  ASSUME NEW x \in Objs
  PROVE  /\ x.name \in Names \cup {NoObject} /\ x.state \in States /\ x.ts \in Nat
         /\ x.deleted \in BOOLEAN /\ x.id \in Ids /\ x.written \in Nat /\ x.metas \in Nat
BY DEF Objs

\* The first chunk: the entry is made, saved and written to.
LEMMA WriteFirstStep ==
  ASSUME IInv, NEW o \in Objects, Write(o), objs[o].state = "PRE_WRITE"
  PROVE  IInv'
<1> DEFINE x0 == objs[o]
           x == [objs[o] EXCEPT !.state = "IN_WRITE"]
           y == [x EXCEPT !.written = @ + 1]
           n == x0.name
           A == Temporary(n, x0.ts)
           a == Touch(A, x0.id)
           b == SetAttrs(A, x0.ts, FALSE, FALSE)
           c == WriteAt(A, 0, x0.id)
           S1 == Apply(a, Settled)
           S2 == Apply(b, S1)
           F == Apply(c, S2)
           T == Txn(n, o, <<a, b, c>>)
<1>1. /\ n \in Names /\ x0 \in Objs /\ x0.ts \in Times(n) /\ x0.id \in Ids /\ x0.ts \in Nat
      /\ x0.ts > 0 /\ x0.id # NoWriter /\ x0.written = 0 /\ x0.metas = 0 /\ ~x0.deleted
      /\ Settled \in Contents /\ phase = "serving"
  BY ObjectFacts, Apart DEF Stamped, Writing, Objs, Write, Running
<1>2. x \in Objs /\ x.name = n /\ x.state = "IN_WRITE" /\ x.ts = x0.ts /\ x.id = x0.id
      /\ x.written = 0 /\ ~x.deleted /\ x.metas = 0
  BY <1>1, ObjectWrites
<1>3. /\ y \in Objs /\ y.name = n /\ y.state = "IN_WRITE" /\ y.ts = x0.ts /\ y.id = x0.id
      /\ y.written = 1 /\ ~y.deleted /\ y.metas = 0
  <2> HIDE DEF x
  <2>1. /\ y \in Objs /\ y.name = x.name /\ y.state = x.state /\ y.ts = x.ts /\ y.id = x.id
        /\ y.written = x.written + 1 /\ y.metas = x.metas
    BY <1>2, ObjectWrites
  <2>2. ~y.deleted
    BY <1>2 DEF Objs
  <2> QED BY <1>2, <2>1, <2>2
<1> HIDE DEF x, y
<1>4. Address(x) = A /\ Address(y) = A /\ Address(x0) = A
  BY <1>2, <1>3, AddressIs
<1>5. /\ A \in Addresses /\ A.temp /\ A.name = n /\ A.gen \in Times(n)
  BY <1>1, AddressFacts
<1>6. Settled[A] = NoEntry
  BY <1>1, StartsEmpty
<1>7. /\ a \in Ops /\ a \in OpsOf(n) /\ a.op = "touch" /\ a.at = A /\ a.id = x0.id
      /\ b \in Ops /\ b \in OpsOf(n) /\ b.op = "setattrs" /\ b.at = A /\ b.ts = x0.ts
      /\ ~b.deleted /\ ~b.old
      /\ c \in Ops /\ c \in OpsOf(n) /\ c.op = "write" /\ c.at = A /\ c.off = 0
      /\ c.id = x0.id
  <2>1. /\ a \in Ops /\ a.op = "touch" /\ a.at = A /\ a.id = x0.id /\ a \in OpsOf(n)
    BY <1>1, <1>5, OpsAt, OpsTyped
  <2>2. /\ b \in Ops /\ b.op = "setattrs" /\ b.at = A /\ b.ts = x0.ts /\ ~b.deleted /\ ~b.old
        /\ b \in OpsOf(n)
    <3>1. b \in Ops
      BY <1>1, <1>5 DEF SetAttrs, Ops
    <3>2. b.op = "setattrs" /\ b.at = A /\ b.ts = x0.ts /\ ~b.deleted /\ ~b.old
      BY DEF SetAttrs
    <3> QED BY <1>5, <3>1, <3>2 DEF OpsOf
  <2>3. /\ c \in Ops /\ c.op = "write" /\ c.at = A /\ c.off = 0 /\ c.id = x0.id
        /\ c \in OpsOf(n)
    BY <1>1, <1>5, OpsAt, OpsTyped
  <2> QED BY <2>1, <2>2, <2>3
<1>8. /\ objs' = [objs EXCEPT ![o] = y]
      /\ queue' = Append(queue, T)
      /\ UNCHANGED <<held, reads, last, current, handed, store, disk, phase, crashes, aborted>>
  <2>1. <<a, b>> \o <<c>> = <<a, b, c>>
    <3>1. a \in Ops /\ b \in Ops /\ c \in Ops
      BY <1>7
    <3> HIDE DEF a, b, c
    <3> QED BY <3>1, Together
  <2>2. Touch(A, x.id) = a /\ Save(x) = b /\ WriteAt(A, x.written, x.id) = c
    <3>1. (x.state = "OLD") = FALSE /\ x.deleted = FALSE
      BY <1>2, ObjFields
    <3> QED BY <1>2, <1>4, <3>1 DEF Save
  <2> HIDE DEF a, b, c
  <2>3. queue' = Append(queue, Txn(x.name, o, <<Touch(A, x.id), Save(x)>> \o <<WriteAt(A, x.written, x.id)>>))
    BY <1>4 DEF Write, Prepare, x
  <2>4. queue' = Append(queue, Txn(n, o, <<a, b>> \o <<c>>))
    BY <1>2, <2>2, <2>3
  <2>5. queue' = Append(queue, T)
    BY <2>1, <2>4
  <2>6. objs' = [objs EXCEPT ![o] = y]
    BY DEF Write, x, y
  <2> QED BY <2>5, <2>6 DEF Write
<1>9. Does(T, o, Settled, {a, b, c}, F, {Settled, S1, S2, F},
           {<<Settled, a>>, <<S1, b>>, <<S2, c>>})
  <2> HIDE DEF a, b, c, n
  <2>1. /\ a \in OpsOf(n) /\ b \in OpsOf(n) /\ c \in OpsOf(n)
        /\ a.op # "setattrs" /\ n \in Names
    BY <1>1, <1>7
  <2> HIDE DEF S1, S2, F
  <2>2. S1 = Apply(a, Settled) /\ S2 = Apply(b, S1) /\ F = Apply(c, S2)
    BY DEF S1, S2, F
  <2> QED BY <2>1, <2>2, ThreeGiven
<1> HIDE DEF a, b, c, T
<1>10. /\ OnlyAt(S1, Settled, A) /\ S1[A] \in Entries
       /\ S1[A].id = x0.id /\ S1[A].data = <<>> /\ S1[A].meta = 0
  BY <1>1, <1>5, <1>6, <1>7, ApplyTouch DEF OnlyAt, Contents
<1> HIDE DEF S1
<1>11. /\ OnlyAt(S2, Settled, A) /\ S2[A] \in Entries
       /\ S2[A].id = x0.id /\ S2[A].data = <<>> /\ S2[A].meta = 0
       /\ S2[A].ts = x0.ts /\ S2[A].deleted = b.deleted /\ S2[A].old = b.old
  BY <1>1, <1>5, <1>7, <1>10, ApplySetAttrs DEF OnlyAt, Contents
<1> HIDE DEF S2
<1>12. /\ OnlyAt(F, Settled, A) /\ F[A] \in Entries
       /\ F[A].id = x0.id /\ F[A].data = Overwrite(<<>>, 0, x0.id) /\ F[A].meta = 0
       /\ F[A].ts = x0.ts /\ F[A].deleted = b.deleted /\ F[A].old = b.old
  BY <1>1, <1>5, <1>7, <1>11, ApplyWrite DEF OnlyAt, Contents
<1> HIDE DEF F, A
<1>13. F[A].data = [i \in 1 .. y.written |-> y.id]
  <2>1. <<>> = [i \in 1 .. 0 |-> x0.id]
    OBVIOUS
  <2>2. Overwrite([i \in 1 .. 0 |-> x0.id], 0, x0.id) = [i \in 1 .. 0 + 1 |-> x0.id]
    BY <1>1, FullChunks
  <2> QED BY <1>3, <1>12, <2>1, <2>2
<1>14. F[A].old = (y.state = "OLD") /\ F[A].deleted = y.deleted
  <2>1. F[A].old \in BOOLEAN /\ F[A].deleted \in BOOLEAN /\ y.deleted \in BOOLEAN
    BY <1>3, <1>12 DEF Entries, Objs
  <2> QED BY <1>3, <1>7, <1>12, <2>1
<1>15. F[A] = Told(y)
  <2>1. F[A] \in Entries /\ F[A].id = y.id /\ F[A].ts = y.ts /\ F[A].meta = y.metas
    BY <1>3, <1>12
  <2> QED BY <2>1, <1>13, <1>14, EntryIs
<1>16. Whole(F[A]) /\ Whole(S1[A]) /\ Whole(S2[A]) /\ Whole(Settled[A])
  <2>1. Whole(S1[A]) /\ Whole(S2[A]) /\ Whole(Settled[A])
    BY <1>6, <1>10, <1>11, EmptyEntry, WholeIs
  <2>2. F[A].id \in Ids /\ F[A].data = [i \in 1 .. 1 |-> F[A].id]
    BY <1>1, <1>3, <1>12, <1>13
  <2>3. Whole(F[A])
    BY <2>2, WholeIs
  <2> QED BY <2>1, <2>3
<1>17. OnlyAt(Settled, Settled, A)
  BY <1>1 DEF OnlyAt
<1>18. \A S \in PassingOf(T.ops, Settled) :
          OnlyAt(S, Settled, A) /\ Whole(S[A]) /\ Writable(S, Settled, A)
  BY <1>5, <1>9, <1>10, <1>11, <1>12, <1>16, <1>17 DEF Writable, Does
<1>19. \A g \in StagesOf(T.ops, Settled) : Due(g[1], g[2], Settled, objs, TRUE)
  <2>1. SameStamps(Settled, Settled) /\ SameStamps(S1, Settled) /\ SameStamps(S2, Settled)
    BY <1>1, <1>5, <1>10, <1>11, <1>16, <1>17, SeenThere DEF Writable
  <2>2. Due(Settled, a, Settled, objs, TRUE)
    BY <1>5, <1>7, <2>1, DueThere
  <2>3. S1[A] # NoEntry
    BY <1>1, <1>10, EmptyEntry DEF NoWriter
  <2>4. Due(S1, b, Settled, objs, TRUE)
    BY <1>1, <1>5, <1>7, <2>1, <2>3, DueThere
  <2>5. Due(S2, c, Settled, objs, TRUE)
    BY <1>5, <1>7, <2>1, DueThere
  <2> TAKE g \in StagesOf(T.ops, Settled)
  <2>6. \/ g[1] = Settled /\ g[2] = a
        \/ g[1] = S1 /\ g[2] = b
        \/ g[1] = S2 /\ g[2] = c
    BY <1>9 DEF Does
  <2> QED BY <2>2, <2>4, <2>5, <2>6
<1>20. /\ \A op \in Given(T) : op.at = A /\ op.op # "rename"
       /\ ApplyAll(T.ops, Settled)[A] = Told(y)
       /\ objs[o].state \in Writing /\ T \in Txns /\ Proper(T) /\ T.of = o
  BY <1>7, <1>9, <1>15 DEF Does, Writing
<1>21. /\ y \in Objs /\ y.name = objs[o].name /\ y.ts = objs[o].ts /\ y.id = objs[o].id
       /\ objs[o].state \in Writing /\ y.state = "IN_WRITE"
  BY <1>3, <1>20
<1>22. /\ \A op \in Given(T) : op.at = Address(y) /\ op.op # "rename"
       /\ ApplyAll(T.ops, Settled)[Address(y)] = Told(y)
       /\ \A S \in PassingOf(T.ops, Settled) :
             OnlyAt(S, Settled, Address(y)) /\ Whole(S[Address(y)]) /\ Writable(S, Settled, Address(y))
  BY <1>4, <1>18, <1>20
<1> HIDE DEF n, x0
<1> QED BY <1>1, <1>8, <1>19, <1>20, <1>21, <1>22, WritesStep

\* write_metadata(), taken apart.
LEMMA MetaPrepares ==
  ASSUME IInv, NEW o \in Objects, NEW deleted \in BOOLEAN, WriteMetadata(o, deleted)
  PROVE  MetaGiven(o, Described(objs[o], deleted), deleted)
<1> DEFINE y == Described(objs[o], deleted)
<1>1. /\ objs[o] \in Objs /\ objs[o].state \in {"PRE_WRITE", "IN_WRITE", "ACTIVE"}
      /\ phase = "serving" /\ (deleted => objs[o].state = "PRE_WRITE")
  BY ObjectFacts DEF WriteMetadata, Running, Writing
<1>2. /\ y \in Objs /\ y.name = objs[o].name /\ y.ts = objs[o].ts
      /\ y.state = IF objs[o].state = "ACTIVE" THEN "ACTIVE" ELSE "IN_WRITE"
      /\ y.id = objs[o].id
      /\ y.written = objs[o].written /\ y.metas = objs[o].metas + 1
  <2>1. y \in Objs
    BY <1>1, ObjectWrites DEF Described
  <2> QED BY <1>1, <2>1 DEF Objs, Described
<1> HIDE DEF y
<1>4. Address(y) = Address(objs[o])
  BY <1>1, <1>2 DEF Address, Writing
<1>5. Save(y) = SetAttrs(Address(y), y.ts, y.deleted, FALSE)
  <2>1. (y.state = "OLD") = FALSE
    BY <1>2
  <2> QED BY <2>1 DEF Save
<1>6. /\ objs' = [objs EXCEPT ![o] = y]
      /\ queue' = Append(queue, Txn(y.name, o,
                     (IF objs[o].state = "PRE_WRITE" THEN <<Touch(Address(y), y.id)>> ELSE <<>>)
                     \o <<SetHeader(Address(y), y.metas), Save(y)>>))
      /\ UNCHANGED <<held, reads, last, current, handed, store, disk, phase, crashes, aborted>>
  BY DEF WriteMetadata, Prepare, y, Described
<1>7. MetaGiven(o, y, deleted)
  BY <1>1, <1>2, <1>4, <1>5, <1>6 DEF MetaGiven
<1> QED BY <1>7 DEF y

\* The operations of write_metadata().
LEMMA MetaOps ==
  ASSUME NEW A \in Addresses, NEW y \in Objs, y.metas > 0, y.ts > 0
  PROVE  LET b == SetHeader(A, y.metas)
             c == SetAttrs(A, y.ts, y.deleted, FALSE)
         IN  /\ b \in Ops /\ b \in OpsOf(A.name) /\ b.op = "header" /\ b.at = A
             /\ b.meta = y.metas
             /\ c \in Ops /\ c \in OpsOf(A.name) /\ c.op = "setattrs" /\ c.at = A
             /\ c.ts = y.ts /\ c.deleted = y.deleted /\ ~c.old
<1>1. y.metas \in Nat /\ y.ts \in Nat /\ y.deleted \in BOOLEAN
  BY ObjFields
<1>2. LET b == SetHeader(A, y.metas)
      IN  b \in Ops /\ b \in OpsOf(A.name) /\ b.op = "header" /\ b.at = A /\ b.meta = y.metas
  BY <1>1, OpsAt, OpsTyped
<1>3. LET c == SetAttrs(A, y.ts, y.deleted, FALSE)
      IN  c.op = "setattrs" /\ c.at = A /\ c.ts = y.ts /\ c.deleted = y.deleted /\ ~c.old
  BY DEF SetAttrs
<1>4. SetAttrs(A, y.ts, y.deleted, FALSE) \in Ops
  BY <1>1 DEF SetAttrs, Ops
<1>5. SetAttrs(A, y.ts, y.deleted, FALSE) \in OpsOf(A.name)
  BY <1>3, <1>4 DEF OpsOf
<1> QED BY <1>2, <1>3, <1>4, <1>5

\* An Object that begins with its metadata, or is all metadata.
LEMMA MetaFirstStep ==
  ASSUME IInv, NEW o \in Objects, NEW deleted \in BOOLEAN,
         WriteMetadata(o, deleted), objs[o].state = "PRE_WRITE"
  PROVE  IInv'
<1> DEFINE x0 == objs[o]
           n == x0.name
           A == Temporary(n, x0.ts)
<1>1. /\ n \in Names /\ x0 \in Objs /\ x0.ts \in Times(n) /\ x0.id \in Ids /\ x0.ts \in Nat
      /\ x0.ts > 0 /\ x0.id # NoWriter /\ x0.written = 0 /\ x0.metas = 0 /\ ~x0.deleted
      /\ Settled \in Contents
  BY ObjectFacts, Apart DEF Stamped, Writing, Objs
<1>2. PICK y : MetaGiven(o, y, deleted)
  BY MetaPrepares
<1>3. /\ phase = "serving" /\ objs' = [objs EXCEPT ![o] = y]
      /\ y \in Objs /\ y.name = n /\ y.ts = x0.ts /\ y.state = "IN_WRITE" /\ y.id = x0.id
      /\ y.written = 0 /\ y.metas = 1 /\ Address(y) = A
      /\ Save(y) = SetAttrs(A, y.ts, y.deleted, FALSE)
      /\ queue' = Append(queue, Txn(n, o,
                     <<Touch(A, x0.id)>> \o <<SetHeader(A, y.metas), SetAttrs(A, y.ts, y.deleted, FALSE)>>))
      /\ UNCHANGED <<held, reads, last, current, handed, store, disk, phase, crashes, aborted>>
  <2>1. /\ phase = "serving" /\ objs' = [objs EXCEPT ![o] = y]
        /\ y \in Objs /\ y.name = n /\ y.ts = x0.ts /\ y.state = "IN_WRITE" /\ y.id = x0.id
        /\ y.written = 0 /\ y.metas = 1 /\ Address(y) = Address(x0)
        /\ UNCHANGED <<held, reads, last, current, handed, store, disk, phase, crashes, aborted>>
    BY <1>1, <1>2 DEF MetaGiven
  <2>2. Address(x0) = A
    BY AddressIs
  <2>3. /\ Save(y) = SetAttrs(Address(y), y.ts, y.deleted, FALSE)
        /\ queue' = Append(queue, Txn(y.name, o,
                     <<Touch(Address(y), y.id)>> \o <<SetHeader(Address(y), y.metas), Save(y)>>))
    BY <1>2 DEF MetaGiven
  <2> QED BY <2>1, <2>2, <2>3
<1> DEFINE a == Touch(A, x0.id)
           b == SetHeader(A, y.metas)
           c == SetAttrs(A, y.ts, y.deleted, FALSE)
           S1 == Apply(a, Settled)
           S2 == Apply(b, S1)
           F == Apply(c, S2)
           T == Txn(n, o, <<a, b, c>>)
<1>5. /\ A \in Addresses /\ A.temp /\ A.name = n /\ A.gen \in Times(n)
  BY <1>1, AddressFacts
<1>6. Settled[A] = NoEntry
  BY <1>1, <1>3, StartsEmpty
<1>7. /\ a \in Ops /\ a \in OpsOf(n) /\ a.op = "touch" /\ a.at = A /\ a.id = x0.id
      /\ b \in Ops /\ b \in OpsOf(n) /\ b.op = "header" /\ b.at = A /\ b.meta = 1
      /\ c \in Ops /\ c \in OpsOf(n) /\ c.op = "setattrs" /\ c.at = A /\ c.ts = x0.ts
      /\ c.deleted = y.deleted /\ ~c.old
  <2>1. /\ a \in Ops /\ a.op = "touch" /\ a.at = A /\ a.id = x0.id /\ a \in OpsOf(n)
    BY <1>1, <1>5, OpsAt, OpsTyped
  <2>2. y.metas > 0 /\ y.ts > 0
    BY <1>1, <1>3
  <2> HIDE DEF A, n
  <2>3. /\ b \in Ops /\ b \in OpsOf(n) /\ b.op = "header" /\ b.at = A /\ b.meta = y.metas
        /\ c \in Ops /\ c \in OpsOf(n) /\ c.op = "setattrs" /\ c.at = A /\ c.ts = y.ts
        /\ c.deleted = y.deleted /\ ~c.old
    BY <1>3, <1>5, <2>2, MetaOps
  <2> QED BY <1>3, <2>1, <2>3
<1> HIDE DEF a, b, c
<1>8. queue' = Append(queue, T)
  <2>1. <<a>> \o <<b, c>> = <<a, b, c>>
    BY <1>7, Together
  <2>2. queue' = Append(queue, Txn(n, o, <<a>> \o <<b, c>>))
    BY <1>3 DEF a, b, c
  <2> QED BY <2>1, <2>2
<1>9. Does(T, o, Settled, {a, b, c}, F, {Settled, S1, S2, F},
           {<<Settled, a>>, <<S1, b>>, <<S2, c>>})
  <2> HIDE DEF n
  <2>1. /\ a \in OpsOf(n) /\ b \in OpsOf(n) /\ c \in OpsOf(n)
        /\ a.op # "setattrs" /\ n \in Names
    BY <1>1, <1>7
  <2> HIDE DEF S1, S2, F
  <2>2. S1 = Apply(a, Settled) /\ S2 = Apply(b, S1) /\ F = Apply(c, S2)
    BY DEF S1, S2, F
  <2> QED BY <2>1, <2>2, ThreeGiven
<1> HIDE DEF T
<1>10. /\ OnlyAt(S1, Settled, A) /\ S1[A] \in Entries
       /\ S1[A].id = x0.id /\ S1[A].data = <<>> /\ S1[A].meta = 0
  BY <1>1, <1>5, <1>6, <1>7, ApplyTouch DEF OnlyAt, Contents
<1> HIDE DEF S1
<1>11. /\ OnlyAt(S2, Settled, A) /\ S2[A] \in Entries
       /\ S2[A].id = x0.id /\ S2[A].data = <<>> /\ S2[A].meta = 1
  BY <1>1, <1>5, <1>7, <1>10, ApplyHeader DEF OnlyAt, Contents
<1> HIDE DEF S2
<1>12. /\ OnlyAt(F, Settled, A) /\ F[A] \in Entries
       /\ F[A].id = x0.id /\ F[A].data = <<>> /\ F[A].meta = 1
       /\ F[A].ts = x0.ts /\ F[A].deleted = c.deleted /\ F[A].old = c.old
  BY <1>1, <1>5, <1>7, <1>11, ApplySetAttrs DEF OnlyAt, Contents
<1> HIDE DEF F, A
<1>13. F[A].data = [i \in 1 .. y.written |-> y.id]
  BY <1>3, <1>12
<1>14. F[A].old = (y.state = "OLD") /\ F[A].deleted = y.deleted
  <2>1. F[A].old \in BOOLEAN /\ F[A].deleted \in BOOLEAN /\ y.deleted \in BOOLEAN
    BY <1>3, <1>12 DEF Entries, Objs
  <2> QED BY <1>3, <1>7, <1>12, <2>1
<1>15. F[A] = Told(y)
  <2>1. F[A].id = y.id /\ F[A].ts = y.ts /\ F[A].meta = y.metas /\ F[A] \in Entries
    BY <1>3, <1>12
  <2> QED BY <1>13, <1>14, <2>1, EntryIs
<1>16. Whole(F[A]) /\ Whole(S1[A]) /\ Whole(S2[A]) /\ Whole(Settled[A])
  BY <1>6, <1>10, <1>11, <1>12, EmptyEntry, WholeIs
<1>17. OnlyAt(Settled, Settled, A)
  BY <1>1 DEF OnlyAt
<1>18. \A S \in PassingOf(T.ops, Settled) :
          OnlyAt(S, Settled, A) /\ Whole(S[A]) /\ Writable(S, Settled, A)
  BY <1>5, <1>9, <1>10, <1>11, <1>12, <1>16, <1>17 DEF Writable, Does
<1>19. \A g \in StagesOf(T.ops, Settled) : Due(g[1], g[2], Settled, objs, TRUE)
  <2>1. SameStamps(Settled, Settled) /\ SameStamps(S1, Settled) /\ SameStamps(S2, Settled)
    BY <1>3, <1>5, <1>10, <1>11, <1>16, <1>17, SeenThere DEF Writable
  <2>2. Due(Settled, a, Settled, objs, TRUE)
    BY <1>5, <1>7, <2>1, DueThere
  <2>3. S1[A] # NoEntry /\ S2[A] # NoEntry
    BY <1>1, <1>10, <1>11, EmptyEntry DEF NoWriter
  <2>4. Due(S1, b, Settled, objs, TRUE)
    <3>1. b \in Ops /\ b.op = "header" /\ S1[b.at] # NoEntry /\ b.meta > 0
      BY <1>7, <2>3
    <3> QED BY <2>1, <3>1, DueThere
  <2>5. Due(S2, c, Settled, objs, TRUE)
    BY <1>1, <1>5, <1>7, <2>1, <2>3, DueThere
  <2> TAKE g \in StagesOf(T.ops, Settled)
  <2>6. \/ g[1] = Settled /\ g[2] = a
        \/ g[1] = S1 /\ g[2] = b
        \/ g[1] = S2 /\ g[2] = c
    BY <1>9 DEF Does
  <2> QED BY <2>2, <2>4, <2>5, <2>6
<1>20. /\ \A op \in Given(T) : op.at = A /\ op.op # "rename"
       /\ ApplyAll(T.ops, Settled)[A] = Told(y)
       /\ objs[o].state \in Writing /\ T \in Txns /\ Proper(T) /\ T.of = o
  BY <1>7, <1>9, <1>15 DEF Does, Writing
<1> QED BY <1>3, <1>8, <1>18, <1>19, <1>20, WritesStep

\* New metadata for an Object that has an entry.
LEMMA MetaMoreStep ==
  ASSUME IInv, NEW o \in Objects, NEW deleted \in BOOLEAN,
         WriteMetadata(o, deleted), objs[o].state # "PRE_WRITE"
  PROVE  IInv'
<1> DEFINE x0 == objs[o]
           n == x0.name
           A == Address(x0)
<1>2. PICK y : MetaGiven(o, y, deleted)
  BY MetaPrepares
<1>3. /\ phase = "serving" /\ objs' = [objs EXCEPT ![o] = y]
      /\ x0.state \in {"IN_WRITE", "ACTIVE"} /\ ~deleted
      /\ y \in Objs /\ y.name = n /\ y.ts = x0.ts /\ y.state = x0.state /\ y.id = x0.id
      /\ y.written = x0.written /\ y.metas = x0.metas + 1 /\ Address(y) = A
      /\ Save(y) = SetAttrs(A, y.ts, y.deleted, FALSE)
      /\ queue' = Append(queue, Txn(n, o,
                     <<>> \o <<SetHeader(A, y.metas), SetAttrs(A, y.ts, y.deleted, FALSE)>>))
      /\ UNCHANGED <<held, reads, last, current, handed, store, disk, phase, crashes, aborted>>
  BY <1>2 DEF MetaGiven
<1>1. /\ n \in Names /\ x0 \in Objs /\ x0.id \in Ids /\ x0.ts \in Nat
      /\ x0.metas \in Nat /\ x0.written \in Nat
      /\ x0.state = "IN_WRITE" => x0.ts \in Times(n)
      /\ x0.state = "ACTIVE" => x0.ts \in Puts(n)
      /\ x0.ts > 0 /\ Settled \in Contents
  <2>1. /\ n \in Names /\ x0 \in Objs /\ Settled \in Contents
        /\ x0.state = "IN_WRITE" => x0.ts \in Times(n)
        /\ x0.state = "ACTIVE" => x0.ts \in Puts(n)
    BY <1>3, ObjectFacts DEF Stamped, Writing
  <2>2. /\ x0.id \in Ids /\ x0.ts \in Nat /\ x0.metas \in Nat /\ x0.written \in Nat
    BY <2>1, ObjFields
  <2> QED BY <1>3, <2>1, <2>2, Apart
<1>5. /\ A \in Addresses /\ A.name = n
      /\ x0.state = "IN_WRITE" => A.temp /\ A.gen \in Times(n)
      /\ x0.state = "ACTIVE" => ~A.temp
  BY <1>1, <1>3, AddressIs, AddressFacts
<1>6. Settled[A] = Told(x0)
  BY <1>3 DEF IInv, SettledTrue, Settles, Kept
<1> DEFINE b == SetHeader(A, y.metas)
           c == SetAttrs(A, y.ts, y.deleted, FALSE)
           S1 == Apply(b, Settled)
           F == Apply(c, S1)
           T == Txn(n, o, <<b, c>>)
<1>7. /\ b \in Ops /\ b \in OpsOf(n) /\ b.op = "header" /\ b.at = A /\ b.meta = y.metas
      /\ c \in Ops /\ c \in OpsOf(n) /\ c.op = "setattrs" /\ c.at = A /\ c.ts = y.ts
      /\ c.deleted = y.deleted /\ ~c.old
  <2>1. y.metas > 0 /\ y.ts > 0
    BY <1>1, <1>3
  <2> HIDE DEF A, n
  <2> QED BY <1>3, <1>5, <2>1, MetaOps
<1> HIDE DEF b, c
<1>8. queue' = Append(queue, T)
  <2>1. <<>> \o <<b, c>> = <<b, c>>
    BY <1>7, Together
  <2>2. queue' = Append(queue, Txn(n, o, <<>> \o <<b, c>>))
    BY <1>3 DEF b, c
  <2> QED BY <2>1, <2>2
<1>9. Does(T, o, Settled, {b, c}, F, {Settled, S1, F}, {<<Settled, b>>, <<S1, c>>})
  <2> HIDE DEF n
  <2>1. /\ b \in OpsOf(n) /\ c \in OpsOf(n)
        /\ b.op # "setattrs" /\ n \in Names
    BY <1>1, <1>7
  <2> HIDE DEF S1, F
  <2>2. S1 = Apply(b, Settled) /\ F = Apply(c, S1)
    BY DEF S1, F
  <2> QED BY <2>1, <2>2, TwoGiven
<1> HIDE DEF T
<1>10. /\ Settled[A].id = x0.id /\ Settled[A].ts = x0.ts /\ Settled[A].deleted = x0.deleted
       /\ ~Settled[A].old /\ Settled[A].meta = x0.metas
       /\ Settled[A].data = [i \in 1 .. x0.written |-> x0.id]
  BY <1>3, <1>6 DEF Told
<1>11. /\ OnlyAt(S1, Settled, A) /\ S1[A] \in Entries
       /\ S1[A].id = x0.id /\ S1[A].data = [i \in 1 .. x0.written |-> x0.id]
       /\ S1[A].meta = y.metas /\ S1[A].ts = x0.ts /\ ~S1[A].old
  <2>1. /\ OnlyAt(S1, Settled, A) /\ S1[A] \in Entries
        /\ S1[A].id = Settled[A].id /\ S1[A].data = Settled[A].data
        /\ S1[A].meta = b.meta /\ S1[A].ts = Settled[A].ts /\ S1[A].old = Settled[A].old
    BY <1>1, <1>5, <1>7, ApplyHeader DEF OnlyAt, Contents
  <2> HIDE DEF S1
  <2> QED BY <1>7, <1>10, <2>1
<1> HIDE DEF S1
<1>12. /\ OnlyAt(F, Settled, A) /\ F[A] \in Entries
       /\ F[A].id = x0.id /\ F[A].data = [i \in 1 .. x0.written |-> x0.id]
       /\ F[A].meta = y.metas
       /\ F[A].ts = x0.ts /\ F[A].deleted = c.deleted /\ F[A].old = c.old
  <2>1. /\ OnlyAt(F, Settled, A) /\ F[A] \in Entries
        /\ F[A].id = S1[A].id /\ F[A].data = S1[A].data /\ F[A].meta = S1[A].meta
        /\ F[A].ts = c.ts /\ F[A].deleted = c.deleted /\ F[A].old = c.old
    BY <1>1, <1>5, <1>7, <1>11, ApplySetAttrs DEF OnlyAt, Contents
  <2> HIDE DEF F
  <2> QED BY <1>3, <1>7, <1>11, <2>1
<1> HIDE DEF F, A
<1>13. F[A].data = [i \in 1 .. y.written |-> y.id]
  BY <1>3, <1>12
<1>14. F[A].old = (y.state = "OLD") /\ F[A].deleted = y.deleted
  <2>1. F[A].old \in BOOLEAN /\ F[A].deleted \in BOOLEAN /\ y.deleted \in BOOLEAN
    BY <1>3, <1>12 DEF Entries, Objs
  <2> QED BY <1>3, <1>7, <1>12, <2>1
<1>15. F[A] = Told(y)
  <2>1. F[A].id = y.id /\ F[A].ts = y.ts /\ F[A].meta = y.metas /\ F[A] \in Entries
    BY <1>3, <1>12
  <2> QED BY <1>13, <1>14, <2>1, EntryIs
<1>16. Whole(F[A]) /\ Whole(S1[A]) /\ Whole(Settled[A])
  BY <1>1, <1>10, <1>11, <1>12, WholeIs
<1>17. OnlyAt(Settled, Settled, A)
  BY <1>1 DEF OnlyAt
<1>21. Writable(Settled, Settled, A) /\ Writable(S1, Settled, A) /\ Writable(F, Settled, A)
  <2>1. CASE x0.state = "IN_WRITE"
    BY <1>5, <2>1 DEF Writable
  <2>2. CASE x0.state = "ACTIVE"
    BY <1>1, <1>5, <1>7, <1>10, <1>11, <1>12, <2>2 DEF Writable
  <2> QED BY <1>3, <2>1, <2>2
<1>18. \A S \in PassingOf(T.ops, Settled) :
          OnlyAt(S, Settled, A) /\ Whole(S[A]) /\ Writable(S, Settled, A)
  BY <1>9, <1>11, <1>12, <1>16, <1>17, <1>21 DEF Does
<1>19. \A g \in StagesOf(T.ops, Settled) : Due(g[1], g[2], Settled, objs, TRUE)
  <2>1. SameStamps(Settled, Settled) /\ SameStamps(S1, Settled)
    BY <1>3, <1>5, <1>11, <1>16, <1>17, <1>21, SeenThere
  <2>2. Settled[A] # NoEntry /\ S1[A] # NoEntry
    BY <1>1, <1>10, <1>11, EmptyEntry
  <2>3. Due(Settled, b, Settled, objs, TRUE)
    <3>1. b \in Ops /\ b.op = "header" /\ Settled[b.at] # NoEntry /\ b.meta > 0
      BY <1>1, <1>3, <1>7, <2>2
    <3> QED BY <2>1, <3>1, DueThere
  <2>4. Due(S1, c, Settled, objs, TRUE)
    BY <1>1, <1>3, <1>7, <1>11, <2>1, <2>2, DueThere
  <2> TAKE g \in StagesOf(T.ops, Settled)
  <2>6. \/ g[1] = Settled /\ g[2] = b
        \/ g[1] = S1 /\ g[2] = c
    BY <1>9 DEF Does
  <2> QED BY <2>3, <2>4, <2>6
<1>20. /\ \A op \in Given(T) : op.at = A /\ op.op # "rename"
       /\ ApplyAll(T.ops, Settled)[A] = Told(y)
       /\ \/ objs[o].state \in Writing /\ y.state = "IN_WRITE"
          \/ objs[o].state = "ACTIVE" /\ y.state = "ACTIVE" /\ y.written = objs[o].written
       /\ T \in Txns /\ Proper(T) /\ T.of = o
  BY <1>3, <1>7, <1>9, <1>15 DEF Does, Writing
<1> QED BY <1>3, <1>8, <1>18, <1>19, <1>20, WritesStep

-----------------------------------------------------------------------------
(* A put: o takes the name n from p, and x, q become y, z.                 *)

\* put(), taken apart.
LEMMA PutIs ==
  ASSUME IInv, NEW o \in Objects, NEW ts \in Puts(objs[o].name), Put(o, ts)
  PROVE  LET p == held[objs[o].name]
             y == [objs[o] EXCEPT !.state = "ACTIVE", !.ts = ts]
             z == [objs[p] EXCEPT !.state = IF @ = "ACTIVE" THEN "OLD" ELSE @]
         IN  /\ Putting(o, p, objs[o].name, objs[o], objs[p], y, z, ts)
             /\ queue' = Append(queue, Txn(objs[o].name, o, HandOver(objs[p], objs[o], ts)))
<1> DEFINE x == objs[o]
           n == x.name
           p == held[n]
           q == objs[p]
           y == [x EXCEPT !.state = "ACTIVE", !.ts = ts]
           s == IF q.state = "ACTIVE" THEN "OLD" ELSE q.state
           z == [q EXCEPT !.state = s]
<1>1. /\ phase = "serving" /\ x.state = "IN_WRITE" /\ p # NoObject
      /\ q.state \in {"ACTIVE", "MISSING"} /\ ts > q.ts
      /\ queue' = Append(queue, Txn(n, o, HandOver(q, x, ts)))
      /\ UNCHANGED <<reads, last, current, handed, store, disk, phase, crashes, aborted>>
  BY DEF Put, Running, Prepare
<1>2. /\ objs' = [objs EXCEPT ![o].state = "ACTIVE", ![o].ts = ts,
                              ![p].state = IF @ = "ACTIVE" THEN "OLD" ELSE @]
      /\ held' = [held EXCEPT ![n] = o]
  BY DEF Put
<1>3. /\ Types /\ n \in Names /\ x \in Objs /\ x.ts \in Times(n) /\ ts \in Nat
      /\ p \in Objects /\ q.name = n /\ q \in Objs /\ q.ts \in Nat /\ o # p
      /\ Settles(Settled, objs, TRUE)
      /\ Stamped(Settled, objs, held, last) /\ Holds(Settled, objs, held)
  <2>1. /\ Types /\ n \in Names /\ x \in Objs /\ x.ts \in Times(n) /\ ts \in Nat
        /\ Settles(Settled, objs, TRUE)
        /\ Stamped(Settled, objs, held, last) /\ Holds(Settled, objs, held)
    BY <1>1, ObjectFacts, Apart DEF Stamped, Writing, IInv, SettledTrue
  <2>2. p \in Objects /\ q.name = n
    BY <1>1, <2>1 DEF Types, Holds
  <2> QED BY <1>1, <2>1, <2>2, ObjectFacts
<1>4. \/ /\ q.state = "ACTIVE" /\ q.ts \in Puts(n) /\ s = "OLD"
         /\ Settled[Ordinary(n)] = Told(q)
      \/ /\ q.state = "MISSING" /\ q.ts = 0 /\ s = "MISSING"
         /\ Settled[Ordinary(n)] = NoEntry
  <2>1. CASE q.state = "ACTIVE"
    <3>1. Address(q) = Ordinary(n) /\ Kept(q)
      BY <1>3, <2>1, AddressIs DEF Kept
    <3> QED BY <1>3, <2>1, <3>1 DEF Settles, Stamped
  <2>2. CASE q.state = "MISSING"
    BY <1>1, <1>3, <2>2 DEF Holds, Stamped
  <2> QED BY <1>1, <2>1, <2>2
<1>5. Settled[Ordinary(n)].ts = q.ts
  <2>1. CASE Settled[Ordinary(n)] = Told(q)
    <3>1. Told(q).ts = q.ts
      BY DEF Told
    <3> QED BY <2>1, <3>1
  <2>2. CASE q.ts = 0 /\ Settled[Ordinary(n)] = NoEntry
    BY <2>2, EmptyEntry
  <2> QED BY <1>4, <2>1, <2>2
<1>6. Settled[Temporary(n, x.ts)] = Told(x)
  BY <1>1, <1>3, AddressIs DEF Kept, Settles
<1>7. /\ y \in Objs /\ y.name = n /\ y.state = "ACTIVE" /\ y.ts = ts /\ y.deleted = x.deleted
      /\ y.id = x.id /\ y.written = x.written /\ y.metas = x.metas
  BY <1>3 DEF Objs, States
<1>8. /\ z \in Objs /\ z.name = n /\ z.state = s /\ z.ts = q.ts /\ z.deleted = q.deleted
      /\ z.id = q.id /\ z.written = q.written /\ z.metas = q.metas
  <2>1. s \in States
    BY <1>4 DEF States
  <2> HIDE DEF s
  <2> QED BY <1>3, <2>1 DEF Objs
<1>9. /\ objs' = [r \in Objects |-> IF r = o THEN y ELSE IF r = p THEN z ELSE objs[r]]
  BY <1>2, <1>3 DEF Types, Objs
<1> HIDE DEF y, z
<1>10. /\ objs' \in [Objects -> Objs] /\ objs'[o] = y /\ objs'[p] = z
       /\ \A r \in Objects : r # o /\ r # p => objs'[r] = objs[r]
  BY <1>3, <1>7, <1>8, <1>9 DEF Types
<1>11. /\ held' \in [Names -> Objects \cup {NoObject}] /\ held'[n] = o
       /\ \A m \in Names : m # n => held'[m] = held[m]
  BY <1>2, <1>3 DEF Types
<1> HIDE DEF s
<1>12. Putting(o, p, n, x, q, y, z, ts)
  BY <1>1, <1>3, <1>4, <1>5, <1>6, <1>7, <1>8, <1>10, <1>11 DEF Putting
<1> QED BY <1>1, <1>12 DEF y, z, s

\* Who had the name before the one that holds it.
LEMMA Earlier ==
  ASSUME IInv, NEW o, NEW p, NEW n, NEW x, NEW q, NEW y, NEW z, NEW ts,
         Putting(o, p, n, x, q, y, z, ts)
  PROVE  /\ \A r \in Objects : r # o /\ r # p /\ Placed(objs[r]) /\ objs[r].name = n =>
               objs[r].state = "OLD" /\ objs[r].ts < q.ts /\ objs[r].ts \in Puts(objs[r].name)
         /\ \A r \in Objects : r # o /\ r # p => objs'[r] = objs[r]
         /\ Placed(z) => Placed(q) /\ q.state = "ACTIVE" /\ q.ts \in Puts(n)
                         /\ z.state = "OLD" /\ Settled[Ordinary(n)] = Told(q)
         /\ ts \notin Times(n) /\ q.ts \notin Times(n) /\ 0 \notin Puts(n) /\ 0 \notin Times(n)
         /\ ~Placed(x) /\ Placed(y)
<1>1. /\ Types /\ Stamped(Settled, objs, held, last) /\ Holds(Settled, objs, held)
  BY ObjectFacts
<1>2. ASSUME NEW r \in Objects, r # p, Placed(objs[r]), objs[r].name = n
      PROVE  objs[r].state = "OLD" /\ objs[r].ts < q.ts /\ objs[r].ts \in Puts(objs[r].name)
  <2>1. objs[r].state # "ACTIVE"
    BY <1>1, <1>2 DEF Stamped, Putting
  <2> QED BY <1>1, <1>2, <2>1 DEF Placed, Stamped, Putting
<1>3. 0 \notin Puts(n) /\ 0 \notin Times(n)
  BY Apart
<1> QED BY <1>2, <1>3, Apart DEF Putting, Placed

\* A state in the middle of a put says no less of the Objects after it.
LEMMA SeenMidway ==
  ASSUME IInv, NEW o, NEW p, NEW n, NEW x, NEW q, NEW y, NEW z, NEW ts,
         Putting(o, p, n, x, q, y, z, ts), NEW F, Taken(F, n, ts),
         NEW S, Midway(S, n, x, q, ts)
  PROVE  Seen(S, F, objs', TRUE)
<1> DEFINE N == Ordinary(n)
           B == Temporary(n, x.ts)
           C == Temporary(n, q.ts)
<1>1. /\ n \in Names /\ ts \in Puts(n) /\ ts \in Nat /\ q.ts \in Nat /\ q.ts < ts
      /\ x.ts \in Times(n) /\ Settled[N].ts = q.ts
      /\ y.name = n /\ y.ts = ts /\ y.id = x.id /\ y.written = x.written
      /\ z.name = n /\ z.ts = q.ts /\ z.id = q.id /\ z.written = q.written
      /\ objs'[o] = y /\ objs'[p] = z /\ o \in Objects /\ p \in Objects
      /\ q \in Objs
  BY DEF Putting
<1>2. /\ \A r \in Objects : r # o /\ r # p /\ Placed(objs[r]) /\ objs[r].name = n =>
               objs[r].state = "OLD" /\ objs[r].ts < q.ts /\ objs[r].ts \in Puts(objs[r].name)
      /\ \A r \in Objects : r # o /\ r # p => objs'[r] = objs[r]
      /\ Placed(z) => Placed(q) /\ q.state = "ACTIVE" /\ q.ts \in Puts(n)
                      /\ z.state = "OLD" /\ Settled[N] = Told(q)
      /\ ts \notin Times(n) /\ q.ts \notin Times(n) /\ 0 \notin Puts(n) /\ 0 \notin Times(n)
      /\ ~Placed(x) /\ Placed(y)
  BY Earlier
<1>3. /\ Seen(Settled, Settled, objs, TRUE)
      /\ \A m \in Names : Sane(m, Settled[Ordinary(m)]) /\ Settled[Ordinary(m)].ts \in Nat
      /\ \A r \in Objects : Placed(objs[r]) => objs[r].name \in Names /\ objs[r].ts \in Puts(objs[r].name)
                                               /\ objs[r].ts \in Nat
  <2>1. phase = "serving"
    BY DEF Putting
  <2>2. \A m \in Names : Sane(m, Settled[Ordinary(m)])
    BY DEF IInv, SettledTrue, Settles
  <2>3. \A m \in Names : Settled[Ordinary(m)].ts \in Nat
    BY AddressFacts, ObjectFacts DEF Contents, Entries
  <2> QED BY <2>1, <2>2, <2>3, ObjectFacts
<1>4. /\ \A m \in Names : Ordinary(m) \in Addresses /\ Ordinary(m) # B /\ Ordinary(m) # C
                          /\ (m # n => Ordinary(m) # N)
      /\ \A m \in Names : \A s \in Puts(m) :
            /\ Temporary(m, s) \in Addresses /\ Temporary(m, s) # N /\ Temporary(m, s) # B
            /\ (m # n \/ s # q.ts) => Temporary(m, s) # C
  BY <1>1, AddressFacts, Apart DEF Ordinary, Temporary
<1>5. /\ \A m \in Names : m # n => S[Ordinary(m)] = Settled[Ordinary(m)]
      /\ \A m \in Names : \A s \in Puts(m) : m # n \/ s # q.ts =>
            S[Temporary(m, s)] = Settled[Temporary(m, s)]
  BY <1>4 DEF Midway
<1>6. /\ S \in Contents /\ \A a \in Addresses : Whole(S[a])
      /\ \/ S[N] = Settled[N]
         \/ S[N] = NoEntry
         \/ S[N].ts = x.ts
         \/ S[N].ts = ts /\ ~S[N].old /\ Own(x, S[N])
      /\ q.ts \in Puts(n) /\ S[C] # NoEntry => Own(q, S[C]) /\ S[N].ts # q.ts
  BY DEF Midway
<1>7. F[N].ts = ts /\ \A m \in Names : m # n => F[Ordinary(m)] = Settled[Ordinary(m)]
  BY DEF Taken
<1>8. NoEntry.ts = 0
  BY EmptyEntry
<1> HIDE DEF N, B, C
<1>9. \A m \in Names : \/ S[Ordinary(m)].ts \in Times(m)
                       \/ Sane(m, S[Ordinary(m)]) /\ S[Ordinary(m)].ts <= F[Ordinary(m)].ts
  <2> TAKE m \in Names
  <2>1. CASE m # n
    BY <1>3, <1>5, <1>7, <2>1
  <2>2. CASE m = n
    <3>1. S[N].ts \in Times(n) \/ (Sane(n, S[N]) /\ S[N].ts <= F[N].ts)
      BY <1>1, <1>3, <1>6, <1>7, <1>8 DEF Sane, N
    <3> QED BY <2>2, <3>1 DEF N
  <2> QED BY <2>1, <2>2
<1>10. ASSUME NEW m \in Names, NEW s \in Puts(m), S[Temporary(m, s)] # NoEntry
       PROVE  s < F[Ordinary(m)].ts /\ S[Ordinary(m)].ts # s
  <2>0. Settled[Temporary(m, s)] # NoEntry => s < Settled[Ordinary(m)].ts /\ Settled[Ordinary(m)].ts # s
    BY <1>3 DEF Seen
  <2>1. CASE m # n
    BY <1>5, <1>7, <1>10, <2>0, <2>1
  <2>2. CASE m = n /\ s = q.ts
    BY <1>1, <1>6, <1>7, <1>10, <2>2 DEF N, C
  <2>3. CASE m = n /\ s # q.ts
    <3>1. s < q.ts
      BY <1>1, <1>5, <1>10, <2>0, <2>3 DEF N
    <3>2. S[N].ts \in {q.ts, 0, x.ts, ts}
      BY <1>1, <1>6, <1>8
    <3>3. s \in Nat /\ s \notin Times(m)
      BY Apart
    <3>4. S[N].ts # s
      BY <1>1, <1>2, <2>3, <3>1, <3>2, <3>3
    <3> QED BY <1>1, <1>7, <2>3, <3>1, <3>3, <3>4 DEF N
  <2> QED BY <2>1, <2>2, <2>3
<1>11. ASSUME NEW r \in Objects, Placed(objs'[r])
       PROVE  Knows(objs'[r], S)
  <2>1. CASE r = o
    <3>1. S[N].ts = ts => Own(y, S[N])
      BY <1>1, <1>2, <1>6, <1>8 DEF Own
    <3>2. S[Temporary(n, ts)] = NoEntry
      <4>1. S[Temporary(n, ts)] = Settled[Temporary(n, ts)]
        BY <1>1, <1>5
      <4>2. Settled[Temporary(n, ts)] # NoEntry => ts < Settled[Ordinary(n)].ts
        BY <1>1, <1>3 DEF Seen
      <4> QED BY <1>1, <4>1, <4>2 DEF N
    <3>3. Knows(y, S)
      BY <1>1, <3>1, <3>2 DEF Knows, N
    <3> QED BY <1>1, <2>1, <3>3
  <2>2. CASE r = p
    <3>0. Placed(z)
      BY <1>1, <1>11, <2>2
    <3>1. S[N].ts = q.ts => Own(z, S[N])
      <4> SUFFICES ASSUME S[N].ts = q.ts
                   PROVE  Own(z, S[N])
        OBVIOUS
      <4>1. S[N] = Told(q)
        BY <1>1, <1>2, <1>6, <1>8, <3>0
      <4>2. Told(q).id = q.id /\ Len(Told(q).data) = q.written
        <5>1. q.written \in Nat
          BY <1>1 DEF Objs
        <5>2. Told(q).id = q.id /\ Told(q).data = [i \in 1 .. q.written |-> q.id]
          BY DEF Told
        <5> QED BY <5>1, <5>2
      <4> QED BY <1>1, <4>1, <4>2 DEF Own
    <3>2. S[C] # NoEntry => Own(z, S[C])
      BY <1>1, <1>2, <1>6, <3>0 DEF Own
    <3>3. Knows(z, S)
      BY <1>1, <3>1, <3>2 DEF Knows, N, C
    <3> QED BY <1>1, <2>2, <3>3
  <2>3. CASE r # o /\ r # p
    <3>1. objs'[r] = objs[r] /\ Placed(objs[r]) /\ Knows(objs[r], Settled)
          /\ objs[r].name \in Names /\ objs[r].ts \in Puts(objs[r].name)
      BY <1>2, <1>3, <1>11, <2>3 DEF Seen
    <3>2. CASE objs[r].name # n
      BY <1>5, <3>1, <3>2 DEF Knows
    <3>3. CASE objs[r].name = n
      <4>1. objs[r].ts < q.ts /\ objs[r].ts \in Nat
        BY <1>2, <1>3, <2>3, <3>1, <3>3
      <4>2. S[Temporary(n, objs[r].ts)] = Settled[Temporary(n, objs[r].ts)]
        BY <1>1, <1>5, <3>1, <3>3, <4>1
      <4>3. S[N].ts # objs[r].ts
        <5>1. S[N].ts \in {q.ts, 0, x.ts, ts}
          BY <1>1, <1>6, <1>8
        <5>2. objs[r].ts \notin Times(objs[r].name)
          BY <3>1, Apart
        <5> QED BY <1>1, <1>2, <3>1, <3>3, <4>1, <5>1, <5>2
      <4>4. Knows(objs[r], S)
        BY <3>1, <3>3, <4>2, <4>3 DEF Knows, N
      <4> QED BY <3>1, <4>4
    <3> QED BY <3>2, <3>3
  <2> QED BY <2>1, <2>2, <2>3
<1> QED BY <1>6, <1>9, <1>10, <1>11 DEF Seen

\* The states before a put say no less of the Objects after it.
LEMMA SeenBefore ==
  ASSUME IInv, NEW o, NEW p, NEW n, NEW x, NEW q, NEW y, NEW z, NEW ts,
         Putting(o, p, n, x, q, y, z, ts), NEW F, Taken(F, n, ts), NEW S \in Passing
  PROVE  Seen(S, F, objs', TRUE)
<1>1. /\ n \in Names /\ ts \in Puts(n) /\ ts \in Nat /\ q.ts \in Nat /\ q.ts < ts
      /\ Settled[Ordinary(n)].ts = q.ts /\ phase = "serving"
      /\ y.name = n /\ y.ts = ts
      /\ z.name = n /\ z.ts = q.ts /\ z.id = q.id /\ z.written = q.written
      /\ objs'[o] = y /\ objs'[p] = z /\ o \in Objects /\ p \in Objects
      /\ objs[p] = q /\ q.name = n
  BY DEF Putting
<1>2. /\ \A r \in Objects : r # o /\ r # p => objs'[r] = objs[r]
      /\ Placed(z) => Placed(q)
      /\ ts \notin Times(n)
  BY Earlier
<1>3. Seen(S, Settled, objs, TRUE)
  BY <1>1 DEF IInv, PassingTrue
<1>4. \A m \in Names : /\ Settled[Ordinary(m)].ts \in Nat /\ S[Ordinary(m)].ts \in Nat
                       /\ F[Ordinary(m)].ts \in Nat
                       /\ Settled[Ordinary(m)].ts <= F[Ordinary(m)].ts
  <2>1. \A m \in Names : Ordinary(m) \in Addresses
    BY AddressFacts
  <2>2. Settled \in Contents /\ S \in Contents
    BY <1>3, ObjectFacts DEF Seen
  <2>3. \A m \in Names : Settled[Ordinary(m)].ts \in Nat /\ S[Ordinary(m)].ts \in Nat
    BY <2>1, <2>2 DEF Contents, Entries
  <2> QED BY <1>1, <2>3 DEF Taken
<1>5. \A m \in Names : \/ S[Ordinary(m)].ts \in Times(m)
                       \/ Sane(m, S[Ordinary(m)]) /\ S[Ordinary(m)].ts <= F[Ordinary(m)].ts
  BY <1>3, <1>4 DEF Seen
<1>6. \A m \in Names : \A s \in Puts(m) : S[Temporary(m, s)] # NoEntry =>
         s < F[Ordinary(m)].ts /\ S[Ordinary(m)].ts # s
  <2> TAKE m \in Names
  <2> TAKE s \in Puts(m)
  <2>1. s \in Nat
    BY Apart
  <2> QED BY <1>3, <1>4, <2>1 DEF Seen
<1>7. ASSUME NEW r \in Objects, Placed(objs'[r])
      PROVE  Knows(objs'[r], S)
  <2>1. CASE r = o
    <3>1. S[Ordinary(n)].ts # ts
      <4>1. S[Ordinary(n)].ts \in Times(n) \/ S[Ordinary(n)].ts <= Settled[Ordinary(n)].ts
        BY <1>1, <1>3 DEF Seen
      <4> QED BY <1>1, <1>2, <1>4, <4>1
    <3>2. S[Temporary(n, ts)] # NoEntry => ts < Settled[Ordinary(n)].ts
      BY <1>1, <1>3 DEF Seen
    <3> QED BY <1>1, <2>1, <3>1, <3>2 DEF Knows
  <2>2. CASE r = p
    <3>1. Knows(q, S)
      BY <1>1, <1>2, <1>3, <1>7, <2>2 DEF Seen
    <3> QED BY <1>1, <2>2, <3>1 DEF Knows, Own
  <2>3. CASE r # o /\ r # p
    BY <1>2, <1>3, <1>7, <2>3 DEF Seen
  <2> QED BY <2>1, <2>2, <2>3
<1> QED BY <1>3, <1>5, <1>6, <1>7 DEF Seen

\* The operations before a put find no less.
LEMMA DueBefore ==
  ASSUME IInv, NEW o, NEW p, NEW n, NEW x, NEW q, NEW y, NEW z, NEW ts,
         Putting(o, p, n, x, q, y, z, ts), NEW F, Taken(F, n, ts),
         NEW S, NEW op \in Ops, Due(S, op, Settled, objs, TRUE)
  PROVE  Due(S, op, F, objs', TRUE)
<1>1. /\ n \in Names /\ ts \in Nat /\ q.ts \in Nat /\ q.ts < ts
      /\ Settled[Ordinary(n)].ts = q.ts
      /\ y.name = n /\ y.ts = ts /\ z.name = n /\ z.ts = q.ts
      /\ objs'[o] = y /\ objs'[p] = z /\ o \in Objects /\ p \in Objects
  BY DEF Putting
<1>2. \A r \in Objects : r # o /\ r # p => objs'[r] = objs[r]
  BY Earlier
<1>3. DueRemove(op, Settled, objs) => DueRemove(op, F, objs')
  <2> SUFFICES ASSUME op.at.gen \in Puts(op.at.name), op.at.gen < Settled[Ordinary(op.at.name)].ts,
                      \A r \in Objects : Placed(objs[r]) /\ objs[r].name = op.at.name =>
                         objs[r].ts # op.at.gen
               PROVE  /\ op.at.gen < F[Ordinary(op.at.name)].ts
                      /\ \A r \in Objects : Placed(objs'[r]) /\ objs'[r].name = op.at.name =>
                            objs'[r].ts # op.at.gen
    BY DEF DueRemove
  <2>1. op.at.gen \in Nat /\ op.at.name \in Names
    BY Apart, OpFields, AddressFacts
  <2>2. op.at.gen < F[Ordinary(op.at.name)].ts
    BY <1>1, <2>1 DEF Taken
  <2>3. ASSUME NEW r \in Objects, Placed(objs'[r]), objs'[r].name = op.at.name
        PROVE  objs'[r].ts # op.at.gen
    <3>1. CASE r = o \/ r = p
      BY <1>1, <2>1, <2>3, <3>1
    <3>2. CASE r # o /\ r # p
      BY <1>2, <2>3, <3>2
    <3> QED BY <3>1, <3>2
  <2> QED BY <2>2, <2>3
<1> QED BY <1>3 DEF Due

\* A put does not bring back a stamp that has left its name.
LEMMA GoneStays ==
  ASSUME IInv, NEW o, NEW p, NEW n, NEW x, NEW q, NEW y, NEW z, NEW ts,
         Putting(o, p, n, x, q, y, z, ts), NEW S, Midway(S, n, x, q, ts),
         NEW r \in Objects, Placed(objs[r]), Gone(objs[r])
  PROVE  S[Ordinary(objs[r].name)].ts # objs[r].ts
<1>1. /\ n \in Names /\ ts \in Nat /\ q.ts \in Nat /\ q.ts < ts
      /\ x.ts \in Times(n) /\ Settled[Ordinary(n)].ts = q.ts /\ objs[o] = x /\ objs[p] = q
      /\ q.name = n
  BY DEF Putting
<1>2. /\ Settled[Ordinary(objs[r].name)].ts # objs[r].ts
      /\ objs[r].name \in Names /\ objs[r].ts \in Puts(objs[r].name) /\ objs[r].ts \in Nat
  BY Queued, ObjectFacts DEF Gone
<1>3. CASE objs[r].name # n
  <2>1. /\ Ordinary(objs[r].name) \in Addresses /\ Ordinary(objs[r].name) # Ordinary(n)
        /\ Ordinary(objs[r].name) # Temporary(n, x.ts)
        /\ Ordinary(objs[r].name) # Temporary(n, q.ts)
    BY <1>1, <1>2, <1>3, AddressFacts DEF Ordinary, Temporary
  <2>2. S[Ordinary(objs[r].name)] = Settled[Ordinary(objs[r].name)]
    BY <2>1 DEF Midway
  <2> QED BY <1>2, <2>2
<1>4. CASE objs[r].name = n
  <2>1. r # o /\ r # p
    BY <1>1, <1>2, <1>4, Earlier
  <2>2. objs[r].ts < q.ts /\ 0 \notin Puts(n) /\ objs[r].ts \notin Times(objs[r].name)
    BY <1>2, <1>4, <2>1, Earlier, Apart
  <2>3. S[Ordinary(n)].ts \in {q.ts, 0, x.ts, ts}
    BY <1>1, EmptyEntry DEF Midway
  <2> QED BY <1>1, <1>2, <1>4, <2>2, <2>3
<1> QED BY <1>3, <1>4

\* After a put the stamps are still everybody's own.
LEMMA StampsPut ==
  ASSUME IInv, NEW o, NEW p, NEW n, NEW x, NEW q, NEW y, NEW z, NEW ts,
         Putting(o, p, n, x, q, y, z, ts), NEW F, Taken(F, n, ts)
  PROVE  Stamped(F, objs', held', last)
<1>1. /\ n \in Names /\ ts \in Nat /\ ts \in Puts(n) /\ q.ts \in Nat /\ q.ts < ts
      /\ Settled[Ordinary(n)].ts = q.ts
      /\ y.name = n /\ y.ts = ts /\ y.state = "ACTIVE"
      /\ z.name = n /\ z.ts = q.ts
      /\ \/ q.state = "ACTIVE" /\ q.ts \in Puts(n) /\ z.state = "OLD"
         \/ q.state = "MISSING" /\ q.ts = 0 /\ z.state = "MISSING"
      /\ o \in Objects /\ p \in Objects /\ o # p
      /\ objs'[o] = y /\ objs'[p] = z /\ objs[p] = q /\ held[n] = p
      /\ held'[n] = o /\ \A m \in Names : m # n => held'[m] = held[m]
  BY DEF Putting
<1>2. /\ \A r \in Objects : r # o /\ r # p => objs'[r] = objs[r]
      /\ \A r \in Objects : r # o /\ r # p /\ Placed(objs[r]) /\ objs[r].name = n =>
            objs[r].state = "OLD" /\ objs[r].ts < q.ts /\ objs[r].ts \in Puts(objs[r].name)
  BY Earlier
<1>3. /\ Stamped(Settled, objs, held, last)
      /\ \A r \in Objects : objs[r].ts \in Nat
      /\ \A r \in Objects : objs[r].state # "NONE" => objs[r].name \in Names
  BY ObjectFacts
<1>4. ASSUME NEW r \in Objects, objs'[r].state \in Writing
      PROVE  objs'[r] = objs[r]
  BY <1>1, <1>2, <1>4 DEF Writing
<1>5. ASSUME NEW r \in Objects, objs'[r].state = "OLD"
      PROVE  /\ objs'[r].ts < F[Ordinary(objs'[r].name)].ts
             /\ \A s \in Objects : s # r /\ objs'[s].state = "OLD" /\ objs'[s].name = objs'[r].name =>
                    objs'[s].ts # objs'[r].ts
  <2>1. \A s \in Objects : objs'[s].state = "OLD" /\ s # p =>
           /\ s # o /\ objs'[s] = objs[s] /\ objs[s].state = "OLD" /\ Placed(objs[s])
           /\ objs[s].name = n => objs[s].ts < q.ts
    BY <1>1, <1>2 DEF Placed
  <2>2. CASE r = p
    BY <1>1, <1>3, <2>1, <2>2 DEF Taken
  <2>3. CASE r # p
    <3>1. /\ objs'[r] = objs[r] /\ objs[r].name \in Names
          /\ objs[r].ts < Settled[Ordinary(objs[r].name)].ts
          /\ \A s \in Objects : s # r /\ objs[s].state = "OLD" /\ objs[s].name = objs[r].name =>
                    objs[s].ts # objs[r].ts
      BY <1>3, <1>5, <2>1, <2>3 DEF Stamped
    <3>2. objs[r].ts < F[Ordinary(objs[r].name)].ts
      BY <1>1, <1>3, <3>1 DEF Taken
    <3> QED BY <1>1, <1>3, <1>5, <2>1, <2>3, <3>1, <3>2
  <2> QED BY <2>2, <2>3
<1>6. ASSUME NEW r \in Objects
      PROVE  /\ objs'[r].state = "PRE_WRITE" =>
                   /\ objs'[r].id # NoWriter /\ objs'[r].written = 0 /\ objs'[r].metas = 0
                   /\ ~objs'[r].deleted
             /\ objs'[r].state \in {"PRE_SEARCH", "MISSING"} => objs'[r].ts = 0
             /\ objs'[r].state \in {"PRE_SEARCH", "ACTIVE"} => held'[objs'[r].name] = r
             /\ objs'[r].state \in {"ACTIVE", "OLD"} => objs'[r].ts \in Puts(objs'[r].name)
  <2>1. CASE r = o \/ r = p
    BY <1>1, <2>1
  <2>2. CASE r # o /\ r # p
    <3>1. objs'[r] = objs[r]
      BY <1>2, <2>2
    <3>2. objs[r].state \in {"PRE_SEARCH", "ACTIVE"} =>
             held[objs[r].name] = r /\ objs[r].name \in Names
      BY <1>3 DEF Stamped
    <3>3. objs[r].state \in {"PRE_SEARCH", "ACTIVE"} => objs[r].name # n
      BY <1>1, <2>2, <3>2
    <3> QED BY <1>1, <1>3, <3>1, <3>2, <3>3 DEF Stamped
  <2> QED BY <2>1, <2>2
<1>7. ASSUME NEW r \in Objects, objs'[r].state \in Writing
      PROVE  /\ objs'[r].ts \in Times(objs'[r].name) /\ objs'[r].ts <= last
             /\ \A s \in Objects : s # r /\ objs'[s].state \in Writing => objs'[s].ts # objs'[r].ts
  BY <1>3, <1>4, <1>7 DEF Stamped
<1> QED BY <1>5, <1>6, <1>7 DEF Stamped

\* A put settles as the two Objects say: the new one holds the name, the
\* old one is retired.
LEMMA SettlesPut ==
  ASSUME IInv, NEW o, NEW p, NEW n, NEW x, NEW q, NEW y, NEW z, NEW ts,
         Putting(o, p, n, x, q, y, z, ts), NEW F, Midway(F, n, x, q, ts),
         F[Ordinary(n)] = Told(y), F[Temporary(n, x.ts)] = NoEntry,
         z.state = "OLD" => F[Temporary(n, q.ts)] = Told(z)
  PROVE  Settles(F, objs', TRUE) /\ Holds(F, objs', held') /\ Taken(F, n, ts)
<1> DEFINE N == Ordinary(n)
           B == Temporary(n, x.ts)
           C == Temporary(n, q.ts)
<1>1. /\ n \in Names /\ ts \in Puts(n) /\ ts \in Nat /\ q.ts \in Nat /\ q.ts < ts
      /\ x.ts \in Times(n) /\ Settled[N].ts = q.ts
      /\ y.name = n /\ y.ts = ts /\ y.state = "ACTIVE" /\ y \in Objs
      /\ z.name = n /\ z.ts = q.ts /\ z \in Objs
      /\ \/ q.state = "ACTIVE" /\ q.ts \in Puts(n) /\ z.state = "OLD"
         \/ q.state = "MISSING" /\ q.ts = 0 /\ z.state = "MISSING"
      /\ objs'[o] = y /\ objs'[p] = z /\ o \in Objects /\ p \in Objects
      /\ q \in Objs /\ q.name = n /\ held[n] = p /\ objs[p] = q /\ objs[o] = x
      /\ x.name = n /\ x.state = "IN_WRITE" /\ x \in Objs
      /\ held'[n] = o /\ \A m \in Names : m # n => held'[m] = held[m]
  BY DEF Putting
<1>2. /\ \A r \in Objects : r # o /\ r # p /\ Placed(objs[r]) /\ objs[r].name = n =>
               objs[r].state = "OLD" /\ objs[r].ts < q.ts /\ objs[r].ts \in Puts(objs[r].name)
      /\ \A r \in Objects : r # o /\ r # p => objs'[r] = objs[r]
      /\ ts \notin Times(n) /\ q.ts \notin Times(n) /\ 0 \notin Puts(n) /\ 0 \notin Times(n)
  BY Earlier
<1>3. /\ Settles(Settled, objs, TRUE) /\ Holds(Settled, objs, held)
      /\ Stamped(Settled, objs, held, last) /\ Types
      /\ \A r \in Objects : objs[r] \in Objs /\ objs[r].ts \in Nat
      /\ \A r \in Objects : objs[r].state # "NONE" => objs[r].name \in Names
  <2>1. phase = "serving"
    BY DEF Putting
  <2> QED BY <2>1, ObjectFacts DEF IInv, SettledTrue
<1>4. /\ Address(y) = N /\ Kept(y) /\ Address(x) = B /\ Kept(x)
      /\ z.state = "OLD" => Address(z) = C /\ Kept(z)
      /\ q.state = "ACTIVE" => Address(q) = N /\ Kept(q)
  BY <1>1, AddressIs DEF Kept
<1>5. /\ \A m \in Names : m # n => Ordinary(m) \in Addresses /\ Ordinary(m) # N
                                     /\ Ordinary(m) # B /\ Ordinary(m) # C
  BY <1>1, AddressFacts DEF Ordinary, Temporary
<1>6. \A a \in Addresses : a # N /\ a # B /\ a # C => F[a] = Settled[a]
  BY DEF Midway
<1>7. \A m \in Names : m # n => F[Ordinary(m)] = Settled[Ordinary(m)]
  BY <1>5, <1>6
<1>8. Told(y).ts = ts /\ ~Told(y).old
  BY <1>1 DEF Told
<1>9. \A m \in Names : Sane(m, F[Ordinary(m)])
  <2> TAKE m \in Names
  <2>1. CASE m = n
    BY <1>1, <1>8, <2>1 DEF Sane
  <2>2. CASE m # n
    BY <1>3, <1>7, <2>2 DEF Settles
  <2> QED BY <2>1, <2>2
<1>10. /\ F[N] = Told(y) /\ F[B] = NoEntry /\ (z.state = "OLD" => F[C] = Told(z))
       /\ N \in Addresses /\ ~N.temp
       /\ q.ts = 0 => C \notin Addresses
  <2>1. q.ts = 0 => C \notin Addresses
    BY EngineAssumption DEF Addresses, Temporary
  <2> QED BY <1>1, <2>1, AddressFacts
<1> HIDE DEF N, B, C
<1>11. ASSUME NEW at \in Addresses, at.temp, F[at] # NoEntry
       PROVE  \E r \in Objects : Kept(objs'[r]) /\ Address(objs'[r]) = at
  <2>1. CASE at = C
    BY <1>1, <1>4, <1>10, <2>1
  <2>2. CASE at # C
    <3>1. at # N /\ at # B
      BY <1>10, <1>11
    <3>2. Settled[at] # NoEntry
      BY <1>6, <1>11, <2>2, <3>1
    <3>3. PICK r \in Objects : Kept(objs[r]) /\ Address(objs[r]) = at
      BY <1>3, <1>11, <3>2 DEF Settles
    <3>4. r # o /\ r # p
      BY <1>1, <1>4, <3>1, <3>3 DEF Kept
    <3> QED BY <1>2, <3>3, <3>4
  <2> QED BY <2>1, <2>2
<1>12. ASSUME NEW r \in Objects, Kept(objs'[r])
       PROVE  F[Address(objs'[r])] = Told(objs'[r])
  <2>1. CASE r = o
    BY <1>1, <1>4, <1>10, <2>1
  <2>2. CASE r = p
    <3>1. z.state = "OLD"
      BY <1>1, <1>12, <2>2 DEF Kept
    <3> QED BY <1>1, <1>4, <1>10, <2>2, <3>1
  <2>3. CASE r # o /\ r # p
    <3>1. objs'[r] = objs[r] /\ Kept(objs[r]) /\ objs[r].name \in Names
      BY <1>2, <1>3, <1>12, <2>3 DEF Kept
    <3>2. Address(objs[r]) \in Addresses /\ Address(objs[r]) # B
      <4>1. /\ objs[r].state \in {"PRE_WRITE", "IN_WRITE", "ACTIVE", "OLD"}
            /\ objs[o].state \in {"PRE_WRITE", "IN_WRITE", "ACTIVE", "OLD"}
            /\ Address(objs[o]) = B
        BY <1>1, <1>4, <3>1 DEF Kept
      <4>2. /\ Address(objs[r]) # Address(objs[o])
            /\ Address(objs[r]) \in Addresses
        BY <1>1, <2>3, <4>1, Distinct
      <4> QED BY <4>1, <4>2
    <3>3. Address(objs[r]) # N
      <4>1. CASE objs[r].state = "ACTIVE"
        <5>1. Address(objs[r]) = Ordinary(objs[r].name)
          BY <1>3, <4>1, AddressIs
        <5>2. objs[r].name # n
          BY <1>2, <2>3, <4>1 DEF Placed
        <5> QED BY <1>5, <3>1, <5>1, <5>2
      <4>2. CASE objs[r].state # "ACTIVE"
        <5>1. Address(objs[r]) = Temporary(objs[r].name, objs[r].ts)
          BY <1>3, <3>1, <4>2, AddressIs DEF Kept
        <5> QED BY <5>1 DEF N, Ordinary, Temporary
      <4> QED BY <4>1, <4>2
    <3>4. Address(objs[r]) # C
      <4> SUFFICES ASSUME Address(objs[r]) = C
                   PROVE  FALSE
        OBVIOUS
      <4>1. objs[r].state # "ACTIVE"
        <5>1. objs[r].state = "ACTIVE" => Address(objs[r]) = Ordinary(objs[r].name)
          BY <1>3, AddressIs
        <5> QED BY <5>1 DEF C, Ordinary, Temporary
      <4>2. Address(objs[r]) = Temporary(objs[r].name, objs[r].ts)
        BY <1>3, <3>1, <4>1, AddressIs DEF Kept
      <4>3. objs[r].name = n /\ objs[r].ts = q.ts
        BY <4>2 DEF C, Temporary
      <4>4. objs[r].state = "OLD"
        <5>1. objs[r].state = "IN_WRITE" => objs[r].ts \in Times(objs[r].name)
          BY <1>3 DEF Stamped, Writing
        <5> QED BY <1>2, <3>1, <4>1, <4>3, <5>1 DEF Kept
      <4> QED BY <1>1, <1>2, <2>3, <4>3, <4>4 DEF Placed
    <3> QED BY <1>3, <1>6, <3>1, <3>2, <3>3, <3>4 DEF Settles
  <2> QED BY <2>1, <2>2, <2>3
<1>13. ASSUME NEW m \in Names, held'[m] # NoObject
       PROVE  /\ objs'[held'[m]].name = m
              /\ objs'[held'[m]].state \in {"PRE_SEARCH", "MISSING", "ACTIVE"}
              /\ objs'[held'[m]].state = "MISSING" => F[Ordinary(m)] = NoEntry
  <2>1. CASE m = n
    BY <1>1, <2>1
  <2>2. CASE m # n
    <3>1. held'[m] = held[m] /\ held[m] \in Objects
      BY <1>1, <1>3, <1>13, <2>2 DEF Types
    <3>2. /\ objs[held[m]].name = m
          /\ objs[held[m]].state \in {"PRE_SEARCH", "MISSING", "ACTIVE"}
          /\ objs[held[m]].state = "MISSING" => Settled[Ordinary(m)] = NoEntry
      BY <1>3, <1>13, <3>1 DEF Holds
    <3>3. objs'[held[m]] = objs[held[m]]
      BY <1>1, <1>2, <2>2, <3>1, <3>2
    <3> QED BY <1>7, <2>2, <3>1, <3>2, <3>3
  <2> QED BY <2>1, <2>2
<1>14. Settles(F, objs', TRUE)
  BY <1>9, <1>11, <1>12 DEF Settles
<1>15. Holds(F, objs', held')
  BY <1>13 DEF Holds
<1>16. Taken(F, n, ts)
  BY <1>7, <1>8, <1>10 DEF Taken, N
<1> QED BY <1>14, <1>15, <1>16

\* A put whose transaction is told by what it passes through.
LEMMA PutsStep ==
  ASSUME IInv, NEW o, NEW p, NEW n, NEW x, NEW q, NEW y, NEW z, NEW ts,
         Putting(o, p, n, x, q, y, z, ts),
         NEW T \in Txns, Proper(T), T.of = o, queue' = Append(queue, T),
         Given(T) \subseteq OpsOf(n), Touches(T, n), Moves(T, n),
         ApplyAll(T.ops, Settled)[Ordinary(n)] = Told(y),
         ApplyAll(T.ops, Settled)[Temporary(n, x.ts)] = NoEntry,
         z.state = "OLD" => ApplyAll(T.ops, Settled)[Temporary(n, q.ts)] = Told(z),
         \A S \in PassingOf(T.ops, Settled) : Midway(S, n, x, q, ts),
         \A g \in StagesOf(T.ops, Settled) : \A F :
            Taken(F, n, ts) => Due(g[1], g[2], F, objs', TRUE)
  PROVE  IInv'
<1> DEFINE F == ApplyAll(T.ops, Settled)
<1>1. /\ n \in Names /\ phase = "serving"
      /\ y.name = n /\ y.state = "ACTIVE" /\ y \in Objs
      /\ z.name = n /\ z \in Objs /\ z.state \in {"OLD", "MISSING"}
      /\ z.id = q.id /\ z.written = q.written /\ z.ts = q.ts
      /\ q.state = "ACTIVE" => z.state = "OLD"
      /\ objs'[o] = y /\ objs'[p] = z /\ o \in Objects /\ p \in Objects /\ o # p
      /\ q.name = n /\ held[n] = p /\ objs[p] = q /\ objs[o] = x
      /\ x.name = n /\ x.state = "IN_WRITE"
      /\ held'[n] = o /\ \A m \in Names : m # n => held'[m] = held[m]
      /\ objs' \in [Objects -> Objs] /\ held' \in [Names -> Objects \cup {NoObject}]
  BY DEF Putting
<1>2. UNCHANGED <<reads, last, current, handed, store, disk, phase, crashes, aborted>>
  BY DEF Putting
<1>3. /\ Types /\ Holds(Settled, objs, held) /\ T.ops \in Seq(Ops)
      /\ \A r \in Objects : r # o /\ r # p => objs'[r] = objs[r]
  BY ObjectFacts, Earlier DEF Txns
<1>4. F \in PassingOf(T.ops, Settled) /\ Midway(F, n, x, q, ts)
  BY <1>3, EndsPassing
<1>5. /\ Ending' /\ MidPut' /\ DiskTrue'
      /\ Coming \in Seq(Txns) /\ Coming' = Append(Coming, T)
      /\ queue' \in Seq(Txns) /\ (\A i \in 1 .. Len(queue') : Proper(queue'[i]))
      /\ Settled' = F
      /\ Passing' = Passing \cup PassingOf(T.ops, Settled)
      /\ Stages' = Stages \cup StagesOf(T.ops, Settled)
  BY <1>2, OnlyPrepared
<1> HIDE DEF F
<1>6. Settles(F, objs', TRUE) /\ Holds(F, objs', held') /\ Taken(F, n, ts)
  BY <1>4, SettlesPut DEF F
<1>7. Frozen'
  BY <1>1, <1>2 DEF Frozen
<1>8. PassingTrue'
  <2>1. ASSUME NEW S \in Passing'
        PROVE  Seen(S, F, objs', TRUE)
    <3>1. CASE S \in Passing
      BY <1>6, <3>1, SeenBefore
    <3>2. CASE S \in PassingOf(T.ops, Settled)
      BY <1>6, <3>2, SeenMidway
    <3> QED BY <1>5, <3>1, <3>2
  <2>2. (phase' = "serving") = TRUE
    BY <1>1, <1>2
  <2> QED BY <1>5, <2>1, <2>2 DEF PassingTrue
<1>9. StagesTrue'
  <2>1. ASSUME NEW g \in Stages'
        PROVE  Due(g[1], g[2], F, objs', TRUE)
    <3>1. CASE g \in Stages
      <4>1. Due(g[1], g[2], Settled, objs, TRUE) /\ g[2] \in Ops
        BY <1>1, <1>3, <3>1, Queued DEF IInv, StagesTrue
      <4> QED BY <1>6, <4>1, DueBefore
    <3>2. CASE g \in StagesOf(T.ops, Settled)
      BY <1>6, <3>2
    <3> QED BY <1>5, <3>1, <3>2
  <2>2. (phase' = "serving") = TRUE
    BY <1>1, <1>2
  <2> QED BY <1>5, <2>1, <2>2 DEF StagesTrue
<1>10. SettledTrue' /\ HeldTrue'
  <2>1. (phase' # "mounted") = TRUE
    BY <1>1, <1>2
  <2> QED BY <1>5, <1>6, <2>1 DEF SettledTrue, HeldTrue
<1>11. ObjectsTrue'
  BY <1>2, <1>5, <1>6, StampsPut DEF ObjectsTrue
<1>12. Types'
  <2>1. \A r \in Objects :
          /\ objs'[r].state = "NONE" => objs'[r] = Free
          /\ objs'[r].state # "NONE" => objs'[r].name \in Names
    BY <1>1, <1>3 DEF Types
  <2> QED BY <1>1, <1>2, <1>3, <1>5, <2>1 DEF Types
<1>13. Answered'
  <2>1. ASSUME NEW m \in Names
        PROVE  Answers(Append(Coming, T), m, objs', held')
    <3>1. Answers(Coming, m, objs, held)
      BY DEF IInv, Answered
    <3>2. CASE m = n
      <4>1. /\ held'[m] # NoObject /\ objs'[held'[m]].state = "ACTIVE" /\ T.of = held'[m]
            /\ Touches(T, m) /\ Moves(T, m)
        BY <1>1, <3>2, EngineAssumption
      <4> QED BY <1>5, <3>1, <4>1, AnswersMore
    <3>3. CASE m # n
      <4>1. ~Touches(T, m)
        <5>1. \A op \in Given(T) : op.at.name = n /\ (op.op = "rename" => op.to.name = n)
          BY DEF OpsOf
        <5> QED BY <3>3, <5>1 DEF Touches, On, Ordinary
      <4>2. held[m] # NoObject => held[m] \in Objects /\ objs'[held[m]] = objs[held[m]]
        <5>1. held[m] \in Objects \cup {NoObject}
          BY <1>3 DEF Types
        <5>2. held[m] # NoObject => objs[held[m]].name = m
          BY <1>3 DEF Holds
        <5>3. objs[o].name = n /\ objs[p].name = n
          BY <1>1
        <5>4. held[m] # NoObject => held[m] # o /\ held[m] # p
          BY <3>3, <5>2, <5>3
        <5> QED BY <1>3, <5>1, <5>4
      <4>3. /\ held'[m] = held[m]
            /\ held[m] # NoObject /\ objs[held[m]].state = "ACTIVE" => objs'[held[m]].state = "ACTIVE"
            /\ Touches(T, m) =>
                  held[m] # NoObject /\ objs[held[m]].state = "ACTIVE" /\ T.of = held[m]
        BY <1>1, <3>3, <4>1, <4>2
      <4> QED BY <1>5, <3>1, <4>3, AnswersMore
    <3> QED BY <3>2, <3>3
  <2> QED BY <1>5, <2>1 DEF Answered
<1>14. ReadsTrue'
  <2>1. ASSUME NEW r \in Objects, reads[r] # NoRead
        PROVE  Reading(reads[r], objs[r])'
    <3>1. Reading(reads[r], objs[r])
      BY <2>1 DEF IInv, ReadsTrue, Idle
    <3>2. /\ Placed(objs'[r]) /\ objs'[r].name = objs[r].name /\ objs'[r].ts = objs[r].ts
          /\ objs'[r].id = objs[r].id /\ objs'[r].written = objs[r].written
          /\ Placed(objs[r])
      <4>1. Placed(objs[r])
        BY <3>1 DEF Reading
      <4>2. r # o
        BY <1>1, <4>1 DEF Placed
      <4>3. CASE r = p
        BY <1>1, <4>1, <4>3 DEF Placed, Putting
      <4>4. CASE r # p
        BY <1>3, <4>1, <4>2, <4>4
      <4> QED BY <4>3, <4>4
    <3>3. Gone(objs[r]) => Gone(objs[r])'
      <4> SUFFICES ASSUME Gone(objs[r]), NEW S \in Passing'
                   PROVE  S[Ordinary(objs'[r].name)].ts # objs'[r].ts
        BY DEF Gone
      <4>1. CASE S \in Passing
        BY <3>2, <4>1 DEF Gone
      <4>2. CASE S \in PassingOf(T.ops, Settled)
        BY <3>2, <4>2, GoneStays
      <4> QED BY <1>5, <4>1, <4>2
    <3>4. Bytes(objs[r])' = Bytes(objs[r])
      BY <3>2 DEF Bytes
    <3> QED BY <1>2, <3>1, <3>2, <3>3, <3>4 DEF Reading
  <2> QED BY <1>2, <2>1 DEF ReadsTrue, Idle
<1> QED BY <1>5, <1>7, <1>8, <1>9, <1>10, <1>11, <1>12, <1>13, <1>14 DEF IInv

\* A rename and the save that follows it.
LEMMA MovesTo ==
  ASSUME NEW S \in Contents, NEW n \in Names, NEW from \in Addresses, NEW to \in Addresses,
         from # to, from.name = n, to.name = n, S[from] # NoEntry,
         NEW ts \in Nat, NEW deleted \in BOOLEAN, NEW old \in BOOLEAN
  PROVE  MovedBy(Rename(from, to), SetAttrs(to, ts, deleted, old),
                 n, S, from, to, ts, deleted, old)
<1> DEFINE a == Rename(from, to)
           b == SetAttrs(to, ts, deleted, old)
           s1 == Apply(a, S)
           s2 == Apply(b, s1)
<1>1. /\ a \in Ops /\ a \in OpsOf(n) /\ a.op = "rename" /\ a.at = from /\ a.to = to
  <2>1. a \in Ops /\ a.op = "rename" /\ a.at = from /\ a.to = to
    BY OpsTyped
  <2> QED BY <2>1 DEF OpsOf
<1>2. /\ b \in Ops /\ b \in OpsOf(n) /\ b.op = "setattrs" /\ b.at = to /\ b.ts = ts
      /\ b.deleted = deleted /\ b.old = old
  <2>1. b \in Ops
    BY DEF SetAttrs, Ops
  <2>2. b.op = "setattrs" /\ b.at = to /\ b.ts = ts /\ b.deleted = deleted /\ b.old = old
    BY DEF SetAttrs
  <2> QED BY <2>1, <2>2 DEF OpsOf
<1> HIDE DEF a, b
<1>3. /\ s1 \in Contents
      /\ \A d \in Addresses : d # from /\ d # to => s1[d] = S[d]
      /\ s1[to] = S[from] /\ s1[from] = NoEntry
  BY <1>1, ApplyRename
<1> HIDE DEF s1
<1>4. /\ s2 \in Contents
      /\ \A d \in Addresses : d # to => s2[d] = s1[d]
      /\ s2[to].id = s1[to].id /\ s2[to].ts = b.ts
      /\ s2[to].deleted = b.deleted /\ s2[to].old = b.old
      /\ s2[to].data = s1[to].data /\ s2[to].meta = s1[to].meta
  BY <1>2, <1>3, ApplySetAttrs
<1> HIDE DEF s2
<1>5. s2[to] \in Entries
  BY <1>4 DEF Contents
<1>6. Moved(S, s1, s2, from, to, ts, deleted, old)
  BY <1>2, <1>3, <1>4, <1>5 DEF Moved
<1>7. MovedBy(a, b, n, S, from, to, ts, deleted, old)
  BY <1>1, <1>2, <1>6 DEF MovedBy, s1, s2
<1> QED BY <1>7 DEF a, b

\* What an Object knows of its entry.
LEMMA ToldIs ==
  ASSUME NEW x \in Objs
  PROVE  /\ Told(x).id = x.id /\ Told(x).ts = x.ts /\ Told(x).deleted = x.deleted
         /\ Told(x).data = [i \in 1 .. x.written |-> x.id] /\ Told(x).meta = x.metas
         /\ Own(x, Told(x)) /\ Whole(Told(x))
         /\ x.ts > 0 => Told(x) # NoEntry
<1>1. /\ Told(x).id = x.id /\ Told(x).ts = x.ts /\ Told(x).deleted = x.deleted
      /\ Told(x).data = [i \in 1 .. x.written |-> x.id] /\ Told(x).meta = x.metas
  BY DEF Told
<1>2. x.id \in Ids /\ x.written \in Nat /\ x.ts \in Nat
  BY ObjFields
<1>3. Whole(Told(x))
  <2> DEFINE e == Told(x)
  <2>1. e.id = x.id /\ e.data = [i \in 1 .. x.written |-> e.id]
    BY <1>1
  <2> HIDE DEF e
  <2>2. Whole(e)
    BY <1>2, <2>1, WholeIs
  <2> QED BY <2>2 DEF e
<1>4. Own(x, Told(x))
  BY <1>1, <1>2 DEF Own
<1>5. x.ts > 0 => Told(x) # NoEntry
  BY <1>1, <1>2, EmptyEntry
<1> QED BY <1>1, <1>3, <1>4, <1>5

\* The new Object takes the name: from a temporary address to the ordinary
\* one, then the save.
LEMMA MovesIn ==
  ASSUME IInv, NEW o, NEW p, NEW n, NEW x, NEW q, NEW y, NEW z, NEW ts,
         Putting(o, p, n, x, q, y, z, ts), NEW S, Midway(S, n, x, q, ts),
         S[Ordinary(n)] = NoEntry, S[Temporary(n, x.ts)] = Told(x)
  PROVE  Enters(Rename(Temporary(n, x.ts), Ordinary(n)),
                SetAttrs(Ordinary(n), ts, x.deleted, FALSE), S, n, x, q, y, ts)
<1> DEFINE N == Ordinary(n)
           B == Temporary(n, x.ts)
           C == Temporary(n, q.ts)
           a == Rename(B, N)
           b == SetAttrs(N, ts, x.deleted, FALSE)
           s1 == Apply(a, S)
           s2 == Apply(b, s1)
<1>1. /\ n \in Names /\ ts \in Puts(n) /\ ts \in Nat /\ q.ts \in Nat /\ q.ts < ts
      /\ x.ts \in Times(n) /\ x \in Objs
      /\ y.name = n /\ y.ts = ts /\ y.id = x.id /\ y.written = x.written
      /\ y.state = "ACTIVE" /\ y.deleted = x.deleted /\ y.metas = x.metas
  BY DEF Putting
<1>2. ts > 0 /\ x.ts > 0 /\ x.ts \in Nat /\ ts \notin Times(n) /\ q.ts \notin Times(n) /\ 0 \notin Times(n)
  <2>1. ts \notin Times(n) /\ q.ts \notin Times(n) /\ 0 \notin Times(n)
    BY Earlier
  <2>2. \A t \in Puts(n) \cup Times(n) : t \in Nat /\ t > 0
    BY Apart
  <2> QED BY <1>1, <2>1, <2>2
<1>3. /\ N \in Addresses /\ B \in Addresses /\ N # B /\ N.name = n /\ B.name = n
      /\ ~N.temp /\ B.temp /\ B.gen = x.ts
      /\ q.ts \in Puts(n) => C \in Addresses /\ C # B /\ C # N
      /\ \A m \in Names : Ordinary(m) \in Addresses /\ Ordinary(m) # B /\ Ordinary(m) # C
                          /\ (m # n => Ordinary(m) # N)
  BY <1>1, <1>2, AddressFacts DEF Ordinary, Temporary
<1>4. /\ Told(x).id = x.id /\ Told(x).ts = x.ts /\ Told(x).deleted = x.deleted
      /\ Told(x).data = [i \in 1 .. x.written |-> x.id] /\ Told(x).meta = x.metas
      /\ Own(x, Told(x)) /\ Whole(Told(x)) /\ Told(x) # NoEntry
      /\ x.deleted \in BOOLEAN /\ x.id \in Ids /\ x.written \in Nat
  BY <1>1, <1>2, ToldIs, ObjFields
<1>5. /\ S \in Contents /\ \A d \in Addresses : Whole(S[d])
      /\ \A d \in Addresses : d # N /\ d # B /\ d # C => S[d] = Settled[d]
      /\ q.ts \in Puts(n) /\ S[C] # NoEntry => Own(q, S[C])
      /\ S[N] = NoEntry /\ S[B] = Told(x)
  BY DEF Midway
<1> HIDE DEF N, B, C
<1>6. /\ a \in OpsOf(n) /\ a.op = "rename" /\ a.at = B /\ a.to = N
      /\ b \in OpsOf(n) /\ b.op = "setattrs" /\ b.at = N /\ b.ts = ts
      /\ Moved(S, s1, s2, B, N, ts, x.deleted, FALSE)
  <2>1. /\ S[B] # NoEntry /\ B # N /\ B \in Addresses /\ N \in Addresses
        /\ S \in Contents /\ n \in Names /\ ts \in Nat /\ B.name = n /\ N.name = n
    BY <1>1, <1>3, <1>4, <1>5
  <2>3. x.deleted \in BOOLEAN /\ FALSE \in BOOLEAN
    BY <1>4
  <2>2. MovedBy(a, b, n, S, B, N, ts, x.deleted, FALSE)
    BY <2>1, <2>3, MovesTo, Zenon
  <2> QED BY <2>2 DEF MovedBy
<1> HIDE DEF a, b, s1, s2
<1>7. /\ s1 \in Contents /\ s2 \in Contents
      /\ \A d \in Addresses : d # B /\ d # N => s1[d] = S[d] /\ s2[d] = S[d]
      /\ s1[N] = Told(x) /\ s1[B] = NoEntry /\ s2[B] = NoEntry
      /\ s2[N] \in Entries
      /\ s2[N].id = x.id /\ s2[N].data = [i \in 1 .. x.written |-> x.id] /\ s2[N].meta = x.metas
      /\ s2[N].ts = ts /\ s2[N].deleted = x.deleted /\ s2[N].old = FALSE
  BY <1>4, <1>5, <1>6 DEF Moved
<1>8. Whole(s2[N]) /\ Own(x, s2[N]) /\ Whole(NoEntry)
  <2>1. s2[N].id \in Ids /\ s2[N].data = [i \in 1 .. x.written |-> s2[N].id]
    BY <1>4, <1>7
  <2>2. Whole(s2[N])
    BY <1>4, <2>1, WholeIs
  <2>3. Own(x, s2[N])
    BY <1>4, <1>7 DEF Own
  <2> QED BY <2>2, <2>3, EmptyEntry, WholeIs
<1>9. s2[N] = Told(y)
  <2>1. s2[N].old = (y.state = "OLD")
    BY <1>1, <1>7
  <2> QED BY <1>1, <1>7, <2>1, EntryIs
<1>10. Midway(s1, n, x, q, ts)
  <2>1. \A d \in Addresses : Whole(s1[d])
    BY <1>4, <1>5, <1>7, <1>8
  <2>2. q.ts \in Puts(n) /\ s1[C] # NoEntry => Own(q, s1[C]) /\ s1[N].ts # q.ts
    BY <1>1, <1>2, <1>3, <1>4, <1>5, <1>7
  <2>3. \A d \in Addresses : d # N /\ d # B /\ d # C => s1[d] = Settled[d]
    BY <1>5, <1>7
  <2>4. s1[N].ts = x.ts
    BY <1>4, <1>7
  <2> QED BY <1>7, <2>1, <2>2, <2>3, <2>4 DEF Midway, N, B, C
<1>11. Midway(s2, n, x, q, ts)
  <2>1. \A d \in Addresses : Whole(s2[d])
    BY <1>5, <1>7, <1>8
  <2>2. q.ts \in Puts(n) /\ s2[C] # NoEntry => Own(q, s2[C]) /\ s2[N].ts # q.ts
    BY <1>1, <1>2, <1>3, <1>5, <1>7
  <2>3. \A d \in Addresses : d # N /\ d # B /\ d # C => s2[d] = Settled[d]
    BY <1>5, <1>7
  <2>4. s2[N].ts = ts /\ ~s2[N].old /\ Own(x, s2[N])
    BY <1>7, <1>8
  <2> QED BY <1>7, <2>1, <2>2, <2>3, <2>4 DEF Midway, N, B, C
<1>12. \A m \in Names : /\ S[Ordinary(m)].ts \notin Times(m)
                        /\ m # n => s1[Ordinary(m)].ts \notin Times(m)
  <2> TAKE m \in Names
  <2>1. CASE m = n
    BY <1>2, <1>5, <2>1, EmptyEntry DEF N
  <2>2. CASE m # n
    BY <1>3, <1>5, <1>7, <2>2, SettledStamps
  <2> QED BY <2>1, <2>2
<1>13. ASSUME NEW F
       PROVE  Due(S, a, F, objs', TRUE) /\ Due(s1, b, F, objs', TRUE)
  <2>1. DueRename(S, a)
    BY <1>1, <1>3, <1>4, <1>5, <1>6 DEF DueRename
  <2>2. Due(S, a, F, objs', TRUE)
    BY <1>6, <1>12, <2>1 DEF Due
  <2>3. s1[N] # NoEntry /\ s1[N].ts \in Times(n) /\ N.name = n
    BY <1>1, <1>4, <1>7, AddressFacts DEF N
  <2>4. \A m \in Names : s1[Ordinary(m)].ts \in Times(m) => b.at = Ordinary(m)
    BY <1>6, <1>12 DEF N
  <2>5. Due(s1, b, F, objs', TRUE)
    BY <1>2, <1>6, <2>3, <2>4 DEF Due
  <2> QED BY <2>2, <2>5
<1>14. q.ts \in Puts(n) => s2[C] = S[C]
  BY <1>3, <1>7
<1>15. Enters(a, b, S, n, x, q, y, ts)
  BY <1>6, <1>7, <1>9, <1>10, <1>11, <1>13, <1>14 DEF Enters, N, B, C, s1, s2
<1> QED BY <1>15 DEF N, B, a, b

\* The one that held the name makes way.
LEMMA MovesOut ==
  ASSUME IInv, NEW o, NEW p, NEW n, NEW x, NEW q, NEW y, NEW z, NEW ts,
         Putting(o, p, n, x, q, y, z, ts), q.state = "ACTIVE"
  PROVE  LET a == Rename(Ordinary(n), Temporary(n, q.ts))
             b == SetAttrs(Temporary(n, q.ts), q.ts, q.deleted, TRUE)
             s1 == Apply(a, Settled)
             s2 == Apply(b, s1)
         IN  /\ a \in OpsOf(n) /\ a.op = "rename" /\ a.at = Ordinary(n) /\ b \in OpsOf(n)
             /\ Midway(s1, n, x, q, ts) /\ Midway(s2, n, x, q, ts)
             /\ s2[Ordinary(n)] = NoEntry /\ s2[Temporary(n, x.ts)] = Told(x)
             /\ s2[Temporary(n, q.ts)] = Told(z)
             /\ \A F : Due(Settled, a, F, objs', TRUE) /\ Due(s1, b, F, objs', TRUE)
<1> DEFINE N == Ordinary(n)
           B == Temporary(n, x.ts)
           C == Temporary(n, q.ts)
           a == Rename(N, C)
           b == SetAttrs(C, q.ts, q.deleted, TRUE)
           s1 == Apply(a, Settled)
           s2 == Apply(b, s1)
<1>1. /\ n \in Names /\ q.ts \in Nat /\ q.ts \in Puts(n) /\ z.state = "OLD"
      /\ x.ts \in Times(n) /\ q \in Objs /\ Settled[N] = Told(q) /\ Settled[B] = Told(x)
      /\ z.ts = q.ts /\ z.id = q.id /\ z.written = q.written
      /\ z.deleted = q.deleted /\ z.metas = q.metas /\ phase = "serving"
      /\ Settled[N].ts = q.ts
  BY DEF Putting
<1>2. q.ts > 0 /\ q.ts \notin Times(n) /\ 0 \notin Times(n) /\ 0 \notin Puts(n)
  BY <1>1, Apart, Earlier
<1>3. /\ N \in Addresses /\ B \in Addresses /\ N # B /\ N.name = n /\ C.name = n
      /\ ~N.temp /\ C.temp /\ C.gen = q.ts
      /\ C \in Addresses /\ C # B /\ C # N
      /\ \A m \in Names : Ordinary(m) \in Addresses /\ Ordinary(m) # B /\ Ordinary(m) # C
                          /\ (m # n => Ordinary(m) # N)
  BY <1>1, <1>2, AddressFacts DEF Ordinary, Temporary
<1>4. /\ Told(q).id = q.id /\ Told(q).ts = q.ts /\ Told(q).deleted = q.deleted
      /\ Told(q).data = [i \in 1 .. q.written |-> q.id] /\ Told(q).meta = q.metas
      /\ Own(q, Told(q)) /\ Whole(Told(q)) /\ Told(q) # NoEntry
      /\ q.deleted \in BOOLEAN /\ q.id \in Ids /\ q.written \in Nat
  BY <1>1, <1>2, ToldIs, ObjFields
<1>5. /\ Settled \in Contents /\ \A d \in Addresses : Whole(Settled[d])
      /\ Settled[C] = NoEntry
  <2>1. Seen(Settled, Settled, objs, TRUE) /\ Settled \in Contents
    BY <1>1, ObjectFacts
  <2>2. Settled[C] # NoEntry => q.ts < Settled[N].ts
    BY <1>1, <2>1 DEF Seen
  <2> QED BY <1>1, <2>1, <2>2 DEF Seen
<1> HIDE DEF N, B, C
<1>6. /\ a \in OpsOf(n) /\ a.op = "rename" /\ a.at = N /\ a.to = C
      /\ b \in OpsOf(n) /\ b.op = "setattrs" /\ b.at = C /\ b.ts = q.ts
      /\ Moved(Settled, s1, s2, N, C, q.ts, q.deleted, TRUE)
  <2>1. /\ Settled[N] # NoEntry /\ N # C /\ N \in Addresses /\ C \in Addresses
        /\ Settled \in Contents /\ n \in Names /\ q.ts \in Nat /\ N.name = n /\ C.name = n
    BY <1>1, <1>3, <1>4, <1>5
  <2>3. q.deleted \in BOOLEAN /\ TRUE \in BOOLEAN
    BY <1>4
  <2>2. MovedBy(a, b, n, Settled, N, C, q.ts, q.deleted, TRUE)
    BY <2>1, <2>3, MovesTo, Zenon
  <2> QED BY <2>2 DEF MovedBy
<1> HIDE DEF a, b, s1, s2
<1>7. /\ s1 \in Contents /\ s2 \in Contents
      /\ \A d \in Addresses : d # C /\ d # N => s1[d] = Settled[d] /\ s2[d] = Settled[d]
      /\ s1[C] = Told(q) /\ s1[N] = NoEntry /\ s2[N] = NoEntry
      /\ s2[C] \in Entries
      /\ s2[C].id = q.id /\ s2[C].data = [i \in 1 .. q.written |-> q.id] /\ s2[C].meta = q.metas
      /\ s2[C].ts = q.ts /\ s2[C].deleted = q.deleted /\ s2[C].old = TRUE
  BY <1>1, <1>6 DEF Moved, Told
<1>8. Whole(s2[C]) /\ Own(q, s2[C]) /\ Whole(NoEntry)
  <2>1. s2[C].id \in Ids /\ s2[C].data = [i \in 1 .. q.written |-> s2[C].id]
    BY <1>4, <1>7
  <2>2. Whole(s2[C])
    BY <1>4, <2>1, WholeIs
  <2>3. Own(q, s2[C])
    BY <1>4, <1>7 DEF Own
  <2> QED BY <2>2, <2>3, EmptyEntry, WholeIs
<1>9. s2[C] = Told(z)
  <2>1. s2[C].old = (z.state = "OLD")
    BY <1>1, <1>7
  <2> QED BY <1>1, <1>7, <2>1, EntryIs
<1>10. Midway(s1, n, x, q, ts)
  <2>1. \A d \in Addresses : Whole(s1[d])
    BY <1>4, <1>5, <1>7, <1>8
  <2>2. Own(q, s1[C]) /\ s1[N].ts # q.ts
    BY <1>1, <1>2, <1>4, <1>7, EmptyEntry
  <2>3. \A d \in Addresses : d # N /\ d # B /\ d # C => s1[d] = Settled[d]
    BY <1>7
  <2> QED BY <1>7, <2>1, <2>2, <2>3 DEF Midway, N, B, C
<1>11. Midway(s2, n, x, q, ts)
  <2>1. \A d \in Addresses : Whole(s2[d])
    BY <1>5, <1>7, <1>8
  <2>2. Own(q, s2[C]) /\ s2[N].ts # q.ts
    BY <1>1, <1>2, <1>7, <1>8, EmptyEntry
  <2>3. \A d \in Addresses : d # N /\ d # B /\ d # C => s2[d] = Settled[d]
    BY <1>7
  <2> QED BY <1>7, <2>1, <2>2, <2>3 DEF Midway, N, B, C
<1>12. \A m \in Names : /\ Settled[Ordinary(m)].ts \notin Times(m)
                        /\ s1[Ordinary(m)].ts \notin Times(m)
  <2> TAKE m \in Names
  <2>1. CASE m = n
    BY <1>2, <1>7, <2>1, EmptyEntry, SettledStamps DEF N
  <2>2. CASE m # n
    BY <1>3, <1>7, <2>2, SettledStamps
  <2> QED BY <2>1, <2>2
<1>13. ASSUME NEW F
       PROVE  Due(Settled, a, F, objs', TRUE) /\ Due(s1, b, F, objs', TRUE)
  <2>1. DueRename(Settled, a)
    BY <1>1, <1>3, <1>4, <1>5, <1>6 DEF DueRename
  <2>2. Due(Settled, a, F, objs', TRUE)
    BY <1>6, <1>12, <2>1 DEF Due
  <2>3. s1[C] # NoEntry
    BY <1>4, <1>7
  <2>5. Due(s1, b, F, objs', TRUE)
    BY <1>2, <1>3, <1>6, <1>12, <2>3 DEF Due
  <2> QED BY <2>2, <2>5
<1>14. s2[B] = Told(x)
  BY <1>1, <1>3, <1>7
<1> QED BY <1>6, <1>7, <1>9, <1>10, <1>11, <1>13, <1>14 DEF N, B, C, a, b, s1, s2

\* The state a put starts from.
LEMMA SettledMidway ==
  ASSUME IInv, NEW o, NEW p, NEW n, NEW x, NEW q, NEW y, NEW z, NEW ts,
         Putting(o, p, n, x, q, y, z, ts)
  PROVE  Midway(Settled, n, x, q, ts)
<1>1. n \in Names /\ phase = "serving" /\ Settled[Ordinary(n)].ts = q.ts
  BY DEF Putting
<1>2. Settled \in Contents /\ Seen(Settled, Settled, objs, TRUE) /\ q.ts = q.ts
  BY <1>1, ObjectFacts
<1>3. q.ts \in Puts(n) => Settled[Temporary(n, q.ts)] = NoEntry
  BY <1>1, <1>2 DEF Seen
<1> QED BY <1>2, <1>3 DEF Midway, Seen

\* A put over nobody: a rename and a save.
LEMMA HandsTwo ==
  ASSUME IInv, NEW o, NEW p, NEW n, NEW x, NEW q, NEW y, NEW z, NEW ts,
         Putting(o, p, n, x, q, y, z, ts), q.state = "MISSING"
  PROVE  LET a == Rename(Temporary(n, x.ts), Ordinary(n))
             b == SetAttrs(Ordinary(n), ts, x.deleted, FALSE)
         IN  Hands(Txn(n, o, <<a, b>>), o, n, x, q, y, z, ts)
<1> DEFINE a == Rename(Temporary(n, x.ts), Ordinary(n))
           b == SetAttrs(Ordinary(n), ts, x.deleted, FALSE)
           s1 == Apply(a, Settled)
           s2 == Apply(b, s1)
           T == Txn(n, o, <<a, b>>)
<1>1. /\ n \in Names /\ o \in Objects /\ z.state # "OLD"
      /\ Settled[Ordinary(n)] = NoEntry /\ Settled[Temporary(n, x.ts)] = Told(x)
  BY DEF Putting
<1>2. Midway(Settled, n, x, q, ts)
  BY SettledMidway
<1>3. /\ a \in OpsOf(n) /\ a.op = "rename" /\ a.to = Ordinary(n) /\ b \in OpsOf(n)
      /\ Midway(s1, n, x, q, ts) /\ Midway(s2, n, x, q, ts)
      /\ s2[Ordinary(n)] = Told(y) /\ s2[Temporary(n, x.ts)] = NoEntry
      /\ \A F : Due(Settled, a, F, objs', TRUE) /\ Due(s1, b, F, objs', TRUE)
  <2>1. Enters(a, b, Settled, n, x, q, y, ts)
    BY <1>1, <1>2, MovesIn
  <2> QED BY <2>1 DEF Enters
<1> HIDE DEF a, b
<1>4. Does(T, o, Settled, {a, b}, s2, {Settled, s1, s2}, {<<Settled, a>>, <<s1, b>>})
  <2> HIDE DEF s1, s2
  <2>1. s1 = Apply(a, Settled) /\ s2 = Apply(b, s1) /\ a.op # "setattrs"
    BY <1>3 DEF s1, s2
  <2> QED BY <1>1, <1>3, <2>1, TwoGiven
<1> HIDE DEF s1, s2, T
<1>5. Touches(T, n) /\ Moves(T, n) /\ Given(T) \subseteq OpsOf(n)
  BY <1>3, <1>4 DEF Does, Touches, Moves, On
<1>6. \A g \in StagesOf(T.ops, Settled) : \A F : Due(g[1], g[2], F, objs', TRUE)
  <2> TAKE g \in StagesOf(T.ops, Settled)
  <2>1. (g[1] = Settled /\ g[2] = a) \/ (g[1] = s1 /\ g[2] = b)
    BY <1>4 DEF Does
  <2> QED BY <1>3, <2>1
<1>7. \A S \in PassingOf(T.ops, Settled) : Midway(S, n, x, q, ts)
  BY <1>2, <1>3, <1>4 DEF Does
<1>8. Hands(T, o, n, x, q, y, z, ts)
  BY <1>1, <1>3, <1>4, <1>5, <1>6, <1>7 DEF Does, Hands
<1> QED BY <1>8 DEF T, a, b

\* A put over a holder: it is renamed out and saved as old, then the new
\* one is renamed in and saved.
LEMMA HandsFour ==
  ASSUME IInv, NEW o, NEW p, NEW n, NEW x, NEW q, NEW y, NEW z, NEW ts,
         Putting(o, p, n, x, q, y, z, ts), q.state = "ACTIVE"
  PROVE  LET a == Rename(Ordinary(n), Temporary(n, q.ts))
             b == SetAttrs(Temporary(n, q.ts), q.ts, q.deleted, TRUE)
             c == Rename(Temporary(n, x.ts), Ordinary(n))
             d == SetAttrs(Ordinary(n), ts, x.deleted, FALSE)
         IN  Hands(Txn(n, o, <<a, b, c, d>>), o, n, x, q, y, z, ts)
<1> DEFINE a == Rename(Ordinary(n), Temporary(n, q.ts))
           b == SetAttrs(Temporary(n, q.ts), q.ts, q.deleted, TRUE)
           c == Rename(Temporary(n, x.ts), Ordinary(n))
           d == SetAttrs(Ordinary(n), ts, x.deleted, FALSE)
           s1 == Apply(a, Settled)
           s2 == Apply(b, s1)
           s3 == Apply(c, s2)
           s4 == Apply(d, s3)
           T == Txn(n, o, <<a, b, c, d>>)
<1>1. /\ n \in Names /\ o \in Objects /\ z.state = "OLD" /\ q.ts \in Puts(n)
  BY DEF Putting
<1>2. Midway(Settled, n, x, q, ts)
  BY SettledMidway
<1>3. /\ a \in OpsOf(n) /\ a.op = "rename" /\ a.at = Ordinary(n) /\ b \in OpsOf(n)
      /\ Midway(s1, n, x, q, ts) /\ Midway(s2, n, x, q, ts)
      /\ s2[Ordinary(n)] = NoEntry /\ s2[Temporary(n, x.ts)] = Told(x)
      /\ s2[Temporary(n, q.ts)] = Told(z)
      /\ \A F : Due(Settled, a, F, objs', TRUE) /\ Due(s1, b, F, objs', TRUE)
  BY MovesOut
<1> HIDE DEF a, b, s2
<1>4. /\ c \in OpsOf(n) /\ d \in OpsOf(n)
      /\ Midway(s3, n, x, q, ts) /\ Midway(s4, n, x, q, ts)
      /\ s4[Ordinary(n)] = Told(y) /\ s4[Temporary(n, x.ts)] = NoEntry
      /\ q.ts \in Puts(n) => s4[Temporary(n, q.ts)] = s2[Temporary(n, q.ts)]
      /\ \A F : Due(s2, c, F, objs', TRUE) /\ Due(s3, d, F, objs', TRUE)
  <2>1. Enters(c, d, s2, n, x, q, y, ts)
    BY <1>3, MovesIn
  <2> QED BY <2>1 DEF Enters
<1> HIDE DEF c, d
<1>5. Does(T, o, Settled, {a, b, c, d}, s4, {Settled, s1, s2, s3, s4},
           {<<Settled, a>>, <<s1, b>>, <<s2, c>>, <<s3, d>>})
  <2> HIDE DEF s1, s2, s3, s4
  <2>1. /\ s1 = Apply(a, Settled) /\ s2 = Apply(b, s1) /\ s3 = Apply(c, s2)
        /\ s4 = Apply(d, s3) /\ a.op # "setattrs"
    BY <1>3 DEF s1, s2, s3, s4
  <2> QED BY <1>1, <1>3, <1>4, <2>1, FourGiven
<1> HIDE DEF s1, s3, s4, T
<1>6. Touches(T, n) /\ Moves(T, n) /\ Given(T) \subseteq OpsOf(n)
  BY <1>3, <1>4, <1>5 DEF Does, Touches, Moves, On
<1>7. \A g \in StagesOf(T.ops, Settled) : \A F : Due(g[1], g[2], F, objs', TRUE)
  <2> TAKE g \in StagesOf(T.ops, Settled)
  <2>1. \/ g[1] = Settled /\ g[2] = a
        \/ g[1] = s1 /\ g[2] = b
        \/ g[1] = s2 /\ g[2] = c
        \/ g[1] = s3 /\ g[2] = d
    BY <1>5 DEF Does
  <2> QED BY <1>3, <1>4, <2>1
<1>8. \A S \in PassingOf(T.ops, Settled) : Midway(S, n, x, q, ts)
  BY <1>2, <1>3, <1>4, <1>5 DEF Does
<1>9. Hands(T, o, n, x, q, y, z, ts)
  BY <1>1, <1>3, <1>4, <1>5, <1>6, <1>7, <1>8 DEF Does, Hands
<1> QED BY <1>9 DEF T, a, b, c, d

\* Two sequences of two.
LEMMA FourTogether ==
  ASSUME NEW a, NEW b, NEW c, NEW d
  PROVE  <<a, b>> \o <<c, d>> = <<a, b, c, d>>
<1> DEFINE A == {a, b, c, d}
<1> DEFINE s == <<a, b>>
           t == <<c, d>>
           u == <<a, b, c, d>>
           w == s \o t
<1>1. /\ s \in Seq(A) /\ t \in Seq(A) /\ u \in Seq(A)
      /\ Len(s) = 2 /\ Len(t) = 2 /\ Len(u) = 4
      /\ s[1] = a /\ s[2] = b /\ t[1] = c /\ t[2] = d
      /\ u[1] = a /\ u[2] = b /\ u[3] = c /\ u[4] = d
  OBVIOUS
<1> HIDE DEF A, s, t, u
<1>2. /\ w \in Seq(A) /\ Len(w) = 4
      /\ \A i \in 1 .. 4 : w[i] = IF i <= 2 THEN s[i] ELSE t[i - 2]
  <2>1. /\ w \in Seq(A) /\ Len(w) = Len(s) + Len(t)
        /\ \A i \in 1 .. Len(s) + Len(t) : w[i] = IF i <= Len(s) THEN s[i] ELSE t[i - Len(s)]
    BY <1>1, ConcatProperties
  <2> QED BY <1>1, <2>1
<1> HIDE DEF w
<1>3. w[1] = u[1] /\ w[2] = u[2] /\ w[3] = u[3] /\ w[4] = u[4]
  BY <1>1, <1>2
<1>4. \A i \in 1 .. 4 : i \in {1, 2, 3, 4}
  OBVIOUS
<1>5. \A i \in 1 .. 4 : w[i] = u[i]
  BY <1>3, <1>4
<1>6. w \in Seq(A) /\ u \in Seq(A) /\ Len(w) = 4 /\ Len(u) = 4
  BY <1>1, <1>2
<1>7. w = u
  BY <1>5, <1>6, SeqEqual
<1> QED BY <1>7 DEF s, t, u, w

\* put(): in each state the transaction passes through, and after it,
\* everybody finds what he should.
LEMMA PutStep ==
  ASSUME IInv, NEW o \in Objects, NEW ts \in Puts(objs[o].name), Put(o, ts)
  PROVE  IInv'
<1> DEFINE x == objs[o]
           n == x.name
           p == held[n]
           q == objs[p]
           y == [x EXCEPT !.state = "ACTIVE", !.ts = ts]
           z == [q EXCEPT !.state = IF @ = "ACTIVE" THEN "OLD" ELSE @]
           T == Txn(n, o, HandOver(q, x, ts))
<1>1. Putting(o, p, n, x, q, y, z, ts) /\ queue' = Append(queue, T)
  BY PutIs
<1>2. HandOver(q, x, ts) =
         (IF q.state = "ACTIVE"
          THEN <<Rename(Address(q), Address([q EXCEPT !.state = "OLD"])),
                 Save([q EXCEPT !.state = "OLD"])>> ELSE <<>>)
         \o <<Rename(Address(x), Address(y)), Save(y)>>
  BY DEF HandOver
<1>3. Rename(Address(x), Address(y)) = Rename(Temporary(n, x.ts), Ordinary(n))
      /\ Save(y) = SetAttrs(Ordinary(n), ts, x.deleted, FALSE)
  <2>1. /\ x.state = "IN_WRITE" /\ y.state = "ACTIVE" /\ y.name = n /\ y.ts = ts
        /\ y.deleted = x.deleted /\ y \in Objs /\ x \in Objs
    BY <1>1 DEF Putting
  <2> HIDE DEF y
  <2>2. Address(x) = Temporary(n, x.ts) /\ Address(y) = Ordinary(n)
    BY <2>1, AddressIs
  <2>3. (y.state = "OLD") = FALSE
    BY <2>1
  <2> QED BY <2>1, <2>2, <2>3 DEF Save
<1>4. q.state = "MISSING" \/ q.state = "ACTIVE"
  BY <1>1 DEF Putting
<1>5. Hands(T, o, n, x, q, y, z, ts)
  <2>1. CASE q.state = "MISSING"
    <3> DEFINE a == Rename(Temporary(n, x.ts), Ordinary(n))
               b == SetAttrs(Ordinary(n), ts, x.deleted, FALSE)
    <3>1. Hands(Txn(n, o, <<a, b>>), o, n, x, q, y, z, ts)
      <4> HIDE DEF x, n, p, q, y, z
      <4> QED BY <1>1, <2>1, HandsTwo
    <3>2. HandOver(q, x, ts) = <<>> \o <<a, b>>
      BY <1>2, <1>3, <2>1
    <3> HIDE DEF a, b, x, n, p, q, y, z
    <3>3. <<>> \o <<a, b>> = <<a, b>>
      OBVIOUS
    <3> QED BY <3>1, <3>2, <3>3
  <2>2. CASE q.state = "ACTIVE"
    <3> DEFINE a == Rename(Ordinary(n), Temporary(n, q.ts))
               b == SetAttrs(Temporary(n, q.ts), q.ts, q.deleted, TRUE)
               c == Rename(Temporary(n, x.ts), Ordinary(n))
               d == SetAttrs(Ordinary(n), ts, x.deleted, FALSE)
               w == [q EXCEPT !.state = "OLD"]
    <3>1. Hands(Txn(n, o, <<a, b, c, d>>), o, n, x, q, y, z, ts)
      <4> HIDE DEF x, n, p, q, y, z
      <4> QED BY <1>1, <2>2, HandsFour
    <3>2. Rename(Address(q), Address(w)) = a /\ Save(w) = b
      <4>1. q.name = n /\ q \in Objs
        BY <1>1 DEF Putting
      <4>2. w.name = n /\ w.state = "OLD" /\ w.ts = q.ts /\ w.deleted = q.deleted
        BY <4>1 DEF Objs
      <4> HIDE DEF w
      <4>3. Address(q) = Ordinary(n) /\ Address(w) = Temporary(n, q.ts)
        BY <2>2, <4>1, <4>2, AddressIs
      <4>4. (w.state = "OLD") = TRUE
        BY <4>2
      <4> QED BY <4>2, <4>3, <4>4 DEF Save
    <3>3. HandOver(q, x, ts) = <<a, b>> \o <<c, d>>
      BY <1>2, <1>3, <2>2, <3>2
    <3> HIDE DEF a, b, c, d, x, n, p, q, y, z
    <3>4. <<a, b>> \o <<c, d>> = <<a, b, c, d>>
      BY FourTogether
    <3> QED BY <3>1, <3>3, <3>4
  <2> QED BY <1>4, <2>1, <2>2
<1> HIDE DEF x, n, p, q, y, z, T
<1> QED BY <1>1, <1>5, PutsStep DEF Hands

-----------------------------------------------------------------------------
(* BlueStore at work.                                                      *)

\* Between two transactions every name is held by somebody's, or nobody.
LEMMA Between ==
  ASSUME IInv, NEW c \in Seq(Ops), NEW q \in Seq(Txns), OpsOn(c, q) = Pending,
         \A i \in 1 .. Len(q) : Proper(q[i])
  PROVE  /\ ApplyAll(c, store) \in Passing
         /\ \A n \in Names : Fine(n, ApplyAll(c, store))
<1> DEFINE F0 == ApplyAll(c, store)
<1>1. /\ Flat(q) \in Seq(Ops)
  <2>1. \A i \in 1 .. Len(q) : q[i].ops \in Seq(Ops)
    BY TxnOps
  <2> QED BY <2>1, FlatTyped
<1>2. /\ Settled = ApplyAll(Flat(q), F0)
      /\ Passing = PassingOf(c, store) \cup PassingOf(Flat(q), F0)
      /\ Stages = StagesOf(c, store) \cup StagesOf(Flat(q), F0)
  <2>1. Types
    BY DEF IInv
  <2>2. Settled = ApplyAll(c \o Flat(q), store)
    BY <2>1, Queued DEF OpsOn
  <2>3. /\ ApplyAll(c \o Flat(q), store) = ApplyAll(Flat(q), F0)
        /\ PassingOf(c \o Flat(q), store) = PassingOf(c, store) \cup PassingOf(Flat(q), F0)
        /\ StagesOf(c \o Flat(q), store) = StagesOf(c, store) \cup StagesOf(Flat(q), F0)
    BY <1>1, PassingCat
  <2> QED BY <2>2, <2>3 DEF Passing, Stages, OpsOn
<1>3. F0 \in Passing
  BY <1>2, EndsPassing
<1> HIDE DEF F0
<1>4. /\ \A at \in Addresses : Whole(F0[at])
      /\ \A n \in Names : F0[Ordinary(n)].ts \in Times(n) \/ Sane(n, F0[Ordinary(n)])
  BY <1>3 DEF IInv, PassingTrue, Seen
<1>5. \A n \in Names : F0[Ordinary(n)].ts \notin Times(n)
  <2>1. CASE Len(q) < 1
    <3>1. Settled = F0
      BY <1>2, <2>1, FlatNone, NoOps
    <3> QED BY <3>1, SettledStamps
  <2>2. CASE ~(Len(q) < 1)
    <3>1. /\ Len(q) > 0 /\ Len(q) \in Nat
      BY <2>2
    <3>2. /\ Tail(q) \in Seq(Txns) /\ Flat(q) = Head(q).ops \o Flat(Tail(q))
      BY <3>1, FlatHead
    <3>3. Head(q) = q[1] /\ q[1] \in Txns /\ Proper(q[1])
      BY <3>1
    <3> DEFINE ops == q[1].ops
    <3>4. ops \in Seq(Ops) /\ Len(ops) > 0 /\ ops[1].op # "setattrs"
      BY <3>3 DEF Proper, Txns
    <3>5. Flat(Tail(q)) \in Seq(Ops)
      <4>1. \A i \in 1 .. Len(Tail(q)) : Tail(q)[i].ops \in Seq(Ops)
        BY <3>2, TxnOps
      <4> QED BY <3>2, <4>1, FlatTyped
    <3>6. <<F0, ops[1]>> \in StagesOf(ops, F0)
      <4>1. 1 \in 1 .. Len(ops) /\ 1 - 1 = 0
        BY <3>4
      <4>2. After(ops, F0, 0) = F0
        BY <3>4, AfterSteps
      <4> QED BY <4>1, <4>2 DEF StagesOf
    <3>7. <<F0, ops[1]>> \in Stages
      <4> HIDE DEF ops
      <4>1. StagesOf(ops \o Flat(Tail(q)), F0) =
              StagesOf(ops, F0) \cup StagesOf(Flat(Tail(q)), ApplyAll(ops, F0))
        BY <3>4, <3>5, PassingCat
      <4>2. Flat(q) = ops \o Flat(Tail(q))
        BY <3>2, <3>3 DEF ops
      <4> QED BY <1>2, <3>6, <4>1, <4>2
    <3>8. Due(F0, ops[1], Settled, objs, phase = "serving")
      <4> DEFINE g == <<F0, ops[1]>>
      <4>1. g \in Stages /\ g[1] = F0 /\ g[2] = ops[1]
        BY <3>7
      <4> HIDE DEF g
      <4> QED BY <4>1 DEF IInv, StagesTrue
    <3> QED BY <3>4, <3>8 DEF Due
  <2> QED BY <2>1, <2>2
<1>6. \A n \in Names : Fine(n, F0)
  BY <1>4, <1>5 DEF Fine
<1> QED BY <1>3, <1>6 DEF F0

\* A transaction about a name does to the name what it does to the store.
LEMMA ChainStep ==
  ASSUME NEW n, NEW T \in Txns, Proper(T), NEW a \in Contents, NEW b \in Contents, Agree(n, a, b)
  PROVE  /\ ApplyAll(T.ops, a) \in Contents
         /\ Agree(n, IF T.coll = Collection(n) THEN ApplyAll(T.ops, a) ELSE a,
                     ApplyAll(T.ops, b))
<1>1. PICK m \in Names : T.coll = Collection(m) /\ Given(T) \subseteq OpsOf(m)
  BY DEF Proper
<1>2. T.ops \in Seq(Ops) /\ \A i \in 1 .. Len(T.ops) : T.ops[i] \in OpsOf(m)
  BY <1>1 DEF Txns, Given
<1>3. ApplyAll(T.ops, a) \in Contents
  BY <1>2, ApplyAllTyped
<1>4. CASE m = n
  BY <1>1, <1>2, <1>3, <1>4, ApplyAllAgrees
<1>5. CASE m # n
  <2>1. Agree(n, ApplyAll(T.ops, a), a) /\ Agree(n, ApplyAll(T.ops, b), b)
    BY <1>2, <1>5, ApplyAllElsewhere
  <2> QED BY <1>3, <2>1 DEF Agree
<1> QED BY <1>3, <1>4, <1>5

\* States that say the same of a name are fine together.
LEMMA FineSame ==
  ASSUME NEW n \in Names, NEW a, NEW b, Agree(n, a, b), Fine(n, b)
  PROVE  Fine(n, a)
<1>1. Ordinary(n) \in Addresses /\ Ordinary(n).name = n
  BY AddressFacts
<1>2. a[Ordinary(n)] = b[Ordinary(n)]
  BY <1>1 DEF Agree
<1> QED BY <1>2 DEF Fine, Agree

\* One more transaction handed over: the name has one more state on the
\* way to the disk.
LEMMA ChainMore ==
  ASSUME NEW n \in Names, NEW g, NEW ts \in Seq(Txns), NEW first, NEW S \in Contents,
         Chain(n, g, ts, first, S), NEW T \in Txns, Proper(T), Fine(n, ApplyAll(T.ops, S))
  PROVE  \E h : Chain(n, h, Append(ts, T), first, ApplyAll(T.ops, S))
<1> DEFINE k == Len(ts)
           more == Append(ts, T)
           G == IF T.coll = Collection(n) THEN ApplyAll(T.ops, g[k]) ELSE g[k]
           h == [i \in 0 .. k + 1 |-> IF i = k + 1 THEN G ELSE g[i]]
<1>1. /\ k \in Nat /\ Len(more) = k + 1 /\ more[k + 1] = T
      /\ \A i \in 1 .. k : more[i] = ts[i]
  OBVIOUS
<1>2. /\ \A i \in 0 .. k : g[i] \in Contents /\ Fine(n, g[i])
      /\ \A i \in 1 .. k : g[i] = IF ts[i].coll = Collection(n)
                                  THEN ApplyAll(ts[i].ops, g[i - 1]) ELSE g[i - 1]
      /\ Agree(n, g[0], first) /\ Agree(n, g[k], S)
  BY DEF Chain
<1> HIDE DEF k, more
<1>3. G \in Contents /\ Agree(n, G, ApplyAll(T.ops, S))
  <2>1. g[k] \in Contents /\ Agree(n, g[k], S)
    BY <1>1, <1>2
  <2> QED BY <2>1, ChainStep
<1>4. Fine(n, G)
  BY <1>3, FineSame
<1> HIDE DEF G
<1>5. h[k + 1] = G /\ \A i \in 0 .. k : h[i] = g[i]
  BY <1>1
<1> HIDE DEF h
<1>6. \A i \in 0 .. k + 1 : h[i] \in Contents /\ Fine(n, h[i])
  BY <1>1, <1>2, <1>3, <1>4, <1>5
<1>7. \A i \in 1 .. k + 1 : h[i] = IF more[i].coll = Collection(n)
                                   THEN ApplyAll(more[i].ops, h[i - 1]) ELSE h[i - 1]
  <2> TAKE i \in 1 .. k + 1
  <2>1. CASE i = k + 1
    <3>1. h[i - 1] = g[k]
      BY <1>1, <1>5, <2>1
    <3> QED BY <1>1, <1>5, <2>1, <3>1 DEF G
  <2>2. CASE i # k + 1
    <3>1. i \in 1 .. k /\ i \in 0 .. k /\ i - 1 \in 0 .. k
      BY <1>1, <2>2
    <3> QED BY <1>1, <1>2, <1>5, <3>1
  <2> QED BY <2>1, <2>2
<1>8. Agree(n, h[0], first) /\ Agree(n, h[k + 1], ApplyAll(T.ops, S))
  BY <1>1, <1>2, <1>3, <1>5
<1>9. Chain(n, h, more, first, ApplyAll(T.ops, S))
  BY <1>1, <1>6, <1>7, <1>8 DEF Chain
<1> QED BY <1>9 DEF more

\* submit() of the next transaction: what is to come stays what it was,
\* and the disk has one more state to come.
LEMMA HandNextStep ==
  ASSUME IInv, HandNext
  PROVE  IInv'
<1> DEFINE T == Head(queue)
<1>1. /\ Len(current) < 1 /\ Len(queue) > 0
      /\ current' = T.ops /\ handed' = Append(handed, T) /\ queue' = Tail(queue)
      /\ UNCHANGED <<objs, held, reads, last, store, disk, phase, crashes, aborted>>
      /\ current = <<>>
  BY DEF HandNext, engine, IInv, Types
<1>2. Types /\ current \in Seq(Ops) /\ queue \in Seq(Txns) /\ handed \in Seq(Txns)
      /\ store \in Contents
  BY DEF IInv, Types
<1>3. /\ T = queue[1] /\ T \in Txns /\ Proper(T) /\ T.ops \in Seq(Ops) /\ Len(T.ops) > 0
      /\ queue' \in Seq(Txns) /\ handed' \in Seq(Txns) /\ current' \in Seq(Ops)
      /\ \A i \in 1 .. Len(queue') : Proper(queue'[i])
      /\ \A i \in 1 .. Len(handed') : Proper(handed'[i])
  <2>0. \A i \in 1 .. Len(queue) : Proper(queue[i])
    BY <1>2 DEF Types
  <2>1. /\ T = queue[1] /\ T \in Txns /\ Proper(T)
    BY <1>1, <1>2, <2>0
  <2>2. T.ops \in Seq(Ops) /\ Len(T.ops) > 0
    BY <2>1 DEF Txns, Proper
  <2>3. /\ queue' \in Seq(Txns) /\ handed' \in Seq(Txns)
    BY <1>1, <1>2, <2>1
  <2>4. \A i \in 1 .. Len(queue') : i + 1 \in 1 .. Len(queue) /\ queue'[i] = queue[i + 1]
    BY <1>1, <1>2
  <2>5. \A i \in 1 .. Len(queue) : Proper(queue[i])
    BY <1>2 DEF Types
  <2>6. \A i \in 1 .. Len(queue') : Proper(queue'[i])
    BY <2>4, <2>5
  <2> HIDE DEF T
  <2>7. \A i \in 1 .. Len(handed') : handed'[i] = T \/ (i \in 1 .. Len(handed) /\ handed'[i] = handed[i])
    BY <1>1, <1>2, <2>1
  <2>8. \A i \in 1 .. Len(handed) : Proper(handed[i])
    BY <1>2 DEF Types
  <2>9. \A i \in 1 .. Len(handed') : Proper(handed'[i])
    BY <2>1, <2>7, <2>8
  <2> QED BY <1>1, <2>1, <2>2, <2>3, <2>6, <2>9
<1>4. Pending' = Pending
  <2>1. OpsOn(Head(queue).ops, Tail(queue)) = OpsOn(current, queue)
    BY <1>1, <1>2, OpsOnTake
  <2> QED BY <1>1, <2>1 DEF Pending
<1>5. Passing' = Passing /\ Stages' = Stages /\ Settled' = Settled
  <2>1. Settled' = ApplyAll(Pending', store')
    BY DEF Settled, Pending, OpsOn, Flat
  <2>2. Settled = ApplyAll(Pending, store)
    BY DEF Settled, Pending, OpsOn, Flat
  <2> QED BY <1>1, <1>4, <2>1, <2>2 DEF Passing, Stages
<1>6. Coming' = Coming
  <2>1. queue = <<T>> \o Tail(queue) /\ T \in Txns /\ Tail(queue) \in Seq(Txns)
    BY <1>1, <1>2
  <2>2. Append(handed, T) = handed \o <<T>>
    BY <1>2, <1>3
  <2> DEFINE one == <<T>>
             rest == Tail(queue)
  <2>3. one \in Seq(Txns) /\ rest \in Seq(Txns)
    BY <2>1
  <2>4. queue = one \o rest /\ Append(handed, T) = handed \o one
    BY <2>1, <2>2
  <2> HIDE DEF one, rest, T
  <2>5. Cat(Cat(handed, one), rest) = Cat(handed, Cat(one, rest))
    BY <1>2, <2>3, CatAssociates
  <2>6. (handed \o one) \o rest = handed \o (one \o rest)
    BY <2>5 DEF Cat
  <2>7. queue' = rest
    BY <1>1 DEF rest
  <2> QED BY <1>1, <2>4, <2>6, <2>7 DEF Coming
<1>7. phase # "mounted" /\ Frozen'
  BY <1>1 DEF IInv, Frozen
<1>8. Types'
  BY <1>1, <1>2, <1>3 DEF Types
<1>9. Ending'
  <2>1. Len(handed') > 0 /\ handed'[Len(handed')] = T
    BY <1>1, <1>2, <1>3
  <2> QED BY <1>1, <2>1 DEF Ending, Given
<1>10. MidPut'
  BY <1>1 DEF IInv, MidPut
<1>11. PassingTrue' /\ StagesTrue' /\ SettledTrue' /\ ObjectsTrue' /\ HeldTrue'
  BY <1>1, <1>5 DEF IInv, PassingTrue, StagesTrue, SettledTrue, ObjectsTrue, HeldTrue
<1>12. Answered'
  BY <1>1, <1>6 DEF IInv, Answered
<1>13. ReadsTrue'
  BY <1>1, <1>5 DEF IInv, ReadsTrue, Idle, Reading, Gone
<1>14. DiskTrue'
  <2>1. \A n \in Names : Fine(n, ApplyAll(T.ops, store))
    <3>1. OpsOn(T.ops, queue') = Pending
      BY <1>1, <1>4 DEF Pending
    <3> QED BY <1>3, <3>1, Between
  <2>2. ApplyAll(current, store) = store
    BY <1>1, NoOps
  <2>3. ASSUME NEW n \in Names
        PROVE  \E h : Chain(n, h, Append(handed, T), disk, ApplyAll(T.ops, store))
    <3>1. PICK g : Chain(n, g, handed, disk, store)
      BY <2>2 DEF IInv, DiskTrue
    <3> HIDE DEF T
    <3> QED BY <1>2, <1>3, <2>1, <3>1, ChainMore
  <2> QED BY <1>1, <2>3 DEF DiskTrue
<1> QED BY <1>7, <1>8, <1>9, <1>10, <1>11, <1>12, <1>13, <1>14 DEF IInv

\* A retired entry stays where it is as long as somebody has its Object.
LEMMA StaysOut ==
  ASSUME IInv, phase = "serving", NEW o \in Objects, Placed(objs[o]),
         NEW S \in Contents, NEW op \in Ops, <<S, op>> \in Stages,
         S[Temporary(objs[o].name, objs[o].ts)] # NoEntry
  PROVE  Apply(op, S)[Temporary(objs[o].name, objs[o].ts)] # NoEntry
<1> DEFINE n == objs[o].name
           t == objs[o].ts
           A == Temporary(n, t)
           R == Apply(op, S)
<1>1. n \in Names /\ t \in Puts(n) /\ t \notin Times(n)
  BY ObjectFacts, Apart
<1>2. A \in Addresses /\ A.temp /\ A.name = n /\ A.gen = t
  BY <1>1, AddressFacts
<1>3. Due(S, op, Settled, objs, TRUE)
  <2> DEFINE g == <<S, op>>
  <2>1. g \in Stages /\ g[1] = S /\ g[2] = op
    OBVIOUS
  <2> HIDE DEF g
  <2>2. (phase = "serving") = TRUE
    OBVIOUS
  <2> QED BY <2>1, <2>2 DEF IInv, StagesTrue
<1> HIDE DEF n, t, A
<1>4. S[A] # NoEntry
  BY DEF A, n, t
<1>5. CASE op.at # A /\ (op.op = "rename" => op.to # A)
  <2>1. R[A] = S[A]
    BY <1>2, <1>5, ApplyTyped
  <2> QED BY <1>4, <2>1 DEF A, n, t
<1>6. CASE op.op = "rename" /\ op.to = A
  BY <1>3, <1>4, <1>6 DEF Due, DueRename
<1>7. CASE op.at = A
  <2>1. op.op \in {"touch", "setattrs", "write", "header", "rename", "remove"}
    BY OpFields
  <2>2. CASE op.op = "touch"
    <3>1. R[A] = S[A]
      BY <1>4, <1>7, <2>2, ApplyTouch
    <3> QED BY <1>4, <3>1 DEF A, n, t
  <2>3. CASE op.op = "setattrs"
    <3>1. R[A].ts = op.ts /\ op.ts > 0
      BY <1>3, <1>7, <2>3, ApplySetAttrs DEF Due
    <3>2. R[A] # NoEntry
      BY <3>1, EmptyEntry
    <3> QED BY <3>2 DEF A, n, t
  <2>4. CASE op.op = "write"
    <3>1. R[A].data = Overwrite(S[A].data, op.off, op.id)
      BY <1>7, <2>4, ApplyWrite
    <3>2. S[A].data \in Seq(Ids) /\ op.off \in Nat /\ op.id \in Ids
      BY <1>2, <2>4, OpFields DEF Contents, Entries
    <3>3. Len(R[A].data) > 0
      BY <3>1, <3>2, OverwriteTyped
    <3>4. R[A] # NoEntry
      <4>1. Len(<<>>) = 0
        OBVIOUS
      <4> QED BY <3>3, <4>1, EmptyEntry
    <3> QED BY <3>4 DEF A, n, t
  <2>5. CASE op.op = "header"
    <3>1. R[A].meta = op.meta /\ op.meta > 0
      BY <1>3, <1>7, <2>5, ApplyHeader DEF Due
    <3>2. R[A] # NoEntry
      BY <3>1, EmptyEntry
    <3> QED BY <3>2 DEF A, n, t
  <2>6. CASE op.op = "rename"
    BY <1>1, <1>2, <1>3, <1>7, <2>6 DEF Due, DueRename
  <2>7. CASE op.op = "remove"
    <3>1. DueRemove(op, Settled, objs)
      BY <1>3, <2>7 DEF Due
    <3>2. objs[o].ts # op.at.gen
      BY <1>1, <1>2, <1>7, <3>1 DEF DueRemove, n
    <3> QED BY <1>2, <1>7, <3>2 DEF t
  <2> QED BY <2>1, <2>2, <2>3, <2>4, <2>5, <2>6, <2>7
<1> QED BY <1>5, <1>6, <1>7

\* What applying the next operation does to the lists.
LEMMA Applied ==
  ASSUME IInv, ApplyOne
  PROVE  LET op == Head(current) IN
         /\ op \in Ops /\ op = current[1] /\ Len(current) > 0 /\ <<store, op>> \in Stages
         /\ Due(store, op, Settled, objs, phase = "serving") /\ ~Refused(op, store)
         /\ store' = Apply(op, store) /\ current' = Tail(current)
         /\ UNCHANGED <<engine, queue, handed, disk, phase, crashes, aborted>>
         /\ Settled' = Settled /\ Passing' \subseteq Passing /\ Stages' \subseteq Stages
         /\ Passing' = PassingOf(Pending', store') /\ Stages' = StagesOf(Pending', store')
         /\ Pending' \in Seq(Ops) /\ store' \in Passing
<1> DEFINE op == Head(current)
<1>1. Types /\ current \in Seq(Ops) /\ queue \in Seq(Txns) /\ Len(current) > 0
  BY DEF ApplyOne, IInv, Types
<1>2. /\ op \in Ops /\ Tail(current) \in Seq(Ops)
      /\ ApplyAll(OpsOn(Tail(current), queue), Apply(op, store)) = Settled
      /\ PassingOf(OpsOn(Tail(current), queue), Apply(op, store)) \subseteq Passing
      /\ StagesOf(OpsOn(Tail(current), queue), Apply(op, store)) \subseteq Stages
      /\ <<store, op>> \in Stages /\ Apply(op, store) \in Passing
  <2>1. Settled = ApplyAll(OpsOn(current, queue), store)
    BY <1>1, Queued DEF Pending
  <2> QED BY <1>1, <2>1, OpsOnApply DEF Passing, Stages, Pending
<1>3. op = current[1]
  BY <1>1
<1> HIDE DEF op
<1>4. Due(store, op, Settled, objs, phase = "serving")
  <2> DEFINE g == <<store, op>>
  <2>1. g \in Stages /\ g[1] = store /\ g[2] = op
    BY <1>2
  <2> HIDE DEF g
  <2> QED BY <2>1 DEF IInv, StagesTrue
<1>5. ~Refused(op, store)
  BY <1>4 DEF Due, DueRename, Refused
<1>6. /\ store' = Apply(op, store) /\ current' = Tail(current)
      /\ UNCHANGED <<engine, queue, handed, disk, phase, crashes, aborted>>
  BY <1>5 DEF ApplyOne, op
<1>7. Settled' = Settled /\ Pending' = OpsOn(Tail(current), queue)
  <2>1. Settled' = ApplyAll(Pending', store')
    BY DEF Settled, Pending, OpsOn, Flat
  <2>2. Pending' = OpsOn(current', queue')
    BY DEF Pending, OpsOn, Flat
  <2> QED BY <1>2, <1>6, <2>1, <2>2
<1>8. /\ Passing' = PassingOf(Pending', store') /\ Stages' = StagesOf(Pending', store')
      /\ Passing' \subseteq Passing /\ Stages' \subseteq Stages
  BY <1>2, <1>6, <1>7 DEF Passing, Stages
<1>9. Pending' \in Seq(Ops)
  <2>1. \A i \in 1 .. Len(queue) : queue[i].ops \in Seq(Ops)
    BY <1>1, TxnOps
  <2> QED BY <1>1, <1>2, <1>7, <2>1, OpsOnTyped
<1> QED BY <1>1, <1>2, <1>3, <1>4, <1>5, <1>6, <1>7, <1>8, <1>9 DEF op

\* A stamp of the clock is at a name only between a rename and the save
\* that follows it, which is in the same transaction.
LEMMA ApplyMidPut ==
  ASSUME IInv, ApplyOne
  PROVE  MidPut'
<1> DEFINE op == Head(current)
           last_one == handed[Len(handed)]
<1>1. /\ op \in Ops /\ op = current[1] /\ Len(current) > 0
      /\ Due(store, op, Settled, objs, phase = "serving")
      /\ store' = Apply(op, store) /\ current' = Tail(current)
      /\ UNCHANGED <<engine, queue, handed, disk, phase, crashes, aborted>>
  BY Applied
<1> HIDE DEF op
<1>2. current \in Seq(Ops) /\ queue \in Seq(Txns) /\ store \in Contents
  BY DEF IInv, Types
<1>3. op \in Given(last_one)
  BY <1>1, <1>2 DEF IInv, Ending
<1> HIDE DEF last_one
<1> SUFFICES ASSUME NEW n \in Names, store'[Ordinary(n)].ts \in Times(n)
             PROVE  Len(current') > 0 /\ Moves(handed'[Len(handed')], n)
  BY DEF MidPut
<1>4. Len(current') > 0
  <2> SUFFICES ASSUME ~(Len(current') > 0)
               PROVE  FALSE
    OBVIOUS
  <2>1. Len(current) = 1
    <3>1. \A s \in Seq(Ops) : Len(s) > 0 => Len(Tail(s)) = Len(s) - 1 /\ Len(s) \in Nat
      OBVIOUS
    <3>2. Len(current') = Len(current) - 1 /\ Len(current) \in Nat
      BY <1>1, <1>2, <3>1
    <3>3. Len(current) > 0 /\ ~(Len(current') > 0)
      BY <1>1
    <3> QED BY <3>2, <3>3
  <2>2. current = <<op>>
    BY <1>1, <1>2, <2>1
  <2>3. ApplyAll(current, store) = store'
    BY <1>1, <2>2, OneOp
  <2>4. Fine(n, ApplyAll(current, store))
    <3>1. OpsOn(current, queue) = Pending /\ \A i \in 1 .. Len(queue) : Proper(queue[i])
      BY DEF Pending, IInv, Types
    <3> QED BY <1>2, <3>1, Between
  <2>5. Sane(n, store'[Ordinary(n)])
    BY <2>3, <2>4 DEF Fine
  <2> QED BY <2>5, EmptyEntry, Apart DEF Sane
<1>5. Moves(last_one, n)
  <2>1. CASE store[Ordinary(n)].ts \in Times(n)
    BY <2>1 DEF IInv, MidPut, last_one
  <2>2. CASE store[Ordinary(n)].ts \notin Times(n)
    <3>0. Ordinary(n) \in Addresses /\ ~Ordinary(n).temp /\ Ordinary(n).name = n
      BY AddressFacts
    <3>1. On(op, Ordinary(n))
      <4> SUFFICES ASSUME ~On(op, Ordinary(n))
                   PROVE  FALSE
        OBVIOUS
      <4>1. store'[Ordinary(n)] = store[Ordinary(n)]
        BY <1>1, <1>2, <3>0, ApplyTyped DEF On
      <4> QED BY <2>2, <4>1
    <3>2. CASE op.op = "rename"
      BY <1>3, <3>1, <3>2 DEF Moves
    <3>3. CASE op.op # "rename"
      <4>1. op.at = Ordinary(n)
        BY <3>1, <3>3 DEF On
      <4>2. op.op \in {"setattrs", "header"}
        <5>1. op.op \in {"touch", "setattrs", "write", "header", "rename", "remove"}
          BY <1>1, OpFields
        <5> QED BY <1>1, <3>0, <3>3, <4>1, <5>1 DEF Due
      <4>3. store'[Ordinary(n)].ts = store[Ordinary(n)].ts
        <5>1. CASE op.op = "setattrs"
          <6>1. op.ts = store[Ordinary(n)].ts
            BY <1>1, <2>2, <3>0, <4>1, <5>1 DEF Due
          <6> QED BY <1>1, <1>2, <4>1, <5>1, <6>1, ApplySetAttrs
        <5>2. CASE op.op = "header"
          BY <1>1, <1>2, <4>1, <5>2, ApplyHeader
        <5> QED BY <4>2, <5>1, <5>2
      <4> QED BY <2>2, <4>3
    <3> QED BY <3>2, <3>3
  <2> QED BY <2>1, <2>2
<1> QED BY <1>1, <1>4, <1>5 DEF last_one

\* The stamp of an Object leaves its name for good.
LEMMA LeavesForGood ==
  ASSUME IInv, ApplyOne, phase = "serving", NEW o \in Objects, Placed(objs[o]),
         store[Ordinary(objs[o].name)].ts = objs[o].ts,
         store'[Ordinary(objs[o].name)].ts # objs[o].ts
  PROVE  \A S \in Passing' : S[Ordinary(objs[o].name)].ts # objs[o].ts
<1> DEFINE op == Head(current)
           n == objs[o].name
           t == objs[o].ts
           N == Ordinary(n)
           A == Temporary(n, t)
<1>1. /\ op \in Ops /\ op = current[1] /\ Len(current) > 0
      /\ Due(store, op, Settled, objs, phase = "serving")
      /\ store' = Apply(op, store)
      /\ Passing' \subseteq Passing /\ Stages' \subseteq Stages
      /\ Passing' = PassingOf(Pending', store') /\ Stages' = StagesOf(Pending', store')
      /\ Pending' \in Seq(Ops) /\ store' \in Passing
  BY Applied
<1> HIDE DEF op
<1>2. /\ Types /\ store \in Contents /\ n \in Names /\ t \in Puts(n) /\ t \notin Times(n) /\ t \in Nat
      /\ t # 0
  BY ObjectFacts, Apart DEF Types
<1>3. N \in Addresses /\ ~N.temp /\ N.name = n
  BY <1>2, AddressFacts
<1>4. store[N].ts = t /\ store'[N].ts # t
  OBVIOUS
<1>5. op \in OpsOf(op.at.name)
  <2>1. PICK i \in 1 .. Len(Coming) : op \in Given(Coming[i])
    <3>1. Ending
      BY DEF IInv
    <3>2. Ending /\ Len(handed) > 0 /\ op \in Given(handed[Len(handed)])
      BY <1>1, <3>1 DEF Ending
    <3>3. Len(handed) \in 1 .. Len(handed) /\ Len(handed) \in 1 .. Len(Coming)
      BY <1>2, <3>2, ComingOps
    <3>4. Coming[Len(handed)] = handed[Len(handed)]
      BY <1>2, <3>2, <3>3, ComingOps
    <3> QED BY <3>2, <3>3, <3>4
  <2>2. Proper(Coming[i])
    BY <1>2, <2>1, ComingOps DEF IInv
  <2> QED BY <2>1, <2>2 DEF Proper, OpsOf
<1> HIDE DEF N, A, n, t
<1>6. op.op = "rename" /\ op.at = N /\ store[N] # NoEntry /\ op.to = A
  <2>0. store[N] # NoEntry
    BY <1>2, <1>4, EmptyEntry
  <2>1. On(op, N)
    <3> SUFFICES ASSUME ~On(op, N)
                 PROVE  FALSE
      OBVIOUS
    <3>1. store'[N] = store[N]
      BY <1>1, <1>2, <1>3, ApplyTyped DEF On
    <3> QED BY <1>4, <3>1
  <2>2. op.op = "rename"
    <3> SUFFICES ASSUME op.op # "rename"
                 PROVE  FALSE
      OBVIOUS
    <3>1. op.at = N
      BY <2>1 DEF On
    <3>2. op.op \in {"setattrs", "header"}
      <4>1. op.op \in {"touch", "setattrs", "write", "header", "rename", "remove"}
        BY <1>1, OpFields
      <4> QED BY <1>1, <1>3, <3>1, <4>1 DEF Due
    <3>3. CASE op.op = "setattrs"
      <4>1. op.ts = store[N].ts
        BY <1>1, <1>2, <1>3, <1>4, <3>1, <3>3 DEF Due
      <4> QED BY <1>1, <1>2, <1>4, <3>1, <3>3, <4>1, ApplySetAttrs
    <3>4. CASE op.op = "header"
      BY <1>1, <1>2, <1>4, <3>1, <3>4, ApplyHeader
    <3> QED BY <3>2, <3>3, <3>4
  <2>3. DueRename(store, op)
    BY <1>1, <2>2 DEF Due
  <2>4. op.to # N
    BY <2>0, <2>3 DEF DueRename
  <2>5. op.at = N
    BY <2>1, <2>4 DEF On
  <2>6. op.to.temp /\ op.to.gen = t
    BY <1>3, <1>4, <2>3, <2>5 DEF DueRename
  <2>7. op.to.name = n /\ op.to \in Addresses
    BY <1>1, <1>3, <1>5, <2>2, <2>5, OpFields DEF OpsOf
  <2>8. op.to = A
    BY <2>6, <2>7, AddressFacts DEF A
  <2> QED BY <2>0, <2>2, <2>5, <2>8
<1>7. A \in Addresses /\ A # N
  BY <1>2, <1>3, AddressFacts DEF A
<1>8. store' \in Contents /\ store'[A] # NoEntry
  <2>1. store' \in Contents /\ store'[A] = store[N]
    BY <1>1, <1>2, <1>6, <1>7, ApplyRename
  <2> QED BY <1>6, <2>1
<1> DEFINE Q == {S \in Contents : S[A] # NoEntry}
<1>9. \A S \in Q, d \in Ops : <<S, d>> \in StagesOf(Pending', store') => Apply(d, S) \in Q
  <2> SUFFICES ASSUME NEW S \in Q, NEW d \in Ops, <<S, d>> \in Stages
               PROVE  Apply(d, S) \in Q
    BY <1>1
  <2>1. S \in Contents /\ S[A] # NoEntry
    OBVIOUS
  <2>2. Apply(d, S)[A] # NoEntry
    BY <2>1, StaysOut DEF A, n, t
  <2>3. Apply(d, S) \in Contents
    BY <2>1, ApplyTyped
  <2> QED BY <2>2, <2>3
<1>10. store' \in Q
  BY <1>8
<1> HIDE DEF Q
<1>11. Passing' \subseteq Q
  BY <1>1, <1>9, <1>10, AllTheWay
<1> SUFFICES ASSUME NEW S \in Passing'
             PROVE  S[N].ts # t
  BY DEF N, n, t
<1>12. S[A] # NoEntry /\ S \in Passing
  BY <1>1, <1>11 DEF Q
<1>13. Seen(S, Settled, objs, TRUE)
  <2>1. (phase = "serving") = TRUE
    OBVIOUS
  <2> QED BY <1>12, <2>1 DEF IInv, PassingTrue
<1> QED BY <1>2, <1>12, <1>13 DEF Seen, N, A

\* BlueStore applies an operation: nothing a reader or a holder relies on
\* is lost.
LEMMA ApplyOneStep ==
  ASSUME IInv, ApplyOne
  PROVE  IInv'
<1> DEFINE op == Head(current)
<1>1. /\ op \in Ops /\ Len(current) > 0
      /\ ~Refused(op, store) /\ store' = Apply(op, store) /\ current' = Tail(current)
      /\ UNCHANGED <<engine, queue, handed, disk, phase, crashes, aborted>>
      /\ Settled' = Settled /\ Passing' \subseteq Passing /\ Stages' \subseteq Stages
  BY Applied
<1>2. UNCHANGED <<objs, held, reads, last, queue, handed, disk, phase, crashes, aborted>>
  BY <1>1 DEF engine
<1>3. Types /\ current \in Seq(Ops) /\ handed \in Seq(Txns) /\ store \in Contents /\ Small(store)
  BY DEF IInv, Types
<1>4. Coming' = Coming
  BY <1>2 DEF Coming
<1>5. current' \in Seq(Ops) /\ \A i \in 1 .. Len(current') : i + 1 \in 1 .. Len(current)
                                                        /\ current'[i] = current[i + 1]
  BY <1>1, <1>3
<1>6. store' \in Contents /\ Small(store')
  BY <1>1, <1>3, ApplyTyped, ApplySmall
<1>7. Types'
  BY <1>2, <1>3, <1>5, <1>6 DEF Types
<1>8. Frozen'
  BY <1>1, <1>2 DEF IInv, Frozen
<1>9. Ending'
  BY <1>1, <1>2, <1>5 DEF IInv, Ending
<1>10. PassingTrue' /\ StagesTrue' /\ SettledTrue' /\ ObjectsTrue' /\ HeldTrue'
  BY <1>1, <1>2 DEF IInv, PassingTrue, StagesTrue, SettledTrue, ObjectsTrue, HeldTrue
<1>11. Answered'
  BY <1>2, <1>4 DEF IInv, Answered
<1>12. MidPut'
  BY ApplyMidPut
<1>13. ReadsTrue'
  <2>1. ASSUME NEW o \in Objects, reads[o] # NoRead
        PROVE  Reading(reads[o], objs[o])'
    <3>1. Reading(reads[o], objs[o]) /\ Placed(objs[o])
      BY <2>1 DEF IInv, ReadsTrue, Idle, Reading
    <3>2. phase = "serving"
      BY <2>1 DEF IInv, Frozen
    <3>3. Gone(objs[o]) => Gone(objs[o])'
      BY <1>1, <1>2 DEF Gone
    <3>4. store[Ordinary(objs[o].name)].ts = objs[o].ts =>
             store'[Ordinary(objs[o].name)].ts = objs[o].ts \/ Gone(objs[o])'
      <4>1. ASSUME store[Ordinary(objs[o].name)].ts = objs[o].ts,
                   store'[Ordinary(objs[o].name)].ts # objs[o].ts
            PROVE  \A S \in Passing' : S[Ordinary(objs[o].name)].ts # objs[o].ts
        BY <3>1, <3>2, <4>1, LeavesForGood
      <4> QED BY <1>2, <4>1 DEF Gone
    <3>5. Bytes(objs[o])' = Bytes(objs[o])
      BY <1>2 DEF Bytes
    <3> QED BY <1>2, <3>1, <3>3, <3>4, <3>5 DEF Reading
  <2> QED BY <1>2, <2>1 DEF ReadsTrue, Idle
<1>14. DiskTrue'
  <2>1. ApplyAll(current', store') = ApplyAll(current, store)
    <3>1. LET ops == OpsOn(current, <<>>)
              rest == OpsOn(Tail(current), <<>>)
              next == Apply(Head(current), store)
          IN  ApplyAll(rest, next) = ApplyAll(ops, store)
      <4>1. <<>> \in Seq(Txns)
        OBVIOUS
      <4> QED BY <1>1, <1>3, <4>1, OpsOnApply
    <3>2. OpsOn(current, <<>>) = current /\ OpsOn(Tail(current), <<>>) = Tail(current)
      <4>1. Flat(<<>>) = <<>>
        <5>1. <<>> \in Seq(Txns) /\ Len(<<>>) < 1
          OBVIOUS
        <5> QED BY <5>1, FlatNone
      <4>2. Tail(current) \in Seq(Ops)
        BY <1>1, <1>5
      <4> QED BY <1>3, <4>1, <4>2 DEF OpsOn
    <3> QED BY <1>1, <3>1, <3>2
  <2> QED BY <1>2, <2>1 DEF IInv, DiskTrue
<1> QED BY <1>7, <1>8, <1>9, <1>10, <1>11, <1>12, <1>13, <1>14 DEF IInv

\* RemoveAt gives the sequence without one element.
LEMMA RemoveAtIs ==
  ASSUME NEW s \in Seq(Txns), NEW i \in 1 .. Len(s)
  PROVE  RemoveAt(s, i) \in Seq(Txns) /\ Without(RemoveAt(s, i), s, i)
<1> DEFINE u == SubSeq(s, 1, i - 1)
           v == SubSeq(s, i + 1, Len(s))
           n == Len(s)
<1>1. n \in Nat /\ i \in Nat /\ i >= 1 /\ i <= n /\ \A k \in 1 .. n : s[k] \in Txns
  OBVIOUS
<1>2. /\ u \in Seq(Txns) /\ Len(u) = i - 1 /\ \A k \in 1 .. i - 1 : u[k] = s[k]
  <2>1. \A k \in 1 .. i - 1 : s[k] \in Txns
    BY <1>1
  <2>2. /\ u \in Seq(Txns) /\ Len(u) = IF 1 <= i - 1 THEN i - 1 - 1 + 1 ELSE 0
        /\ \A k \in 1 .. i - 1 - 1 + 1 : u[k] = s[1 + k - 1]
    BY <1>1, <2>1, SubSeqProperties
  <2> HIDE DEF u
  <2>3. \A k \in 1 .. i - 1 : k \in 1 .. i - 1 - 1 + 1 /\ 1 + k - 1 = k
    BY <1>1
  <2> QED BY <1>1, <2>2, <2>3
<1>3. /\ v \in Seq(Txns) /\ Len(v) = n - i /\ \A k \in 1 .. n - i : v[k] = s[i + k]
  <2>1. \A k \in i + 1 .. n : s[k] \in Txns
    BY <1>1
  <2>2. /\ v \in Seq(Txns) /\ Len(v) = IF i + 1 <= n THEN n - (i + 1) + 1 ELSE 0
        /\ \A k \in 1 .. n - (i + 1) + 1 : v[k] = s[i + 1 + k - 1]
    BY <1>1, <2>1, SubSeqProperties
  <2> HIDE DEF v, n
  <2>3. \A k \in 1 .. n - i : k \in 1 .. n - (i + 1) + 1 /\ i + 1 + k - 1 = i + k
    BY <1>1
  <2> QED BY <1>1, <2>2, <2>3
<1> DEFINE r == u \o v
<1> HIDE DEF u, v, n
<1>4. /\ r \in Seq(Txns) /\ Len(r) = n - 1
      /\ \A k \in 1 .. n - 1 : r[k] = IF k <= i - 1 THEN u[k] ELSE v[k - (i - 1)]
  <2>1. /\ r \in Seq(Txns) /\ Len(r) = Len(u) + Len(v)
        /\ \A k \in 1 .. Len(u) + Len(v) : r[k] = IF k <= Len(u) THEN u[k] ELSE v[k - Len(u)]
    BY <1>2, <1>3, ConcatProperties
  <2> HIDE DEF r
  <2>2. Len(u) + Len(v) = n - 1
    BY <1>1, <1>2, <1>3
  <2> QED BY <1>2, <2>1, <2>2
<1> HIDE DEF r
<1>5. ASSUME NEW k \in 1 .. n - 1
      PROVE  r[k] = IF k < i THEN s[k] ELSE s[k + 1]
  <2>1. CASE k < i
    BY <1>1, <1>2, <1>4, <2>1
  <2>2. CASE ~(k < i)
    <3>1. k - (i - 1) \in 1 .. n - i /\ i + (k - (i - 1)) = k + 1 /\ ~(k <= i - 1)
      BY <1>1, <2>2
    <3> QED BY <1>3, <1>4, <2>2, <3>1
  <2> QED BY <2>1, <2>2
<1>6. Without(r, s, i)
  BY <1>4, <1>5 DEF Without, n
<1>7. RemoveAt(s, i) = r
  BY DEF RemoveAt, r, u, v
<1> QED BY <1>4, <1>6, <1>7

\* A transaction that commits was the first of its collection.
LEMMA ChainLess ==
  ASSUME NEW n \in Names, NEW g, NEW ts \in Seq(Txns), NEW first \in Contents, NEW final,
         Chain(n, g, ts, first, final), NEW i \in 1 .. Len(ts), Proper(ts[i]),
         \A j \in 1 .. i - 1 : ts[j].coll # ts[i].coll,
         NEW r, Without(r, ts, i)
  PROVE  \E h : Chain(n, h, r, ApplyAll(ts[i].ops, first), final)
<1> DEFINE T == ts[i]
           k == Len(ts)
           c == Collection(n)
           h == [j \in 0 .. k - 1 |-> IF j < i THEN IF T.coll = c THEN g[i] ELSE g[j]
                                               ELSE g[j + 1]]
<1>1. /\ k \in Nat /\ i \in Nat /\ 1 <= i /\ i <= k /\ T \in Txns
      /\ Len(r) = k - 1 /\ \A j \in 1 .. k - 1 : r[j] = IF j < i THEN ts[j] ELSE ts[j + 1]
  BY DEF Without
<1>2. /\ \A j \in 0 .. k : g[j] \in Contents /\ Fine(n, g[j])
      /\ \A j \in 1 .. k : g[j] = IF ts[j].coll = c THEN ApplyAll(ts[j].ops, g[j - 1]) ELSE g[j - 1]
      /\ Agree(n, g[0], first) /\ Agree(n, g[k], final)
  BY DEF Chain
<1>3. Proper(T) /\ \A j \in 1 .. i - 1 : ts[j].coll # T.coll
  OBVIOUS
<1> HIDE DEF T, k, c
<1>4. T.coll = c => \A j \in 0 .. i - 1 : g[j] = g[0]
  <2> SUFFICES ASSUME T.coll = c
               PROVE  \A j \in 0 .. i - 1 : g[j] = g[0]
    OBVIOUS
  <2> DEFINE P == {j \in 0 .. i - 1 : g[j] = g[0]}
  <2>1. 0 \in P
    BY <1>1
  <2>2. \A j \in 0 .. (i - 1) - 1 : j \in P => j + 1 \in P
    <3> SUFFICES ASSUME NEW j \in 0 .. (i - 1) - 1, g[j] = g[0]
                 PROVE  j + 1 \in 0 .. i - 1 /\ g[j + 1] = g[0]
      OBVIOUS
    <3>1. j + 1 \in 1 .. i - 1 /\ j + 1 \in 1 .. k /\ (j + 1) - 1 = j /\ j + 1 \in 0 .. i - 1
      BY <1>1
    <3>2. ts[j + 1].coll # c
      BY <1>3, <3>1
    <3> QED BY <1>2, <3>1, <3>2
  <2> HIDE DEF P
  <2>3. i - 1 \in Nat
    BY <1>1
  <2>4. \A j \in 0 .. i - 1 : j \in P
    BY <2>1, <2>2, <2>3, Upto
  <2> QED BY <2>4 DEF P
<1>5. /\ i \in 1 .. k /\ i \in 0 .. k /\ i - 1 \in 0 .. k /\ i - 1 \in 0 .. i - 1
      /\ \A j \in 0 .. k - 1 : j \in 0 .. k /\ j + 1 \in 0 .. k
  BY <1>1
<1>6. g[i] = IF T.coll = c THEN ApplyAll(T.ops, g[0]) ELSE g[i - 1]
  <2>1. g[i] = IF T.coll = c THEN ApplyAll(T.ops, g[i - 1]) ELSE g[i - 1]
    BY <1>2, <1>5 DEF T
  <2> QED BY <1>4, <1>5, <2>1
<1>7. \A j \in 0 .. k - 1 : h[j] = IF j < i THEN IF T.coll = c THEN g[i] ELSE g[j]
                                            ELSE g[j + 1]
  OBVIOUS
<1> HIDE DEF h
<1>8. \A j \in 0 .. k - 1 : h[j] \in Contents /\ Fine(n, h[j])
  BY <1>2, <1>5, <1>7
<1>9. ASSUME NEW j \in 1 .. k - 1
      PROVE  h[j] = IF r[j].coll = c THEN ApplyAll(r[j].ops, h[j - 1]) ELSE h[j - 1]
  <2>1. j \in 0 .. k - 1 /\ j - 1 \in 0 .. k - 1 /\ j \in 1 .. k /\ j + 1 \in 1 .. k
        /\ (j + 1) - 1 = j /\ (j - 1) + 1 = j
    BY <1>1
  <2>2. CASE j < i
    <3>1. r[j] = ts[j] /\ j - 1 < i /\ j \in 1 .. i - 1
      BY <1>1, <2>1, <2>2
    <3>2. CASE T.coll = c
      <4>1. r[j].coll # c
        BY <1>3, <3>1, <3>2
      <4> QED BY <1>7, <2>1, <2>2, <3>1, <3>2, <4>1
    <3>3. CASE T.coll # c
      <4>1. h[j] = g[j] /\ h[j - 1] = g[j - 1]
        BY <1>7, <2>1, <2>2, <3>1, <3>3
      <4> QED BY <1>2, <2>1, <3>1, <4>1
    <3> QED BY <3>2, <3>3
  <2>3. CASE ~(j < i)
    <3>1. r[j] = ts[j + 1] /\ h[j] = g[j + 1]
      BY <1>1, <1>7, <2>1, <2>3
    <3>2. h[j - 1] = g[j]
      <4>1. CASE j - 1 < i
        <5>1. j = i
          BY <1>1, <2>3, <4>1
        <5> QED BY <1>6, <1>7, <2>1, <4>1, <5>1
      <4>2. CASE ~(j - 1 < i)
        BY <1>7, <2>1, <4>2
      <4> QED BY <4>1, <4>2
    <3> QED BY <1>2, <2>1, <3>1, <3>2
  <2> QED BY <2>2, <2>3
<1>10. Agree(n, h[0], ApplyAll(T.ops, first))
  <2>1. g[0] \in Contents /\ Agree(n, g[0], first)
    BY <1>1, <1>2
  <2>2. Agree(n, IF T.coll = Collection(n) THEN ApplyAll(T.ops, g[0]) ELSE g[0],
                 ApplyAll(T.ops, first))
    BY <1>1, <1>3, <2>1, ChainStep
  <2>3. h[0] = IF T.coll = c THEN g[i] ELSE g[0]
    BY <1>1, <1>7
  <2>4. h[0] = IF T.coll = Collection(n) THEN ApplyAll(T.ops, g[0]) ELSE g[0]
    BY <1>6, <2>3 DEF c
  <2> QED BY <2>2, <2>4
<1>11. Agree(n, h[k - 1], final)
  <2>1. h[k - 1] = g[k]
    <3>1. k - 1 \in 0 .. k - 1 /\ (k - 1) + 1 = k
      BY <1>1
    <3>2. CASE k - 1 < i
      <4>1. k = i
        BY <1>1, <3>2
      <4> QED BY <1>6, <1>7, <3>1, <3>2, <4>1
    <3>3. CASE ~(k - 1 < i)
      BY <1>7, <3>1, <3>3
    <3> QED BY <3>2, <3>3
  <2> QED BY <1>2, <2>1
<1>12. Chain(n, h, r, ApplyAll(T.ops, first), final)
  BY <1>1, <1>8, <1>9, <1>10, <1>11 DEF Chain, c
<1> QED BY <1>12 DEF T

\* A transaction that touches a name is of the collection of the name.
LEMMA TouchedColl ==
  ASSUME NEW T, Proper(T), NEW n \in Names, Touches(T, n)
  PROVE  T.coll = Collection(n)
<1>1. PICK m \in Names : T.coll = Collection(m) /\ Given(T) \subseteq OpsOf(m)
  BY DEF Proper
<1>2. PICK op \in Given(T) : On(op, Ordinary(n))
  BY DEF Touches
<1>3. Ordinary(n).name = n
  BY AddressFacts
<1>4. m = n
  BY <1>1, <1>2, <1>3 DEF OpsOf, On
<1> QED BY <1>1, <1>4

\* What the first transaction of its collection answers for, no other waits for.
LEMMA AnswersLess ==
  ASSUME NEW ts \in Seq(Txns), \A j \in 1 .. Len(ts) : Proper(ts[j]), NEW i \in 1 .. Len(ts),
         \A j \in 1 .. i - 1 : ts[j].coll # ts[i].coll, NEW r, Without(r, ts, i),
         NEW n \in Names, NEW os, NEW hd, Answers(ts, n, os, hd)
  PROVE  Answers(r, n, os, hd)
<1> DEFINE k == Len(ts)
<1>1. /\ k \in Nat /\ i \in Nat /\ 1 <= i /\ i <= k /\ Len(r) = k - 1
      /\ \A a \in 1 .. k - 1 : r[a] = IF a < i THEN ts[a] ELSE ts[a + 1]
  BY DEF Without
<1>2. \A j \in 1 .. k : Touches(ts[j], n) => ts[j].coll = Collection(n)
  BY TouchedColl
<1>3. \A j \in 1 .. k : Moves(ts[j], n) => Touches(ts[j], n)
  BY DEF Moves, Touches
<1>4. \A j \in 1 .. i - 1 : j \in 1 .. k /\ (Touches(ts[j], n) => ~Touches(ts[i], n))
  <2>1. \A j \in 1 .. i - 1 : j \in 1 .. k /\ ts[j].coll # ts[i].coll
    BY <1>1
  <2> QED BY <1>2, <2>1
<1> HIDE DEF k
<1>5. ASSUME NEW a \in 1 .. k - 1, NEW b \in 1 .. k, b = IF a < i THEN a ELSE a + 1,
             NEW j \in b .. k, Touches(ts[b], n), Touches(ts[j], n)
      PROVE  \E c \in a .. k - 1 : r[c] = ts[j]
  <2>1. j # i
    <3> SUFFICES ASSUME j = i
                 PROVE  FALSE
      OBVIOUS
    <3>1. b \in 1 .. i - 1
      BY <1>1, <1>5
    <3> QED BY <1>4, <1>5, <3>1
  <2>2. CASE j < i
    <3>1. j \in a .. k - 1 /\ j \in 1 .. k - 1
      BY <1>1, <1>5, <2>2
    <3>2. r[j] = ts[j]
      BY <1>1, <2>2, <3>1
    <3> QED BY <3>1, <3>2
  <2>3. CASE ~(j < i)
    <3>1. j - 1 \in a .. k - 1 /\ j - 1 \in 1 .. k - 1 /\ ~(j - 1 < i) /\ (j - 1) + 1 = j
      BY <1>1, <1>5, <2>1, <2>3
    <3>2. r[j - 1] = ts[j]
      BY <1>1, <3>1
    <3> QED BY <3>1, <3>2
  <2> QED BY <2>2, <2>3
<1>6. ASSUME NEW a \in 1 .. k - 1
      PROVE  /\ Touches(r[a], n) =>
                   /\ hd[n] # NoObject /\ os[hd[n]].state = "ACTIVE"
                   /\ \E c \in a .. k - 1 : r[c].of = hd[n] /\ Touches(r[c], n)
             /\ Moves(r[a], n) =>
                   \E c \in a .. k - 1 : r[c].of = hd[n] /\ Moves(r[c], n)
  <2> DEFINE b == IF a < i THEN a ELSE a + 1
  <2>1. b \in 1 .. k /\ r[a] = ts[b]
    BY <1>1
  <2>2. /\ Touches(ts[b], n) =>
              /\ hd[n] # NoObject /\ os[hd[n]].state = "ACTIVE"
              /\ \E j \in b .. k : ts[j].of = hd[n] /\ Touches(ts[j], n)
        /\ Moves(ts[b], n) => \E j \in b .. k : ts[j].of = hd[n] /\ Moves(ts[j], n)
    BY <2>1 DEF Answers, k
  <2>3. \A j \in b .. k : j \in 1 .. k
    BY <1>1, <2>1
  <2>4. \A j \in b .. k : Touches(ts[b], n) /\ Touches(ts[j], n) =>
            \E c \in a .. k - 1 : r[c] = ts[j]
    BY <1>5, <2>1
  <2> HIDE DEF b
  <2>5. ASSUME Touches(r[a], n)
        PROVE  /\ hd[n] # NoObject /\ os[hd[n]].state = "ACTIVE"
               /\ \E c \in a .. k - 1 : r[c].of = hd[n] /\ Touches(r[c], n)
    BY <2>1, <2>2, <2>4, <2>5
  <2>6. ASSUME Moves(r[a], n)
        PROVE  \E c \in a .. k - 1 : r[c].of = hd[n] /\ Moves(r[c], n)
    <3>1. PICK j \in b .. k : ts[j].of = hd[n] /\ Moves(ts[j], n)
      BY <2>1, <2>2, <2>6
    <3>2. Moves(ts[b], n) /\ j \in 1 .. k
      BY <2>1, <2>3, <2>6
    <3>3. Touches(ts[b], n) /\ Touches(ts[j], n)
      BY <1>3, <2>1, <3>1, <3>2
    <3> QED BY <2>4, <3>1, <3>3
  <2> QED BY <2>5, <2>6
<1> QED BY <1>1, <1>6 DEF Answers

\* It is the same with something behind.
LEMMA WithoutMore ==
  ASSUME NEW u \in Seq(Txns), NEW v \in Seq(Txns), NEW q \in Seq(Txns),
         NEW i \in 1 .. Len(u), Without(v, u, i)
  PROVE  Without(v \o q, u \o q, i)
<1>1. /\ Len(u) \in Nat /\ Len(v) \in Nat /\ Len(q) \in Nat /\ i \in Nat /\ 1 <= i /\ i <= Len(u)
      /\ Len(v) = Len(u) - 1
      /\ \A k \in 1 .. Len(u) - 1 : v[k] = IF k < i THEN u[k] ELSE u[k + 1]
  BY DEF Without
<1> DEFINE a == u \o q
           b == v \o q
<1>2. /\ Len(a) = Len(u) + Len(q)
      /\ \A k \in 1 .. Len(u) + Len(q) : a[k] = IF k <= Len(u) THEN u[k] ELSE q[k - Len(u)]
  BY ConcatProperties
<1>3. /\ Len(b) = Len(v) + Len(q)
      /\ \A k \in 1 .. Len(v) + Len(q) : b[k] = IF k <= Len(v) THEN v[k] ELSE q[k - Len(v)]
  BY ConcatProperties
<1> HIDE DEF a, b
<1> DEFINE m == Len(u)
           l == Len(q)
<1>4. /\ m \in Nat /\ l \in Nat /\ Len(v) = m - 1 /\ Len(a) = m + l /\ Len(b) = m - 1 + l
      /\ \A k \in 1 .. m - 1 : v[k] = IF k < i THEN u[k] ELSE u[k + 1]
      /\ \A k \in 1 .. m + l : a[k] = IF k <= m THEN u[k] ELSE q[k - m]
      /\ \A k \in 1 .. m - 1 + l : b[k] = IF k <= m - 1 THEN v[k] ELSE q[k - (m - 1)]
  BY <1>1, <1>2, <1>3
<1>5. i \in Nat /\ 1 <= i /\ i <= m
  BY <1>1
<1> HIDE DEF m, l
<1>6. ASSUME NEW k \in 1 .. m - 1 + l
      PROVE  b[k] = IF k < i THEN a[k] ELSE a[k + 1]
  <2>1. k \in 1 .. m + l /\ k + 1 \in 1 .. m + l
    BY <1>4
  <2>2. CASE k <= m - 1
    <3>1. k \in 1 .. m - 1 /\ k <= m /\ k + 1 <= m
      BY <1>4, <2>2
    <3> QED BY <1>4, <2>1, <2>2, <3>1
  <2>3. CASE ~(k <= m - 1)
    <3>1. ~(k < i) /\ ~(k + 1 <= m) /\ (k + 1) - m = k - (m - 1)
      BY <1>4, <1>5, <2>3
    <3> QED BY <1>4, <2>1, <2>3, <3>1
  <2> QED BY <2>2, <2>3
<1>7. m - 1 + l = Len(a) - 1
  BY <1>4
<1> QED BY <1>4, <1>6, <1>7 DEF Without, a, b

\* A transaction commits: the first of its collection, so that the disk
\* goes through the states of each name in their order.
LEMMA CommitStep ==
  ASSUME IInv, NEW i \in 1 .. Len(handed), Commit(i)
  PROVE  IInv'
<1> DEFINE T == handed[i]
           k == Len(handed)
<1>1. /\ i = k => Len(current) < 1
      /\ \A j \in 1 .. i - 1 : handed[j].coll # T.coll
      /\ disk' = ApplyAll(T.ops, disk) /\ handed' = RemoveAt(handed, i)
      /\ UNCHANGED <<objs, held, reads, last, queue, current, store, phase, crashes, aborted>>
  <2>1. i = k => current = <<>>
    BY DEF Commit
  <2>2. Len(<<>>) < 1
    OBVIOUS
  <2> QED BY <2>1, <2>2 DEF Commit, engine
<1>2. /\ Types /\ Ending /\ handed \in Seq(Txns) /\ queue \in Seq(Txns) /\ current \in Seq(Ops)
      /\ \A j \in 1 .. Len(handed) : Proper(handed[j])
      /\ disk \in Contents /\ Small(disk)
  BY DEF IInv, Types
<1>3. handed' \in Seq(Txns) /\ Without(handed', handed, i)
  BY <1>1, <1>2, RemoveAtIs
<1>4. T \in Txns /\ T.ops \in Seq(Ops) /\ Proper(T)
  <2>1. T \in Txns /\ Proper(T)
    BY <1>2
  <2> QED BY <2>1 DEF Txns
<1>5. /\ k \in Nat /\ i \in Nat /\ 1 <= i /\ i <= k /\ Len(handed') = k - 1
      /\ \A j \in 1 .. k - 1 : handed'[j] = IF j < i THEN handed[j] ELSE handed[j + 1]
  <2>1. k \in Nat /\ i \in Nat /\ 1 <= i /\ i <= k
    <3>1. handed \in Seq(Txns)
      BY <1>2
    <3> QED BY <3>1
  <2>2. Without(handed', handed, i)
    BY <1>3
  <2> QED BY <2>1, <2>2 DEF Without
<1> HIDE DEF T, k
<1>6. \A j \in 1 .. Len(handed') : Proper(handed'[j])
  <2> SUFFICES ASSUME NEW j \in 1 .. k - 1
               PROVE  Proper(handed'[j])
    BY <1>5
  <2>1. j \in 1 .. k /\ j + 1 \in 1 .. k
    BY <1>5
  <2> QED BY <1>2, <1>5, <2>1 DEF k
<1>7. Settled' = Settled /\ Passing' = Passing /\ Stages' = Stages
  BY <1>1, NotPrepared
<1>8. disk' \in Contents /\ Small(disk')
  BY <1>1, <1>2, <1>4, ApplyAllTyped, ApplyAllSmall
<1>9. Types'
  BY <1>1, <1>2, <1>3, <1>6, <1>8 DEF Types
<1>10. phase # "mounted" /\ Frozen'
  <2>1. ~(Len(handed) < 1)
    BY <1>5 DEF k
  <2> QED BY <1>1, <2>1 DEF IInv, Frozen
<1>11. Len(current) > 0 => Len(handed') > 0 /\ handed'[Len(handed')] = handed[Len(handed)]
  <2> SUFFICES ASSUME Len(current) > 0
               PROVE  k - 1 > 0 /\ handed'[k - 1] = handed[k]
    BY <1>5 DEF k
  <2>1. i # k
    BY <1>1, <1>2
  <2>2. k - 1 \in 1 .. k - 1 /\ ~(k - 1 < i) /\ (k - 1) + 1 = k /\ k - 1 > 0
    BY <1>5, <2>1
  <2> QED BY <1>5, <2>2
<1>12. Ending'
  BY <1>1, <1>11 DEF IInv, Ending
<1>13. MidPut'
  BY <1>1, <1>11 DEF IInv, MidPut
<1>14. PassingTrue' /\ StagesTrue' /\ SettledTrue' /\ ObjectsTrue' /\ HeldTrue'
  BY <1>1, <1>7 DEF IInv, PassingTrue, StagesTrue, SettledTrue, ObjectsTrue, HeldTrue
<1>15. ReadsTrue'
  BY <1>1, <1>7 DEF IInv, ReadsTrue, Idle, Reading, Gone
<1>16. Answered'
  <2>1. Without(Coming', Coming, i)
    <3>1. Without(handed' \o queue, handed \o queue, i)
      BY <1>2, <1>3, WithoutMore
    <3> QED BY <1>1, <3>1 DEF Coming
  <2>2. /\ Coming \in Seq(Txns) /\ \A j \in 1 .. Len(Coming) : Proper(Coming[j])
        /\ Len(Coming) = Len(handed) + Len(queue) /\ Len(handed) \in Nat /\ Len(queue) \in Nat
        /\ \A j \in 1 .. Len(handed) : Coming[j] = handed[j]
    BY <1>2, ComingOps
  <2>3. i \in 1 .. Len(Coming) /\ \A j \in 1 .. i - 1 : j \in 1 .. Len(handed)
    BY <1>5, <2>2 DEF k
  <2>4. \A j \in 1 .. i - 1 : Coming[j].coll # Coming[i].coll
    BY <1>1, <2>2, <2>3 DEF T
  <2>5. ASSUME NEW n \in Names
        PROVE  Answers(Coming', n, objs, held)
    <3>1. Answers(Coming, n, objs, held)
      BY DEF IInv, Answered
    <3> QED BY <2>1, <2>2, <2>3, <2>4, <3>1, AnswersLess
  <2> QED BY <1>1, <2>5 DEF Answered
<1>17. DiskTrue'
  <2>1. ASSUME NEW n \in Names
        PROVE  \E h : Chain(n, h, handed', disk', ApplyAll(current, store))
    <3>1. PICK g : Chain(n, g, handed, disk, ApplyAll(current, store))
      BY DEF IInv, DiskTrue
    <3>2. /\ Proper(handed[i]) /\ \A j \in 1 .. i - 1 : handed[j].coll # handed[i].coll
      BY <1>1, <1>4 DEF T
    <3>3. \E h : Chain(n, h, handed', ApplyAll(handed[i].ops, disk), ApplyAll(current, store))
      BY <1>2, <1>3, <3>1, <3>2, ChainLess
    <3> QED BY <1>1, <3>3 DEF T
  <2> QED BY <1>1, <2>1 DEF DiskTrue
<1> QED BY <1>9, <1>10, <1>12, <1>13, <1>14, <1>15, <1>16, <1>17 DEF IInv

-----------------------------------------------------------------------------
(* Crash, mount and sweep.                                                 *)

\* A store nothing is on its way to, and nobody has an Object of.
LEMMA Resting ==
  ASSUME NEW S \in Contents, \A n \in Names : Fine(n, S),
         NEW os, \A o \in Objects : os[o] = Free,
         NEW hd, \A n \in Names : hd[n] = NoObject, NEW clock
  PROVE  /\ Seen(S, S, os, FALSE) /\ Settles(S, os, FALSE)
         /\ Stamped(S, os, hd, clock) /\ Holds(S, os, hd)
         /\ \A n \in Names : S[Ordinary(n)].ts \notin Times(n)
         /\ \A n \in Names : \E g : Chain(n, g, <<>>, S, S)
<1>1. \A o \in Objects : ~Kept(os[o]) /\ ~Placed(os[o]) /\ os[o].state = "NONE"
  BY FreeTyped DEF Kept, Placed
<1>2. \A at \in Addresses : at.name \in Names /\ Whole(S[at])
  BY AddressFacts DEF Fine
<1>3. \A n \in Names : Ordinary(n) \in Addresses /\ Sane(n, S[Ordinary(n)])
  BY AddressFacts DEF Fine
<1>4. \A n \in Names : S[Ordinary(n)].ts \in Nat /\ S[Ordinary(n)].ts <= S[Ordinary(n)].ts
  BY <1>3 DEF Contents, Entries
<1>5. Seen(S, S, os, FALSE)
  BY <1>1, <1>2, <1>3, <1>4 DEF Seen
<1>6. Settles(S, os, FALSE)
  BY <1>1, <1>3 DEF Settles
<1>7. Stamped(S, os, hd, clock)
  BY <1>1 DEF Stamped, Writing
<1>8. Holds(S, os, hd)
  BY DEF Holds
<1>9. \A n \in Names : S[Ordinary(n)].ts \notin Times(n)
  BY <1>3, EmptyEntry, Apart DEF Sane
<1>10. ASSUME NEW n \in Names
       PROVE  \E g : Chain(n, g, <<>>, S, S)
  <2> DEFINE g == [i \in {0} |-> S]
  <2>1. g[0] = S /\ 0 .. 0 = {0} /\ 1 .. 0 = {} /\ Len(<<>>) = 0
    OBVIOUS
  <2> HIDE DEF g
  <2>2. Agree(n, S, S)
    BY DEF Agree
  <2>3. Chain(n, g, <<>>, S, S)
    BY <2>1, <2>2 DEF Chain
  <2> QED BY <2>3
<1> QED BY <1>5, <1>6, <1>7, <1>8, <1>9, <1>10

\* An empty store, nobody having anything.
LEMMA InitIInv ==
  ASSUME Init
  PROVE  IInv
<1>1. /\ objs = [o \in Objects |-> Free] /\ held = [n \in Names |-> NoObject]
      /\ reads = [o \in Objects |-> NoRead] /\ last = 0
      /\ queue = <<>> /\ current = <<>> /\ handed = <<>>
      /\ store = Empty /\ disk = Empty /\ phase = "mounted" /\ crashes = 0 /\ aborted = FALSE
  BY DEF Init
<1>2. /\ Empty \in Contents /\ \A at \in Addresses : Empty[at] = NoEntry
  BY EmptyEntry DEF Empty, Contents
<1>3. Small(Empty)
  <2>1. Used(Empty) = {}
    BY <1>2 DEF Used
  <2> QED BY <2>1, FS_EmptySet DEF Small
<1>4. \A n \in Names : Fine(n, Empty)
  <2>1. Whole(NoEntry)
    <3>1. NoEntry.data = <<>> /\ Len(<<>>) = 0 /\ 1 .. 0 = {}
      BY EmptyEntry
    <3>2. <<>> = [i \in 1 .. 0 |-> NoEntry.id]
      OBVIOUS
    <3> QED BY <3>1, <3>2 DEF Whole
  <2> QED BY <1>2, <2>1, AddressFacts DEF Fine, Sane
<1>5. /\ <<>> \in Seq(Ops) /\ <<>> \in Seq(Txns) /\ Len(<<>>) < 1 /\ Len(<<>>) = 0
      /\ 1 .. 0 = {} /\ <<>> \o <<>> = <<>>
  OBVIOUS
<1>6. Types
  <2>1. objs \in [Objects -> Objs] /\ \A o \in Objects : objs[o] = Free
    BY <1>1, FreeTyped
  <2>2. held \in [Names -> Objects \cup {NoObject}]
    BY <1>1
  <2>3. reads = [o \in Objects |-> reads[o]]
    BY <1>1
  <2> QED BY <1>1, <1>2, <1>3, <1>5, <2>1, <2>2, <2>3, FreeTyped DEF Types
<1>7. Frozen
  BY <1>1, <1>5 DEF Frozen
<1>8. Ending
  BY <1>1, <1>5 DEF Ending
<1>9. Pending = <<>>
  BY <1>1, <1>5, OpsOnNone DEF Pending
<1>10. Settled = Empty /\ Passing = {Empty} /\ Stages = {}
  <2>1. Settled = ApplyAll(Pending, store)
    BY <1>6, Queued
  <2> QED BY <1>1, <1>9, <2>1, NoOps DEF Passing, Stages
<1>11. /\ Seen(Empty, Empty, objs, FALSE) /\ Settles(Empty, objs, FALSE)
       /\ Stamped(Empty, objs, held, last) /\ Holds(Empty, objs, held)
       /\ \A n \in Names : Empty[Ordinary(n)].ts \notin Times(n)
       /\ \A n \in Names : \E g : Chain(n, g, <<>>, Empty, Empty)
  <2>1. (\A o \in Objects : objs[o] = Free) /\ (\A n \in Names : held[n] = NoObject)
    BY <1>1
  <2> QED BY <1>2, <1>4, <2>1, Resting
<1>12. (phase = "serving") = FALSE /\ (phase # "mounted") = FALSE
  BY <1>1
<1>13. PassingTrue /\ StagesTrue /\ SettledTrue /\ ObjectsTrue /\ HeldTrue
  BY <1>10, <1>11, <1>12 DEF PassingTrue, StagesTrue, SettledTrue, ObjectsTrue, HeldTrue
<1>14. Answered
  BY <1>1, <1>5 DEF Answered, Answers, Coming
<1>15. MidPut
  BY <1>1, <1>11 DEF MidPut
<1>16. ReadsTrue
  BY <1>1 DEF ReadsTrue, Idle
<1>17. DiskTrue
  BY <1>1, <1>11, NoOps DEF DiskTrue
<1> QED BY <1>6, <1>7, <1>8, <1>13, <1>14, <1>15, <1>16, <1>17 DEF IInv

\* A crash: the disk is in one of the states its names go through, and
\* there nobody is in the middle of a put.
LEMMA CrashStep ==
  ASSUME IInv, Crash
  PROVE  IInv'
<1>1. /\ objs' = [o \in Objects |-> Free] /\ held' = [n \in Names |-> NoObject]
      /\ reads' = [o \in Objects |-> NoRead] /\ last' = 0
      /\ queue' = <<>> /\ current' = <<>> /\ handed' = <<>>
      /\ store' = disk /\ phase' = "mounted" /\ crashes' = crashes + 1
      /\ UNCHANGED <<disk, aborted>>
  BY DEF Crash
<1>2. disk \in Contents /\ Small(disk) /\ crashes \in Nat /\ aborted \in BOOLEAN /\ ~aborted
  BY DEF IInv, Types
<1>4. \A n \in Names : Fine(n, disk)
  <2> SUFFICES ASSUME NEW n \in Names
               PROVE  Fine(n, disk)
    OBVIOUS
  <2>1. PICK g : Chain(n, g, handed, disk, ApplyAll(current, store))
    BY DEF IInv, DiskTrue
  <2>2. Len(handed) \in Nat
    BY DEF IInv, Types
  <2>3. 0 \in 0 .. Len(handed)
    BY <2>2
  <2>4. Fine(n, g[0]) /\ Agree(n, g[0], disk)
    BY <2>1, <2>3 DEF Chain
  <2>5. Agree(n, disk, g[0])
    BY <2>4 DEF Agree
  <2> QED BY <2>4, <2>5, FineSame
<1>5. /\ <<>> \in Seq(Ops) /\ <<>> \in Seq(Txns) /\ Len(<<>>) < 1 /\ Len(<<>>) = 0
      /\ 1 .. 0 = {} /\ <<>> \o <<>> = <<>>
  OBVIOUS
<1>6. Types'
  <2>1. objs' \in [Objects -> Objs] /\ \A o \in Objects : objs'[o] = Free
    BY <1>1, FreeTyped
  <2>2. held' \in [Names -> Objects \cup {NoObject}]
    BY <1>1
  <2>3. reads' = [o \in Objects |-> reads'[o]]
    BY <1>1
  <2>4. crashes' \in Nat
    BY <1>1, <1>2
  <2>5. \A o \in Objects : objs'[o].state = "NONE" => objs'[o] = Free
    BY <2>1
  <2>6. \A o \in Objects : objs'[o].state = "NONE"
    BY <2>1, FreeTyped
  <2>7. /\ \A i \in 1 .. Len(queue') : Proper(queue'[i])
        /\ \A i \in 1 .. Len(handed') : Proper(handed'[i])
        /\ current' \in Seq(Ops) /\ queue' \in Seq(Txns) /\ handed' \in Seq(Txns)
    BY <1>1, <1>5
  <2>8. /\ store' \in Contents /\ Small(store') /\ disk' \in Contents /\ Small(disk')
        /\ last' \in Ticks \cup {0} /\ phase' \in {"mounted", "sweeping", "serving"}
        /\ aborted' \in BOOLEAN /\ ~aborted'
    BY <1>1, <1>2
  <2> QED BY <2>1, <2>2, <2>3, <2>4, <2>5, <2>6, <2>7, <2>8 DEF Types
<1>7. Frozen'
  BY <1>1, <1>5 DEF Frozen
<1>8. Ending'
  BY <1>1, <1>5 DEF Ending
<1>9. Pending' = <<>>
  <2>1. Pending' = OpsOn(current', queue')
    BY DEF Pending, OpsOn, Flat
  <2> QED BY <1>1, <1>5, <2>1, OpsOnNone
<1>10. Settled' = disk /\ Passing' = {disk} /\ Stages' = {}
  <2>1. Settled' = ApplyAll(Pending', store')
    BY DEF Settled, Pending, OpsOn, Flat
  <2> QED BY <1>1, <1>9, <2>1, NoOps DEF Passing, Stages
<1>11. /\ Seen(disk, disk, objs', FALSE) /\ Settles(disk, objs', FALSE)
       /\ Stamped(disk, objs', held', last') /\ Holds(disk, objs', held')
       /\ \A n \in Names : disk[Ordinary(n)].ts \notin Times(n)
       /\ \A n \in Names : \E g : Chain(n, g, <<>>, disk, disk)
  <2>1. (\A o \in Objects : objs'[o] = Free) /\ (\A n \in Names : held'[n] = NoObject)
    BY <1>1
  <2> QED BY <1>2, <1>4, <2>1, Resting
<1>12. (phase' = "serving") = FALSE /\ (phase' # "mounted") = FALSE
  BY <1>1
<1>13. PassingTrue' /\ StagesTrue' /\ SettledTrue' /\ ObjectsTrue' /\ HeldTrue'
  BY <1>10, <1>11, <1>12 DEF PassingTrue, StagesTrue, SettledTrue, ObjectsTrue, HeldTrue
<1>14. Answered'
  BY <1>1, <1>5 DEF Answered, Answers, Coming
<1>15. MidPut'
  BY <1>1, <1>11 DEF MidPut
<1>16. ReadsTrue'
  BY <1>1 DEF ReadsTrue, Idle
<1>17. DiskTrue'
  BY <1>1, <1>11, NoOps DEF DiskTrue
<1> QED BY <1>6, <1>7, <1>8, <1>13, <1>14, <1>15, <1>16, <1>17 DEF IInv

\* The mount ends with an empty temporary space.
LEMMA ServeStep ==
  ASSUME IInv, Serve
  PROVE  IInv'
<1>1. /\ queue = <<>> /\ current = <<>> /\ phase = "sweeping" /\ phase' = "serving"
      /\ UNCHANGED <<objs, held, reads, last, queue, current, handed, store, disk,
                     crashes, aborted>>
  BY DEF Serve, engine, bluestore
<1>2. Types /\ store \in Contents /\ \A o \in Objects : objs[o] = Free /\ reads[o] = NoRead
  BY <1>1 DEF IInv, Types, Frozen
<1>3. Settled = store /\ Passing = {store} /\ Stages = {}
  <2>1. <<>> \in Seq(Ops) /\ <<>> \in Seq(Txns) /\ Len(<<>>) < 1
    OBVIOUS
  <2>2. Pending = <<>>
    BY <1>1, <2>1, OpsOnNone DEF Pending
  <2>3. Settled = ApplyAll(Pending, store)
    BY <1>2, Queued
  <2> QED BY <2>2, <2>3, NoOps DEF Passing, Stages
<1>4. Settled' = store /\ Passing' = {store} /\ Stages' = {}
  BY <1>1, <1>3, NotPrepared
<1>5. /\ (phase = "serving") = FALSE /\ (phase # "mounted") = TRUE
      /\ (phase' = "serving") = TRUE /\ (phase' # "mounted") = TRUE
  BY <1>1
<1>6. Settles(store, objs, TRUE) /\ Seen(store, store, objs, FALSE)
  BY <1>3, <1>5 DEF IInv, SettledTrue, PassingTrue
<1>7. \A n \in Names : \A s \in Puts(n) : store[Temporary(n, s)] = NoEntry
  <2>1. \A o \in Objects : ~Kept(objs[o])
    BY <1>2, FreeTyped
  <2>2. \A n \in Names : \A s \in Puts(n) : Temporary(n, s) \in Addresses /\ Temporary(n, s).temp
    BY AddressFacts
  <2> QED BY <1>6, <2>1, <2>2 DEF Settles
<1>8. Seen(store, store, objs, TRUE)
  BY <1>6, <1>7 DEF Seen
<1>9. PassingTrue'
  BY <1>1, <1>4, <1>5, <1>8 DEF PassingTrue
<1>10. StagesTrue'
  BY <1>4 DEF StagesTrue
<1>11. SettledTrue' /\ ObjectsTrue' /\ HeldTrue'
  BY <1>1, <1>3, <1>4, <1>5, <1>6 DEF IInv, SettledTrue, ObjectsTrue, HeldTrue
<1>12. Types'
  BY <1>1, <1>2 DEF Types
<1>13. Frozen' /\ Ending' /\ MidPut'
  BY <1>1 DEF IInv, Frozen, Ending, MidPut
<1>14. Answered'
  BY <1>1 DEF IInv, Answered, Coming
<1>15. ReadsTrue'
  BY <1>1, <1>3, <1>4 DEF IInv, ReadsTrue, Idle, Reading, Gone
<1>16. DiskTrue'
  BY <1>1 DEF IInv, DiskTrue
<1> QED BY <1>9, <1>10, <1>11, <1>12, <1>13, <1>14, <1>15, <1>16 DEF IInv

\* SetToSeq lists every element of a finite set, and nothing else.
LEMMA Listed ==
  ASSUME NEW S, IsFiniteSet(S)
  PROVE  /\ SetToSeq(S) \in Seq(S) /\ Len(SetToSeq(S)) \in Nat
         /\ \A i \in 1 .. Len(SetToSeq(S)) : SetToSeq(S)[i] \in S
         /\ \A x \in S : \E i \in 1 .. Len(SetToSeq(S)) : SetToSeq(S)[i] = x
<1> DEFINE c == Cardinality(S)
           f == SetToSeq(S)
<1>1. c \in Nat /\ ExistsBijection(1 .. c, S)
  BY FS_CardinalityType
<1>2. \E g \in [1 .. c -> S] : IsInjective(g)
  BY <1>1 DEF ExistsBijection, Bijection, Injection
<1>3. f \in [1 .. c -> S] /\ IsInjective(f)
  BY <1>2 DEF SetToSeq
<1> HIDE DEF f
<1>4. f \in Seq(S) /\ Len(f) = c
  BY <1>1, <1>3
<1>5. f \in Surjection(1 .. c, S)
  <2>1. IsFiniteSet(1 .. c) /\ Cardinality(1 .. c) = c
    BY <1>1, FS_Interval
  <2>2. f \in Injection(1 .. c, S)
    BY <1>3 DEF Injection
  <2> QED BY <2>1, <2>2, FS_Injection
<1>6. \A x \in S : \E i \in 1 .. c : f[i] = x
  BY <1>5 DEF Surjection
<1> QED BY <1>1, <1>3, <1>4, <1>6 DEF f

\* The temporary space comes first, so that a scan finds all there is.
LEMMA LeftoversAre ==
  ASSUME Types, NEW c
  PROVE  Leftovers(c) = {a \in Used(store) : Collection(a.name) = c /\ a.temp}
<1> DEFINE here == {a \in Used(store) : Collection(a.name) = c}
           T == {a \in here : a.temp}
           N == {a \in here : ~a.temp}
           u == SetToSeq(T)
           v == SetToSeq(N)
           l == Listing(c)
           stop == {i \in 1 .. Len(l) : StateOf(l[i], store[l[i]]) = "ACTIVE"}
<1>1. IsFiniteSet(T) /\ IsFiniteSet(N)
  <2>1. IsFiniteSet(Used(store)) /\ T \in SUBSET Used(store) /\ N \in SUBSET Used(store)
    BY DEF Types, Small
  <2> QED BY <2>1, FS_Subset
<1>2. l = u \o v
  BY DEF Listing
<1>3. Leftovers(c) = {l[i] : i \in {j \in 1 .. Len(l) : \A k \in stop : j < k}}
  BY DEF Leftovers
<1>4. \A a \in T : a.temp
  OBVIOUS
<1>5. \A a \in N : ~a.temp
  OBVIOUS
<1>6. T = {a \in Used(store) : Collection(a.name) = c /\ a.temp}
  OBVIOUS
<1> HIDE DEF T, N
<1>7. /\ u \in Seq(T) /\ Len(u) \in Nat /\ \A i \in 1 .. Len(u) : u[i] \in T
      /\ \A x \in T : \E i \in 1 .. Len(u) : u[i] = x
  BY <1>1, Listed
<1>8. /\ v \in Seq(N) /\ Len(v) \in Nat /\ \A i \in 1 .. Len(v) : v[i] \in N
  BY <1>1, Listed
<1> HIDE DEF u, v
<1>9. /\ Len(l) = Len(u) + Len(v)
      /\ \A i \in 1 .. Len(l) : l[i] = IF i <= Len(u) THEN u[i] ELSE v[i - Len(u)]
  <2>1. u \in Seq(T \cup N) /\ v \in Seq(T \cup N)
    BY <1>7, <1>8
  <2> QED BY <1>2, <2>1, ConcatProperties
<1> HIDE DEF l
<1>10. \A i \in 1 .. Len(l) : IF i <= Len(u) THEN i \in 1 .. Len(u) /\ l[i] = u[i]
                              ELSE i - Len(u) \in 1 .. Len(v) /\ l[i] = v[i - Len(u)]
  BY <1>7, <1>8, <1>9
<1>11. \A i \in 1 .. Len(l) : i \in stop <=> ~(i <= Len(u))
  <2> TAKE i \in 1 .. Len(l)
  <2>1. CASE i <= Len(u)
    <3>1. l[i].temp
      BY <1>4, <1>7, <1>10, <2>1
    <3> QED BY <2>1, <3>1 DEF StateOf
  <2>2. CASE ~(i <= Len(u))
    <3>1. ~l[i].temp
      BY <1>5, <1>8, <1>10, <2>2
    <3> QED BY <2>2, <3>1 DEF StateOf
  <2> QED BY <2>1, <2>2
<1>12. stop \subseteq 1 .. Len(l)
  OBVIOUS
<1> HIDE DEF stop
<1>13. {j \in 1 .. Len(l) : \A k \in stop : j < k} = 1 .. Len(u)
  <2>1. ASSUME NEW j \in 1 .. Len(l), \A k \in stop : j < k
        PROVE  j \in 1 .. Len(u)
    <3>1. j \notin stop
      <4>1. ~(j < j)
        BY <1>7, <1>8, <1>9
      <4> QED BY <2>1, <4>1
    <3> QED BY <1>10, <1>11, <3>1
  <2>2. ASSUME NEW j \in 1 .. Len(u)
        PROVE  j \in 1 .. Len(l) /\ \A k \in stop : j < k
    <3>1. j \in 1 .. Len(l)
      BY <1>7, <1>8, <1>9
    <3>2. ASSUME NEW k \in stop
          PROVE  j < k
      <4>1. k \in 1 .. Len(l) /\ ~(k <= Len(u))
        BY <1>11, <1>12
      <4> QED BY <1>7, <1>8, <1>9, <4>1
    <3> QED BY <3>1, <3>2
  <2> QED BY <2>1, <2>2
<1>14. \A i \in 1 .. Len(u) : l[i] = u[i]
  BY <1>7, <1>8, <1>9
<1>15. {l[i] : i \in 1 .. Len(u)} = T
  BY <1>7, <1>14
<1> QED BY <1>3, <1>6, <1>13, <1>15

\* What the sweep prepares are transactions that remove.
LEMMA SweepingTyped ==
  ASSUME NEW gone \in Seq(Addresses)
  PROVE  /\ Sweeping(gone) \in Seq(Txns) /\ Len(Sweeping(gone)) = Len(gone) /\ Len(gone) \in Nat
         /\ \A i \in 1 .. Len(gone) :
               /\ gone[i] \in Addresses /\ Unlink(gone[i]) \in Ops
               /\ Sweeping(gone)[i].ops = <<Unlink(gone[i])>>
               /\ Given(Sweeping(gone)[i]) = {Unlink(gone[i])}
               /\ Proper(Sweeping(gone)[i])
<1> DEFINE q == Sweeping(gone)
<1>1. Len(gone) \in Nat /\ \A i \in 1 .. Len(gone) : gone[i] \in Addresses
  OBVIOUS
<1>2. \A i \in 1 .. Len(gone) : q[i] = Txn(gone[i].name, NoObject, <<Unlink(gone[i])>>)
  BY DEF Sweeping
<1>3. ASSUME NEW i \in 1 .. Len(gone)
      PROVE  /\ gone[i] \in Addresses /\ Unlink(gone[i]) \in Ops
             /\ q[i] \in Txns /\ q[i].ops = <<Unlink(gone[i])>>
             /\ Given(q[i]) = {Unlink(gone[i])} /\ Proper(q[i])
  <2> DEFINE a == gone[i]
             d == Unlink(a)
             T == q[i]
  <2>1. a \in Addresses /\ a.name \in Names
    BY <1>1, AddressFacts
  <2>2. d \in Ops /\ d.op = "remove" /\ d.at = a
    BY <2>1, OpsTyped
  <2>3. T = Txn(a.name, NoObject, <<d>>)
    BY <1>2
  <2> HIDE DEF a, d, T
  <2>4. T.coll = Collection(a.name) /\ T.of = NoObject /\ T.ops = <<d>>
    BY <2>3 DEF Txn
  <2>5. T \in Txns
    <3>1. <<d>> \in Seq(Ops)
      BY <2>2
    <3> QED BY <2>1, <2>3, <3>1 DEF Txn, Txns
  <2>6. Len(T.ops) = 1 /\ T.ops[1] = d
    BY <2>4
  <2>7. Given(T) = {d}
    BY <2>6 DEF Given
  <2>8. d \in OpsOf(a.name)
    BY <2>2 DEF OpsOf
  <2>9. Proper(T)
    BY <2>1, <2>2, <2>4, <2>6, <2>7, <2>8 DEF Proper
  <2> QED BY <2>1, <2>2, <2>4, <2>5, <2>7, <2>9 DEF a, d, T
<1>4. q = [i \in 1 .. Len(gone) |-> q[i]]
  BY DEF Sweeping
<1> HIDE DEF q
<1>5. q \in Seq(Txns) /\ Len(q) = Len(gone)
  BY <1>1, <1>3, <1>4
<1> QED BY <1>1, <1>3, <1>5 DEF q

\* Once all of them have been, nothing is left at any of the addresses.
LEMMA SweptClean ==
  ASSUME NEW gone \in Seq(Addresses), NEW st \in Contents
  PROVE  \A j \in 1 .. Len(gone) : ApplyAll(Flat(Sweeping(gone)), st)[gone[j]] = NoEntry
<1> DEFINE q == Sweeping(gone)
           m == Len(gone)
           part(i) == SubSeq(q, 1, i)
           P == {i \in 0 .. m : \A j \in 1 .. i : ApplyAll(Flat(part(i)), st)[gone[j]] = NoEntry}
<1>1. /\ q \in Seq(Txns) /\ Len(q) = m /\ m \in Nat
      /\ \A i \in 1 .. m : /\ gone[i] \in Addresses /\ Unlink(gone[i]) \in Ops
                           /\ q[i].ops = <<Unlink(gone[i])>>
  BY SweepingTyped
<1> HIDE DEF q, m
<1>2. 0 \in P
  BY <1>1
<1>3. ASSUME NEW i \in 0 .. m - 1, i \in P
      PROVE  i + 1 \in P
  <2> DEFINE s == part(i)
             T == q[i + 1]
             a == gone[i + 1]
             d == Unlink(a)
             X == ApplyAll(Flat(s), st)
             Y == ApplyAll(Flat(part(i + 1)), st)
  <2>1. /\ i \in Nat /\ i + 1 \in 1 .. m /\ i + 1 \in 0 .. m /\ (i + 1) - 1 = i /\ m \in Nat
        /\ 1 \in 1 .. m /\ 1 <= i + 1
    BY <1>1
  <2>2. s \in Seq(Txns) /\ T \in Txns
    BY <1>1, <2>1
  <2>3. part(i + 1) = Append(s, T)
    <3>1. part(i + 1) = SubSeq(q, 1, (i + 1) - 1) \o <<q[i + 1]>>
      BY <1>1, <2>1, SubSeqRecursiveSecond
    <3>2. \A u \in Seq(Txns), x \in Txns : u \o <<x>> = Append(u, x)
      OBVIOUS
    <3> QED BY <2>1, <2>2, <3>1, <3>2
  <2>4. a \in Addresses /\ d \in Ops /\ d.op = "remove" /\ d.at = a /\ T.ops = <<d>>
    BY <1>1, <2>1, OpsTyped
  <2>5. Flat(s) \in Seq(Ops) /\ <<d>> \in Seq(Ops)
    <3>1. \A j \in 1 .. Len(s) : s[j].ops \in Seq(Ops)
      BY <2>2, TxnOps
    <3> QED BY <2>2, <2>4, <3>1, FlatTyped, OneOp
  <2>6. Flat(Append(s, T)) = Flat(s) \o T.ops
    BY <2>2, FlatAppend
  <2>7. X \in Contents
    BY <2>5, ApplyAllTyped
  <2>8. Y = Apply(d, X)
    <3>1. ApplyAll(Flat(s) \o <<d>>, st) = ApplyAll(<<d>>, X)
      <4>1. \A u, v \in Seq(Ops) : ApplyAll(u \o v, st) = ApplyAll(v, ApplyAll(u, st))
        BY PassingCat
      <4> QED BY <2>5, <4>1
    <3>2. ApplyAll(<<d>>, X) = Apply(d, X)
      BY <2>4, OneOp
    <3> QED BY <2>3, <2>4, <2>6, <3>1, <3>2
  <2>9. \A j \in 1 .. i : X[gone[j]] = NoEntry
    BY <1>3
  <2> HIDE DEF X, Y, d, s, part
  <2>10. Y[a] = NoEntry /\ \A b \in Addresses : b # a => Y[b] = X[b]
    BY <2>4, <2>7, <2>8, ApplyRemove
  <2>11. ASSUME NEW j \in 1 .. i + 1
         PROVE  Y[gone[j]] = NoEntry
    <3>1. CASE gone[j] = a
      BY <2>10, <3>1
    <3>2. CASE gone[j] # a
      <4>1. j \in 1 .. i /\ j \in 1 .. m
        BY <2>1, <3>2
      <4> QED BY <1>1, <2>9, <2>10, <3>2, <4>1
    <3> QED BY <3>1, <3>2
  <2> QED BY <2>1, <2>11 DEF Y
<1> HIDE DEF P
<1>4. \A i \in 0 .. m : i \in P
  BY <1>1, <1>2, <1>3, Upto
<1>5. m \in P /\ part(m) = q
  <2>1. m \in 0 .. m
    BY <1>1
  <2>2. \A s \in Seq(Txns) : SubSeq(s, 1, Len(s)) = s
    OBVIOUS
  <2> QED BY <1>1, <1>4, <2>1, <2>2
<1> QED BY <1>5 DEF P, q, m

\* The sweep: removals of all there is in the temporary space, and of
\* nothing that holds a name.
LEMMA SweepStep ==
  ASSUME IInv, Sweep
  PROVE  IInv'
<1> DEFINE L == UNION {Leftovers(Collection(n)) : n \in Names}
           gone == SetToSeq(L)
           q == Sweeping(gone)
           B == {Unlink(a) : a \in L}
           F == ApplyAll(Flat(q), store)
<1>1. /\ phase = "mounted" /\ phase' = "sweeping" /\ queue' = queue \o q
      /\ UNCHANGED <<objs, held, reads, last, current, handed, store, disk, crashes, aborted>>
  BY DEF Sweep, Sweeping, engine
<1>2. /\ Types /\ store \in Contents /\ Small(store)
      /\ current \in Seq(Ops) /\ queue \in Seq(Txns) /\ handed \in Seq(Txns)
      /\ \A o \in Objects : objs[o] = Free /\ reads[o] = NoRead
      /\ \A n \in Names : held[n] = NoObject
      /\ Len(queue) < 1 /\ Len(current) < 1 /\ Len(handed) < 1
  BY <1>1 DEF IInv, Types, Frozen
<1>3. queue = <<>> /\ current = <<>> /\ handed = <<>>
  BY <1>2, EmptySeq
<1>4. L = {a \in Used(store) : a.temp}
  <2>1. \A n \in Names : Leftovers(Collection(n)) =
           {a \in Used(store) : Collection(a.name) = Collection(n) /\ a.temp}
    BY <1>2, LeftoversAre
  <2>2. \A a \in Used(store) : a.name \in Names
    BY AddressFacts DEF Used
  <2> QED BY <2>1, <2>2
<1>5. L \subseteq Addresses /\ IsFiniteSet(L)
  <2>1. L \in SUBSET Used(store) /\ Used(store) \subseteq Addresses
    BY <1>4 DEF Used
  <2> QED BY <1>2, <2>1, FS_Subset DEF Small
<1> HIDE DEF L
<1>6. /\ gone \in Seq(Addresses) /\ Len(gone) \in Nat
      /\ \A i \in 1 .. Len(gone) : gone[i] \in L
      /\ \A a \in L : \E i \in 1 .. Len(gone) : gone[i] = a
  <2>1. /\ gone \in Seq(L) /\ Len(gone) \in Nat
        /\ \A i \in 1 .. Len(gone) : gone[i] \in L
        /\ \A a \in L : \E i \in 1 .. Len(gone) : gone[i] = a
    BY <1>5, Listed
  <2> HIDE DEF gone
  <2> QED BY <1>5, <2>1
<1> HIDE DEF gone
<1>7. /\ q \in Seq(Txns) /\ Len(q) = Len(gone)
      /\ \A i \in 1 .. Len(gone) : Given(q[i]) = {Unlink(gone[i])} /\ Proper(q[i])
      /\ \A i \in 1 .. Len(gone) : Unlink(gone[i]) \in Ops
  BY <1>6, SweepingTyped
<1>8. queue' = q /\ Coming' = q
  <2> HIDE DEF q
  <2>1. <<>> \o q = q
    BY <1>7, ConcatEmptySeq
  <2> QED BY <1>1, <1>3, <2>1 DEF Coming
<1>9. \A a \in L : ApplyAll(Flat(q), store)[a] = NoEntry
  BY <1>2, <1>6, SweptClean
<1> HIDE DEF q
<1>10. \A d \in B : d \in Ops /\ d.op = "remove" /\ d.at \in L /\ d.at.temp /\ d.at \in Addresses
  BY <1>4, <1>5, OpsTyped
<1>11. \A i \in 1 .. Len(q) : Given(q[i]) \subseteq B /\ Proper(q[i])
  BY <1>6, <1>7
<1> HIDE DEF B
<1>12. Pending' = OpsOn(<<>>, q) /\ OpsOn(<<>>, q) = Flat(q) /\ Flat(q) \in Seq(Ops)
  <2>1. \A i \in 1 .. Len(q) : q[i].ops \in Seq(Ops)
    BY <1>7, TxnOps
  <2>2. Flat(q) \in Seq(Ops)
    BY <1>7, <2>1, FlatTyped
  <2>3. OpsOn(<<>>, q) = Flat(q)
    BY <2>2, ConcatEmptySeq DEF OpsOn
  <2>4. Pending' = OpsOn(current', queue')
    BY DEF Pending, OpsOn, Flat
  <2> QED BY <1>1, <1>3, <1>8, <2>2, <2>3, <2>4
<1>13. \A i \in 1 .. Len(Flat(q)) : Flat(q)[i] \in B
  <2>1. <<>> \in Seq(Ops) /\ B \in SUBSET Ops /\ \A i \in 1 .. Len(<<>>) : <<>>[i] \in B
    BY <1>10
  <2> QED BY <1>7, <1>11, <1>12, <2>1, OpsOnFrom
<1>14. /\ Settled' = F /\ Passing' = PassingOf(Flat(q), store) /\ Stages' = StagesOf(Flat(q), store)
  <2>1. Settled' = ApplyAll(Pending', store')
    BY DEF Settled, Pending, OpsOn, Flat
  <2> QED BY <1>1, <1>12, <2>1 DEF Passing, Stages
<1> DEFINE Q == {S \in Contents : \A at \in Addresses :
                    S[at] = store[at] \/ (at.temp /\ S[at] = NoEntry)}
<1>15. /\ Passing' \subseteq Q /\ F \in Q
       /\ \A g \in Stages' : g[1] \in Passing' /\ g[2] \in B
  <2>1. store \in Q
    BY <1>2
  <2>2. ASSUME NEW S \in Q, NEW d \in B
        PROVE  Apply(d, S) \in Q
    <3>1. /\ Apply(d, S) \in Contents /\ Apply(d, S)[d.at] = NoEntry
          /\ \A a \in Addresses : a # d.at => Apply(d, S)[a] = S[a]
      BY <1>10, ApplyRemove
    <3> QED BY <1>10, <3>1
  <2>3. \A g \in StagesOf(Flat(q), store) : g[2] \in B /\ g[1] \in PassingOf(Flat(q), store)
    <3> DEFINE ops == Flat(q)
    <3>1. \A g \in StagesOf(ops, store) : \E k \in 1 .. Len(ops) : g[2] = ops[k]
      BY DEF StagesOf
    <3>2. \A g \in StagesOf(ops, store) : g[1] \in PassingOf(ops, store)
      BY <1>12, StagesTyped
    <3> QED BY <1>13, <3>1, <3>2
  <2>4. \A S \in Q, d \in Ops : <<S, d>> \in StagesOf(Flat(q), store) => Apply(d, S) \in Q
    <3> HIDE DEF Q
    <3> TAKE S \in Q, d \in Ops
    <3> DEFINE g == <<S, d>>
    <3>1. g[2] = d
      OBVIOUS
    <3> HIDE DEF g
    <3>2. g \in StagesOf(Flat(q), store) => d \in B
      BY <2>3, <3>1
    <3> QED BY <2>2, <3>2 DEF g
  <2> HIDE DEF Q
  <2>5. PassingOf(Flat(q), store) \subseteq Q /\ ApplyAll(Flat(q), store) \in Q
    BY <1>12, <2>1, <2>4, AllTheWay
  <2> QED BY <1>14, <2>3, <2>5
<1>16. (phase = "serving") = FALSE /\ (phase # "mounted") = FALSE
       /\ (phase' = "serving") = FALSE /\ (phase' # "mounted") = TRUE
  BY <1>1
<1>17. Seen(store, Settled, objs, FALSE) /\ \A n \in Names : Sane(n, store[Ordinary(n)])
  <2>1. store \in Passing /\ Seen(store, Settled, objs, FALSE)
    BY <1>2, <1>16, Queued DEF IInv, PassingTrue
  <2>2. \A n \in Names : store[Ordinary(n)].ts \notin Times(n)
    BY <1>2 DEF IInv, MidPut
  <2> QED BY <2>1, <2>2 DEF Seen
<1>18. \A S \in Q, n \in Names :
          S[Ordinary(n)] = store[Ordinary(n)] /\ Ordinary(n) \in Addresses
  BY AddressFacts
<1>19. \A o \in Objects : ~Kept(objs[o]) /\ ~Placed(objs[o]) /\ objs[o].state = "NONE"
  <2>1. Free.state = "NONE"
    BY FreeTyped
  <2>2. \A o \in Objects : objs[o].state = "NONE"
    BY <1>2, <2>1
  <2> QED BY <2>2 DEF Kept, Placed
<1>20. \A n \in Names : store[Ordinary(n)].ts \in Nat /\ store[Ordinary(n)].ts <= store[Ordinary(n)].ts
                        /\ store[Ordinary(n)].ts \notin Times(n)
  <2>1. \A n \in Names : store[Ordinary(n)].ts \in Nat
    BY <1>2, AddressFacts DEF Contents, Entries
  <2>2. \A n \in Names : store[Ordinary(n)].ts \notin Times(n)
    BY <1>2 DEF IInv, MidPut
  <2> QED BY <2>1, <2>2
<1>21. Whole(NoEntry)
  <2>1. NoEntry.data = <<>> /\ Len(<<>>) = 0 /\ 1 .. 0 = {}
    BY EmptyEntry
  <2>2. <<>> = [i \in 1 .. 0 |-> NoEntry.id]
    OBVIOUS
  <2> QED BY <2>1, <2>2 DEF Whole
<1>22. \A S \in Q : Seen(S, F, objs, FALSE)
  <2> TAKE S \in Q
  <2>1. \A at \in Addresses : Whole(S[at])
    <3>1. \A at \in Addresses : S[at] = store[at] \/ S[at] = NoEntry
      OBVIOUS
    <3> QED BY <1>17, <1>21, <3>1 DEF Seen
  <2>2. \A n \in Names : Sane(n, S[Ordinary(n)]) /\ S[Ordinary(n)].ts <= F[Ordinary(n)].ts
    <3>1. \A n \in Names : S[Ordinary(n)] = store[Ordinary(n)] /\ F[Ordinary(n)] = store[Ordinary(n)]
      <4> HIDE DEF Q, F
      <4> QED BY <1>15, <1>18
    <3> QED BY <1>17, <1>20, <3>1
  <2>3. S \in Contents
    OBVIOUS
  <2> HIDE DEF Q, F
  <2> QED BY <1>19, <2>1, <2>2, <2>3 DEF Seen
<1>23. PassingTrue'
  <2> HIDE DEF Q, F
  <2> QED BY <1>1, <1>14, <1>15, <1>16, <1>22 DEF PassingTrue
<1>24. StagesTrue'
  <2> SUFFICES ASSUME NEW g \in Stages'
               PROVE  Due(g[1], g[2], Settled', objs', FALSE)
    BY <1>16 DEF StagesTrue
  <2>1. g[1] \in Q /\ g[2] \in B
    BY <1>15
  <2> DEFINE S == g[1]
             d == g[2]
  <2>2. S \in Q /\ d.op = "remove" /\ d.at.temp
    BY <1>10, <2>1
  <2> HIDE DEF Q, F
  <2>3. \A n \in Names : S[Ordinary(n)].ts \notin Times(n)
    BY <1>18, <1>20, <2>2
  <2> HIDE DEF S, d
  <2>4. Due(S, d, Settled', objs', FALSE)
    BY <2>2, <2>3 DEF Due
  <2> QED BY <2>4 DEF S, d
<1>25. SettledTrue'
  <2>1. \A n \in Names : Sane(n, F[Ordinary(n)])
    <3> HIDE DEF Q, F
    <3> QED BY <1>15, <1>17, <1>18
  <2>2. \A at \in Addresses : at.temp => F[at] = NoEntry
    <3> SUFFICES ASSUME NEW at \in Addresses, at.temp
                 PROVE  F[at] = NoEntry
      OBVIOUS
    <3>1. CASE at \in L
      BY <1>9, <3>1
    <3>2. CASE at \notin L
      <4>1. store[at] = NoEntry
        BY <1>4, <3>2 DEF Used
      <4>2. F[at] = store[at] \/ F[at] = NoEntry
        <5> HIDE DEF F
        <5> QED BY <1>15
      <4> QED BY <4>1, <4>2
    <3> QED BY <3>1, <3>2
  <2> HIDE DEF F
  <2>3. Settles(F, objs, TRUE)
    BY <1>19, <2>1, <2>2 DEF Settles
  <2> QED BY <1>1, <1>14, <1>16, <2>3 DEF SettledTrue
<1> HIDE DEF Q, F
<1>26. ObjectsTrue' /\ HeldTrue'
  BY <1>1, <1>2, <1>19 DEF ObjectsTrue, HeldTrue, Stamped, Holds, Writing
<1>27. Types'
  <2>1. queue' \in Seq(Txns) /\ \A i \in 1 .. Len(queue') : Proper(queue'[i])
    BY <1>7, <1>8
  <2> QED BY <1>1, <1>2, <2>1 DEF Types
<1>28. Frozen' /\ Ending' /\ MidPut'
  BY <1>1, <1>2 DEF IInv, Frozen, Ending, MidPut
<1>29. Answered'
  <2>1. ASSUME NEW n \in Names, NEW i \in 1 .. Len(q)
        PROVE  ~Touches(q[i], n) /\ ~Moves(q[i], n)
    <3>1. \A d \in Given(q[i]) : d.op = "remove" /\ d.at.temp
      BY <1>10, <1>11
    <3>2. ~Ordinary(n).temp
      BY AddressFacts
    <3> QED BY <3>1, <3>2 DEF Touches, Moves, On
  <2> QED BY <1>8, <2>1 DEF Answered, Answers
<1>30. ReadsTrue'
  BY <1>1, <1>2 DEF ReadsTrue, Idle
<1>31. DiskTrue'
  BY <1>1 DEF IInv, DiskTrue
<1> QED BY <1>23, <1>24, <1>25, <1>26, <1>27, <1>28, <1>29, <1>30, <1>31 DEF IInv

-----------------------------------------------------------------------------
(* Every step.                                                             *)

\* A step that changes nothing.
LEMMA StutterStep ==
  ASSUME IInv, UNCHANGED vars
  PROVE  IInv'
<1>1. UNCHANGED <<objs, held, reads, last, queue, current, handed, store, disk, phase,
                  crashes, aborted>>
  BY DEF vars, engine, bluestore
<1>2. UNCHANGED <<bluestore, phase, crashes, aborted>>
  BY DEF vars
<1>3. /\ Ending' /\ MidPut' /\ DiskTrue'
      /\ Coming' = Coming /\ Settled' = Settled /\ Passing' = Passing /\ Stages' = Stages
  BY <1>2, SameStore
<1>4. Types' /\ Frozen'
  BY <1>1 DEF IInv, Types, Frozen
<1>5. PassingTrue' /\ StagesTrue' /\ SettledTrue' /\ ObjectsTrue' /\ HeldTrue'
  BY <1>1, <1>3 DEF IInv, PassingTrue, StagesTrue, SettledTrue, ObjectsTrue, HeldTrue
<1>6. Answered'
  BY <1>1, <1>3 DEF IInv, Answered
<1>7. ReadsTrue'
  BY <1>1, <1>3 DEF IInv, ReadsTrue, Idle, Reading, Gone
<1> QED BY <1>3, <1>4, <1>5, <1>6, <1>7 DEF IInv

\* Every step keeps the stronger invariant.
LEMMA NextStep ==
  ASSUME IInv, Next, Divided
  PROVE  IInv'
<1>1. CASE \E o \in Objects, n \in Names : Find(o, n)
  BY <1>1, FindStep
<1>2. CASE \E o \in Objects, n \in Names, tick \in Ticks : Create(o, n, tick)
  BY <1>2, CreateStep DEF Divided
<1>3. CASE \E o \in Objects : Open(o)
  BY <1>3, OpenStep
<1>4. CASE \E o \in Objects : Write(o)
  <2>1. PICK o \in Objects : Write(o)
    BY <1>4
  <2>2. objs[o].state \in Writing
    BY <2>1 DEF Write
  <2>3. CASE objs[o].state = "PRE_WRITE"
    BY <2>1, <2>3, WriteFirstStep
  <2>4. CASE objs[o].state = "IN_WRITE"
    BY <2>1, <2>4, WriteMoreStep
  <2> QED BY <2>2, <2>3, <2>4 DEF Writing
<1>5. CASE \E o \in Objects : Drop(o)
  <2>1. PICK o \in Objects : Drop(o)
    BY <1>5
  <2>2. CASE objs[o].state \in {"IN_WRITE", "OLD"}
    BY <2>1, <2>2, DropRemovesStep
  <2>3. CASE objs[o].state \notin {"IN_WRITE", "OLD"}
    BY <2>1, <2>3, DropIdleStep
  <2> QED BY <2>2, <2>3
<1>6. CASE \E o \in Objects, deleted \in BOOLEAN : WriteMetadata(o, deleted)
  <2>1. PICK o \in Objects, deleted \in BOOLEAN : WriteMetadata(o, deleted)
    BY <1>6
  <2>2. CASE objs[o].state = "PRE_WRITE"
    BY <2>1, <2>2, MetaFirstStep
  <2>3. CASE objs[o].state # "PRE_WRITE"
    BY <2>1, <2>3, MetaMoreStep
  <2> QED BY <2>2, <2>3
<1>7. CASE \E o \in Objects, ts \in Stamps : Put(o, ts)
  BY <1>7, PutStep DEF Divided
<1>8. CASE \E o \in Objects : ReadStart(o)
  BY <1>8, ReadStartStep
<1>9. CASE \E o \in Objects : ReadBytes(o)
  BY <1>9, ReadBytesStep
<1>10. CASE \E o \in Objects : Check(o)
  BY <1>10, CheckStep
<1>11. CASE \E o \in Objects : ReadEnd(o)
  BY <1>11, ReadEndStep
<1>12. CASE HandNext
  BY <1>12, HandNextStep
<1>13. CASE ApplyOne
  BY <1>13, ApplyOneStep
<1>14. CASE Crash
  BY <1>14, CrashStep
<1>15. CASE Sweep
  BY <1>15, SweepStep
<1>16. CASE Serve
  BY <1>16, ServeStep
<1>17. CASE \E i \in 1 .. Len(handed) : Commit(i)
  BY <1>17, CommitStep
<1> QED BY <1>1, <1>2, <1>3, <1>4, <1>5, <1>6, <1>7, <1>8, <1>9, <1>10, <1>11, <1>12,
           <1>13, <1>14, <1>15, <1>16, <1>17 DEF Next

(* The theorems are about the behaviours that are Unmet: no put of a name  *)
(* takes a time with which an Object of that name was created. Whatever    *)
(* Stamps and Ticks are and have in common, Brought is any division of     *)
(* them; the rest of Spec is free.                                         *)

(* The stronger invariant, which every step of theirs keeps. *)
THEOREM IInvAlways ==
  Spec /\ Unmet => []IInv
<1>1. Init => IInv
  BY InitIInv
<1>2. IInv /\ [Next]_vars /\ [Divided]_vars => IInv'
  BY NextStep, StutterStep
<1> QED BY <1>1, <1>2, PTL DEF Spec, Unmet

\* It says at least as much as the four properties.
LEMMA IInvSays ==
  ASSUME IInv
  PROVE  EngineInv /\ ObjectsAreTrue /\ NoLitter /\ ReadsOwnBytes
<1>1. EngineInv
  <2>1. \A o \in Objects : objs[o] = Free \/ objs[o].name \in Names
    BY DEF IInv, Types, Objs
  <2>2. \A o \in Objects : ~Idle(o) => objs[o].state \in {"ACTIVE", "OLD"}
    BY DEF IInv, ReadsTrue, Reading, Placed
  <2>3. \A o \in Objects : objs[o].state \in {"ACTIVE", "MISSING", "PRE_SEARCH"} =>
           held[objs[o].name] = o \/ objs[o].state = "MISSING"
    BY DEF IInv, ObjectsTrue, Stamped
  <2>4. \A n \in Names : held[n] # NoObject =>
           objs[held[n]].state \in {"PRE_SEARCH", "MISSING", "ACTIVE"}
    BY DEF IInv, HeldTrue, Holds
  <2>5. /\ last \in Ticks \cup {0} /\ phase \in {"mounted", "sweeping", "serving"}
        /\ aborted \in BOOLEAN /\ ~aborted
    BY DEF IInv, Types
  <2> QED BY <2>1, <2>2, <2>3, <2>4, <2>5 DEF EngineInv, TypeOK
<1>2. ObjectsAreTrue
  BY DEF IInv, SettledTrue, Settles, ObjectsAreTrue, Alive, Kept, Told
<1>3. NoLitter
  <2> SUFFICES ASSUME Running
               PROVE  \A at \in Used(Settled) : at.temp =>
                         \E o \in Objects : Alive(o) /\ Address(objs[o]) = at
    BY DEF NoLitter
  <2>1. (phase # "mounted") = TRUE
    BY DEF Running
  <2>2. Settles(Settled, objs, TRUE)
    BY <2>1 DEF IInv, SettledTrue
  <2> QED BY <2>2 DEF Settles, Used, Alive, Kept
<1>4. ReadsOwnBytes
  BY DEF IInv, ReadsTrue, Reading, ReadsOwnBytes, Bytes
<1> QED BY <1>1, <1>2, <1>3, <1>4

(* Unless a put takes a time that an Object of its name was created with:  *)
(* whatever is prepared, in whatever order the steps of its callers fall,  *)
(* BlueStore can do. No rename of a put lands on an entry, nothing is      *)
(* saved to an entry that is not there (backend.cpp, put and save).        *)
THEOREM EngineInvAlways ==
  Spec /\ Unmet => []EngineInv
BY IInvAlways, IInvSays, PTL

(* Under the same condition what an Object knows of itself is what the     *)
(* store will say of it once everything prepared has reached it: its entry *)
(* is where its state and stamp say, with its own bytes, all of them       *)
(* (object.cpp and backend.cpp).                                           *)
THEOREM ObjectsAreTrueAlways ==
  Spec /\ Unmet => []ObjectsAreTrue
BY IInvAlways, IInvSays, PTL

(* And, under it, while requests are served, everything in the temporary   *)
(* space has an Object that will remove it: what a crash left was swept,   *)
(* what nobody holds was removed (backend.cpp, sweep and remove).          *)
THEOREM NoLitterAlways ==
  Spec /\ Unmet => []NoLitter
BY IInvAlways, IInvSays, PTL

(* And, under it, a read that succeeds returns the bytes of its Object,    *)
(* all of them and no other's, though address, bytes and check are taken   *)
(* at three different times (object.cpp, read).                            *)
THEOREM ReadsOwnBytesAlways ==
  Spec /\ Unmet => []ReadsOwnBytes
BY IInvAlways, IInvSays, PTL

-----------------------------------------------------------------------------
(* That the engine keeps the promise of NameStore.  A name's story is told *)
(* transaction by transaction, from what is on disk to what is prepared.   *)

\* There is a function that tells it.
LEMMA TaleExists ==
  ASSUME NEW n, NEW ts, NEW st, NEW m \in Nat
  PROVE  \E f : Tale(f, n, ts, st, m)
<1> DEFINE P == {k \in Nat : \E f : Tale(f, n, ts, st, k)}
           start == [st |-> st, line |-> <<VersionAt(n, st)>>]
<1> HIDE DEF start
<1>1. 0 \in P
  <2> DEFINE f == [i \in 0 .. 0 |-> start]
  <2>1. f = [i \in 0 .. 0 |-> IF i = 0 THEN start ELSE Extended(n, f[i - 1], ts[i].ops)]
    OBVIOUS
  <2>2. Tale(f, n, ts, st, 0)
    BY <2>1 DEF Tale, start
  <2> QED BY <2>2
<1>2. ASSUME NEW k \in 0 .. m - 1, k \in P
      PROVE  k + 1 \in P
  <2>1. k \in Nat /\ k + 1 \in Nat
    OBVIOUS
  <2>2. PICK f : Tale(f, n, ts, st, k)
    BY <1>2
  <2> DEFINE h == [i \in 0 .. k + 1 |-> IF i = k + 1 THEN Extended(n, f[k], ts[i].ops)
                                        ELSE f[i]]
  <2>3. \A i \in 0 .. k : f[i] = IF i = 0 THEN start ELSE Extended(n, f[i - 1], ts[i].ops)
    BY <2>2 DEF Tale, start
  <2>4. \A i \in 0 .. k + 1 : h[i] = IF i = 0 THEN start ELSE Extended(n, h[i - 1], ts[i].ops)
    <3> TAKE i \in 0 .. k + 1
    <3>1. CASE i = k + 1
      <4>1. i # 0 /\ i - 1 = k /\ k \in 0 .. k + 1 /\ k # k + 1
        BY <2>1, <3>1
      <4> QED BY <3>1, <4>1
    <3>2. CASE i # k + 1
      <4>1. i \in 0 .. k /\ h[i] = f[i]
        BY <2>1, <3>2
      <4>2. i # 0 => /\ i - 1 \in 0 .. k + 1 /\ i - 1 # k + 1
                     /\ h[i - 1] = f[i - 1]
        BY <2>1, <3>2
      <4> HIDE DEF h
      <4> QED BY <2>3, <4>1, <4>2
    <3> QED BY <3>1, <3>2
  <2>5. h = [i \in 0 .. k + 1 |-> h[i]]
    OBVIOUS
  <2> HIDE DEF h
  <2>6. h = [i \in 0 .. k + 1 |-> IF i = 0 THEN start ELSE Extended(n, h[i - 1], ts[i].ops)]
    BY <2>4, <2>5
  <2>7. Tale(h, n, ts, st, k + 1)
    BY <2>6 DEF Tale, start
  <2> QED BY <2>1, <2>7
<1> HIDE DEF P
<1>3. m \in 0 .. m
  OBVIOUS
<1>4. m \in P
  BY <1>1, <1>2, <1>3, Upto
<1> QED BY <1>4 DEF P

\* Story is how it ends.
LEMMA StoryTold ==
  ASSUME NEW n, NEW ts, NEW st, Len(ts) \in Nat
  PROVE  \E f : Tale(f, n, ts, st, Len(ts)) /\ Story(n, ts, st) = f[Len(ts)]
<1> DEFINE f == CHOOSE f : f = [i \in 0 .. Len(ts) |->
                              IF i = 0 THEN [st |-> st, line |-> <<VersionAt(n, st)>>]
                              ELSE Extended(n, f[i - 1], ts[i].ops)]
<1>1. Story(n, ts, st) = f[Len(ts)]
  BY DEF Story
<1>2. \E g : g = [i \in 0 .. Len(ts) |->
                              IF i = 0 THEN [st |-> st, line |-> <<VersionAt(n, st)>>]
                              ELSE Extended(n, g[i - 1], ts[i].ops)]
  <2>1. PICK g : Tale(g, n, ts, st, Len(ts))
    BY TaleExists
  <2> QED BY <2>1 DEF Tale
<1>3. Tale(f, n, ts, st, Len(ts))
  BY <1>2 DEF Tale
<1> QED BY <1>1, <1>3

\* What any entry shows of itself.
LEMMA VersionTyped ==
  ASSUME NEW n \in Names, NEW st \in Contents
  PROVE  VersionAt(n, st) \in Versioned
<1>1. st[Ordinary(n)] \in Entries
  BY AddressFacts DEF Contents
<1>2. Len(st[Ordinary(n)].data) \in Nat
  BY <1>1 DEF Entries
<1> QED BY <1>1, <1>2 DEF VersionAt, Entries, Versioned

\* States that say the same of a name show the same version of it.
LEMMA VersionSame ==
  ASSUME NEW n \in Names, NEW a, NEW b, Agree(n, a, b)
  PROVE  VersionAt(n, a) = VersionAt(n, b)
<1>1. Ordinary(n) \in Addresses /\ Ordinary(n).name = n
  BY AddressFacts
<1>2. a[Ordinary(n)] = b[Ordinary(n)]
  BY <1>1 DEF Agree
<1> QED BY <1>2 DEF VersionAt

\* A version more, at the end of the line.
LEMMA LineAppend ==
  ASSUME NEW S, NEW s \in Seq(S), NEW v \in S
  PROVE  LET t == Append(s, v)
         IN  /\ t \in Seq(S) /\ Len(t) = Len(s) + 1 /\ t[Len(s) + 1] = v
             /\ \A i \in 1 .. Len(s) : t[i] = s[i]
OBVIOUS

\* A transaction more leaves it sound.
LEMMA ExtendedSound ==
  ASSUME NEW n \in Names, NEW told, NEW st, Sound(told, n, st), NEW ops \in Seq(Ops)
  PROVE  /\ Sound(Extended(n, told, ops), n, st)
         /\ Extended(n, told, ops).st = ApplyAll(ops, told.st)
<1> DEFINE S == ApplyAll(ops, told.st)
           v == VersionAt(n, S)
           l == told.line
           t == Append(l, v)
<1>1. S \in Contents /\ v \in Versioned
  BY ApplyAllTyped, VersionTyped DEF Sound
<1>2. /\ l \in Seq(Versioned) /\ Len(l) > 0 /\ l[1] = VersionAt(n, st)
      /\ l[Len(l)] = VersionAt(n, told.st)
  BY DEF Sound
<1>3. /\ Extended(n, told, ops).st = S
      /\ Extended(n, told, ops).line = IF v = VersionAt(n, told.st) THEN l ELSE t
  BY DEF Extended
<1> HIDE DEF S, v, l
<1>4. /\ t \in Seq(Versioned) /\ Len(t) = Len(l) + 1 /\ t[Len(l) + 1] = v
      /\ \A i \in 1 .. Len(l) : t[i] = l[i]
  BY <1>1, <1>2, LineAppend
<1> HIDE DEF t
<1>5. Len(l) \in Nat /\ 1 \in 1 .. Len(l) /\ Len(t) > 0
  BY <1>2, <1>4
<1> DEFINE e == Extended(n, told, ops)
<1> HIDE DEF e
<1>6. CASE v = VersionAt(n, told.st)
  <2>1. e.line = l /\ e.st = S
    BY <1>3, <1>6 DEF e
  <2>2. Sound(e, n, st)
    BY <1>1, <1>2, <1>6, <2>1 DEF Sound, v
  <2> QED BY <1>3, <2>2 DEF e, S
<1>7. CASE v # VersionAt(n, told.st)
  <2>1. e.line = t /\ e.st = S
    BY <1>3, <1>7 DEF e
  <2>2. Sound(e, n, st)
    BY <1>1, <1>2, <1>4, <1>5, <2>1 DEF Sound, v
  <2> QED BY <1>3, <2>2 DEF e, S
<1> QED BY <1>6, <1>7

\* Each step of a tale.
LEMMA TaleSteps ==
  ASSUME NEW n \in Names, NEW ts \in Seq(Txns), NEW st \in Contents, NEW f,
         Tale(f, n, ts, st, Len(ts))
  PROVE  /\ f[0] = [st |-> st, line |-> <<VersionAt(n, st)>>]
         /\ \A k \in 0 .. Len(ts) : Sound(f[k], n, st)
         /\ \A k \in 1 .. Len(ts) : /\ f[k] = Extended(n, f[k - 1], ts[k].ops)
                                    /\ f[k].st = ApplyAll(ts[k].ops, f[k - 1].st)
<1> DEFINE m == Len(ts)
           start == [st |-> st, line |-> <<VersionAt(n, st)>>]
           P == {k \in 0 .. m : Sound(f[k], n, st)}
<1>1. m \in Nat /\ \A k \in 1 .. m : ts[k].ops \in Seq(Ops)
  BY TxnOps
<1>2. Sound(start, n, st)
  <2> DEFINE v == VersionAt(n, st)
  <2>1. v \in Versioned
    BY VersionTyped
  <2>2. start.st = st /\ start.line = <<v>>
    OBVIOUS
  <2> HIDE DEF v, start
  <2>3. <<v>> \in Seq(Versioned) /\ Len(<<v>>) = 1 /\ <<v>>[1] = v
    BY <2>1
  <2> QED BY <2>2, <2>3 DEF Sound, v
<1> HIDE DEF start
<1>3. \A i \in 0 .. m : f[i] = IF i = 0 THEN start ELSE Extended(n, f[i - 1], ts[i].ops)
  BY DEF Tale, start
<1> HIDE DEF m
<1>4. 0 \in P
  BY <1>1, <1>2, <1>3
<1>5. ASSUME NEW k \in 0 .. m - 1, k \in P
      PROVE  k + 1 \in P
  <2>1. k + 1 \in 1 .. m /\ k + 1 \in 0 .. m /\ k + 1 # 0 /\ (k + 1) - 1 = k
    BY <1>1
  <2>2. f[k + 1] = Extended(n, f[k], ts[k + 1].ops)
    BY <1>3, <2>1
  <2>3. Sound(f[k + 1], n, st)
    BY <1>1, <1>5, <2>1, <2>2, ExtendedSound
  <2> QED BY <2>1, <2>3
<1>6. \A k \in 0 .. m : Sound(f[k], n, st)
  <2> HIDE DEF P
  <2>1. \A k \in 0 .. m : k \in P
    BY <1>1, <1>4, <1>5, Upto
  <2> QED BY <2>1 DEF P
<1>7. f[0] = start
  BY <1>1, <1>3
<1>8. ASSUME NEW k \in 1 .. m
      PROVE  /\ f[k] = Extended(n, f[k - 1], ts[k].ops)
             /\ f[k].st = ApplyAll(ts[k].ops, f[k - 1].st)
  <2>1. k \in 0 .. m /\ k # 0 /\ k - 1 \in 0 .. m
    BY <1>1
  <2>2. f[k] = Extended(n, f[k - 1], ts[k].ops)
    BY <1>3, <2>1
  <2> QED BY <1>1, <1>6, <2>1, <2>2, ExtendedSound
<1> QED BY <1>6, <1>7, <1>8 DEF m, start

\* In short.
LEMMA TaleRun ==
  ASSUME NEW n \in Names, NEW ts \in Seq(Txns), NEW st \in Contents, NEW f,
         Tale(f, n, ts, st, Len(ts))
  PROVE  Goes(f, n, ts, st)
BY TaleSteps DEF Goes

\* Tales that begin with the same transactions begin the same way.
LEMMA TalesAgree ==
  ASSUME NEW n, NEW ts, NEW more, NEW st, NEW f, NEW g, NEW a \in Nat, NEW b \in Nat,
         Tale(f, n, ts, st, a), Tale(g, n, more, st, b),
         NEW k \in Nat, k <= a, k <= b, \A i \in 1 .. k : ts[i] = more[i]
  PROVE  f[k] = g[k]
<1> DEFINE P == {j \in 0 .. k : f[j] = g[j]}
           start == [st |-> st, line |-> <<VersionAt(n, st)>>]
<1> HIDE DEF start
<1>0. /\ \A i \in 0 .. a : f[i] = IF i = 0 THEN start ELSE Extended(n, f[i - 1], ts[i].ops)
      /\ \A i \in 0 .. b : g[i] = IF i = 0 THEN start ELSE Extended(n, g[i - 1], more[i].ops)
  BY DEF Tale, start
<1>1. 0 \in P
  BY <1>0
<1>2. ASSUME NEW j \in 0 .. k - 1, j \in P
      PROVE  j + 1 \in P
  <2>1. /\ j + 1 \in 0 .. a /\ j + 1 \in 0 .. b /\ j + 1 \in 1 .. k /\ j + 1 # 0
        /\ (j + 1) - 1 = j /\ j + 1 \in 0 .. k
    OBVIOUS
  <2>2. f[j + 1] = Extended(n, f[j], ts[j + 1].ops) /\ g[j + 1] = Extended(n, g[j], more[j + 1].ops)
    BY <1>0, <2>1
  <2> QED BY <1>2, <2>1, <2>2
<1> HIDE DEF P
<1>3. k \in 0 .. k
  OBVIOUS
<1>4. k \in P
  BY <1>1, <1>2, <1>3, Upto
<1> QED BY <1>4 DEF P

\* A story before anything has happened.
LEMMA StoryNone ==
  ASSUME NEW n, NEW st
  PROVE  /\ Story(n, <<>>, st).st = st
         /\ Story(n, <<>>, st).line = <<VersionAt(n, st)>>
<1> DEFINE start == [st |-> st, line |-> <<VersionAt(n, st)>>]
<1>1. Len(<<>>) = 0 /\ 0 \in Nat
  OBVIOUS
<1>2. PICK f : Tale(f, n, <<>>, st, 0) /\ Story(n, <<>>, st) = f[0]
  BY <1>1, StoryTold
<1>3. f[0] = start
  BY <1>2 DEF Tale
<1> QED BY <1>2, <1>3

\* A story, and one transaction more.
LEMMA StoryMore ==
  ASSUME NEW n \in Names, NEW ts \in Seq(Txns), NEW T \in Txns, NEW st \in Contents
  PROVE  Story(n, Append(ts, T), st) = Extended(n, Story(n, ts, st), T.ops)
<1> DEFINE more == Append(ts, T)
           m == Len(ts)
<1>1. /\ m \in Nat /\ more \in Seq(Txns) /\ Len(more) = m + 1 /\ more[m + 1] = T
      /\ \A i \in 1 .. m : ts[i] = more[i]
  OBVIOUS
<1> HIDE DEF more
<1>2. PICK f : Tale(f, n, ts, st, m) /\ Story(n, ts, st) = f[m]
  BY <1>1, StoryTold
<1>3. PICK g : Tale(g, n, more, st, m + 1) /\ Story(n, more, st) = g[m + 1]
  BY <1>1, StoryTold
<1> HIDE DEF m
<1>4. m <= m /\ m <= m + 1 /\ m + 1 \in Nat /\ m + 1 \in 1 .. m + 1 /\ (m + 1) - 1 = m
  BY <1>1
<1>5. f[m] = g[m]
  BY <1>1, <1>2, <1>3, <1>4, TalesAgree
<1>6. g[m + 1] = Extended(n, g[m], T.ops)
  <2>1. \A k \in 1 .. Len(more) : g[k] = Extended(n, g[k - 1], more[k].ops)
    <3>1. Tale(g, n, more, st, Len(more))
      BY <1>1, <1>3
    <3> QED BY <1>1, <3>1, TaleSteps
  <2> QED BY <1>1, <1>4, <2>1
<1> QED BY <1>2, <1>3, <1>5, <1>6 DEF more

\* Every story is sound, and ends where the transactions lead.
LEMMA StorySound ==
  ASSUME NEW n \in Names, NEW ts \in Seq(Txns), NEW st \in Contents
  PROVE  Sound(Story(n, ts, st), n, st)
<1>1. Len(ts) \in Nat /\ Len(ts) \in 0 .. Len(ts)
  OBVIOUS
<1>2. PICK f : Tale(f, n, ts, st, Len(ts)) /\ Story(n, ts, st) = f[Len(ts)]
  BY <1>1, StoryTold
<1>3. \A k \in 0 .. Len(ts) : Sound(f[k], n, st)
  BY <1>2, TaleSteps
<1> QED BY <1>1, <1>2, <1>3

\* A transaction treats states alike that say the same of a name, and
\* leaves the names of other collections alone.
LEMMA TxnAgrees ==
  ASSUME NEW n, NEW T \in Txns, Proper(T), NEW a \in Contents, NEW b \in Contents, Agree(n, a, b)
  PROVE  /\ Agree(n, ApplyAll(T.ops, a), ApplyAll(T.ops, b))
         /\ T.coll # Collection(n) => Agree(n, ApplyAll(T.ops, a), a)
<1>1. Agree(n, a, a)
  BY DEF Agree
<1>2. Agree(n, IF T.coll = Collection(n) THEN ApplyAll(T.ops, a) ELSE a, ApplyAll(T.ops, b))
  BY ChainStep
<1>3. Agree(n, IF T.coll = Collection(n) THEN ApplyAll(T.ops, a) ELSE a, ApplyAll(T.ops, a))
  BY <1>1, ChainStep
<1> QED BY <1>2, <1>3 DEF Agree

\* Two lines that end alike still do so with the same version more.
LEMMA EndsAlike ==
  \A u, s \in Seq(Versioned) : \A v \in Versioned : Append(u \o s, v) = u \o Append(s, v)
OBVIOUS

\* Stories that have come to the same of a name go on alike.
LEMMA ExtendedAlike ==
  ASSUME NEW n \in Names, NEW T \in Txns, Proper(T), NEW x, NEW y, NEW st, NEW new,
         Sound(x, n, st), Sound(y, n, new), NEW u \in Seq(Versioned), Alike(n, u, x, y)
  PROVE  Alike(n, u, Extended(n, x, T.ops), Extended(n, y, T.ops))
<1> DEFINE X == ApplyAll(T.ops, x.st)
           Y == ApplyAll(T.ops, y.st)
           v == VersionAt(n, Y)
<1>1. /\ x.st \in Contents /\ y.st \in Contents /\ y.line \in Seq(Versioned)
      /\ T.ops \in Seq(Ops)
  BY DEF Sound, Txns
<1>0. Agree(n, x.st, y.st) /\ x.line = u \o y.line
  BY DEF Alike
<1>2. /\ Extended(n, x, T.ops).st = X /\ Extended(n, y, T.ops).st = Y
      /\ Extended(n, x, T.ops).line = IF VersionAt(n, X) = VersionAt(n, x.st) THEN x.line
                                      ELSE Append(x.line, VersionAt(n, X))
      /\ Extended(n, y, T.ops).line = IF v = VersionAt(n, y.st) THEN y.line
                                      ELSE Append(y.line, v)
  BY DEF Extended
<1>3. Agree(n, X, Y)
  BY <1>0, <1>1, TxnAgrees
<1>4. VersionAt(n, X) = v /\ VersionAt(n, x.st) = VersionAt(n, y.st)
  BY <1>0, <1>3, VersionSame
<1>5. v \in Versioned
  BY <1>1, ApplyAllTyped, VersionTyped
<1> HIDE DEF X, Y, v
<1>6. Append(u \o y.line, v) = u \o Append(y.line, v)
  <2> DEFINE l == y.line
  <2>1. l \in Seq(Versioned)
    BY <1>1
  <2> HIDE DEF l
  <2>2. Append(u \o l, v) = u \o Append(l, v)
    BY <1>5, <2>1, EndsAlike, Zenon
  <2> QED BY <2>2 DEF l
<1>7. Extended(n, x, T.ops).line = u \o Extended(n, y, T.ops).line
  BY <1>0, <1>2, <1>4, <1>6
<1> QED BY <1>2, <1>3, <1>7 DEF Alike

\* So do tales, as long as they tell of the same transactions.
LEMMA TalesGoOn ==
  ASSUME NEW n \in Names, NEW ts \in Seq(Txns), NEW r \in Seq(Txns),
         \A j \in 1 .. Len(ts) : Proper(ts[j]),
         NEW st \in Contents, NEW new \in Contents, NEW f, NEW h,
         Tale(f, n, ts, st, Len(ts)), Tale(h, n, r, new, Len(r)),
         NEW a \in Nat, NEW b \in Nat, NEW m \in Nat, a + m <= Len(ts), b + m <= Len(r),
         \A j \in 1 .. m : ts[a + j] = r[b + j],
         NEW u \in Seq(Versioned), Alike(n, u, f[a], h[b])
  PROVE  Alike(n, u, f[a + m], h[b + m])
<1>1. /\ \A k \in 0 .. Len(ts) : Sound(f[k], n, st)
      /\ \A k \in 1 .. Len(ts) : f[k] = Extended(n, f[k - 1], ts[k].ops)
  <2>1. Goes(f, n, ts, st)
    BY TaleRun, Zenon
  <2> QED BY <2>1 DEF Goes
<1>2. /\ \A k \in 0 .. Len(r) : Sound(h[k], n, new)
      /\ \A k \in 1 .. Len(r) : h[k] = Extended(n, h[k - 1], r[k].ops)
  <2>1. Goes(h, n, r, new)
    BY TaleRun, Zenon
  <2> QED BY <2>1 DEF Goes
<1> DEFINE P == {j \in 0 .. m : Alike(n, u, f[a + j], h[b + j])}
           p == Len(ts)
           q == Len(r)
<1>3. p \in Nat /\ q \in Nat /\ a + m <= p /\ b + m <= q /\ \A k \in 1 .. p : ts[k] \in Txns
  OBVIOUS
<1>0. \A k \in 1 .. p : Proper(ts[k])
  OBVIOUS
<1> HIDE DEF p, q
<1>4. 0 \in P
  BY <1>3
<1>5. ASSUME NEW j \in 0 .. m - 1, j \in P
      PROVE  j + 1 \in P
  <2>1. /\ j + 1 \in 1 .. m /\ j + 1 \in 0 .. m
        /\ a + (j + 1) \in 1 .. p /\ b + (j + 1) \in 1 .. q
        /\ (a + (j + 1)) - 1 = a + j /\ (b + (j + 1)) - 1 = b + j
        /\ a + j \in 0 .. p /\ b + j \in 0 .. q
    BY <1>3
  <2> DEFINE T == ts[a + (j + 1)]
             x == f[a + j]
             y == h[b + j]
  <2>2. T \in Txns /\ Proper(T) /\ T = r[b + (j + 1)]
    BY <1>0, <1>3, <2>1
  <2>3. f[a + (j + 1)] = Extended(n, x, T.ops)
    BY <1>1, <2>1
  <2>7. h[b + (j + 1)] = Extended(n, y, T.ops)
    <3>1. h[b + (j + 1)] = Extended(n, y, r[b + (j + 1)].ops)
      BY <1>2, <2>1
    <3> HIDE DEF y, T
    <3> QED BY <2>2, <3>1
  <2>4. /\ Sound(x, n, st) /\ Sound(y, n, new)
    BY <1>1, <1>2, <2>1
  <2>5. Alike(n, u, x, y)
    BY <1>5
  <2> HIDE DEF T, x, y
  <2>6. Alike(n, u, Extended(n, x, T.ops), Extended(n, y, T.ops))
    BY <2>2, <2>4, <2>5, ExtendedAlike, Zenon
  <2> QED BY <2>1, <2>3, <2>6, <2>7
<1> HIDE DEF P
<1>6. m \in 0 .. m
  OBVIOUS
<1>7. m \in P
  BY <1>4, <1>5, <1>6, Upto
<1> QED BY <1>7 DEF P

\* As long as nothing happens at a name, there is nothing to tell.
LEMMA TaleQuiet ==
  ASSUME NEW n \in Names, NEW ts \in Seq(Txns), NEW st \in Contents, NEW f,
         Tale(f, n, ts, st, Len(ts)), NEW m \in 0 .. Len(ts),
         NEW A \in SUBSET Addresses, Ordinary(n) \in A,
         Idles(A, ts, m)
  PROVE  Calm(f[m], A, n, st)
<1> DEFINE was == <<VersionAt(n, st)>>
           P == {j \in 0 .. m : (\A x \in A : f[j].st[x] = st[x]) /\ f[j].line = was}
           p == Len(ts)
<1>1. /\ f[0] = [st |-> st, line |-> was]
      /\ \A k \in 0 .. p : Sound(f[k], n, st)
      /\ \A k \in 1 .. p : /\ f[k] = Extended(n, f[k - 1], ts[k].ops)
                           /\ f[k].st = ApplyAll(ts[k].ops, f[k - 1].st)
  BY TaleSteps
<1>2. p \in Nat /\ m \in 0 .. p
  OBVIOUS
<1> HIDE DEF p
<1>3. 0 \in P
  BY <1>1, <1>2
<1>4. ASSUME NEW j \in 0 .. m - 1, j \in P
      PROVE  j + 1 \in P
  <2>1. /\ j + 1 \in 1 .. m /\ j + 1 \in 0 .. m /\ j + 1 \in 1 .. p /\ (j + 1) - 1 = j
        /\ j \in 0 .. p
    BY <1>2
  <2> DEFINE x == f[j]
             y == f[j + 1]
             ops == ts[j + 1].ops
  <2>2. /\ y = Extended(n, x, ops) /\ y.st = ApplyAll(ops, x.st) /\ x.st \in Contents
    BY <1>1, <2>1 DEF Sound
  <2>3. \A a \in A : x.st[a] = st[a]
    BY <1>4
  <2>4. \A a \in A : y.st[a] = x.st[a]
    BY <2>1, <2>2 DEF Idles
  <2>5. x.line = was
    BY <1>4
  <2>6. y.line = x.line
    <3>1. VersionAt(n, ApplyAll(ops, x.st)) = VersionAt(n, x.st)
      BY <2>2, <2>4 DEF VersionAt
    <3> QED BY <2>2, <3>1 DEF Extended
  <2> QED BY <2>1, <2>3, <2>4, <2>5, <2>6
<1> HIDE DEF P
<1>5. m \in Nat /\ m \in 0 .. m
  BY <1>2
<1>6. m \in P
  BY <1>3, <1>4, <1>5, Upto
<1> QED BY <1>6 DEF P, Calm

\* Nothing, or one version, before a line of one.
LEMMA LinesOfOne ==
  \A v, w \in Versioned : /\ <<>> \in Seq(Versioned) /\ <<v>> \in Seq(Versioned)
                          /\ <<>> \o <<v>> = <<v>> /\ Append(<<v>>, w) = <<v>> \o <<w>>
OBVIOUS

\* Up to the transaction that commits first.
LEMMA CommitFirst ==
  ASSUME NEW n \in Names, NEW ts \in Seq(Txns), \A j \in 1 .. Len(ts) : Proper(ts[j]),
         NEW st \in Contents, NEW i \in 1 .. Len(ts),
         \A j \in 1 .. i - 1 : ts[j].coll # ts[i].coll,
         NEW r \in Seq(Txns), Without(r, ts, i),
         NEW new, new = ApplyAll(ts[i].ops, st), NEW f, NEW h,
         Tale(f, n, ts, st, Len(ts)), Tale(h, n, r, new, Len(r))
  PROVE  Alike(n, Before(n, st, new), f[i], h[i - 1])
<1> DEFINE T == ts[i]
           p == Len(ts)
           A == {at \in Addresses : at.name = n}
           v == VersionAt(n, st)
           w == VersionAt(n, new)
<1>1. T \in Txns /\ Proper(T) /\ T.ops \in Seq(Ops)
  <2>1. T \in Txns /\ Proper(T)
    OBVIOUS
  <2> QED BY <2>1 DEF Txns
<1>2. new \in Contents /\ v \in Versioned /\ w \in Versioned
  BY <1>1, ApplyAllTyped, VersionTyped
<1>3. /\ p \in Nat /\ i \in Nat /\ 1 <= i /\ i <= p /\ Len(r) = p - 1
      /\ \A j \in 1 .. i - 1 : r[j] = ts[j] /\ j \in 1 .. p
      /\ i - 1 \in 0 .. p /\ i - 1 \in 0 .. p - 1 /\ i \in 1 .. p /\ i \in 0 .. p
  <2>1. p \in Nat /\ i \in Nat /\ 1 <= i /\ i <= p
    OBVIOUS
  <2>2. Len(r) = p - 1 /\ \A j \in 1 .. p - 1 : r[j] = IF j < i THEN ts[j] ELSE ts[j + 1]
    BY DEF Without
  <2> HIDE DEF p
  <2>3. \A j \in 1 .. i - 1 : j \in 1 .. p - 1 /\ j < i /\ j \in 1 .. p
    BY <2>1
  <2> QED BY <2>1, <2>2, <2>3
<1>4. \A j \in 1 .. p : ts[j] \in Txns /\ Proper(ts[j])
  OBVIOUS
<1>5. /\ f[i] = Extended(n, f[i - 1], T.ops) /\ f[i].st = ApplyAll(T.ops, f[i - 1].st)
      /\ f[i - 1].st \in Contents
  <2>1. Goes(f, n, ts, st)
    BY TaleRun, Zenon
  <2> QED BY <1>3, <2>1 DEF Goes, Sound, p
<1>6. f[i].line = IF VersionAt(n, f[i].st) = VersionAt(n, f[i - 1].st) THEN f[i - 1].line
                  ELSE Append(f[i - 1].line, VersionAt(n, f[i].st))
  BY <1>5 DEF Extended
<1>7. Ordinary(n) \in A /\ A \in SUBSET Addresses
  BY AddressFacts
<1> HIDE DEF p, v, w
<1>8. CASE T.coll = Collection(n)
  <2>1. Idles(A, ts, i - 1)
    <3> SUFFICES ASSUME NEW j \in 1 .. i - 1, NEW S \in Contents
                 PROVE  Agree(n, ApplyAll(ts[j].ops, S), S)
      BY DEF Agree, Idles
    <3>1. ts[j] \in Txns /\ Proper(ts[j]) /\ ts[j].coll # Collection(n)
      BY <1>3, <1>4, <1>8
    <3>2. Agree(n, S, S)
      BY DEF Agree
    <3> QED BY <3>1, <3>2, TxnAgrees
  <2>2. Calm(f[i - 1], A, n, st)
    <3> DEFINE k == i - 1
    <3>1. k \in 0 .. Len(ts) /\ Idles(A, ts, k)
      BY <1>3, <2>1 DEF p
    <3> HIDE DEF A, k
    <3>2. Calm(f[k], A, n, st)
      BY <1>7, <3>1, TaleQuiet
    <3> QED BY <3>2 DEF k
  <2>3. Calm(h[i - 1], A, n, new)
    <3> DEFINE k == i - 1
    <3>1. k \in 0 .. Len(r) /\ Idles(A, r, k)
      BY <1>3, <2>1 DEF Idles
    <3> HIDE DEF A, k
    <3>2. Calm(h[k], A, n, new)
      BY <1>2, <1>7, <3>1, TaleQuiet
    <3> QED BY <3>2 DEF k
  <2>4. /\ Agree(n, f[i - 1].st, st) /\ Agree(n, h[i - 1].st, new)
    BY <2>2, <2>3 DEF Agree, Calm
  <2>5. Agree(n, f[i].st, new)
    BY <1>1, <1>5, <2>4, TxnAgrees
  <2>6. /\ VersionAt(n, f[i].st) = w /\ VersionAt(n, f[i - 1].st) = v
        /\ Agree(n, f[i].st, h[i - 1].st)
    <3>1. Agree(n, f[i].st, h[i - 1].st)
      BY <2>4, <2>5 DEF Agree
    <3> QED BY <2>4, <2>5, <3>1, VersionSame DEF v, w
  <2>7. f[i].line = IF w = v THEN <<v>> ELSE Append(<<v>>, w)
    BY <1>6, <2>2, <2>6 DEF Calm, v
  <2>8. f[i].line = Before(n, st, new) \o h[i - 1].line
    BY <1>2, <2>3, <2>7, LinesOfOne DEF Before, Calm, v, w
  <2> QED BY <2>6, <2>8 DEF Alike
<1>9. CASE T.coll # Collection(n)
  <2>1. Agree(n, new, st) /\ Agree(n, f[i].st, f[i - 1].st)
    <3>1. Agree(n, st, st) /\ Agree(n, f[i - 1].st, f[i - 1].st)
      BY DEF Agree
    <3> QED BY <1>1, <1>5, <1>9, <3>1, TxnAgrees
  <2>2. w = v /\ VersionAt(n, f[i].st) = VersionAt(n, f[i - 1].st)
    BY <2>1, VersionSame DEF v, w
  <2>3. Before(n, st, new) = <<>>
    BY <2>2 DEF Before, v, w
  <2>4. Alike(n, <<>>, f[0], h[0])
    <3>1. f[0] = [st |-> st, line |-> <<v>>] /\ h[0] = [st |-> new, line |-> <<w>>]
      <4>1. f[0] = [st |-> st, line |-> <<VersionAt(n, st)>>]
        BY TaleSteps
      <4>2. h[0] = [st |-> new, line |-> <<VersionAt(n, new)>>]
        BY <1>2, TaleSteps
      <4> QED BY <4>1, <4>2 DEF v, w
    <3>2. Agree(n, st, new) /\ <<>> \o <<w>> = <<w>>
      BY <1>2, <2>1, LinesOfOne DEF Agree
    <3> QED BY <2>2, <3>1, <3>2 DEF Alike
  <2>5. Alike(n, <<>>, f[0 + (i - 1)], h[0 + (i - 1)])
    <3> DEFINE m == i - 1
    <3>1. /\ m \in Nat /\ 0 \in Nat /\ 0 + m <= Len(ts) /\ 0 + m <= Len(r)
          /\ \A j \in 1 .. m : ts[0 + j] = r[0 + j]
      BY <1>3 DEF p
    <3>2. <<>> \in Seq(Versioned)
      BY <1>2, LinesOfOne
    <3> HIDE DEF m
    <3>3. Alike(n, <<>>, f[0 + m], h[0 + m])
      BY <1>2, <2>4, <3>1, <3>2, TalesGoOn, Zenon
    <3> QED BY <3>3 DEF m
  <2>6. Alike(n, <<>>, f[i - 1], h[i - 1])
    <3>1. 0 + (i - 1) = i - 1
      BY <1>3
    <3> QED BY <2>5, <3>1
  <2>7. Alike(n, <<>>, f[i], h[i - 1])
    <3>1. f[i].line = f[i - 1].line
      BY <1>6, <2>2
    <3> QED BY <2>1, <2>6, <3>1 DEF Alike, Agree
  <2> QED BY <2>3, <2>7
<1> QED BY <1>8, <1>9

\* A commit takes the first version off the lines of the names the
\* transaction gives another version, and nothing else.
LEMMA CommitLine ==
  ASSUME NEW n \in Names, NEW ts \in Seq(Txns), \A j \in 1 .. Len(ts) : Proper(ts[j]),
         NEW st \in Contents, NEW i \in 1 .. Len(ts),
         \A j \in 1 .. i - 1 : ts[j].coll # ts[i].coll,
         NEW r \in Seq(Txns), Without(r, ts, i), NEW new, new = ApplyAll(ts[i].ops, st)
  PROVE  Alike(n, Before(n, st, new), Story(n, ts, st), Story(n, r, new))
<1> DEFINE u == Before(n, st, new)
           m == Len(ts) - i
<1>1. new \in Contents /\ u \in Seq(Versioned)
  <2>1. ts[i].ops \in Seq(Ops)
    BY TxnOps
  <2>2. new \in Contents
    BY <2>1, ApplyAllTyped
  <2>3. VersionAt(n, st) \in Versioned
    BY VersionTyped
  <2> QED BY <2>2, <2>3, LinesOfOne DEF Before
<1>2. /\ Len(ts) \in Nat /\ Len(r) \in Nat /\ i \in Nat /\ i - 1 \in Nat /\ m \in Nat
      /\ i + m = Len(ts) /\ (i - 1) + m = Len(r)
      /\ i + m <= Len(ts) /\ (i - 1) + m <= Len(r)
      /\ \A j \in 1 .. m : ts[i + j] = r[(i - 1) + j]
  <2> DEFINE p == Len(ts)
  <2>1. p \in Nat /\ i \in 1 .. p
    OBVIOUS
  <2>2. Len(r) = p - 1 /\ \A j \in 1 .. p - 1 : r[j] = IF j < i THEN ts[j] ELSE ts[j + 1]
    BY DEF Without
  <2>0. Len(ts) = p /\ m = p - i
    OBVIOUS
  <2> HIDE DEF p, m
  <2>3. ASSUME NEW j \in 1 .. m
        PROVE  ts[i + j] = r[(i - 1) + j]
    <3>1. (i - 1) + j \in 1 .. p - 1 /\ ~((i - 1) + j < i) /\ ((i - 1) + j) + 1 = i + j
      BY <2>0, <2>1
    <3> QED BY <2>2, <3>1
  <2> QED BY <2>0, <2>1, <2>2, <2>3
<1>3. PICK f : Tale(f, n, ts, st, Len(ts)) /\ Story(n, ts, st) = f[Len(ts)]
  BY <1>2, StoryTold
<1>4. PICK h : Tale(h, n, r, new, Len(r)) /\ Story(n, r, new) = h[Len(r)]
  BY <1>2, StoryTold
<1>5. Alike(n, u, f[i], h[i - 1])
  BY <1>3, <1>4, CommitFirst
<1> HIDE DEF u, m
<1>6. Alike(n, u, f[i + m], h[(i - 1) + m])
  BY <1>1, <1>2, <1>3, <1>4, <1>5, TalesGoOn, Zenon
<1>7. Alike(n, u, Story(n, ts, st), Story(n, r, new))
  BY <1>2, <1>3, <1>4, <1>6
<1> QED BY <1>7 DEF u

\* A story leads where the operations of its transactions lead.
LEMMA StoryFlat ==
  ASSUME NEW n \in Names, NEW q \in Seq(Txns), NEW st \in Contents
  PROVE  Story(n, q, st).st = ApplyAll(Flat(q), st)
<1> DEFINE s(k) == SubSeq(q, 1, k)
           P == {k \in 0 .. Len(q) : Story(n, s(k), st).st = ApplyAll(Flat(s(k)), st)}
           m == Len(q)
<1>1. /\ m \in Nat /\ s(m) = q /\ s(0) = <<>>
      /\ \A k \in 0 .. m : s(k) \in Seq(Txns)
      /\ \A k \in 0 .. m - 1 : q[k + 1] \in Txns /\ s(k + 1) = Append(s(k), q[k + 1])
  OBVIOUS
<1> HIDE DEF s, m
<1>2. 0 \in P
  <2>1. <<>> \in Seq(Txns) /\ Len(<<>>) < 1
    OBVIOUS
  <2>2. Flat(<<>>) = <<>> /\ ApplyAll(<<>>, st) = st
    BY <2>1, FlatNone, NoOps
  <2>3. Story(n, <<>>, st).st = ApplyAll(Flat(<<>>), st)
    BY <2>2, StoryNone
  <2> QED BY <1>1, <2>3 DEF m
<1>3. ASSUME NEW k \in 0 .. m - 1, k \in P
      PROVE  k + 1 \in P
  <2> DEFINE T == q[k + 1]
             a == s(k)
  <2>1. /\ k \in 0 .. m /\ k + 1 \in 0 .. m /\ a \in Seq(Txns) /\ T \in Txns
        /\ s(k + 1) = Append(a, T)
    BY <1>1
  <2>2. Story(n, a, st).st = ApplyAll(Flat(a), st)
    BY <1>3
  <2> HIDE DEF a, T
  <2>3. T.ops \in Seq(Ops) /\ Flat(a) \in Seq(Ops)
    <3>1. \A i \in 1 .. Len(a) : a[i].ops \in Seq(Ops)
      BY <2>1, TxnOps
    <3> QED BY <2>1, <3>1, FlatTyped DEF Txns
  <2>4. Story(n, Append(a, T), st).st = ApplyAll(T.ops, Story(n, a, st).st)
    BY <2>1, StoryMore DEF Extended
  <2>5. ApplyAll(Flat(Append(a, T)), st) = ApplyAll(T.ops, ApplyAll(Flat(a), st))
    <3> DEFINE b == Flat(a)
               c == T.ops
    <3>1. Flat(Append(a, T)) = b \o c
      BY <2>1, FlatAppend
    <3>2. b \in Seq(Ops) /\ c \in Seq(Ops)
      BY <2>3
    <3> HIDE DEF b, c
    <3>3. ApplyAll(b \o c, st) = ApplyAll(c, ApplyAll(b, st))
      BY <3>2, PassingCat
    <3> QED BY <3>1, <3>3 DEF b, c
  <2> QED BY <2>1, <2>2, <2>4, <2>5 DEF m
<1> HIDE DEF P
<1>4. m \in 0 .. m
  BY <1>1
<1>5. m \in P
  BY <1>1, <1>2, <1>3, <1>4, Upto
<1> QED BY <1>1, <1>5 DEF P, m

-----------------------------------------------------------------------------
(* What is known of the versions on a line: whose they are.                *)

\* What is known stays known.
LEMMA KnownStill ==
  ASSUME NEW os, NEW new, NEW c \in Nat, NEW clock \in Nat, NEW now \in Nat,
         Onward(os, clock, new, now), NEW v, Known(v, c, clock, os)
  PROVE  Known(v, c, now, new)
<1> SUFFICES ASSUME v # Promise!Nothing
             PROVE  Known(v, c, now, new)
  BY DEF Known
<1>1. /\ v \in EngineVersions /\ v.id[1] <= c
      /\ v.id[1] = c => /\ v.id[2] <= clock
                        /\ \A o \in Objects : os[o].state \in Writing => os[o].ts # v.id[2]
  BY DEF Known
<1>2. v.id[2] \in Nat
  BY <1>1, EngineAssumption DEF EngineVersions
<1>3. ASSUME v.id[1] = c
      PROVE  /\ v.id[2] <= now
             /\ \A o \in Objects : new[o].state \in Writing => new[o].ts # v.id[2]
  <2> DEFINE t == v.id[2]
  <2>1. t \in Nat /\ t <= clock /\ \A o \in Objects : os[o].state \in Writing => os[o].ts # t
    BY <1>1, <1>2, <1>3
  <2> HIDE DEF t
  <2>2. t <= now /\ \A o \in Objects : new[o].state \in Writing => new[o].ts # t
    BY <2>1 DEF Onward
  <2> QED BY <2>2 DEF t
<1> QED BY <1>1, <1>3 DEF Known

\* A step of one Object.
LEMMA OneObject ==
  ASSUME IInv, Promised, NEW o \in Objects, NEW y, objs' = [objs EXCEPT ![o] = y],
         last' \in Nat, last <= last', crashes' = crashes, Wrote(y, crashes),
         y.state \in Writing =>
            (objs[o].state \in Writing /\ y.ts = objs[o].ts) \/ y.ts > last
  PROVE  /\ crashes' \in 0 .. MaxCrashes /\ \A p \in Objects : Wrote(objs'[p], crashes')
         /\ Onward(objs, last, objs', last')
<1>1. objs \in [Objects -> Objs]
  BY DEF IInv, Types
<1>2. objs'[o] = y /\ \A p \in Objects : p # o => objs'[p] = objs[p]
  BY <1>1
<1> QED BY <1>2 DEF Promised, Onward

\* A step that nothing is told of.
LEMMA ToldNothing ==
  ASSUME IInv, Promised, Coming' = Coming, disk' = disk, Settled' = Settled,
         crashes' = crashes, crashes' \in 0 .. MaxCrashes, last' \in Nat,
         \A o \in Objects : Wrote(objs'[o], crashes'), Onward(objs, last, objs', last')
  PROVE  Promised' /\ \A n \in Names : Line(n)' = Line(n)
<1>1. \A n \in Names : Teller(n)' = Teller(n)
  BY DEF Teller
<1>2. \A n \in Names : Line(n) = Teller(n).line /\ Line(n)' = Teller(n)'.line
  BY DEF Line, Teller, Coming
<1>3. last \in Nat /\ crashes \in Nat
  BY ObjectFacts DEF IInv, Types
<1>4. ASSUME NEW n \in Names
      PROVE  /\ Agree(n, Teller(n)'.st, Settled')
             /\ Line(n)' = Line(n)
             /\ \A k \in 1 .. Len(Line(n)') : Known(Line(n)'[k], crashes', last', objs')
  <2>1. /\ Agree(n, Teller(n).st, Settled)
        /\ \A k \in 1 .. Len(Line(n)) : Known(Line(n)[k], crashes, last, objs)
    BY DEF Promised
  <2>2. Line(n)' = Line(n)
    BY <1>1, <1>2
  <2>3. \A k \in 1 .. Len(Line(n)) : Known(Line(n)[k], crashes, last', objs')
    BY <1>3, <2>1, KnownStill
  <2> QED BY <1>1, <2>1, <2>2, <2>3
<1> QED BY <1>4 DEF Promised

\* A step that leaves what is told alone, and at most who writes what.
LEMMA ToldNoMore ==
  ASSUME IInv, Promised, UNCHANGED <<objs, last, crashes, disk>>, Coming' = Coming,
         Settled' = Settled
  PROVE  Promised' /\ \A n \in Names : Line(n)' = Line(n)
<1>1. last \in Nat /\ last' \in Nat /\ last <= last'
  BY ObjectFacts
<1>2. Onward(objs, last, objs', last')
  BY <1>1 DEF Onward
<1> QED BY <1>1, <1>2, ToldNothing DEF Promised

\* Where a line ends.
LEMMA LineEnds ==
  ASSUME IInv, Promised, NEW n \in Names
  PROVE  /\ Line(n) \in Seq(Versioned) /\ Len(Line(n)) \in Nat /\ Len(Line(n)) > 0
         /\ Line(n)[1] = VersionAt(n, disk)
         /\ Line(n)[Len(Line(n))] = VersionAt(n, Settled)
         /\ Known(VersionAt(n, Settled), crashes, last, objs)
<1>1. Coming \in Seq(Txns) /\ disk \in Contents
  BY ComingOps DEF IInv, Types
<1>2. Sound(Teller(n), n, disk) /\ Line(n) = Teller(n).line
  BY <1>1, StorySound DEF Teller, Line, Coming
<1> DEFINE l == Line(n)
<1>3. VersionAt(n, Teller(n).st) = VersionAt(n, Settled)
  BY VersionSame DEF Promised
<1>4. /\ l \in Seq(Versioned) /\ Len(l) > 0 /\ l[1] = VersionAt(n, disk)
      /\ l[Len(l)] = VersionAt(n, Settled)
  BY <1>2, <1>3 DEF Sound
<1>5. \A k \in 1 .. Len(l) : Known(l[k], crashes, last, objs)
  BY DEF Promised
<1> HIDE DEF l
<1>6. Len(l) \in Nat /\ Len(l) \in 1 .. Len(l)
  BY <1>4
<1>7. Known(VersionAt(n, Settled), crashes, last, objs)
  BY <1>4, <1>5, <1>6
<1> QED BY <1>4, <1>6, <1>7 DEF l

\* An operation that is not on an address leaves it alone, and so do
\* transactions of such operations.
LEMMA Untouching ==
  ASSUME NEW T \in Txns, NEW n \in Names, ~Touches(T, n), NEW st \in Contents
  PROVE  ApplyAll(T.ops, st)[Ordinary(n)] = st[Ordinary(n)]
<1> DEFINE ops == T.ops
           Q == {S \in Contents : S[Ordinary(n)] = st[Ordinary(n)]}
<1>1. ops \in Seq(Ops) /\ Ordinary(n) \in Addresses
  BY AddressFacts DEF Txns
<1>2. st \in Q
  OBVIOUS
<1>3. ASSUME NEW S \in Q, NEW op \in Ops, <<S, op>> \in StagesOf(ops, st)
      PROVE  Apply(op, S) \in Q
  <2> DEFINE g == <<S, op>>
  <2>1. g \in StagesOf(ops, st) /\ g[2] = op
    BY <1>3
  <2> HIDE DEF g
  <2>2. \E k \in 1 .. Len(ops) : g[2] = ops[k]
    BY <1>1, <2>1, StagesTyped
  <2>3. ~On(op, Ordinary(n))
    BY <2>1, <2>2 DEF Touches, Given
  <2> QED BY <1>1, <2>3, ApplyTyped DEF On
<1> HIDE DEF Q
<1>4. ApplyAll(ops, st) \in Q
  BY <1>1, <1>2, <1>3, AllTheWay
<1> QED BY <1>4 DEF Q

-----------------------------------------------------------------------------
(* What the steps of the engine are to the lines.                          *)

\* No line changes.
LEMMA KeepsStill ==
  ASSUME \A n \in Names : Line(n)' = Line(n)
  PROVE  Keeps
BY DEF Keeps

\* What the last transaction prepared is, and whose name it touches.
LEMMA LastGiven ==
  ASSUME IInv, IInv', NEW T, queue' = Append(queue, T),
         UNCHANGED <<current, handed, store, disk>>
  PROVE  /\ T \in Txns /\ Proper(T) /\ Coming \in Seq(Txns) /\ Coming' = Append(Coming, T)
         /\ Settled' = ApplyAll(T.ops, Settled)
         /\ \A n \in Names : Touches(T, n) =>
               held'[n] # NoObject /\ T.of = held'[n] /\ objs'[held'[n]].state = "ACTIVE"
<1>1. /\ queue \in Seq(Txns) /\ queue' \in Seq(Txns)
      /\ \A i \in 1 .. Len(queue') : Proper(queue'[i])
  BY DEF IInv, Types
<1>2. Len(queue) + 1 \in 1 .. Len(queue') /\ queue'[Len(queue) + 1] = T
  BY <1>1
<1>3. T \in Txns /\ Proper(T)
  BY <1>1, <1>2
<1>4. /\ Coming \in Seq(Txns) /\ Coming' = Append(Coming, T)
      /\ Settled' = ApplyAll(T.ops, Settled)
  BY <1>3, OnlyPrepared
<1>5. ASSUME NEW n \in Names, Touches(T, n)
      PROVE  held'[n] # NoObject /\ T.of = held'[n] /\ objs'[held'[n]].state = "ACTIVE"
  <2>1. Answers(Coming', n, objs', held')
    BY DEF IInv, Answered
  <2> DEFINE c == Coming'
             k == Len(Coming) + 1
  <2>2. Len(c) = k /\ k \in 1 .. Len(c) /\ c[k] = T /\ k \in Nat
    BY <1>3, <1>4
  <2>3. Answers(c, n, objs', held')
    BY <2>1
  <2> HIDE DEF c, k
  <2>4. /\ held'[n] # NoObject /\ objs'[held'[n]].state = "ACTIVE"
        /\ \E j \in k .. Len(c) : c[j].of = held'[n]
    BY <1>5, <2>2, <2>3 DEF Answers
  <2>5. \A j \in k .. Len(c) : j = k
    BY <2>2
  <2> QED BY <2>2, <2>4, <2>5
<1> QED BY <1>3, <1>4, <1>5

\* A transaction prepared adds at most one version to each line.
LEMMA ToldOne ==
  ASSUME IInv, IInv', Promised, NEW T, queue' = Append(queue, T),
         UNCHANGED <<current, handed, store, disk, crashes>>, last' \in Nat,
         \A o \in Objects : Wrote(objs'[o], crashes'), Onward(objs, last, objs', last'),
         \A n \in Names : \/ VersionAt(n, Settled') = VersionAt(n, Settled)
                          \/ Known(VersionAt(n, Settled'), crashes, last', objs')
  PROVE  /\ Promised'
         /\ \A n \in Names : Line(n)' = IF VersionAt(n, Settled') = VersionAt(n, Settled)
                                        THEN Line(n)
                                        ELSE Append(Line(n), VersionAt(n, Settled'))
<1>1. /\ T \in Txns /\ Proper(T) /\ Coming \in Seq(Txns) /\ Coming' = Append(Coming, T)
      /\ Settled' = ApplyAll(T.ops, Settled) /\ disk \in Contents /\ Settled \in Contents
      /\ last \in Nat /\ crashes \in Nat
  BY LastGiven, ObjectFacts DEF IInv, Types
<1>2. ASSUME NEW n \in Names
      PROVE  /\ Agree(n, Teller(n)'.st, Settled')
             /\ Line(n)' = IF VersionAt(n, Settled') = VersionAt(n, Settled) THEN Line(n)
                           ELSE Append(Line(n), VersionAt(n, Settled'))
             /\ \A k \in 1 .. Len(Line(n)') : Known(Line(n)'[k], crashes', last', objs')
  <2> DEFINE a == Teller(n)
             S == ApplyAll(T.ops, a.st)
             w == VersionAt(n, Settled')
             l == Line(n)
  <2>1. Teller(n)' = Extended(n, a, T.ops)
    BY <1>1, StoryMore DEF Teller
  <2>2. /\ a.st \in Contents /\ Agree(n, a.st, Settled)
    BY <1>1, StorySound DEF Teller, Sound, Promised
  <2>3. Agree(n, S, Settled')
    BY <1>1, <2>2, TxnAgrees
  <2>4. VersionAt(n, S) = w /\ VersionAt(n, a.st) = VersionAt(n, Settled)
    BY <2>2, <2>3, VersionSame
  <2>5. l = a.line /\ Line(n)' = Teller(n)'.line
    BY DEF Line, Teller, Coming
  <2>6. /\ Teller(n)'.st = S
        /\ Line(n)' = IF w = VersionAt(n, Settled) THEN l ELSE Append(l, w)
    BY <2>1, <2>4, <2>5 DEF Extended
  <2>7. /\ l \in Seq(Versioned) /\ w \in Versioned
        /\ \A k \in 1 .. Len(l) : Known(l[k], crashes, last', objs')
    <3>1. Settled' \in Contents
      BY <1>1, ApplyAllTyped DEF Txns
    <3>2. \A k \in 1 .. Len(l) : Known(l[k], crashes, last, objs)
      BY DEF Promised
    <3> QED BY <1>1, <3>1, <3>2, LineEnds, VersionTyped, KnownStill
  <2>8. w = VersionAt(n, Settled) \/ Known(w, crashes, last', objs')
    OBVIOUS
  <2> DEFINE t == Append(l, w)
  <2> HIDE DEF l, w
  <2>9. /\ Len(t) = Len(l) + 1 /\ t[Len(l) + 1] = w /\ Len(l) \in Nat
        /\ \A i \in 1 .. Len(l) : t[i] = l[i]
    BY <2>7, LineAppend
  <2> HIDE DEF t
  <2>10. w # VersionAt(n, Settled) =>
            \A k \in 1 .. Len(t) : Known(t[k], crashes, last', objs')
    BY <2>7, <2>8, <2>9
  <2>11. \A k \in 1 .. Len(Line(n)') : Known(Line(n)'[k], crashes', last', objs')
    BY <2>6, <2>7, <2>10 DEF t
  <2> QED BY <2>3, <2>6, <2>11 DEF l, w
<1> QED BY <1>2 DEF Promised

\* One that is not the holder's adds none.
LEMMA ToldAside ==
  ASSUME IInv, IInv', Promised, NEW T, queue' = Append(queue, T),
         UNCHANGED <<current, handed, store, disk, crashes>>, last' \in Nat,
         \A o \in Objects : Wrote(objs'[o], crashes'), Onward(objs, last, objs', last'),
         T.of # NoObject => objs'[T.of].state # "ACTIVE"
  PROVE  Promised' /\ Keeps
<1>1. /\ T \in Txns /\ Settled' = ApplyAll(T.ops, Settled) /\ Settled \in Contents
      /\ \A n \in Names : ~Touches(T, n)
  BY LastGiven, ObjectFacts
<1>2. \A n \in Names : VersionAt(n, Settled') = VersionAt(n, Settled)
  BY <1>1, Untouching DEF VersionAt
<1>3. Promised' /\ \A n \in Names : Line(n)' = Line(n)
  BY <1>2, ToldOne
<1> QED BY <1>3, KeepsStill

\* One that gives a name a version decides so.
LEMMA ToldNew ==
  ASSUME IInv, IInv', Promised, NEW T, queue' = Append(queue, T),
         UNCHANGED <<current, handed, store, disk, crashes>>, last' \in Nat,
         \A o \in Objects : Wrote(objs'[o], crashes'), Onward(objs, last, objs', last'),
         NEW m \in Names, NEW v, v = VersionAt(m, Settled'), v \in EngineVersions,
         Known(v, crashes, last', objs'), v # VersionAt(m, Settled),
         \/ Promise!Replaces(v, VersionAt(m, Settled))
         \/ Promise!Updates(v, VersionAt(m, Settled))
  PROVE  Promised' /\ Keeps
<1>1. /\ T \in Txns /\ Proper(T) /\ Settled' = ApplyAll(T.ops, Settled) /\ Settled \in Contents
      /\ T.ops \in Seq(Ops)
  <2>1. T \in Txns /\ Proper(T) /\ Settled' = ApplyAll(T.ops, Settled)
    BY LastGiven
  <2>2. Settled \in Contents
    BY ObjectFacts
  <2> QED BY <2>1, <2>2 DEF Txns
<1>2. PICK k \in Names : Given(T) \subseteq OpsOf(k)
  BY <1>1 DEF Proper
<1>3. \A i \in 1 .. Len(T.ops) : T.ops[i] \in OpsOf(k)
  BY <1>2 DEF Given
<1>4. ASSUME NEW n \in Names, n # k
      PROVE  VersionAt(n, Settled') = VersionAt(n, Settled)
  BY <1>1, <1>3, <1>4, ApplyAllElsewhere, VersionSame
<1>5. k = m
  BY <1>4
<1>6. Promised' /\ \A n \in Names : Line(n)' = IF n = m THEN Append(Line(n), v) ELSE Line(n)
  BY <1>4, <1>5, ToldOne
<1> DEFINE L == [n \in Names |-> Line(n)]
           M == [n \in Names |-> Line(n)']
           l == Line(m)
<1>7. l \in Seq(Versioned) /\ Len(l) \in Nat /\ Len(l) > 0 /\ l[Len(l)] = VersionAt(m, Settled)
  BY LineEnds
<1>8. M = [L EXCEPT ![m] = Append(@, v)] /\ L[m] = l /\ M[m] = Append(l, v)
  BY <1>6
<1>9. v \in Versioned
  <2>1. Settled' \in Contents
    BY <1>1, ApplyAllTyped
  <2> QED BY <2>1, VersionTyped
<1>10. Last(L[m]) = VersionAt(m, Settled) /\ Last(M[m]) = v /\ M # L
  <2> HIDE DEF l, L, M
  <2> QED BY <1>7, <1>8, <1>9 DEF Last
<1>11. Promise!Decide(m)
  BY <1>8, <1>10 DEF Promise!Decide, Promise!Current, Promise!Last, Last
<1>12. Keeps
  BY <1>10, <1>11 DEF Keeps, Promise!Next
<1> QED BY <1>6, <1>12

\* The steps that tell nothing.
LEMMA QuietSteps ==
  ASSUME IInv, IInv', Promised,
         \/ \E o \in Objects : ReadStart(o) \/ ReadBytes(o) \/ Check(o) \/ ReadEnd(o)
         \/ HandNext \/ ApplyOne \/ Serve \/ UNCHANGED vars
  PROVE  Promised' /\ Keeps
<1>1. SUFFICES UNCHANGED <<objs, last, crashes, disk>> /\ Coming' = Coming /\ Settled' = Settled
  BY ToldNoMore, KeepsStill
<1>2. CASE \E o \in Objects : ReadStart(o) \/ ReadBytes(o) \/ Check(o) \/ ReadEnd(o)
  <2>1. UNCHANGED <<objs, last, bluestore, phase, crashes, aborted>>
    BY <1>2 DEF ReadStart, ReadBytes, Check, ReadEnd
  <2>2. Coming' = Coming /\ Settled' = Settled
    BY <2>1, SameStore
  <2> QED BY <2>1, <2>2 DEF bluestore
<1>3. CASE Serve \/ UNCHANGED vars
  <2>1. UNCHANGED <<objs, last, bluestore, crashes>>
    BY <1>3 DEF Serve, engine, vars
  <2> QED BY <2>1, NotPrepared DEF bluestore, Coming
<1>4. CASE ApplyOne
  BY <1>4, Applied DEF engine, Coming
<1>5. CASE HandNext
  <2> DEFINE T == Head(queue)
  <2>1. /\ current = <<>> /\ current' = T.ops /\ handed' = Append(handed, T)
        /\ queue # <<>> /\ queue' = Tail(queue)
        /\ UNCHANGED <<objs, held, reads, last, store, disk, phase, crashes, aborted>>
    BY <1>5 DEF HandNext, engine
  <2>2. Types /\ queue \in Seq(Txns) /\ handed \in Seq(Txns) /\ current \in Seq(Ops)
    BY DEF IInv, Types
  <2>3. Len(current) < 1 /\ Len(queue) > 0
    BY <2>1, <2>2
  <2>4. Coming' = Coming
    <3>1. ASSUME NEW a \in Seq(Txns), NEW b \in Seq(Txns), Len(b) > 0
          PROVE  Append(a, Head(b)) \o Tail(b) = a \o b
      <4>1. /\ Head(b) \in Txns /\ Tail(b) \in Seq(Txns) /\ <<Head(b)>> \in Seq(Txns)
            /\ Append(a, Head(b)) = a \o <<Head(b)>> /\ <<Head(b)>> \o Tail(b) = b
        BY <3>1
      <4> QED BY <4>1, CatAssociates
    <3> QED BY <2>1, <2>2, <2>3, <3>1 DEF Coming
  <2>5. Settled' = Settled
    <3>1. Settled' = ApplyAll(Pending', store') /\ Pending' = OpsOn(current', queue')
      BY DEF Settled, Pending, OpsOn, Flat
    <3>2. OpsOn(T.ops, Tail(queue)) = OpsOn(current, queue)
      BY <2>2, <2>3, OpsOnTake
    <3> QED BY <2>1, <2>2, <3>1, <3>2, Queued DEF Pending
  <2> QED BY <2>1, <2>4, <2>5
<1> QED BY <1>2, <1>3, <1>4, <1>5

\* The steps that only bring an Object or let it go.
LEMMA ObjectOnly ==
  ASSUME IInv, Promised, NEW o \in Objects, NEW y, objs' = [objs EXCEPT ![o] = y],
         UNCHANGED <<queue, current, handed, store, disk, crashes>>,
         last' \in Nat, last <= last', y.state \in Writing => Wrote(y, crashes) /\ y.ts > last
  PROVE  Promised' /\ Keeps
<1>1. Coming' = Coming /\ Settled' = Settled
  BY NotPrepared DEF Coming
<1>2. Wrote(y, crashes)
  BY DEF Wrote
<1>3. /\ \A p \in Objects : Wrote(objs'[p], crashes')
      /\ Onward(objs, last, objs', last') /\ crashes' \in 0 .. MaxCrashes
  BY <1>2, OneObject
<1> QED BY <1>1, <1>3, ToldNothing, KeepsStill

\* Find, Create and Open, and the end of one that never wrote.
LEMMA ObjectSteps ==
  ASSUME IInv, Promised, NEW o \in Objects,
         \/ \E n \in Names : Find(o, n)
         \/ \E n \in Names, tick \in Ticks : Create(o, n, tick)
         \/ Open(o)
         \/ Drop(o) /\ objs[o].state \notin {"IN_WRITE", "OLD"}
  PROVE  Promised' /\ Keeps
<1>1. UNCHANGED <<queue, current, handed, store, disk, crashes>>
  BY DEF Find, Create, Open, Drop, bluestore
<1>2. last \in Nat /\ last <= last
  BY ObjectFacts
<1>3. CASE \E n \in Names : Find(o, n)
  <2>1. PICK n \in Names : Find(o, n)
    BY <1>3
  <2> DEFINE y == [Free EXCEPT !.name = n, !.state = "PRE_SEARCH"]
  <2>2. objs' = [objs EXCEPT ![o] = y] /\ last' = last
    BY <2>1 DEF Find
  <2>3. y.state \notin Writing
    BY FreeTyped DEF Writing
  <2> HIDE DEF y
  <2> QED BY <1>1, <1>2, <2>2, <2>3, ObjectOnly
<1>4. CASE \E n \in Names, tick \in Ticks : Create(o, n, tick)
  <2>1. PICK n \in Names, tick \in Ticks : Create(o, n, tick)
    BY <1>4
  <2> DEFINE y == [Free EXCEPT !.name = n, !.state = "PRE_WRITE", !.ts = tick,
                               !.id = <<crashes, tick>>]
  <2>2. objs' = [objs EXCEPT ![o] = y] /\ last' = tick /\ tick > last /\ tick \in Nat
    BY <2>1, EngineAssumption, Apart DEF Create
  <2>3. y.ts = tick /\ y.id = <<crashes, tick>> /\ y.written = 0 /\ y.metas = 0
    BY DEF Free
  <2>4. 0 \in 0 .. MaxChunks /\ 0 \in 0 .. MaxMetas
    BY EngineAssumption
  <2> HIDE DEF y
  <2>5. Wrote(y, crashes) /\ y.ts > last /\ last' \in Nat /\ last <= last'
    BY <1>2, <2>2, <2>3, <2>4 DEF Wrote
  <2> QED BY <1>1, <2>2, <2>5, ObjectOnly
<1>5. CASE Open(o)
  <2> DEFINE at == Ordinary(objs[o].name)
             y == IF store[at] # NoEntry THEN Loaded(at, store[at])
                  ELSE [objs[o] EXCEPT !.state = "MISSING"]
  <2>1. objs' = [objs EXCEPT ![o] = y] /\ last' = last
    BY <1>5 DEF Open
  <2>2. y.state \notin Writing
    <3>1. Loaded(at, store[at]).state = "ACTIVE"
      BY DEF Loaded, StateOf, Ordinary
    <3>2. [objs[o] EXCEPT !.state = "MISSING"].state = "MISSING"
      BY ObjectFacts DEF Objs
    <3> QED BY <3>1, <3>2 DEF Writing
  <2> HIDE DEF y
  <2> QED BY <1>1, <1>2, <2>1, <2>2, ObjectOnly
<1>6. CASE Drop(o)
  <2>1. objs' = [objs EXCEPT ![o] = Free] /\ last' = last
    BY <1>6 DEF Drop
  <2>2. Free.state \notin Writing
    BY FreeTyped DEF Writing
  <2> QED BY <1>1, <1>2, <2>1, <2>2, ObjectOnly
<1> QED BY <1>3, <1>4, <1>5, <1>6

\* The steps of an Object that does not hold the name, and prepares.
LEMMA AsideSteps ==
  ASSUME IInv, IInv', Promised, NEW o \in Objects,
         \/ Write(o)
         \/ Drop(o) /\ objs[o].state \in {"IN_WRITE", "OLD"}
         \/ \E deleted \in BOOLEAN : WriteMetadata(o, deleted) /\ objs[o].state # "ACTIVE"
  PROVE  Promised' /\ Keeps
<1>1. UNCHANGED <<last, current, handed, store, disk, crashes>>
  BY DEF Write, Drop, WriteMetadata
<1>2. last \in Nat /\ last <= last /\ objs[o] \in Objs /\ Wrote(objs[o], crashes)
  BY ObjectFacts DEF Promised
<1>3. SUFFICES ASSUME NEW T, NEW y, queue' = Append(queue, T), objs' = [objs EXCEPT ![o] = y],
                      T.of # NoObject => T.of = o, y.state # "ACTIVE", Wrote(y, crashes),
                      y.state \in Writing => objs[o].state \in Writing /\ y.ts = objs[o].ts
               PROVE  Promised' /\ Keeps
  <2>1. CASE Write(o)
    <3> DEFINE x == [objs[o] EXCEPT !.state = "IN_WRITE"]
               y == [x EXCEPT !.written = @ + 1]
               T == Txn(x.name, o, (IF objs[o].state = "PRE_WRITE"
                                    THEN <<Touch(Address(x), x.id), Save(x)>> ELSE <<>>)
                                   \o <<WriteAt(Address(x), x.written, x.id)>>)
    <3>1. /\ queue' = Append(queue, T) /\ objs' = [objs EXCEPT ![o] = y]
          /\ objs[o].state \in Writing /\ objs[o].written < MaxChunks
      BY <2>1 DEF Write, Prepare
    <3>2. T.of = o
      BY DEF Txn
    <3>3. /\ y.state = "IN_WRITE" /\ y.ts = objs[o].ts /\ y.id = objs[o].id
          /\ y.written = objs[o].written + 1 /\ y.metas = objs[o].metas
      BY <1>2 DEF Objs
    <3> HIDE DEF T, y
    <3>4. Wrote(y, crashes)
      BY <1>2, <3>1, <3>3, EngineAssumption DEF Wrote
    <3> QED BY <3>1, <3>2, <3>3, <3>4
  <2>2. CASE Drop(o) /\ objs[o].state \in {"IN_WRITE", "OLD"}
    <3> DEFINE T == Txn(objs[o].name, NoObject, <<Unlink(Address(objs[o]))>>)
    <3>1. queue' = Append(queue, T) /\ objs' = [objs EXCEPT ![o] = Free]
      BY <2>2 DEF Drop, Prepare
    <3>2. T.of = NoObject
      BY DEF Txn
    <3>3. Free.state = "NONE" /\ Wrote(Free, crashes)
      BY FreeTyped DEF Wrote, Writing
    <3> HIDE DEF T
    <3> QED BY <3>1, <3>2, <3>3 DEF Writing
  <2>3. CASE \E deleted \in BOOLEAN : WriteMetadata(o, deleted) /\ objs[o].state # "ACTIVE"
    <3>1. PICK deleted \in BOOLEAN : WriteMetadata(o, deleted) /\ objs[o].state # "ACTIVE"
      BY <2>3
    <3> DEFINE y == Described(objs[o], deleted)
               T == Txn(y.name, o,
                     (IF objs[o].state = "PRE_WRITE" THEN <<Touch(Address(y), y.id)>> ELSE <<>>)
                     \o <<SetHeader(Address(y), y.metas), Save(y)>>)
    <3>2. MetaGiven(o, y, deleted) /\ objs[o].metas < MaxMetas
      BY <3>1, MetaPrepares DEF WriteMetadata
    <3>3. T.of = o
      BY DEF Txn
    <3> HIDE DEF y
    <3>4. /\ queue' = Append(queue, T) /\ objs' = [objs EXCEPT ![o] = y]
          /\ objs[o].state \in Writing /\ y.state = "IN_WRITE" /\ y.ts = objs[o].ts
          /\ y.id = objs[o].id /\ y.written = objs[o].written /\ y.metas = objs[o].metas + 1
      BY <3>1, <3>2 DEF MetaGiven, Writing
    <3> HIDE DEF T
    <3>5. Wrote(y, crashes)
      BY <1>2, <3>2, <3>4, EngineAssumption DEF Wrote
    <3> QED BY <3>3, <3>4, <3>5
  <2> QED BY <2>1, <2>2, <2>3
<1>4. /\ \A p \in Objects : Wrote(objs'[p], crashes')
      /\ Onward(objs, last, objs', last') /\ last' \in Nat
  BY <1>1, <1>2, <1>3, OneObject
<1>5. T.of # NoObject => objs'[T.of].state # "ACTIVE"
  BY <1>3 DEF IInv, Types
<1> QED BY <1>1, <1>3, <1>4, <1>5, ToldAside

\* What an Object says of itself, as a version.
LEMMA VersionTold ==
  ASSUME NEW n, NEW st, NEW x \in Objs, st[Ordinary(n)] = Told(x)
  PROVE  VersionAt(n, st) = [id |-> x.id, ts |-> x.ts, meta |-> x.metas, size |-> x.written]
<1>1. x.written \in Nat
  BY DEF Objs
<1> DEFINE w == x.written
           d == [i \in 1 .. w |-> x.id]
<1>2. Len(d) = w
  BY <1>1
<1>3. /\ Told(x).id = x.id /\ Told(x).ts = x.ts /\ Told(x).meta = x.metas /\ Told(x).data = d
  BY DEF Told
<1> HIDE DEF d
<1> QED BY <1>2, <1>3 DEF VersionAt

\* A POST gives the version that holds the name new metadata.
LEMMA PostStep ==
  ASSUME IInv, IInv', Promised, NEW o \in Objects, NEW deleted \in BOOLEAN,
         WriteMetadata(o, deleted), objs[o].state = "ACTIVE"
  PROVE  Promised' /\ Keeps
<1> DEFINE x == objs[o]
           y == Described(x, deleted)
           n == x.name
           now == VersionAt(n, Settled)
           v == VersionAt(n, Settled')
           T == Txn(y.name, o, (IF x.state = "PRE_WRITE" THEN <<Touch(Address(y), y.id)>> ELSE <<>>)
                               \o <<SetHeader(Address(y), y.metas), Save(y)>>)
<1>1. MetaGiven(o, y, deleted) /\ x.metas < MaxMetas
  BY MetaPrepares DEF WriteMetadata
<1> HIDE DEF y
<1>2. /\ queue' = Append(queue, T) /\ objs' = [objs EXCEPT ![o] = y] /\ y \in Objs
      /\ y.state = "ACTIVE" /\ y.ts = x.ts /\ y.name = n
      /\ y.id = x.id /\ y.written = x.written /\ y.metas = x.metas + 1
      /\ UNCHANGED <<last, current, handed, store, disk, crashes>>
  BY <1>1 DEF MetaGiven
<1> HIDE DEF T
<1>3. /\ last \in Nat /\ last <= last /\ x \in Objs /\ n \in Names /\ x.ts \in Puts(n)
      /\ objs \in [Objects -> Objs] /\ crashes \in Nat
  BY ObjectFacts DEF Placed, IInv, Types
<1>4. Settled[Ordinary(n)] = Told(x)
  BY AddressIs DEF IInv, SettledTrue, Settles, Kept
<1>5. Settled'[Ordinary(n)] = Told(y)
  <2>1. objs'[o] = y /\ Kept(y)
    BY <1>2, <1>3 DEF Kept
  <2>2. Settled'[Address(y)] = Told(y)
    BY <2>1 DEF IInv, SettledTrue, Settles
  <2> QED BY <1>2, <2>2, AddressIs
<1>6. /\ now = [id |-> x.id, ts |-> x.ts, meta |-> x.metas, size |-> x.written]
      /\ v = [id |-> x.id, ts |-> x.ts, meta |-> x.metas + 1, size |-> x.written]
  BY <1>2, <1>3, <1>4, <1>5, VersionTold
<1>7. /\ \A p \in Objects : Wrote(objs'[p], crashes')
      /\ Onward(objs, last, objs', last') /\ last' \in Nat
  <2>1. y.state \notin Writing
    BY <1>2 DEF Writing
  <2> QED BY <1>2, <1>3, <2>1, OneObject DEF Wrote
<1>8. Known(now, crashes, last', objs')
  BY <1>3, <1>7, LineEnds, KnownStill
<1>9. now # Promise!Nothing /\ x.ts # 0
  BY <1>3, <1>6, EngineAssumption, Apart DEF Promise!Nothing
<1> HIDE DEF now, v
<1>10. v \in EngineVersions
  <2>1. now \in EngineVersions /\ x.metas + 1 \in 0 .. MaxMetas
    BY <1>1, <1>3, <1>8, <1>9, EngineAssumption, Apart DEF Known, Objs
  <2> QED BY <1>6, <2>1 DEF EngineVersions
<1>11. Known(v, crashes, last', objs') /\ v # now /\ Promise!Updates(v, now)
  <2>1. v.id = now.id /\ v.ts = now.ts /\ v.size = now.size /\ v.meta # now.meta
    BY <1>3, <1>6 DEF Objs
  <2> QED BY <1>8, <1>9, <1>10, <2>1 DEF Known, Promise!Updates
<1> QED BY <1>2, <1>3, <1>7, <1>10, <1>11, ToldNew DEF v, now

\* A put hands the name to another version, and a newer one.
LEMMA PutTold ==
  ASSUME IInv, IInv', Promised, NEW o \in Objects, NEW ts \in Puts(objs[o].name), Put(o, ts)
  PROVE  Promised' /\ Keeps
<1> DEFINE x == objs[o]
           n == x.name
           p == held[n]
           q == objs[p]
           y == [x EXCEPT !.state = "ACTIVE", !.ts = ts]
           z == [q EXCEPT !.state = IF @ = "ACTIVE" THEN "OLD" ELSE @]
           now == VersionAt(n, Settled)
           v == VersionAt(n, Settled')
           T == Txn(n, o, HandOver(q, x, ts))
<1>1. Putting(o, p, n, x, q, y, z, ts) /\ queue' = Append(queue, T)
  BY PutIs
<1> HIDE DEF T, y, z
<1>2. /\ n \in Names /\ y \in Objs /\ y.name = n /\ y.state = "ACTIVE" /\ y.ts = ts
      /\ y.id = x.id /\ y.metas = x.metas /\ y.written = x.written
      /\ x.state = "IN_WRITE" /\ x.ts \in Times(n) /\ objs'[o] = y
      /\ p \in Objects /\ objs'[p] = z /\ z.state \in {"OLD", "MISSING"}
      /\ \A r \in Objects : r # o /\ r # p => objs'[r] = objs[r]
      /\ Settled[Ordinary(n)].ts = q.ts /\ q.ts < ts /\ ts \in Nat /\ q.ts \in Nat
      /\ UNCHANGED <<last, current, handed, store, disk, crashes>>
  BY <1>1 DEF Putting
<1>3. /\ last \in Nat /\ last <= last /\ x \in Objs /\ crashes \in Nat
  BY ObjectFacts DEF IInv, Types
<1>4. Settled'[Ordinary(n)] = Told(y)
  <2>1. Kept(y)
    BY <1>2 DEF Kept
  <2>2. Settled'[Address(y)] = Told(y)
    BY <1>2, <2>1 DEF IInv, SettledTrue, Settles
  <2> QED BY <1>2, <2>2, AddressIs
<1>5. v = [id |-> x.id, ts |-> ts, meta |-> x.metas, size |-> x.written]
  BY <1>2, <1>4, VersionTold
<1>6. now.ts = q.ts
  BY <1>2 DEF VersionAt
<1>7. \A r \in Objects : objs'[r].state \in Writing => r # o /\ r # p /\ objs'[r] = objs[r]
  BY <1>2 DEF Writing
<1>8. (\A r \in Objects : Wrote(objs'[r], crashes')) /\ Onward(objs, last, objs', last')
  BY <1>2, <1>3, <1>7 DEF Promised, Wrote, Onward
<1>9. /\ x.id = <<crashes, x.ts>> /\ x.written \in 0 .. MaxChunks /\ x.metas \in 0 .. MaxMetas
      /\ crashes \in 0 .. MaxCrashes
  BY <1>2 DEF Promised, Wrote, Writing
<1>10. /\ x.ts <= last
       /\ \A r \in Objects : r # o /\ objs[r].state \in Writing => objs[r].ts # x.ts
  BY <1>2, ObjectFacts DEF Stamped, Writing
<1>11. Known(now, crashes, last, objs)
  BY <1>2, LineEnds
<1> HIDE DEF now, v
<1>12. v \in EngineVersions
  BY <1>2, <1>5, <1>9, Apart DEF EngineVersions
<1>13. Known(v, crashes, last', objs')
  <2>1. v.id[1] = crashes /\ v.id[2] = x.ts
    BY <1>5, <1>9
  <2>2. \A r \in Objects : objs'[r].state \in Writing => objs'[r].ts # x.ts
    BY <1>7, <1>10
  <2> QED BY <1>2, <1>3, <1>10, <1>12, <2>1, <2>2 DEF Known
<1>14. v.id # now.id
  <2>1. SUFFICES ASSUME now.id = <<crashes, x.ts>>
                 PROVE  FALSE
    BY <1>5, <1>9
  <2>2. now.id[1] = crashes /\ now.id[2] = x.ts /\ now.id # <<>>
    BY <2>1
  <2>3. now # Promise!Nothing
    BY <2>2 DEF Promise!Nothing
  <2> QED BY <1>2, <1>11, <2>2, <2>3 DEF Known, Writing
<1>15. v # now /\ Promise!Replaces(v, now)
  BY <1>2, <1>5, <1>6, <1>14 DEF Promise!Replaces
<1>16. last' \in Nat
  BY <1>2, <1>3
<1> QED BY <1>1, <1>2, <1>8, <1>12, <1>13, <1>15, <1>16, ToldNew DEF v, now

\* A commit makes the first decision on one line durable, or on none.
LEMMA CommitTold ==
  ASSUME IInv, IInv', Promised, NEW i \in 1 .. Len(handed), Commit(i)
  PROVE  Promised' /\ Keeps
<1> DEFINE T == handed[i]
<1>1. /\ \A j \in 1 .. i - 1 : handed[j].coll # T.coll
      /\ disk' = ApplyAll(T.ops, disk) /\ handed' = RemoveAt(handed, i)
      /\ UNCHANGED <<objs, last, queue, current, store, crashes>>
  BY DEF Commit, engine
<1>2. /\ Types /\ Ending /\ handed \in Seq(Txns) /\ queue \in Seq(Txns)
      /\ handed' \in Seq(Txns) /\ disk \in Contents /\ disk' \in Contents
  BY DEF IInv, Types
<1>3. Settled' = Settled
  BY <1>1, NotPrepared
<1>4. Without(Coming', Coming, i)
  <2>1. Without(handed', handed, i)
    BY <1>1, <1>2, RemoveAtIs
  <2> QED BY <1>1, <1>2, <2>1, WithoutMore DEF Coming
<1>5. /\ Coming \in Seq(Txns) /\ \A j \in 1 .. Len(Coming) : Proper(Coming[j])
      /\ Len(Coming) = Len(handed) + Len(queue) /\ Len(handed) \in Nat /\ Len(queue) \in Nat
      /\ \A j \in 1 .. Len(handed) : Coming[j] = handed[j]
  BY <1>2, ComingOps
<1>6. Coming' \in Seq(Txns)
  BY <1>1, <1>2 DEF Coming
<1>7. /\ i \in 1 .. Len(Coming) /\ Coming[i] = T /\ T \in Txns /\ Proper(T)
      /\ \A j \in 1 .. i - 1 : Coming[j].coll # Coming[i].coll
  <2>1. i \in 1 .. Len(Coming) /\ \A j \in 1 .. i - 1 : j \in 1 .. Len(handed)
    BY <1>5
  <2>2. Coming[i] = T /\ \A j \in 1 .. i - 1 : Coming[j].coll # T.coll
    <3> HIDE DEF T
    <3>1. Coming[i] = T
      BY <1>5 DEF T
    <3>2. \A j \in 1 .. i - 1 : Coming[j] = handed[j]
      BY <1>5, <2>1
    <3> QED BY <1>1, <3>1, <3>2
  <2>3. T \in Txns
    BY <1>2
  <2>4. Proper(T)
    BY <1>5, <2>1, <2>2
  <2> QED BY <2>1, <2>2, <2>3, <2>4
<1> HIDE DEF T
<1> DEFINE u(n) == Before(n, disk, disk')
<1>8. ASSUME NEW n \in Names
      PROVE  /\ Agree(n, Teller(n)'.st, Settled') /\ Line(n) = u(n) \o Line(n)'
             /\ Line(n)' \in Seq(Versioned) /\ Len(Line(n)') > 0
  <2>1. Alike(n, u(n), Story(n, Coming, disk), Story(n, Coming', disk'))
    BY <1>1, <1>2, <1>4, <1>5, <1>6, <1>7, CommitLine
  <2>2. /\ Teller(n) = Story(n, Coming, disk) /\ Teller(n)' = Story(n, Coming', disk')
        /\ Line(n) = Teller(n).line /\ Line(n)' = Teller(n)'.line
    BY DEF Teller, Line, Coming
  <2>3. Sound(Teller(n)', n, disk')
    BY <1>2, <1>6, <2>2, StorySound
  <2>4. Agree(n, Teller(n).st, Settled)
    BY DEF Promised
  <2> QED BY <1>3, <2>1, <2>2, <2>3, <2>4 DEF Alike, Agree, Sound
<1>9. \A n \in Names : \/ u(n) = <<>> /\ VersionAt(n, disk') = VersionAt(n, disk)
                       \/ u(n) = <<VersionAt(n, disk)>>
  BY DEF Before
<1> HIDE DEF u
<1>10. \A v \in Versioned : \A l \in Seq(Versioned) : Len(l) > 0 =>
          /\ <<>> \o l = l
          /\ Len(<<v>> \o l) = Len(l) + 1 /\ Len(l) \in Nat /\ Tail(<<v>> \o l) = l
          /\ \A k \in 1 .. Len(l) : l[k] = (<<v>> \o l)[k + 1]
  OBVIOUS
<1>11. \A n \in Names : VersionAt(n, disk) \in Versioned
  BY <1>2, VersionTyped
<1>12. ASSUME NEW n \in Names
       PROVE  /\ Agree(n, Teller(n)'.st, Settled')
              /\ \/ Line(n)' = Line(n)
                 \/ u(n) # <<>> /\ Len(Line(n)) > 1 /\ Line(n)' = Tail(Line(n))
              /\ \A k \in 1 .. Len(Line(n)') : Known(Line(n)'[k], crashes', last', objs')
  <2> DEFINE l == Line(n)
             m == Line(n)'
  <2>1. /\ l = u(n) \o m /\ m \in Seq(Versioned) /\ Len(m) > 0
        /\ \A k \in 1 .. Len(l) : Known(l[k], crashes, last, objs)
    BY <1>8 DEF Promised
  <2> HIDE DEF l, m
  <2>2. CASE u(n) = <<>>
    BY <1>1, <1>8, <1>10, <1>11, <2>1, <2>2 DEF l, m
  <2>3. CASE u(n) = <<VersionAt(n, disk)>>
    <3>1. /\ Len(l) = Len(m) + 1 /\ Len(m) \in Nat /\ Tail(l) = m
          /\ \A k \in 1 .. Len(m) : m[k] = l[k + 1] /\ k + 1 \in 1 .. Len(l)
      BY <1>10, <1>11, <2>1, <2>3
    <3>2. u(n) # <<>> /\ Len(l) > 1
      BY <2>1, <2>3, <3>1
    <3>3. \A k \in 1 .. Len(m) : Known(m[k], crashes, last, objs)
      BY <2>1, <3>1
    <3> QED BY <1>1, <1>8, <3>1, <3>2, <3>3 DEF l, m
  <2> QED BY <1>9, <2>2, <2>3
<1>13. Promised'
  BY <1>1, <1>12 DEF Promised
<1>14. PICK k \in Names : Given(T) \subseteq OpsOf(k)
  BY <1>7 DEF Proper
<1>15. \A n \in Names : n # k => Line(n)' = Line(n)
  <2>1. T.ops \in Seq(Ops) /\ \A j \in 1 .. Len(T.ops) : T.ops[j] \in OpsOf(k)
    BY <1>7, <1>14 DEF Given, Txns
  <2>2. ASSUME NEW n \in Names, n # k
        PROVE  u(n) = <<>>
    <3>1. VersionAt(n, disk') = VersionAt(n, disk)
      BY <1>1, <1>2, <2>1, <2>2, ApplyAllElsewhere, VersionSame
    <3> QED BY <3>1 DEF u, Before
  <2> QED BY <1>12, <2>2
<1> DEFINE L == [n \in Names |-> Line(n)]
           M == [n \in Names |-> Line(n)']
<1>16. CASE Line(k)' = Line(k)
  BY <1>13, <1>15, <1>16, KeepsStill
<1>17. CASE Line(k)' # Line(k)
  <2>1. Len(Line(k)) > 1 /\ Line(k)' = Tail(Line(k))
    BY <1>12, <1>17
  <2>2. M = [L EXCEPT ![k] = Tail(@)] /\ Len(L[k]) > 1 /\ M # L
    <3>1. L[k] = Line(k) /\ M[k] = Line(k)'
      OBVIOUS
    <3>2. M = [L EXCEPT ![k] = Tail(@)]
      BY <1>15, <2>1
    <3> HIDE DEF L, M
    <3> QED BY <1>17, <2>1, <3>1, <3>2
  <2>3. Promise!Commit(k)
    BY <2>2 DEF Promise!Commit
  <2>4. Keeps
    BY <2>2, <2>3 DEF Keeps, Promise!Next
  <2> QED BY <1>13, <2>4
<1> QED BY <1>16, <1>17

\* Nothing is on its way.
LEMMA TellerNone ==
  ASSUME Types', queue' = <<>>, current' = <<>>, handed' = <<>>, disk' = store', NEW n \in Names
  PROVE  /\ Agree(n, Teller(n)'.st, Settled') /\ Line(n)' = <<VersionAt(n, disk')>>
<1>1. /\ <<>> \in Seq(Ops) /\ <<>> \in Seq(Txns) /\ Len(<<>>) < 1 /\ <<>> \o <<>> = <<>>
  OBVIOUS
<1>2. Settled' = disk'
  <2>1. Settled' = ApplyAll(OpsOn(current', queue'), store')
    BY DEF Settled, OpsOn, Flat
  <2>2. OpsOn(<<>>, <<>>) = <<>> /\ ApplyAll(<<>>, store') = store'
    BY <1>1, OpsOnNone, NoOps
  <2> QED BY <2>1, <2>2
<1>3. /\ Teller(n)' = Story(n, <<>>, disk') /\ Line(n)' = Story(n, <<>>, disk').line
  BY <1>1 DEF Teller, Line, Coming
<1>4. Teller(n)'.st = Settled' /\ Line(n)' = <<VersionAt(n, disk')>>
  BY <1>2, <1>3, StoryNone
<1> QED BY <1>4 DEF Agree

\* A crash leaves of each line what is durable.
LEMMA CrashTold ==
  ASSUME IInv, IInv', Promised, Crash
  PROVE  Promised' /\ Keeps
<1>1. /\ crashes < MaxCrashes /\ crashes' = crashes + 1 /\ objs' = [o \in Objects |-> Free]
      /\ queue' = <<>> /\ current' = <<>> /\ handed' = <<>> /\ store' = disk /\ disk' = disk
  BY DEF Crash
<1>2. crashes \in Nat /\ crashes' \in 0 .. MaxCrashes
  BY <1>1, EngineAssumption DEF IInv, Types
<1>3. \A o \in Objects : Wrote(objs'[o], crashes')
  BY <1>1, FreeTyped DEF Wrote, Writing
<1>4. ASSUME NEW n \in Names
      PROVE  /\ Agree(n, Teller(n)'.st, Settled') /\ Line(n)' = <<Head(Line(n))>>
             /\ Known(Head(Line(n)), crashes', last', objs')
  <2> DEFINE l == Line(n)
  <2>1. /\ Agree(n, Teller(n)'.st, Settled') /\ Line(n)' = <<VersionAt(n, disk)>>
    BY <1>1, TellerNone DEF IInv
  <2>2. /\ l \in Seq(Versioned) /\ Len(l) > 0 /\ l[1] = VersionAt(n, disk)
        /\ \A k \in 1 .. Len(l) : Known(l[k], crashes, last, objs)
    BY LineEnds DEF Promised
  <2> HIDE DEF l
  <2>3. Head(l) = l[1] /\ 1 \in 1 .. Len(l)
    BY <2>2
  <2> DEFINE v == Head(l)
  <2>4. Known(v, crashes, last, objs)
    BY <2>2, <2>3
  <2> HIDE DEF v
  <2>5. Known(v, crashes', last', objs')
    <3>1. SUFFICES ASSUME v # Promise!Nothing
                   PROVE  Known(v, crashes', last', objs')
      BY DEF Known
    <3>2. v \in EngineVersions /\ v.id[1] <= crashes
      BY <2>4, <3>1 DEF Known
    <3>3. v.id[1] \in Nat
      BY <3>2 DEF EngineVersions
    <3>4. v.id[1] <= crashes' /\ v.id[1] # crashes'
      BY <1>1, <1>2, <3>2, <3>3
    <3> QED BY <3>2, <3>4 DEF Known
  <2> QED BY <2>1, <2>2, <2>3, <2>5 DEF l, v
<1>5. Promised'
  <2>1. \A n \in Names : \A k \in 1 .. Len(Line(n)') : Line(n)'[k] = Head(Line(n))
    BY <1>4
  <2> QED BY <1>2, <1>3, <1>4, <2>1 DEF Promised
<1>6. Keeps
  <2> DEFINE L == [n \in Names |-> Line(n)]
             M == [n \in Names |-> Line(n)']
  <2>1. M = [n \in Names |-> <<Head(L[n])>>]
    BY <1>4
  <2> QED BY <2>1 DEF Keeps, Promise!Next, Promise!Crash
<1> QED BY <1>5, <1>6

\* The sweep is not about names.
LEMMA SweepTold ==
  ASSUME IInv, IInv', Promised, Sweep
  PROVE  Promised' /\ Keeps
<1>1. phase = "mounted" /\ UNCHANGED <<objs, held, last, current, handed, store, disk, crashes>>
  BY DEF Sweep, engine
<1>2. /\ current = <<>> /\ handed = <<>> /\ queue = <<>> /\ store = disk /\ disk \in Contents
      /\ \A n \in Names : held[n] = NoObject
      /\ Coming' = queue' /\ queue' \in Seq(Txns)
  <2>1. /\ current = <<>> /\ handed = <<>> /\ queue = <<>> /\ store = disk /\ disk \in Contents
        /\ queue' \in Seq(Txns) /\ \A n \in Names : held[n] = NoObject
    BY <1>1, EmptySeq DEF IInv, Types, Frozen
  <2>2. <<>> \o queue' = queue'
    BY <2>1, ConcatEmptySeq
  <2> QED BY <1>1, <2>1, <2>2 DEF Coming
<1> DEFINE q == queue'
<1>3. Settled' = ApplyAll(Flat(q), disk)
  <2>1. Settled' = ApplyAll(OpsOn(current', queue'), store')
    BY DEF Settled, OpsOn, Flat
  <2>2. \A i \in 1 .. Len(q) : q[i].ops \in Seq(Ops)
    BY <1>2, TxnOps
  <2>3. Flat(q) \in Seq(Ops)
    BY <1>2, <2>2, FlatTyped
  <2>4. <<>> \o Flat(q) = Flat(q)
    BY <2>3, ConcatEmptySeq
  <2> QED BY <1>1, <1>2, <2>1, <2>4 DEF OpsOn
<1>4. \A n \in Names : \A i \in 1 .. Len(q) : ~Touches(q[i], n)
  BY <1>1, <1>2 DEF IInv, Answered, Answers
<1>5. \A i \in 1 .. Len(q) : q[i] \in Txns
  BY <1>2
<1>6. q \in Seq(Txns) /\ Len(q) \in Nat
  BY <1>2
<1>7. ASSUME NEW n \in Names
      PROVE  /\ Agree(n, Teller(n)'.st, Settled') /\ Line(n)' = Line(n)
  <2> DEFINE A == {Ordinary(n)}
  <2> HIDE DEF q
  <2>1. Teller(n)' = Story(n, q, disk) /\ Line(n)' = Teller(n)'.line
    BY <1>1, <1>2 DEF Teller, Line, Coming, q
  <2>2. Teller(n)'.st = Settled'
    BY <1>2, <1>3, <1>6, <2>1, StoryFlat
  <2>3. Idles(A, q, Len(q))
    BY <1>4, <1>5, Untouching DEF Idles
  <2>4. PICK f : Tale(f, n, q, disk, Len(q)) /\ Story(n, q, disk) = f[Len(q)]
    BY <1>6, StoryTold
  <2>5. Calm(f[Len(q)], A, n, disk)
    <3>1. A \in SUBSET Addresses /\ Ordinary(n) \in A /\ Len(q) \in 0 .. Len(q)
      BY <1>6, AddressFacts
    <3> HIDE DEF A
    <3> QED BY <1>2, <1>6, <2>3, <2>4, <3>1, TaleQuiet
  <2>6. Line(n) = <<VersionAt(n, disk)>>
    <3>1. <<>> \o <<>> = <<>>
      OBVIOUS
    <3> QED BY <1>2, <3>1, StoryNone DEF Line
  <2> QED BY <2>1, <2>2, <2>4, <2>5, <2>6 DEF Calm, Agree
<1>8. Promised'
  BY <1>1, <1>7 DEF Promised
<1> QED BY <1>7, <1>8, KeepsStill

\* An empty store holds nothing of any name.
LEMMA PromisedInit ==
  ASSUME Init, IInv
  PROVE  Promised /\ [n \in Names |-> Line(n)] = [n \in Names |-> <<Promise!Nothing>>]
<1>1. /\ queue = <<>> /\ current = <<>> /\ handed = <<>> /\ disk = Empty /\ store = Empty
      /\ crashes = 0 /\ objs = [o \in Objects |-> Free]
  BY DEF Init
<1>2. /\ <<>> \in Seq(Ops) /\ <<>> \in Seq(Txns) /\ Len(<<>>) < 1 /\ <<>> \o <<>> = <<>>
  OBVIOUS
<1>3. Settled = Empty
  <2>1. Settled = ApplyAll(OpsOn(current, queue), store)
    BY DEF Settled, OpsOn, Flat
  <2>2. OpsOn(<<>>, <<>>) = <<>> /\ ApplyAll(<<>>, store) = store
    BY <1>2, OpsOnNone, NoOps
  <2> QED BY <1>1, <2>1, <2>2
<1>4. ASSUME NEW n \in Names
      PROVE  Agree(n, Teller(n).st, Settled) /\ Line(n) = <<Promise!Nothing>>
  <2>1. Teller(n) = Story(n, <<>>, Empty) /\ Line(n) = Story(n, <<>>, Empty).line
    BY <1>1, <1>2 DEF Teller, Line, Coming
  <2>2. VersionAt(n, Empty) = Promise!Nothing
    <3>1. Empty[Ordinary(n)] = NoEntry
      BY AddressFacts DEF Empty
    <3>2. Len(<<>>) = 0
      OBVIOUS
    <3> QED BY <3>1, <3>2 DEF VersionAt, NoEntry, NoWriter, Promise!Nothing
  <2> QED BY <1>3, <2>1, <2>2, StoryNone DEF Agree
<1>5. crashes \in 0 .. MaxCrashes /\ \A o \in Objects : Wrote(objs[o], crashes)
  <2>1. MaxCrashes \in Nat /\ Free.state \notin Writing
    BY FreeTyped, EngineAssumption DEF Writing
  <2> QED BY <1>1, <2>1 DEF Wrote
<1>6. \A n \in Names : \A k \in 1 .. Len(Line(n)) : Line(n)[k] = Promise!Nothing
  BY <1>4
<1> QED BY <1>4, <1>5, <1>6 DEF Promised, Known

\* Every step of the engine is one of the promise, or none.
LEMMA PromisedStep ==
  ASSUME IInv, IInv', Promised, (Next /\ Divided) \/ UNCHANGED vars
  PROVE  Promised' /\ Keeps
<1>1. CASE \E o \in Objects, n \in Names : Find(o, n)
  BY <1>1, ObjectSteps
<1>2. CASE \E o \in Objects, n \in Names, tick \in Ticks : Create(o, n, tick)
  BY <1>2, ObjectSteps
<1>3. CASE \E o \in Objects : Open(o)
  BY <1>3, ObjectSteps
<1>4. CASE \E o \in Objects : Write(o)
  BY <1>4, AsideSteps
<1>5. CASE \E o \in Objects : Drop(o)
  BY <1>5, AsideSteps, ObjectSteps
<1>6. CASE \E o \in Objects, deleted \in BOOLEAN : WriteMetadata(o, deleted)
  BY <1>6, AsideSteps, PostStep
<1>7. CASE Divided /\ \E o \in Objects, ts \in Stamps : Put(o, ts)
  BY <1>7, PutTold DEF Divided
<1>8. CASE \E o \in Objects : ReadStart(o) \/ ReadBytes(o) \/ Check(o) \/ ReadEnd(o)
  BY <1>8, QuietSteps
<1>9. CASE HandNext \/ ApplyOne \/ Serve \/ UNCHANGED vars
  BY <1>9, QuietSteps
<1>10. CASE Crash
  BY <1>10, CrashTold
<1>11. CASE Sweep
  BY <1>11, SweepTold
<1>12. CASE \E i \in 1 .. Len(handed) : Commit(i)
  BY <1>12, CommitTold
<1> QED BY <1>1, <1>2, <1>3, <1>4, <1>5, <1>6, <1>7, <1>8, <1>9, <1>10, <1>11, <1>12 DEF Next

(* Unless a put takes a time that an Object of its name was created with,  *)
(* the engine keeps the promise of NameStore: whatever is written, put,    *)
(* read, removed, committed and lost in a crash, a name is only handed to  *)
(* a newer version or given new metadata, decisions become durable one by  *)
(* one in their order, and a crash keeps what was durable (object.cpp,     *)
(* backend.cpp).                                                           *)
THEOREM KeepsPromiseAlways ==
  Spec /\ Unmet => KeepsPromise
<1>1. Init => IInv /\ Promised /\ Promise!Init
  BY InitIInv, PromisedInit DEF Promise!Init
<1>2. IInv /\ [Next]_vars /\ [Divided]_vars => IInv'
  BY NextStep, StutterStep
<1>3. IInv /\ IInv' /\ Promised /\ [Next]_vars /\ [Divided]_vars => Promised' /\ Keeps
  BY PromisedStep
<1>4. IInv /\ IInv' /\ Promised /\ [Next]_vars /\ [Divided]_vars =>
         Promised' /\ [Promise!Next]_([n \in Names |-> Line(n)])
  BY <1>3 DEF Keeps
<1> QED BY <1>1, <1>2, <1>4, PTL DEF Spec, Unmet, KeepsPromise, Promise!Spec
=============================================================================
