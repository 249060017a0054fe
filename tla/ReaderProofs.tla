---------------------------- MODULE ReaderProofs ----------------------------
(***************************************************************************)
(* Reader keeps what its invariants say, for any number of readers,        *)
(* ranges, bytes, PUTs and bytes lost. What each reader has open is a      *)
(* version that stays, so a step of one is about that one's record and one *)
(* file: most of what follows is about such a record s and its file, and   *)
(* only OneReads and what comes after is about the variables.              *)
(***************************************************************************)
EXTENDS Reader, TLAPS, FiniteSetTheorems, SequenceTheorems

-----------------------------------------------------------------------------
\* A finite set of integers has a greatest element: strict inclusion of finite
\* sets is well-founded.
LEMMA GreatestExists ==
  ASSUME NEW S, S \subseteq Int, IsFiniteSet(S), S # {}
  PROVE  \E x \in S : \A y \in S : y <= x
<1> DEFINE From(x) == {y \in S : x <= y}
           Segments == {From(x) : x \in S}
           R == StrictSubsetOrdering(S)
<1>1. Segments \subseteq FiniteSubsetsOf(S) /\ Segments # {}
  <2>1. \A x \in S : IsFiniteSet(From(x)) /\ From(x) \in SUBSET S
    BY FS_Subset
  <2> QED BY <2>1 DEF FiniteSubsetsOf
<1>2. IsWellFoundedOn(R, FiniteSubsetsOf(S))
  BY FS_StrictSubsetOrderingWellFounded
<1> HIDE DEF R
<1>3. PICK s \in Segments : \A t \in Segments : ~(<<t, s>> \in R)
  <2> HIDE DEF Segments
  <2> QED BY <1>1, <1>2, WFMin
<1>4. PICK x \in S : s = From(x)
  OBVIOUS
<1>5. ASSUME NEW y \in S, ~(y <= x)
      PROVE  FALSE
  <2>1. /\ From(y) \in Segments
        /\ From(y) \in SUBSET S /\ From(x) \in SUBSET S
        /\ From(y) \subseteq From(x)
        /\ x \in From(x) /\ x \notin From(y)
    <3>1. x \in Int /\ y \in Int /\ x < y
      BY <1>5
    <3>2. From(y) \in Segments /\ From(y) \in SUBSET S /\ From(x) \in SUBSET S
      OBVIOUS
    <3>3. \A z \in S : y <= z => x <= z
      BY <3>1
    <3>4. x \in From(x) /\ x \notin From(y)
      BY <3>1
    <3> QED BY <3>2, <3>3, <3>4
  <2>2. <<From(y), From(x)>> \in R
    BY <2>1 DEF R, StrictSubsetOrdering
  <2> QED BY <2>1, <2>2, <1>3, <1>4
<1> QED BY <1>5

\* Induction along a sequence.
LEMMA Upto ==
  ASSUME NEW n \in Nat, NEW P, 0 \in P, \A k \in 0 .. n - 1 : k \in P => k + 1 \in P
  PROVE  \A k \in 0 .. n : k \in P
<1> DEFINE Held == {k \in 0 .. n : \A i \in 0 .. k : i \in P}
<1>1. Held \subseteq Int /\ IsFiniteSet(Held) /\ 0 \in Held
  <2>1. IsFiniteSet(0 .. n)
    BY FS_Interval
  <2>2. Held \subseteq 0 .. n
    OBVIOUS
  <2> QED BY <2>1, <2>2, FS_Subset
<1>2. PICK k \in Held : \A i \in Held : i <= k
  <2> HIDE DEF Held
  <2> QED BY <1>1, GreatestExists
<1>3. k = n
  <2> SUFFICES ASSUME k # n PROVE FALSE
    OBVIOUS
  <2>1. k \in 0 .. n - 1 /\ k + 1 \in 0 .. n /\ k \in P
    OBVIOUS
  <2>2. \A i \in 0 .. k + 1 : i \in 0 .. k \/ i = k + 1
    BY <2>1
  <2>3. k + 1 \in Held
    BY <2>1, <2>2
  <2> QED BY <1>2, <2>1, <2>3
<1> QED BY <1>3

\* What FlattenSeq's recursion computes.
Joined(f, s, n) == f = [i \in 1 .. n |-> IF i = 1 THEN s[i] ELSE f[i - 1] \o s[i]]

(* There is a function that holds the partial results of FlattenSeq. *)
LEMMA JoinedExists ==
  ASSUME NEW s, NEW n \in Nat, n > 0
  PROVE  \E f : Joined(f, s, n)
<1> DEFINE P == {k \in Nat : \E f : Joined(f, s, k + 1)}
<1>1. 0 \in P
  <2> DEFINE f == [i \in 1 .. 1 |-> s[i]]
  <2>1. f = [i \in 1 .. 1 |-> IF i = 1 THEN s[i] ELSE f[i - 1] \o s[i]]
    OBVIOUS
  <2>2. Joined(f, s, 0 + 1)
    BY <2>1 DEF Joined
  <2> QED BY <2>2
<1>2. ASSUME NEW k \in 0 .. (n - 1) - 1, k \in P
      PROVE  k + 1 \in P
  <2>1. k \in Nat /\ k + 1 \in Nat
    OBVIOUS
  <2>2. PICK f : Joined(f, s, k + 1)
    BY <1>2
  <2> DEFINE m == (k + 1) + 1
             h == [i \in 1 .. m |-> IF i = m THEN f[k + 1] \o s[i] ELSE f[i]]
  <2>3. \A i \in 1 .. k + 1 : f[i] = IF i = 1 THEN s[i] ELSE f[i - 1] \o s[i]
    BY <2>2 DEF Joined
  <2>4. \A i \in 1 .. m : h[i] = IF i = 1 THEN s[i] ELSE h[i - 1] \o s[i]
    <3> TAKE i \in 1 .. m
    <3>1. CASE i = m
      <4>1. i # 1 /\ i - 1 = k + 1 /\ k + 1 \in 1 .. m /\ k + 1 # m
        BY <2>1, <3>1
      <4> QED BY <3>1, <4>1
    <3>2. CASE i # m
      <4>1. i \in 1 .. k + 1 /\ h[i] = f[i]
        BY <2>1, <3>2
      <4>2. i # 1 => i - 1 \in 1 .. m /\ i - 1 # m /\ h[i - 1] = f[i - 1]
        BY <2>1, <3>2
      <4> HIDE DEF h
      <4> QED BY <2>3, <4>1, <4>2
    <3> QED BY <3>1, <3>2
  <2>5. h = [i \in 1 .. m |-> IF i = 1 THEN s[i] ELSE h[i - 1] \o s[i]]
    <3>1. h = [i \in 1 .. m |-> h[i]]
      OBVIOUS
    <3> HIDE DEF h
    <3> QED BY <3>1, <2>4
  <2>6. Joined(h, s, (k + 1) + 1)
    BY <2>5 DEF Joined
  <2> QED BY <2>1, <2>6
<1> HIDE DEF P
<1>3. n - 1 \in Nat /\ n - 1 \in 0 .. n - 1 /\ (n - 1) + 1 = n
  OBVIOUS
<1>4. n - 1 \in P
  BY <1>1, <1>2, <1>3, Upto
<1> QED BY <1>3, <1>4 DEF P

(* FlattenSeq takes the last of them. *)
LEMMA FlattenJoins ==
  ASSUME NEW s, Len(s) \in Nat, Len(s) > 0
  PROVE  \E f : Joined(f, s, Len(s)) /\ FlattenSeq(s) = f[Len(s)]
<1> DEFINE f == CHOOSE f : f = [i \in 1 .. Len(s) |->
                                  IF i = 1 THEN s[i] ELSE f[i - 1] \o s[i]]
<1>1. FlattenSeq(s) = f[Len(s)]
  BY DEF FlattenSeq
<1>2. \E g : g = [i \in 1 .. Len(s) |-> IF i = 1 THEN s[i] ELSE g[i - 1] \o s[i]]
  <2>1. PICK g : Joined(g, s, Len(s))
    BY JoinedExists
  <2>2. g = [i \in 1 .. Len(s) |-> IF i = 1 THEN s[i] ELSE g[i - 1] \o s[i]]
    BY <2>1 DEF Joined
  <2> QED BY <2>2
<1>3. Joined(f, s, Len(s))
  BY <1>2 DEF Joined
<1> QED BY <1>1, <1>3

(* The partial results are sequences of the same elements. *)
LEMMA JoinedTyped ==
  ASSUME NEW A, NEW s \in Seq(Seq(A)), NEW f, NEW n \in 1 .. Len(s), Joined(f, s, n)
  PROVE  /\ \A i \in 1 .. n : f[i] = IF i = 1 THEN s[i] ELSE f[i - 1] \o s[i]
         /\ \A i \in 1 .. n : f[i] \in Seq(A)
<1>0. n \in Nat /\ n > 0 /\ \A i \in 1 .. n : s[i] \in Seq(A)
  OBVIOUS
<1>1. \A i \in 1 .. n : f[i] = IF i = 1 THEN s[i] ELSE f[i - 1] \o s[i]
  BY DEF Joined
<1> DEFINE P == {k \in 0 .. n - 1 : f[k + 1] \in Seq(A)}
<1>2. 0 \in P
  <2>1. f[1] = s[1] /\ 1 \in 1 .. n /\ 0 + 1 = 1
    BY <1>0, <1>1
  <2> QED BY <1>0, <2>1
<1>3. ASSUME NEW k \in 0 .. (n - 1) - 1, k \in P
      PROVE  k + 1 \in P
  <2>1. /\ (k + 1) + 1 \in 1 .. n /\ (k + 1) + 1 # 1 /\ ((k + 1) + 1) - 1 = k + 1
        /\ k + 1 \in 0 .. n - 1
    BY <1>0
  <2> DEFINE a == f[k + 1]
             b == s[(k + 1) + 1]
  <2>2. f[(k + 1) + 1] = a \o b
    BY <1>1, <2>1
  <2>3. a \in Seq(A) /\ b \in Seq(A)
    BY <1>0, <1>3, <2>1
  <2> HIDE DEF a, b
  <2>4. a \o b \in Seq(A)
    BY <2>3
  <2> QED BY <2>1, <2>2, <2>4
<1>4. \A k \in 0 .. n - 1 : k \in P
  <2>1. n - 1 \in Nat
    BY <1>0
  <2> HIDE DEF P
  <2> QED BY <1>2, <1>3, <2>1, Upto
<1>5. ASSUME NEW i \in 1 .. n
      PROVE  f[i] \in Seq(A)
  <2>1. i - 1 \in 0 .. n - 1 /\ (i - 1) + 1 = i
    BY <1>0
  <2>2. i - 1 \in P
    BY <1>4, <2>1
  <2> QED BY <2>1, <2>2
<1> QED BY <1>1, <1>5

(* One more sequence at the end: its elements follow the others. *)
LEMMA FlattenSnoc ==
  ASSUME NEW A, NEW s \in Seq(Seq(A)), NEW x \in Seq(A), Len(s) > 0
  PROVE  FlattenSeq(Append(s, x)) = FlattenSeq(s) \o x
<1> DEFINE n == Len(s)
           t == Append(s, x)
<1>0. /\ n \in Nat /\ n > 0 /\ t \in Seq(Seq(A)) /\ Len(t) = n + 1 /\ t[n + 1] = x
      /\ \A i \in 1 .. n : t[i] = s[i]
  OBVIOUS
<1> HIDE DEF t
<1>1. PICK f : Joined(f, s, n) /\ FlattenSeq(s) = f[n]
  BY <1>0, FlattenJoins
<1>2. PICK g : Joined(g, t, n + 1) /\ FlattenSeq(t) = g[n + 1]
  <2>1. Len(t) \in Nat /\ Len(t) > 0
    BY <1>0
  <2>2. PICK g : Joined(g, t, Len(t)) /\ FlattenSeq(t) = g[Len(t)]
    BY <2>1, FlattenJoins
  <2> QED BY <1>0, <2>2
<1>3. /\ \A i \in 1 .. n : f[i] = IF i = 1 THEN s[i] ELSE f[i - 1] \o s[i]
      /\ \A i \in 1 .. n + 1 : g[i] = IF i = 1 THEN t[i] ELSE g[i - 1] \o t[i]
  BY <1>1, <1>2 DEF Joined
<1> DEFINE P == {k \in 0 .. n - 1 : f[k + 1] = g[k + 1]}
<1>4. 0 \in P
  BY <1>0, <1>3
<1>5. ASSUME NEW k \in 0 .. (n - 1) - 1, k \in P
      PROVE  k + 1 \in P
  <2>1. /\ (k + 1) + 1 \in 1 .. n /\ (k + 1) + 1 \in 1 .. n + 1 /\ (k + 1) + 1 # 1
        /\ ((k + 1) + 1) - 1 = k + 1 /\ k + 1 \in 0 .. n - 1
    BY <1>0
  <2>2. /\ f[(k + 1) + 1] = f[k + 1] \o s[(k + 1) + 1]
        /\ g[(k + 1) + 1] = g[k + 1] \o t[(k + 1) + 1]
    BY <1>3, <2>1
  <2> QED BY <1>0, <1>5, <2>1, <2>2
<1>6. n - 1 \in P
  <2>1. n - 1 \in Nat /\ n - 1 \in 0 .. n - 1
    BY <1>0
  <2> HIDE DEF P
  <2> QED BY <1>4, <1>5, <2>1, Upto
<1>7. f[n] = g[n]
  <2>1. (n - 1) + 1 = n
    BY <1>0
  <2> QED BY <1>6, <2>1
<1>8. g[n + 1] = g[n] \o x
  <2>1. n + 1 \in 1 .. n + 1 /\ n + 1 # 1 /\ (n + 1) - 1 = n
    BY <1>0
  <2> QED BY <1>0, <1>3, <2>1
<1> QED BY <1>1, <1>2, <1>7, <1>8 DEF t

-----------------------------------------------------------------------------
\* The bytes of the first n ranges asked for.
AskedUpto(gs, n) == Asked(SubSeq(gs, 1, n))

\* The bytes of a range.
LEMMA BytesAreInts ==
  ASSUME NEW g, g.start \in Int, g.stop \in Int
  PROVE  /\ Bytes(g) \in Seq(Int)
         /\ g.start <= g.stop => Len(Bytes(g)) = g.stop - g.start
         /\ \A i \in 1..(g.stop - g.start) : Bytes(g)[i] = g.start + i
BY DEF Bytes

\* They are the bytes of all but the last, then those of the last.
LEMMA AskedGrows ==
  ASSUME Size \in Nat, NEW gs \in Seq(Span), NEW n \in 0..Len(gs) - 1
  PROVE  /\ AskedUpto(gs, 0) = <<>>
         /\ AskedUpto(gs, n) \in Seq(Int)
         /\ AskedUpto(gs, n + 1) = AskedUpto(gs, n) \o Bytes(gs[n + 1])
<1> DEFINE s == SubSeq(gs, 1, n)
           t == SubSeq(gs, 1, n + 1)
           ss == [k \in 1..Len(s) |-> Bytes(s[k])]
           tt == [k \in 1..Len(t) |-> Bytes(t[k])]
           x == Bytes(gs[n + 1])
<1>1. /\ n \in Nat /\ Len(gs) \in Nat /\ n + 1 \in 1..Len(gs)
      /\ s \in Seq(Span) /\ Len(s) = n /\ (\A k \in 1..n : s[k] = gs[k])
      /\ t \in Seq(Span) /\ Len(t) = n + 1 /\ (\A k \in 1..n + 1 : t[k] = gs[k])
  OBVIOUS
<1>2. \A g \in Span : Bytes(g) \in Seq(Int)
  <2> SUFFICES ASSUME NEW g \in Span PROVE Bytes(g) \in Seq(Int)
    OBVIOUS
  <2>1. g.start \in Int /\ g.stop \in Int
    BY DEF Span
  <2> QED BY <2>1, BytesAreInts
<1>3. \A k \in 1..Len(gs) : gs[k] \in Span
  OBVIOUS
<1>4. x \in Seq(Int)
  BY <1>1, <1>2, <1>3
<1>5. ss \in Seq(Seq(Int)) /\ Len(ss) = n
  <2>1. \A k \in 1..n : Bytes(s[k]) \in Seq(Int)
    BY <1>1, <1>2, <1>3
  <2> HIDE DEF s
  <2> QED BY <1>1, <2>1
<1>6. tt = Append(ss, x)
  <2>1. \A k \in 1..n : t[k] = s[k]
    BY <1>1
  <2>2. t[n + 1] = gs[n + 1]
    BY <1>1
  <2> HIDE DEF s, t
  <2> QED BY <1>1, <2>1, <2>2
<1>7. AskedUpto(gs, 0) = <<>>
  <2>1. SubSeq(gs, 1, 0) = <<>>
    OBVIOUS
  <2>2. [k \in 1..Len(<<>>) |-> Bytes(<<>>[k])] = <<>>
    OBVIOUS
  <2>3. FlattenSeq(<<>>) = <<>>
    BY DEF FlattenSeq
  <2> QED BY <2>1, <2>2, <2>3 DEF AskedUpto, Asked
<1>8. AskedUpto(gs, n) = FlattenSeq(ss) /\ AskedUpto(gs, n + 1) = FlattenSeq(tt)
  BY DEF AskedUpto, Asked
<1> HIDE DEF ss, tt, x, s, t
<1>9. CASE n = 0
  <2>1. PICK f : Joined(f, tt, Len(tt)) /\ FlattenSeq(tt) = f[Len(tt)]
    <3>1. Len(tt) \in Nat /\ Len(tt) > 0
      BY <1>4, <1>5, <1>6
    <3> QED BY <3>1, FlattenJoins
  <2>2. Len(tt) = 1 /\ tt[1] = x
    BY <1>4, <1>5, <1>6, <1>9
  <2>3. f[1] = tt[1]
    BY <2>1, <2>2 DEF Joined
  <2>4. AskedUpto(gs, n + 1) = x /\ AskedUpto(gs, n) = <<>>
    BY <1>7, <1>8, <1>9, <2>1, <2>2, <2>3
  <2>5. <<>> \o x = x
    BY <1>4
  <2> QED BY <1>4, <1>7, <2>4, <2>5 DEF x
<1>10. CASE n # 0
  <2>1. Len(ss) > 0
    BY <1>1, <1>5, <1>10
  <2>2. FlattenSeq(tt) = FlattenSeq(ss) \o x
    BY <1>4, <1>5, <1>6, <2>1, FlattenSnoc
  <2>3. PICK f : Joined(f, ss, Len(ss)) /\ FlattenSeq(ss) = f[Len(ss)]
    BY <1>1, <1>5, <2>1, FlattenJoins
  <2>4. Len(ss) \in 1..Len(ss)
    BY <1>1, <1>5, <2>1
  <2>5. f[Len(ss)] \in Seq(Int)
    BY <1>5, <2>3, <2>4, JoinedTyped
  <2> QED BY <1>7, <1>8, <2>2, <2>3, <2>5 DEF x
<1> QED BY <1>9, <1>10

\* What a reader is: the fields of its record.
ReaderState ==
  [at : {"idle", "next", "read", "done"}, fp : Nat, unit : Nat,
   todo : Seq(Span), multi : BOOLEAN, splice : BOOLEAN,
   validate : Validate \cup {"never"},
   pos : Nat, left : Int, read : Nat, started : BOOLEAN, eof : BOOLEAN,
   sum : Seq(Int), frag : Seq(Int), sent : Seq(Int), asked : Seq(Span),
   end : {"none", "all", "left", "failed", "quarantined"}]

\* Where a reader stands among its ranges and bounds.
Placed(s, last) ==
  /\ s.fp \in 0..last /\ (s.at # "idle" => s.fp # 0)
  /\ s.pos <= Size /\ -Chunk <= s.left /\ s.left <= Size
  /\ s.at = "idle" => s = Closed
  /\ s.end = "none" \/ s.at # "read"
  /\ s.at = "next" => s.end \in {"none", "left"} /\ (s.end = "left" => s.todo = <<>>)
  /\ s.splice => s.asked = <<Whole>>

\* How many ranges it has begun.
Begun(s) == Len(s.asked) - Len(s.todo)

\* Byte for byte the same, or rotten.
Agrees(a, b) == Len(a) = Len(b) /\ \A i \in 1..Len(b) : a[i] \in {0, b[i]}

\* The part of the present range that was read.
Halfway(s) == [start |-> s.asked[Begun(s)].start, stop |-> s.pos]

\* What it has sent are the bytes asked for so far.
OnItsWay(s, file) ==
  (s.at = "next" \/ s.at = "read") /\ s.end = "none" =>
    /\ Begun(s) \in 0..Len(s.asked)
    /\ \A i \in 1..Len(s.todo) : s.todo[i] = s.asked[Begun(s) + i]
    /\ s.at = "next" /\ Len(file) = Size
         => Agrees(s.sent, AskedUpto(s.asked, Begun(s)))
    /\ s.at = "read" =>
         /\ Begun(s) > 0
         /\ s.left >= 0 /\ s.left = s.asked[Begun(s)].stop - s.pos
         /\ s.asked[Begun(s)].start <= s.pos
         /\ Len(file) = Size
              => Agrees(s.sent, AskedUpto(s.asked, Begun(s) - 1) \o Bytes(Halfway(s)))

\* Nothing rotten.
NoZero(q) == \A i \in 1..Len(q) : q[i] # 0

\* As long as the file is sound, so is all a reader will judge it by.
Judged(s, file) ==
  /\ s.validate # "sometimes" /\ s.end = "quarantined" => file # Sound
  /\ s.at = "next" \/ s.at = "read" =>
       /\ s.at = "read" => ~s.eof
       /\ s.validate = "never" /\ ~s.splice => s.sum = NoSum
       /\ s.frag # NoFrag => s.unit > 0
       /\ file = Sound => s.frag = NoFrag \/ NoZero(s.frag)
       /\ s.started => s.pos = s.read
       /\ s.started /\ file = Sound =>
            /\ s.eof => s.pos = Size
            /\ \/ s.validate = "sometimes"
               \/ s.sum = NoSum
               \/ s.sum = SubSeq(Sound, 1, s.pos)

\* The headers of the whole fragments sent so far, and what follows them, less
\* than one fragment, which is kept.
HasChecked(sent, frag, u) ==
  /\ frag # NoFrag
  /\ \E j \in Nat, m \in 0..Len(sent) :
       /\ m = j * u /\ Len(sent) - m < u
       /\ frag = SubSeq(sent, m + 1, Len(sent))
       /\ \A i \in 1..m : IsHeader(i, u) => sent[i] # 0

\* A reader of the whole object has summed or checked all it has sent.
TakenWhole(s) ==
  s.asked = <<Whole>> =>
    /\ s.at = "next" /\ s.todo # <<>> => s.sent = <<>>
    /\ (s.at = "next" \/ s.at = "read") /\ s.end = "none" /\ s.todo = <<>> =>
         /\ s.started /\ s.read = Len(s.sent) /\ s.left = Size - Len(s.sent)
         /\ \A i \in 1..Len(s.sent) : s.sent[i] \in {0, i}
         /\ s.splice \/ s.validate = "always" => s.sum = s.sent
         /\ s.unit > 0 => HasChecked(s.sent, s.frag, s.unit)
         /\ s.at = "next" => s.eof

\* What it ends with.
Finished(s, file) ==
  s.end = "all" =>
    /\ Len(file) = Size => Agrees(s.sent, Asked(s.asked))
    /\ s.asked = <<Whole>> =>
         /\ Len(s.sent) = Size
         /\ s.splice \/ s.validate = "always" => s.sent = Sound
         /\ s.unit > 0 => \A i \in 1..Size : IsHeader(i, s.unit) => s.sent[i] = i

\* All that holds of one reader.
Good(s, file, last) == /\ Placed(s, last) /\ OnItsWay(s, file) /\ Judged(s, file)
                       /\ TakenWhole(s) /\ Finished(s, file)

\* What holds of the files: none is too long, each byte sound, rotten or unreadable.
FilesAreWhole ==
  /\ newest \in Version /\ dir \in 0..newest
  /\ content \in [Version -> Text]
  /\ \A v \in Version : \A i \in 1..Len(content[v]) : content[v][i] \in {Unreadable, 0, i}

\* The inductive invariant.
ReadInv == /\ FilesAreWhole
           /\ reader \in [Readers -> ReaderState]
           /\ \A r \in Readers : Good(reader[r], content[reader[r].fp], newest)

-----------------------------------------------------------------------------
\* Files, ranges and chunks, as sequences.
LEMMA TextIs ==
  ASSUME Size \in Nat
  PROVE  \A c : c \in Text <=> c \in Seq(Byte) /\ Len(c) <= Size
<1>1. ASSUME NEW c \in Text
      PROVE  c \in Seq(Byte) /\ Len(c) <= Size
  <2>1. PICK n \in 0..Size : c \in [1..n -> Byte]
    BY DEF Text
  <2> QED BY <2>1
<1>2. ASSUME NEW c \in Seq(Byte), Len(c) <= Size
      PROVE  c \in Text
  <2>1. Len(c) \in 0..Size /\ c \in [1..Len(c) -> Byte]
    BY <1>2
  <2> QED BY <2>1 DEF Text
<1> QED BY <1>1, <1>2

LEMMA FileIs ==
  ASSUME FilesAreWhole, NEW v \in 1..newest
  PROVE  /\ v \in Version
         /\ content[v] \in Seq(Int) /\ content[v] \in Seq(Byte) /\ Len(content[v]) \in 0..Size
         /\ \A i \in 1..Len(content[v]) : content[v][i] \in {Unreadable, 0, i}
<1>1. v \in Version /\ Size \in Nat
  BY ReaderAssumption DEF FilesAreWhole, Version
<1>2. content[v] \in Text
  BY <1>1 DEF FilesAreWhole
<1>3. content[v] \in Seq(Byte) /\ Len(content[v]) <= Size
  BY <1>1, <1>2, TextIs
<1>4. Byte \subseteq Int
  BY ReaderAssumption DEF Byte, Unreadable
<1>5. \A c \in Seq(Byte) : c \in Seq(Int)
  <2> SUFFICES ASSUME NEW c \in Seq(Byte) PROVE c \in Seq(Int)
    OBVIOUS
  <2>1. Len(c) \in Nat /\ c \in [1..Len(c) -> Byte]
    OBVIOUS
  <2>2. c \in [1..Len(c) -> Int]
    BY <1>4, <2>1
  <2> QED BY <2>1, <2>2
<1>6. content[v] \in Seq(Int) /\ Len(content[v]) \in Nat
  BY <1>3, <1>5
<1> QED BY <1>1, <1>3, <1>6 DEF FilesAreWhole

LEMMA SoundIs ==
  ASSUME Size \in Nat
  PROVE  /\ Sound \in Seq(Int) /\ Len(Sound) = Size /\ Sound \in Seq(Byte)
         /\ \A i \in 1..Size : Sound[i] = i
BY DEF Sound, Byte

LEMMA WholeIs ==
  ASSUME Size \in Nat \ {0}
  PROVE  /\ Whole \in Span /\ Whole.start = 0 /\ Whole.stop = Size
         /\ <<Whole>> \in Seq(Span)
         /\ AskedUpto(<<Whole>>, 0) = <<>>
<1>1. Whole \in Span /\ Whole.start = 0 /\ Whole.stop = Size
  BY DEF Whole, Span
<1> DEFINE w == Whole
<1> HIDE DEF w
<1>2. <<w>> \in Seq(Span) /\ Len(<<w>>) = 1
  BY <1>1 DEF w
<1>3. 0 \in 0..Len(<<w>>) - 1
  BY <1>2
<1>4. AskedUpto(<<w>>, 0) = <<>>
  BY <1>2, <1>3, AskedGrows
<1> QED BY <1>1, <1>2, <1>4 DEF w

\* The next chunk of a file are the bytes that follow.
LEMMA ChunkIs ==
  ASSUME FilesAreWhole, NEW r \in Readers,
         reader[r].fp \in 1..newest, reader[r].pos \in Nat
  PROVE  LET file == content[reader[r].fp]
             chunk == NextChunk(r)
         IN /\ chunk \in Seq(Int) /\ Len(chunk) \in 0..Chunk
            /\ chunk # <<>> => Len(chunk) > 0 /\ reader[r].pos + Len(chunk) <= Len(file)
            /\ chunk = <<>> => Len(file) <= reader[r].pos
            /\ \A i \in 1..Len(chunk) : chunk[i] = file[reader[r].pos + i]
<1> DEFINE file == content[reader[r].fp]
           pos == reader[r].pos
           to == IF pos + Chunk < Len(file) THEN pos + Chunk ELSE Len(file)
<1>1. file \in Seq(Int) /\ Len(file) \in Nat /\ pos \in Nat /\ to \in Nat /\ Chunk \in Nat \ {0}
  BY FileIs, ReaderAssumption
<1>2. NextChunk(r) = SubSeq(file, pos + 1, to)
  BY DEF NextChunk
<1>3. to <= Len(file) /\ to <= pos + Chunk /\ (to > pos \/ Len(file) <= pos)
  BY <1>1
<1> HIDE DEF file, pos, to
<1>4. \A q \in Seq(Int), a \in Nat, b \in Nat :
        /\ SubSeq(q, a + 1, b) \in Seq(Int) \/ b > Len(q)
        /\ Len(SubSeq(q, a + 1, b)) = IF a < b THEN b - a ELSE 0
        /\ \A i \in 1..(b - a) : SubSeq(q, a + 1, b)[i] = q[a + i]
  OBVIOUS
<1>5. /\ SubSeq(file, pos + 1, to) \in Seq(Int) \/ to > Len(file)
      /\ Len(SubSeq(file, pos + 1, to)) = IF pos < to THEN to - pos ELSE 0
      /\ \A i \in 1..(to - pos) : SubSeq(file, pos + 1, to)[i] = file[pos + i]
  BY <1>1, <1>4
<1> DEFINE chunk == SubSeq(file, pos + 1, to)
<1>6. chunk \in Seq(Int) /\ Len(chunk) = IF pos < to THEN to - pos ELSE 0
  BY <1>1, <1>3, <1>5
<1>7. \A i \in 1..Len(chunk) : i \in 1..(to - pos)
  BY <1>1, <1>6
<1>8. \A i \in 1..Len(chunk) : chunk[i] = file[pos + i]
  BY <1>5, <1>7
<1> HIDE DEF chunk
<1>9. /\ chunk \in Seq(Int) /\ Len(chunk) \in 0..Chunk
      /\ chunk # <<>> => Len(chunk) > 0 /\ pos + Len(chunk) <= Len(file)
      /\ chunk = <<>> => Len(file) <= pos
  BY <1>1, <1>3, <1>6
<1> QED BY <1>2, <1>8, <1>9 DEF chunk, file, pos

\* The fields of a reader, for showing that a record is one.
Fields == {"at", "fp", "unit", "todo", "multi", "splice", "validate", "pos", "left", "read",
           "started", "eof", "sum", "frag", "sent", "asked", "end"}

\* The file a reader has open.
WholeFile(file) == /\ file \in Seq(Int) /\ Len(file) <= Size
                   /\ \A i \in 1..Len(file) : file[i] \in {Unreadable, 0, i}

\* One sequence after the other.
LEMMA CatIs ==
  ASSUME NEW a \in Seq(Int), NEW b \in Seq(Int)
  PROVE  /\ a \o b \in Seq(Int) /\ Len(a) \in Nat /\ Len(b) \in Nat
         /\ Len(a \o b) = Len(a) + Len(b)
         /\ \A i \in 1..Len(a) : (a \o b)[i] = a[i]
         /\ \A i \in 1..Len(b) : (a \o b)[Len(a) + i] = b[i]
         /\ \A i \in 1..Len(a) + Len(b) : i > Len(a) => (a \o b)[i] = b[i - Len(a)]
<1>1. a \o b \in Seq(Int) /\ Len(a \o b) = Len(a) + Len(b) /\ Len(a) \in Nat /\ Len(b) \in Nat
  OBVIOUS
<1>2. \A i \in 1..Len(a) + Len(b) :
        (a \o b)[i] = IF i <= Len(a) THEN a[i] ELSE b[i - Len(a)]
  OBVIOUS
<1>3. \A i \in 1..Len(b) : (a \o b)[Len(a) + i] = b[i]
  <2> SUFFICES ASSUME NEW i \in 1..Len(b) PROVE (a \o b)[Len(a) + i] = b[i]
    OBVIOUS
  <2>1. Len(a) + i \in 1..Len(a) + Len(b) /\ ~(Len(a) + i <= Len(a)) /\ (Len(a) + i) - Len(a) = i
    BY <1>1
  <2> QED BY <1>2, <2>1
<1>4. \A i \in 1..Len(a) : (a \o b)[i] = a[i]
  BY <1>1, <1>2
<1>5. \A i \in 1..Len(a) + Len(b) : i > Len(a) => (a \o b)[i] = b[i - Len(a)]
  BY <1>1, <1>2
<1> QED BY <1>1, <1>3, <1>4, <1>5

\* Two sequences with the same elements.
LEMMA SameSeq ==
  ASSUME NEW a \in Seq(Int), NEW b \in Seq(Int), Len(a) = Len(b),
         \A i \in 1..Len(a) : a[i] = b[i]
  PROVE  a = b
OBVIOUS

\* Agreeing byte for byte is kept by what follows.
LEMMA AgreeOn ==
  ASSUME NEW a \in Seq(Int), NEW b \in Seq(Int), NEW c \in Seq(Int), NEW d \in Seq(Int),
         Agrees(a, b), Agrees(c, d)
  PROVE  Agrees(a \o c, b \o d)
<1>1. Len(a) = Len(b) /\ Len(c) = Len(d)
  BY DEF Agrees
<1>2. /\ Len(a \o c) = Len(a) + Len(c) /\ Len(b \o d) = Len(b) + Len(d)
      /\ Len(a) \in Nat /\ Len(c) \in Nat
  BY CatIs
<1>3. ASSUME NEW i \in 1..Len(b \o d)
      PROVE  (a \o c)[i] \in {0, (b \o d)[i]}
  <2>1. CASE i <= Len(b)
    <3>1. i \in 1..Len(b) /\ i \in 1..Len(a)
      BY <1>1, <1>2, <2>1
    <3>2. (a \o c)[i] = a[i] /\ (b \o d)[i] = b[i]
      BY <3>1, CatIs
    <3> QED BY <3>1, <3>2 DEF Agrees
  <2>2. CASE ~(i <= Len(b))
    <3>1. /\ i - Len(b) \in 1..Len(d) /\ i > Len(b) /\ i \in 1..Len(b) + Len(d)
          /\ i > Len(a) /\ i \in 1..Len(a) + Len(c)
      BY <1>1, <1>2, <2>2
    <3>2. (a \o c)[i] = c[i - Len(a)] /\ (b \o d)[i] = d[i - Len(b)]
      BY <3>1, CatIs
    <3> QED BY <1>1, <3>1, <3>2 DEF Agrees
  <2> QED BY <2>1, <2>2
<1>4. Len(a \o c) = Len(b \o d)
  BY <1>1, <1>2
<1> QED BY <1>3, <1>4 DEF Agrees

\* The bytes of a stretch of the file.
LEMMA StretchIs ==
  ASSUME NEW a \in Int, NEW b \in Int, a <= b
  PROVE  LET p == Bytes([start |-> a, stop |-> b])
         IN p \in Seq(Int) /\ Len(p) = b - a /\ \A i \in 1..(b - a) : p[i] = a + i
<1> DEFINE g == [start |-> a, stop |-> b]
<1>1. g.start = a /\ g.stop = b
  OBVIOUS
<1> HIDE DEF g
<1>2. /\ Bytes(g) \in Seq(Int) /\ Len(Bytes(g)) = b - a
      /\ \A i \in 1..(b - a) : Bytes(g)[i] = a + i
  BY <1>1, BytesAreInts
<1> QED BY <1>2 DEF g

\* The bytes of a stretch and those of the stretch that follows it.
LEMMA BytesGoOn ==
  ASSUME NEW a \in Int, NEW b \in Int, NEW c \in Int, a <= b, b <= c
  PROVE  Bytes([start |-> a, stop |-> c])
           = Bytes([start |-> a, stop |-> b]) \o Bytes([start |-> b, stop |-> c])
<1> DEFINE p == Bytes([start |-> a, stop |-> b])
           q == Bytes([start |-> b, stop |-> c])
           all == Bytes([start |-> a, stop |-> c])
<1>1. p \in Seq(Int) /\ Len(p) = b - a /\ \A i \in 1..(b - a) : p[i] = a + i
  BY StretchIs
<1>2. q \in Seq(Int) /\ Len(q) = c - b /\ \A i \in 1..(c - b) : q[i] = b + i
  BY StretchIs
<1>3. all \in Seq(Int) /\ Len(all) = c - a /\ \A i \in 1..(c - a) : all[i] = a + i
  <2>1. a <= c
    OBVIOUS
  <2> QED BY <2>1, StretchIs
<1> HIDE DEF p, q, all
<1>4. p \o q \in Seq(Int) /\ Len(p \o q) = c - a
  <2>1. p \o q \in Seq(Int) /\ Len(p \o q) = Len(p) + Len(q)
    BY <1>1, <1>2, CatIs
  <2> QED BY <1>1, <1>2, <2>1
<1>5. ASSUME NEW i \in 1..(c - a)
      PROVE  (p \o q)[i] = a + i
  <2>1. CASE i <= b - a
    <3>1. i \in 1..Len(p) /\ i \in 1..(b - a)
      BY <1>1, <2>1
    <3>2. (p \o q)[i] = p[i]
      BY <1>1, <1>2, <3>1, CatIs
    <3> QED BY <1>1, <3>1, <3>2
  <2>2. CASE ~(i <= b - a)
    <3>1. /\ i - (b - a) \in 1..(c - b) /\ i \in 1..Len(p) + Len(q) /\ i > Len(p)
          /\ b + (i - (b - a)) = a + i
      BY <1>1, <1>2, <2>2
    <3>2. (p \o q)[i] = q[i - Len(p)]
      BY <1>1, <1>2, <3>1, CatIs
    <3> QED BY <1>1, <1>2, <3>1, <3>2
  <2> QED BY <2>1, <2>2
<1>6. \A i \in 1..Len(all) : all[i] = (p \o q)[i]
  BY <1>3, <1>5
<1>7. all = p \o q
  BY <1>3, <1>4, <1>6, SameSeq
<1> QED BY <1>7 DEF p, q, all

\* What Took makes of a reader.
TookFrom(s, s1, chunk, sent, at) ==
  /\ s1.at = at /\ s1.pos = s.pos + Len(chunk) /\ s1.read = s.read + Len(chunk)
  /\ s1.sent = s.sent \o sent /\ s1.left = s.left - Len(chunk)
  /\ s1.sum = (IF s.sum = NoSum THEN s.sum ELSE s.sum \o chunk)
  /\ s1.frag = Rest(IF s.frag = NoFrag THEN NoFrag ELSE s.frag \o chunk, s.unit)
  /\ s1.fp = s.fp /\ s1.unit = s.unit /\ s1.todo = s.todo /\ s1.multi = s.multi
  /\ s1.splice = s.splice /\ s1.validate = s.validate
  /\ s1.started = s.started /\ s1.eof = s.eof
  /\ s1.asked = s.asked /\ s1.end = s.end

LEMMA TookIs ==
  ASSUME reader \in [Readers -> ReaderState], NEW r \in Readers,
         NEW sent, NEW at, Took(r, sent, at)
  PROVE  /\ reader' = [q \in Readers |-> reader'[q]]
         /\ \A q \in Readers \ {r} : reader'[q] = reader[q]
         /\ DOMAIN reader'[r] = Fields
         /\ TookFrom(reader[r], reader'[r], NextChunk(r), sent, at)
<1> DEFINE s == reader[r]
           chunk == NextChunk(r)
           frag == Rest(IF s.frag = NoFrag THEN NoFrag ELSE s.frag \o chunk, s.unit)
           sum == IF s.sum = NoSum THEN s.sum ELSE s.sum \o chunk
           pos == s.pos + Len(chunk)
           read == s.read + Len(chunk)
           all == s.sent \o sent
           left == s.left - Len(chunk)
<1>1. reader' = [reader EXCEPT ![r].at = at, ![r].pos = pos, ![r].read = read,
                   ![r].sent = all, ![r].left = left, ![r].sum = sum, ![r].frag = frag]
  BY DEF Took, Buffer
<1>2. s \in ReaderState /\ DOMAIN s = Fields /\ DOMAIN reader = Readers
  BY DEF ReaderState, Fields
<1> HIDE DEF frag, sum, pos, read, all, left
<1>3. /\ reader' = [q \in Readers |-> reader'[q]]
      /\ \A q \in Readers \ {r} : reader'[q] = reader[q]
  BY <1>1, <1>2
<1>4. reader'[r] = [s EXCEPT !.at = at, !.pos = pos, !.read = read, !.sent = all,
                             !.left = left, !.sum = sum, !.frag = frag]
  BY <1>1, <1>2
<1> HIDE DEF s
<1>5. DOMAIN reader'[r] = Fields
  BY <1>2, <1>4
<1>6. /\ reader'[r].at = at /\ reader'[r].pos = pos /\ reader'[r].read = read
      /\ reader'[r].sent = all /\ reader'[r].left = left /\ reader'[r].sum = sum
      /\ reader'[r].frag = frag
      /\ \A f \in Fields \ {"at", "pos", "read", "sent", "left", "sum", "frag"} :
           reader'[r][f] = s[f]
  BY <1>2, <1>4 DEF Fields
<1> DEFINE s1 == reader'[r]
<1> HIDE DEF s1
<1>7. /\ s1.fp = s.fp /\ s1.unit = s.unit /\ s1.todo = s.todo /\ s1.multi = s.multi
      /\ s1.splice = s.splice /\ s1.validate = s.validate
      /\ s1.started = s.started /\ s1.eof = s.eof
      /\ s1.asked = s.asked /\ s1.end = s.end
  BY <1>6 DEF s1, Fields
<1>8. /\ s1.at = at /\ s1.pos = pos /\ s1.read = read /\ s1.sent = all /\ s1.left = left
      /\ s1.sum = sum /\ s1.frag = frag
  BY <1>6 DEF s1
<1>9. TookFrom(s, s1, chunk, sent, at)
  BY <1>7, <1>8 DEF TookFrom, frag, sum, pos, read, all, left
<1> QED BY <1>3, <1>5, <1>9 DEF s, s1

\* A record with the right fields of the right types is a reader's state.
LEMMA StateIs ==
  ASSUME NEW s, s = [f \in Fields |-> s[f]],
         s.at \in {"idle", "next", "read", "done"}, s.fp \in Nat, s.unit \in Nat,
         s.todo \in Seq(Span), s.multi \in BOOLEAN, s.splice \in BOOLEAN,
         s.validate \in Validate \cup {"never"},
         s.pos \in Nat, s.left \in Int, s.read \in Nat, s.started \in BOOLEAN,
         s.eof \in BOOLEAN, s.sum \in Seq(Int), s.frag \in Seq(Int),
         s.sent \in Seq(Int), s.asked \in Seq(Span),
         s.end \in {"none", "all", "left", "failed", "quarantined"}
  PROVE  s \in ReaderState
BY DEF ReaderState, Fields

\* Damage makes no file sound and none longer.
LEMMA RotKeepsGood ==
  ASSUME NEW s, NEW f, NEW g, NEW n, Good(s, f, n),
         g = Sound => f = Sound,
         Len(g) = Size => Len(f) = Size
  PROVE  Good(s, g, n)
<1>1. OnItsWay(s, g)
  BY DEF Good, OnItsWay
<1>2. Judged(s, g)
  BY DEF Good, Judged
<1>3. Finished(s, g)
  BY DEF Good, Finished
<1> QED BY <1>1, <1>2, <1>3 DEF Good

\* A newer version makes no reader worse.
LEMMA PutKeepsGood ==
  ASSUME NEW s, NEW f, NEW n \in Nat, Good(s, f, n), s.fp \in Nat
  PROVE  Good(s, f, n + 1)
<1>1. Placed(s, n + 1)
  BY DEF Good, Placed
<1> QED BY <1>1 DEF Good

\* The whole fragments in a buffer are no more than the buffer.
LEMMA FragmentsFit ==
  ASSUME NEW n \in Nat, NEW u \in Nat, u > 0
  PROVE  (n \div u) * u \in 0..n /\ n - (n \div u) * u < u /\ n \div u \in Nat
OBVIOUS

\* After some whole fragments the headers are again where they are in the first.
LEMMA HeaderFollows ==
  ASSUME NEW u \in Nat, u > 0, NEW j \in Nat, NEW i \in Nat, i > j * u, IsHeader(i, u)
  PROVE  IsHeader(i - j * u, u)
<1>1. PICK k \in 0..i : i = k * u + 1
  BY DEF IsHeader
<1>2. k \in Nat /\ k * u \in Nat /\ j * u \in Nat /\ k * u >= j * u
  BY <1>1
<1>3. k >= j
  <2> SUFFICES ASSUME k < j PROVE FALSE
    BY <1>2
  <2>1. PICK d \in Nat : j = k + 1 + d
    <3>1. j - k - 1 \in Nat /\ j = k + 1 + (j - k - 1)
      BY <1>2
    <3> QED BY <3>1
  <2>2. j * u = k * u + u + d * u /\ d * u \in Nat
    BY <1>2, <2>1
  <2> QED BY <1>2, <2>2
<1>4. PICK d \in Nat : k = j + d
  <2>1. k - j \in Nat /\ k = j + (k - j)
    BY <1>2, <1>3
  <2> QED BY <2>1
<1>5. k * u = j * u + d * u /\ d * u \in Nat
  BY <1>4
<1>6. i - j * u = d * u + 1
  BY <1>1, <1>2, <1>5
<1>7. d <= d * u
  <2>1. u - 1 \in Nat /\ d * u = d + d * (u - 1) /\ d * (u - 1) \in Nat
    OBVIOUS
  <2> QED BY <2>1
<1>8. d \in 0..(i - j * u)
  BY <1>5, <1>6, <1>7
<1> QED BY <1>6, <1>8 DEF IsHeader

\* Less than a fragment has no header but its first byte.
LEMMA FirstHeader ==
  ASSUME NEW u \in Nat, u > 0, NEW h \in Nat, h < u, IsHeader(h, u)
  PROVE  h = 1
<1>1. PICK k \in 0..h : h = k * u + 1
  BY DEF IsHeader
<1>2. k = 0
  <2> SUFFICES ASSUME k # 0 PROVE FALSE
    OBVIOUS
  <2>1. k - 1 \in Nat /\ k * u = u + (k - 1) * u /\ (k - 1) * u \in Nat
    BY <1>1
  <2> QED BY <1>1, <2>1
<1> QED BY <1>1, <1>2

-----------------------------------------------------------------------------
\* A chunk of the file from where the reader stands.
ChunkOf(s, file, chunk) ==
  /\ chunk \in Seq(Int) /\ Len(chunk) \in Nat /\ Len(chunk) > 0 /\ Len(chunk) <= Chunk
  /\ s.pos + Len(chunk) <= Len(file)
  /\ \A i \in 1..Len(chunk) : chunk[i] = file[s.pos + i] /\ chunk[i] # Unreadable

\* What the reader passes on of it, and where it is then.
PassedOn(s, chunk, sent, at) ==
  \/ Len(chunk) <= s.left /\ sent = chunk /\ at = "read"
  \/ ~(Len(chunk) <= s.left) /\ sent = SubSeq(chunk, 1, s.left) /\ at = "next"

LEMMA CatAssociates ==
  ASSUME NEW a \in Seq(Int), NEW b \in Seq(Int), NEW c \in Seq(Int)
  PROVE  (a \o b) \o c = a \o (b \o c)
BY ConcatAssociative

\* Each byte of a chunk that can be read is sound or rotten.
LEMMA ChunkIsByte ==
  ASSUME NEW s \in ReaderState, NEW file, WholeFile(file), NEW chunk, ChunkOf(s, file, chunk)
  PROVE  \A i \in 1..Len(chunk) : chunk[i] >= 0 /\ chunk[i] \in {0, s.pos + i}
<1> SUFFICES ASSUME NEW i \in 1..Len(chunk)
             PROVE  chunk[i] >= 0 /\ chunk[i] \in {0, s.pos + i}
  OBVIOUS
<1>1. s.pos \in Nat
  BY DEF ReaderState
<1>2. Len(chunk) \in Nat /\ Len(file) \in Nat /\ s.pos + Len(chunk) <= Len(file)
      /\ chunk[i] = file[s.pos + i] /\ chunk[i] # Unreadable
  BY DEF ChunkOf, WholeFile
<1>3. s.pos + i \in 1..Len(file)
  BY <1>1, <1>2
<1>4. file[s.pos + i] \in {Unreadable, 0, s.pos + i}
  BY <1>3 DEF WholeFile
<1> QED BY <1>1, <1>2, <1>3, <1>4

\* Some bytes from where a stretch ends lengthen it.
LEMMA StretchGrows ==
  ASSUME NEW a \in Nat, NEW b \in Nat, a <= b,
         NEW all \in Seq(Int), NEW sent \in Seq(Int), NEW piece \in Seq(Int),
         \A i \in 1..Len(piece) : piece[i] \in {0, b + i},
         Agrees(sent, all \o Bytes([start |-> a, stop |-> b]))
  PROVE  Agrees(sent \o piece, all \o Bytes([start |-> a, stop |-> b + Len(piece)]))
<1> DEFINE p == Bytes([start |-> a, stop |-> b])
           q == Bytes([start |-> b, stop |-> b + Len(piece)])
<1>1. Len(piece) \in Nat
  OBVIOUS
<1>2. p \in Seq(Int)
  BY StretchIs
<1>3. q \in Seq(Int) /\ Len(q) = Len(piece) /\ \A i \in 1..Len(piece) : q[i] = b + i
  <2>1. b + Len(piece) \in Int /\ b <= b + Len(piece) /\ (b + Len(piece)) - b = Len(piece)
    BY <1>1
  <2> QED BY <2>1, StretchIs
<1>4. Agrees(piece, q)
  BY <1>3 DEF Agrees
<1>5. Bytes([start |-> a, stop |-> b + Len(piece)]) = p \o q
  <2> DEFINE c == b + Len(piece)
  <2>1. a \in Int /\ b \in Int /\ c \in Int /\ a <= b /\ b <= c
    BY <1>1
  <2> HIDE DEF c
  <2>2. Bytes([start |-> a, stop |-> c])
          = Bytes([start |-> a, stop |-> b]) \o Bytes([start |-> b, stop |-> c])
    BY <2>1, BytesGoOn, Zenon
  <2> QED BY <2>2 DEF c
<1> HIDE DEF p, q
<1>6. all \o p \in Seq(Int)
  BY <1>2, CatIs
<1>7. (all \o p) \o q = all \o (p \o q)
  BY <1>2, <1>3, CatAssociates
<1>8. Agrees(sent \o piece, (all \o p) \o q)
  BY <1>3, <1>4, <1>6, AgreeOn DEF p
<1> QED BY <1>5, <1>7, <1>8

\* A reader in the middle of a range.
LEMMA RangeIs ==
  ASSUME NEW s \in ReaderState, NEW n \in Nat, NEW file,
         Good(s, file, n), s.at = "read"
  PROVE  LET k == Begun(s)  g == s.asked[k]
         IN /\ s.end = "none" /\ k \in 1..Len(s.asked) /\ k - 1 \in 0..Len(s.asked) - 1
            /\ g \in Span /\ g.start \in Nat /\ g.stop \in Nat /\ g.stop <= Size
            /\ g.start <= s.pos /\ s.pos <= g.stop /\ s.left = g.stop - s.pos
            /\ AskedUpto(s.asked, k - 1) \in Seq(Int)
            /\ AskedUpto(s.asked, k) = AskedUpto(s.asked, k - 1)
                                         \o Bytes([start |-> g.start, stop |-> g.stop])
<1> DEFINE k == Begun(s)
           g == s.asked[k]
<1>1. s.end = "none"
  BY DEF Good, Placed
<1>2. /\ k \in 0..Len(s.asked) /\ k > 0 /\ s.left >= 0 /\ s.left = g.stop - s.pos
      /\ g.start <= s.pos
  BY <1>1 DEF Good, OnItsWay
<1>3. s.asked \in Seq(Span) /\ s.pos \in Nat /\ s.left \in Int /\ Size \in Nat
  BY ReaderAssumption DEF ReaderState
<1>4. k \in 1..Len(s.asked) /\ k - 1 \in 0..Len(s.asked) - 1 /\ (k - 1) + 1 = k
  BY <1>2, <1>3
<1> HIDE DEF k
<1>5. g \in Span
  BY <1>3, <1>4
<1>6. g.start \in Nat /\ g.stop \in Nat /\ g.stop <= Size
  BY <1>3, <1>5 DEF Span
<1>7. /\ AskedUpto(s.asked, k - 1) \in Seq(Int)
      /\ AskedUpto(s.asked, k) = AskedUpto(s.asked, k - 1) \o Bytes(s.asked[k])
  BY <1>3, <1>4, AskedGrows
<1>8. Bytes(g) = Bytes([start |-> g.start, stop |-> g.stop])
  BY DEF Bytes
<1>9. s.pos <= g.stop
  BY <1>2, <1>3, <1>6
<1> QED BY <1>1, <1>2, <1>4, <1>5, <1>6, <1>7, <1>8, <1>9 DEF k

\* A step of Took's, without the variables: s becomes s1 by a sound chunk.
Taken(s, s1, file, chunk, n) ==
  /\ s \in ReaderState /\ s1 \in ReaderState /\ n \in Nat /\ WholeFile(file)
  /\ Good(s, file, n) /\ s.at = "read"
  /\ ChunkOf(s, file, chunk)
  /\ ~CorruptFrag(IF s.frag = NoFrag THEN NoFrag ELSE s.frag \o chunk, s.unit)
  /\ \E sent, at : PassedOn(s, chunk, sent, at) /\ TookFrom(s, s1, chunk, sent, at)

\* Reading a chunk keeps each part of the invariant.
LEMMA TakenPlaced ==
  ASSUME NEW s, NEW s1, NEW file, NEW chunk, NEW n,
         Taken(s, s1, file, chunk, n)
  PROVE  Placed(s1, n)
<1>1. PICK sent, at : PassedOn(s, chunk, sent, at) /\ TookFrom(s, s1, chunk, sent, at)
  BY DEF Taken
<1>2. /\ s \in ReaderState /\ s1 \in ReaderState /\ n \in Nat
      /\ Good(s, file, n) /\ s.at = "read" /\ Len(file) <= Size /\ Len(file) \in Nat
      /\ Len(chunk) \in Nat /\ Len(chunk) <= Chunk /\ s.pos + Len(chunk) <= Len(file)
  BY DEF Taken, WholeFile, ChunkOf
<1>3. /\ s.end = "none" /\ s.left \in 0..Size /\ s.pos \in Nat /\ s.left \in Int /\ Size \in Nat
      /\ Chunk \in Nat
  <2>1. s.left \in Int /\ s.pos \in Nat /\ Size \in Nat /\ Chunk \in Nat
    BY <1>2, ReaderAssumption DEF ReaderState
  <2>2. LET g == s.asked[Begun(s)]
        IN s.end = "none" /\ g.start \in Nat /\ g.stop \in Nat /\ g.stop <= Size
             /\ s.pos <= g.stop /\ s.left = g.stop - s.pos
    BY <1>2, RangeIs
  <2> QED BY <2>1, <2>2
<1>4. /\ s1.pos = s.pos + Len(chunk) /\ s1.left = s.left - Len(chunk)
      /\ s1.at = at /\ s1.end = s.end /\ s1.fp = s.fp /\ s1.splice = s.splice
      /\ s1.asked = s.asked /\ s1.todo = s.todo
  BY <1>1 DEF TookFrom
<1>5. at \in {"read", "next"}
  BY <1>1 DEF PassedOn
<1>6. s1.pos <= Size /\ -Chunk <= s1.left /\ s1.left <= Size
  BY <1>2, <1>3, <1>4
<1>7. s.fp \in 0..n /\ s.fp # 0 /\ (s.splice => s.asked = <<Whole>>)
  BY <1>2 DEF Good, Placed
<1> QED BY <1>3, <1>4, <1>5, <1>6, <1>7 DEF Placed

LEMMA TakenOnItsWay ==
  ASSUME NEW s, NEW s1, NEW file, NEW chunk, NEW n,
         Taken(s, s1, file, chunk, n)
  PROVE  OnItsWay(s1, file)
<1>1. PICK sent, at : PassedOn(s, chunk, sent, at) /\ TookFrom(s, s1, chunk, sent, at)
  BY DEF Taken
<1>2. /\ s \in ReaderState /\ s1 \in ReaderState /\ n \in Nat
      /\ Good(s, file, n) /\ s.at = "read" /\ WholeFile(file) /\ Len(file) \in Nat
      /\ chunk \in Seq(Int) /\ Len(chunk) \in Nat /\ s.pos + Len(chunk) <= Len(file)
  BY DEF Taken, WholeFile, ChunkOf
<1>c. \A i \in 1..Len(chunk) : chunk[i] \in {0, s.pos + i}
  BY <1>2, ChunkIsByte DEF Taken
<1>3. /\ s1.pos = s.pos + Len(chunk) /\ s1.left = s.left - Len(chunk)
      /\ s1.at = at /\ s1.end = s.end /\ s1.sent = s.sent \o sent
      /\ s1.asked = s.asked /\ s1.todo = s.todo
  BY <1>1 DEF TookFrom
<1> DEFINE k == Begun(s)
           g == s.asked[k]
           all == AskedUpto(s.asked, k - 1)
           p == Bytes([start |-> g.start, stop |-> s.pos])
<1>4. Begun(s1) = k
  BY <1>3 DEF Begun
<1>5. /\ s.end = "none" /\ k \in 1..Len(s.asked)
      /\ g.start \in Nat /\ g.stop \in Nat /\ g.start <= s.pos /\ s.pos <= g.stop
      /\ s.left = g.stop - s.pos /\ all \in Seq(Int)
      /\ AskedUpto(s.asked, k) = all \o Bytes([start |-> g.start, stop |-> g.stop])
  BY <1>2, RangeIs
<1>6. s.pos \in Nat /\ s.sent \in Seq(Int)
  BY <1>2 DEF ReaderState
<1>7. /\ Len(file) = Size => Agrees(s.sent, all \o p)
      /\ \A i \in 1..Len(s.todo) : s.todo[i] = s.asked[k + i]
      /\ k \in 0..Len(s.asked) /\ k > 0
  <2>1. Halfway(s) = [start |-> g.start, stop |-> s.pos]
    BY DEF Halfway
  <2> QED BY <1>2, <1>5, <2>1 DEF Good, OnItsWay
<1> HIDE DEF k, g, all, p
<1>8. CASE Len(chunk) <= s.left
  <2>1. sent = chunk /\ at = "read"
    BY <1>1, <1>8 DEF PassedOn
  <2>2. s1.left >= 0 /\ s1.left = g.stop - s1.pos /\ g.start <= s1.pos
    <3> DEFINE l == Len(chunk)
               to == g.stop
               from == g.start
    <3>1. /\ l \in Nat /\ to \in Nat /\ from \in Nat /\ from <= s.pos /\ s.pos \in Nat
          /\ s.left = to - s.pos /\ l <= s.left /\ s1.pos = s.pos + l /\ s1.left = s.left - l
      BY <1>2, <1>3, <1>5, <1>6, <1>8
    <3> HIDE DEF l, to, from
    <3>2. s1.left >= 0 /\ s1.left = to - s1.pos /\ from <= s1.pos
      BY <3>1
    <3> QED BY <3>2 DEF to, from
  <2>3. ASSUME Len(file) = Size
        PROVE  Agrees(s1.sent, all \o Bytes([start |-> g.start, stop |-> s1.pos]))
    <3>1. Agrees(s.sent, all \o Bytes([start |-> g.start, stop |-> s.pos]))
      BY <1>7, <2>3 DEF p
    <3>2. /\ g.start \in Nat /\ s.pos \in Nat /\ g.start <= s.pos /\ all \in Seq(Int)
          /\ s.sent \in Seq(Int) /\ chunk \in Seq(Int)
      BY <1>2, <1>5, <1>6
    <3>3. \A i \in 1..Len(chunk) : chunk[i] \in {0, s.pos + i}
      BY <1>c
    <3>4. Agrees(s.sent \o chunk, all \o Bytes([start |-> g.start, stop |-> s.pos + Len(chunk)]))
      BY <3>1, <3>2, <3>3, StretchGrows
    <3> QED BY <1>3, <2>1, <3>4
  <2>4. Halfway(s1) = [start |-> g.start, stop |-> s1.pos] /\ s1.asked[Begun(s1)] = g
    BY <1>3, <1>4 DEF Halfway, g
  <2> QED BY <1>3, <1>4, <1>5, <1>7, <2>1, <2>2, <2>3, <2>4 DEF OnItsWay, all
<1>9. CASE ~(Len(chunk) <= s.left)
  <2>1. sent = SubSeq(chunk, 1, s.left) /\ at = "next"
    BY <1>1, <1>9 DEF PassedOn
  <2>2. s.left \in Nat /\ s.left <= Len(chunk) /\ s.pos + s.left = g.stop
    <3> DEFINE l == Len(chunk)
               to == g.stop
    <3>1. /\ l \in Nat /\ to \in Nat /\ s.pos \in Nat /\ s.pos <= to
          /\ s.left = to - s.pos /\ ~(l <= s.left)
      BY <1>2, <1>5, <1>6, <1>9
    <3> HIDE DEF l, to
    <3>2. s.left \in Nat /\ s.left <= l /\ s.pos + s.left = to
      BY <3>1
    <3> QED BY <3>2 DEF l, to
  <2>3. /\ sent \in Seq(Int) /\ Len(sent) = s.left
        /\ \A i \in 1..Len(sent) : sent[i] = chunk[i] /\ i \in 1..Len(chunk)
    BY <1>2, <2>1, <2>2
  <2>4. s.pos + Len(sent) <= Len(file) /\ s.pos + Len(sent) = g.stop
    BY <1>2, <1>6, <2>2, <2>3
  <2>5. \A i \in 1..Len(sent) : sent[i] \in {0, s.pos + i}
    BY <1>c, <2>3
  <2>6. ASSUME Len(file) = Size
        PROVE  Agrees(s1.sent, AskedUpto(s.asked, k))
    <3>2. Agrees(s.sent, all \o Bytes([start |-> g.start, stop |-> s.pos]))
      BY <1>7, <2>6 DEF p
    <3>3. /\ g.start \in Nat /\ s.pos \in Nat /\ g.start <= s.pos /\ all \in Seq(Int)
          /\ s.sent \in Seq(Int) /\ sent \in Seq(Int)
      BY <1>2, <1>5, <1>6, <2>3, <2>4
    <3>1. Agrees(s.sent \o sent, all \o Bytes([start |-> g.start, stop |-> s.pos + Len(sent)]))
      BY <2>5, <3>2, <3>3, StretchGrows
    <3> QED BY <1>3, <1>5, <2>4, <3>1
  <2> QED BY <1>3, <1>4, <1>5, <1>7, <2>1, <2>6 DEF OnItsWay
<1> QED BY <1>8, <1>9

\* The sound file up to where the chunk ends.
LEMMA SoundReadOn ==
  ASSUME NEW s \in ReaderState, NEW chunk, ChunkOf(s, Sound, chunk)
  PROVE  /\ SubSeq(Sound, 1, s.pos) \o chunk = SubSeq(Sound, 1, s.pos + Len(chunk))
         /\ NoZero(chunk)
<1>1. /\ Sound \in Seq(Int) /\ Len(Sound) = Size /\ Size \in Nat
      /\ \A i \in 1..Size : Sound[i] = i
  BY SoundIs, ReaderAssumption
<1>2. /\ chunk \in Seq(Int) /\ Len(chunk) \in Nat /\ s.pos \in Nat /\ s.pos + Len(chunk) <= Size
      /\ \A i \in 1..Len(chunk) : chunk[i] = Sound[s.pos + i]
  BY <1>1 DEF ChunkOf, ReaderState
<1> DEFINE a == s.pos
           b == s.pos + Len(chunk)
           p == SubSeq(Sound, 1, a)
           q == SubSeq(Sound, 1, b)
<1>3. \A i \in 1..Len(chunk) : chunk[i] = a + i
  <2>1. \A i \in 1..Len(chunk) : a + i \in 1..Size
    BY <1>1, <1>2
  <2> QED BY <1>1, <1>2, <2>1
<1>4. a \in Nat /\ b \in Nat /\ a <= Size /\ b <= Size
  BY <1>1, <1>2
<1>5. \A c \in 0..Size : /\ SubSeq(Sound, 1, c) \in Seq(Int) /\ Len(SubSeq(Sound, 1, c)) = c
                         /\ \A i \in 1..c : SubSeq(Sound, 1, c)[i] = i
  <2> DEFINE sound == Sound
  <2> HIDE DEF sound
  <2>1. sound \in Seq(Int) /\ Len(sound) = Size /\ \A i \in 1..Size : sound[i] = i
    BY <1>1 DEF sound
  <2>2. \A c \in 0..Size : /\ SubSeq(sound, 1, c) \in Seq(Int) /\ Len(SubSeq(sound, 1, c)) = c
                           /\ \A i \in 1..c : SubSeq(sound, 1, c)[i] = sound[i] /\ i \in 1..Size
    BY <1>1, <2>1
  <2> QED BY <2>1, <2>2 DEF sound
<1>6. /\ p \in Seq(Int) /\ Len(p) = a /\ \A i \in 1..a : p[i] = i
      /\ q \in Seq(Int) /\ Len(q) = b /\ \A i \in 1..b : q[i] = i
  BY <1>4, <1>5
<1> HIDE DEF p, q
<1>7. p \o chunk \in Seq(Int) /\ Len(p \o chunk) = b
  <2>1. chunk \in Seq(Int) /\ a + Len(chunk) = b
    BY <1>2
  <2> HIDE DEF a, b
  <2>2. p \o chunk \in Seq(Int) /\ Len(p \o chunk) = Len(p) + Len(chunk)
    BY <1>6, <2>1, CatIs
  <2> QED BY <1>6, <2>1, <2>2
<1>8. ASSUME NEW i \in 1..b
      PROVE  (p \o chunk)[i] = i
  <2>1. CASE i <= a
    <3>1. i \in 1..a /\ i \in 1..Len(p)
      BY <1>4, <1>6, <2>1
    <3> QED BY <1>2, <1>6, <3>1, CatIs
  <2>2. CASE ~(i <= a)
    <3>1. i - Len(p) \in 1..Len(chunk) /\ i \in 1..Len(p) + Len(chunk) /\ i > Len(p)
          /\ a + (i - Len(p)) = i
      BY <1>2, <1>4, <1>6, <2>2
    <3>2. (p \o chunk)[i] = chunk[i - Len(p)]
      BY <1>2, <1>6, <3>1, CatIs
    <3> QED BY <1>3, <3>1, <3>2
  <2> QED BY <2>1, <2>2
<1>9. p \o chunk = q
  BY <1>6, <1>7, <1>8, SameSeq
<1>10. NoZero(chunk)
  BY <1>2, <1>3 DEF NoZero
<1> QED BY <1>9, <1>10 DEF p, q

\* A part of a sequence.
LEMMA PartIs ==
  ASSUME NEW q \in Seq(Int), NEW a \in Nat, NEW b \in Nat, a <= b, b <= Len(q)
  PROVE  /\ SubSeq(q, a + 1, b) \in Seq(Int) /\ Len(SubSeq(q, a + 1, b)) = b - a
         /\ \A i \in 1..(b - a) : SubSeq(q, a + 1, b)[i] = q[a + i]
<1>1. \A r \in Seq(Int), c \in Nat, d \in Nat :
        c <= d /\ d <= Len(r) =>
          /\ SubSeq(r, c + 1, d) \in Seq(Int) /\ Len(SubSeq(r, c + 1, d)) = d - c
          /\ \A i \in 1..(d - c) : SubSeq(r, c + 1, d)[i] = r[c + i]
  OBVIOUS
<1> QED BY <1>1

\* A buffer with its whole fragments and the rest.
LEMMA BufferIs ==
  ASSUME NEW frag \in Seq(Int), NEW chunk \in Seq(Int), Len(chunk) > 0,
         \A i \in 1..Len(chunk) : chunk[i] >= 0, NEW u \in Nat, u > 0
  PROVE  LET buf == frag \o chunk
             m == (Len(buf) \div u) * u
         IN /\ buf # NoFrag /\ buf \in Seq(Int) /\ Len(buf) = Len(frag) + Len(chunk)
            /\ m \in 0..Len(buf) /\ Len(buf) - m < u /\ Len(buf) \div u \in Nat
            /\ Rest(buf, u) = SubSeq(buf, m + 1, Len(buf))
            /\ CorruptFrag(buf, u) <=> \E i \in 1..m : IsHeader(i, u) /\ buf[i] = 0
<1> DEFINE buf == frag \o chunk
           m == (Len(buf) \div u) * u
<1>1. buf \in Seq(Int) /\ Len(buf) = Len(frag) + Len(chunk) /\ Len(buf) \in Nat
  BY CatIs
<1>2. buf # NoFrag
  <2>1. Len(chunk) \in 1..Len(chunk) /\ Len(frag) \in Nat /\ Len(chunk) \in Nat
    OBVIOUS
  <2>2. buf[Len(frag) + Len(chunk)] = chunk[Len(chunk)]
    BY <2>1, CatIs
  <2>3. buf[Len(buf)] >= 0
    BY <1>1, <2>1, <2>2
  <2>4. Len(NoFrag) = 1 /\ NoFrag[1] = -1
    BY DEF NoFrag
  <2> HIDE DEF buf
  <2>5. SUFFICES ASSUME buf = NoFrag PROVE FALSE
    OBVIOUS
  <2>6. buf[1] >= 0
    BY <2>3, <2>4, <2>5
  <2> QED BY <2>4, <2>5, <2>6
<1>3. m \in 0..Len(buf) /\ Len(buf) - m < u /\ Len(buf) \div u \in Nat
  BY <1>1, FragmentsFit
<1>4. Rest(buf, u) = SubSeq(buf, m + 1, Len(buf))
  BY <1>2 DEF Rest
<1>5. CorruptFrag(buf, u) <=> \E i \in 1..m : IsHeader(i, u) /\ buf[i] = 0
  BY <1>2 DEF CorruptFrag
<1> HIDE DEF m, buf
<1> QED BY <1>1, <1>2, <1>3, <1>4, <1>5 DEF m, buf

\* A sound file leaves no zero in the buffer, nor in what is left of it.
LEMMA BufferStaysSound ==
  ASSUME NEW frag \in Seq(Int), NEW chunk \in Seq(Int), Len(chunk) > 0,
         \A i \in 1..Len(chunk) : chunk[i] >= 0, NEW u \in Nat, u > 0,
         NoZero(frag), NoZero(chunk)
  PROVE  NoZero(Rest(frag \o chunk, u)) /\ ~CorruptFrag(frag \o chunk, u)
<1> DEFINE buf == frag \o chunk
           m == (Len(buf) \div u) * u
<1>1. /\ buf \in Seq(Int) /\ Len(buf) = Len(frag) + Len(chunk)
      /\ m \in 0..Len(buf) /\ Rest(buf, u) = SubSeq(buf, m + 1, Len(buf))
      /\ CorruptFrag(buf, u) => \E i \in 1..m : buf[i] = 0
  BY BufferIs
<1>2. ASSUME NEW i \in 1..Len(frag) + Len(chunk)
      PROVE  buf[i] # 0
  <2>0. Len(frag) \in Nat /\ Len(chunk) \in Nat
    OBVIOUS
  <2>1. CASE i <= Len(frag)
    <3>1. i \in 1..Len(frag)
      BY <2>0, <2>1
    <3> QED BY <3>1, CatIs DEF NoZero
  <2>2. CASE ~(i <= Len(frag))
    <3>1. i - Len(frag) \in 1..Len(chunk) /\ i > Len(frag)
      BY <2>0, <2>2
    <3>2. buf[i] = chunk[i - Len(frag)]
      BY <3>1, CatIs
    <3> QED BY <3>1, <3>2 DEF NoZero
  <2> QED BY <2>1, <2>2
<1> HIDE DEF buf, m
<1>3. buf \in Seq(Int) /\ Len(buf) \in Nat /\ m \in Nat /\ m <= Len(buf) /\ Len(buf) <= Len(buf)
  BY <1>1
<1>4. /\ Len(SubSeq(buf, m + 1, Len(buf))) = Len(buf) - m
      /\ \A i \in 1..(Len(buf) - m) : SubSeq(buf, m + 1, Len(buf))[i] = buf[m + i]
  BY <1>3, PartIs
<1>5. \A i \in 1..(Len(buf) - m) : m + i \in 1..Len(frag) + Len(chunk)
  BY <1>1, <1>3
<1>6. NoZero(SubSeq(buf, m + 1, Len(buf)))
  BY <1>2, <1>4, <1>5 DEF NoZero
<1>7. \A i \in 1..m : i \in 1..Len(frag) + Len(chunk)
  BY <1>1, <1>3
<1> QED BY <1>1, <1>2, <1>6, <1>7 DEF buf

LEMMA TakenJudged ==
  ASSUME NEW s, NEW s1, NEW file, NEW chunk, NEW n,
         Taken(s, s1, file, chunk, n)
  PROVE  Judged(s1, file)
<1>1. PICK sent, at : PassedOn(s, chunk, sent, at) /\ TookFrom(s, s1, chunk, sent, at)
  BY DEF Taken
<1>2. /\ s \in ReaderState /\ s1 \in ReaderState /\ n \in Nat /\ WholeFile(file)
      /\ Good(s, file, n) /\ s.at = "read" /\ ChunkOf(s, file, chunk)
  BY DEF Taken
<1>3. /\ s1.pos = s.pos + Len(chunk) /\ s1.read = s.read + Len(chunk) /\ s1.eof = s.eof
      /\ s1.sum = (IF s.sum = NoSum THEN s.sum ELSE s.sum \o chunk)
      /\ s1.frag = Rest(IF s.frag = NoFrag THEN NoFrag ELSE s.frag \o chunk, s.unit)
      /\ s1.unit = s.unit /\ s1.end = s.end /\ s1.splice = s.splice /\ s1.started = s.started
      /\ s1.validate = s.validate
  BY <1>1 DEF TookFrom
<1>4. s.end = "none"
  BY <1>2 DEF Good, Placed
<1>5. /\ ~s.eof
      /\ s.validate = "never" /\ ~s.splice => s.sum = NoSum
      /\ s.frag # NoFrag => s.unit > 0
      /\ file = Sound => s.frag = NoFrag \/ NoZero(s.frag)
      /\ s.started => s.pos = s.read
      /\ s.started /\ file = Sound =>
           \/ s.validate = "sometimes"
           \/ s.sum = NoSum
           \/ s.sum = SubSeq(Sound, 1, s.pos)
  BY <1>2 DEF Good, Judged
<1>6. s1.frag # NoFrag => s1.unit > 0
  BY <1>3, <1>5 DEF Rest
<1>7. ASSUME file = Sound
      PROVE  s1.frag = NoFrag \/ NoZero(s1.frag)
  <2>1. NoZero(chunk)
    BY <1>2, <1>7, SoundReadOn
  <2>2. CASE s.frag = NoFrag
    BY <1>3, <2>2 DEF Rest
  <2>3. CASE s.frag # NoFrag
    <3>1. /\ s.frag \in Seq(Int) /\ chunk \in Seq(Int) /\ Len(chunk) > 0 /\ s.unit \in Nat
          /\ \A i \in 1..Len(chunk) : chunk[i] >= 0
      <4>1. s.frag \in Seq(Int) /\ s.unit \in Nat
        BY <1>2 DEF ReaderState
      <4>2. chunk \in Seq(Int) /\ Len(chunk) > 0
        BY <1>2 DEF ChunkOf
      <4>3. \A i \in 1..Len(chunk) : chunk[i] >= 0 /\ chunk[i] \in {0, s.pos + i}
        BY <1>2, ChunkIsByte
      <4> QED BY <4>1, <4>2, <4>3
    <3>2. NoZero(s.frag) /\ s.unit > 0
      BY <1>5, <1>7, <2>3
    <3>3. NoZero(Rest(s.frag \o chunk, s.unit))
      BY <2>1, <3>1, <3>2, BufferStaysSound
    <3> QED BY <1>3, <2>3, <3>3
  <2> QED BY <2>2, <2>3
<1>8. ASSUME s.started, file = Sound
      PROVE  \/ s1.validate = "sometimes"
             \/ s1.sum = NoSum
             \/ s1.sum = SubSeq(Sound, 1, s1.pos)
  <2>1. SubSeq(Sound, 1, s.pos) \o chunk = SubSeq(Sound, 1, s.pos + Len(chunk))
    BY <1>2, <1>8, SoundReadOn
  <2> QED BY <1>3, <1>5, <1>8, <2>1
<1>9. s1.started => s1.pos = s1.read
  BY <1>3, <1>5
<1>10. ~s1.eof /\ s1.end # "quarantined"
  BY <1>3, <1>4, <1>5
<1>11. s1.validate = "never" /\ ~s1.splice => s1.sum = NoSum
  BY <1>3, <1>5
<1> QED BY <1>3, <1>6, <1>7, <1>8, <1>9, <1>10, <1>11 DEF Judged

\* Checking goes on: the whole fragments of the buffer were without rot.
Bytewise(q) == q \in Seq(Int) /\ \A i \in 1..Len(q) : q[i] >= 0

LEMMA CheckedGoesOn ==
  ASSUME NEW sent, Bytewise(sent), NEW chunk, Bytewise(chunk), Len(chunk) > 0,
         NEW u \in Nat, u > 0, NEW frag, HasChecked(sent, frag, u),
         ~CorruptFrag(frag \o chunk, u)
  PROVE  HasChecked(sent \o chunk, Rest(frag \o chunk, u), u)
<1>0. /\ sent \in Seq(Int) /\ \A i \in 1..Len(sent) : sent[i] >= 0
      /\ chunk \in Seq(Int) /\ \A i \in 1..Len(chunk) : chunk[i] >= 0
  BY DEF Bytewise
<1>m. PICK j \in Nat, m \in 0..Len(sent) :
         /\ m = j * u
         /\ frag = SubSeq(sent, m + 1, Len(sent))
         /\ \A i \in 1..m : IsHeader(i, u) => sent[i] # 0
  BY DEF HasChecked
<1> DEFINE all == sent \o chunk
           buf == frag \o chunk
           k == Len(buf) \div u
           w == k * u
           l == m + w
           rest == Rest(frag \o chunk, u)
<1>1. /\ Len(sent) \in Nat /\ Len(chunk) \in Nat /\ m \in Nat /\ m <= Len(sent)
      /\ Len(sent) <= Len(sent)
  BY <1>0
<1>2. /\ frag \in Seq(Int) /\ Len(frag) = Len(sent) - m
      /\ \A i \in 1..(Len(sent) - m) : frag[i] = sent[m + i]
  <2>1. frag = SubSeq(sent, m + 1, Len(sent))
    BY <1>m
  <2> QED BY <1>0, <1>1, <2>1, PartIs
<1>3. /\ all \in Seq(Int) /\ Len(all) = Len(sent) + Len(chunk)
  BY <1>0, CatIs
<1>4. /\ buf \in Seq(Int) /\ Len(buf) = Len(frag) + Len(chunk)
      /\ w \in 0..Len(buf) /\ rest = SubSeq(buf, w + 1, Len(buf))
      /\ Len(buf) - w < u /\ k \in Nat
      /\ \A i \in 1..w : IsHeader(i, u) => buf[i] # 0
  BY <1>0, <1>2, BufferIs
<1>l. l = (j + k) * u /\ j + k \in Nat /\ m = j * u /\ w = k * u
  <2>1. k \in Nat
    BY <1>4
  <2> HIDE DEF k
  <2>2. (j + k) * u = j * u + k * u
    BY <2>1
  <2> QED BY <1>m, <2>1, <2>2
<1> HIDE DEF k, w, rest
<1>5. ASSUME NEW i \in 1..Len(buf)
      PROVE  buf[i] = all[m + i]
  <2>1. CASE i <= Len(frag)
    <3>1. /\ i \in 1..Len(frag) /\ i \in 1..(Len(sent) - m) /\ m + i \in 1..Len(sent)
      BY <1>1, <1>2, <2>1
    <3>2. buf[i] = frag[i] /\ all[m + i] = sent[m + i]
      BY <1>0, <1>2, <3>1, CatIs
    <3> QED BY <1>2, <3>1, <3>2
  <2>2. CASE ~(i <= Len(frag))
    <3>1. /\ i \in 1..Len(frag) + Len(chunk) /\ i > Len(frag)
          /\ m + i \in 1..Len(sent) + Len(chunk) /\ m + i > Len(sent)
          /\ (m + i) - Len(sent) = i - Len(frag)
      <4>1. Len(frag) \in Nat /\ Len(buf) \in Nat
        BY <1>2, <1>4
      <4>2. Len(frag) = Len(sent) - m /\ Len(buf) = Len(frag) + Len(chunk)
        BY <1>2, <1>4
      <4> HIDE DEF buf
      <4> QED BY <1>1, <2>2, <4>1, <4>2
    <3>2. buf[i] = chunk[i - Len(frag)] /\ all[m + i] = chunk[(m + i) - Len(sent)]
      BY <1>0, <1>2, <3>1, CatIs
    <3> QED BY <3>1, <3>2
  <2> QED BY <2>1, <2>2
<1>6. ASSUME NEW i \in 1..Len(all)
      PROVE  all[i] >= 0 /\ (i <= m /\ IsHeader(i, u) => all[i] # 0)
  <2>1. CASE i <= Len(sent)
    <3>1. i \in 1..Len(sent) /\ (i <= m => i \in 1..m)
      BY <1>1, <1>3, <2>1
    <3>2. all[i] = sent[i]
      BY <1>0, <3>1, CatIs
    <3> QED BY <1>0, <1>m, <3>1, <3>2
  <2>2. CASE ~(i <= Len(sent))
    <3>1. /\ i \in 1..Len(sent) + Len(chunk) /\ i > Len(sent) /\ i - Len(sent) \in 1..Len(chunk)
          /\ ~(i <= m)
      BY <1>1, <1>3, <2>2
    <3>2. all[i] = chunk[i - Len(sent)]
      BY <1>0, <3>1, CatIs
    <3> QED BY <1>0, <1>m, <3>1, <3>2
  <2> QED BY <2>1, <2>2
<1> HIDE DEF all, buf
<1>7. /\ Len(buf) \in Nat /\ w \in Nat /\ w <= Len(buf) /\ Len(buf) <= Len(buf)
      /\ Len(all) \in Nat /\ Len(all) <= Len(all) /\ Len(all) = m + Len(buf)
      /\ l \in Nat /\ l <= Len(all) /\ l \in 0..Len(all)
  BY <1>1, <1>2, <1>3, <1>4
<1> DEFINE tail == SubSeq(all, l + 1, Len(all))
<1> HIDE DEF l
<1>8. /\ rest \in Seq(Int) /\ Len(rest) = Len(buf) - w
      /\ \A i \in 1..(Len(buf) - w) : rest[i] = buf[w + i]
  BY <1>4, <1>7, PartIs
<1>9. /\ tail \in Seq(Int) /\ Len(tail) = Len(all) - l
      /\ \A i \in 1..(Len(all) - l) : tail[i] = all[l + i]
  BY <1>3, <1>7, PartIs
<1> HIDE DEF tail
<1>10. Len(rest) = Len(tail) /\ Len(all) - l = Len(buf) - w
  BY <1>7, <1>8, <1>9 DEF l
<1>11. ASSUME NEW i \in 1..Len(rest)
       PROVE  rest[i] = tail[i] /\ l + i \in 1..Len(all) /\ tail[i] = all[l + i]
  <2>1. /\ i \in 1..(Len(buf) - w) /\ i \in 1..(Len(all) - l) /\ w + i \in 1..Len(buf)
        /\ l + i \in 1..Len(all) /\ m + (w + i) = l + i
    BY <1>1, <1>7, <1>8, <1>10 DEF l
  <2>2. rest[i] = buf[w + i] /\ tail[i] = all[l + i] /\ buf[w + i] = all[m + (w + i)]
    BY <1>5, <1>8, <1>9, <2>1
  <2> QED BY <2>1, <2>2
<1>12. rest = tail
  BY <1>8, <1>9, <1>10, <1>11, SameSeq
<1>13. rest # NoFrag
  <2>1. Len(NoFrag) = 1 /\ NoFrag[1] = -1
    BY DEF NoFrag
  <2> SUFFICES ASSUME rest = NoFrag PROVE FALSE
    OBVIOUS
  <2>2. 1 \in 1..Len(rest)
    BY <2>1
  <2>3. rest[1] >= 0
    BY <1>6, <1>11, <2>2
  <2> QED BY <2>1, <2>3
<1>14. ASSUME NEW i \in 1..l, IsHeader(i, u)
       PROVE  all[i] # 0
  <2>1. i \in 1..Len(all)
    BY <1>7
  <2>2. CASE i <= m
    BY <1>6, <1>14, <2>1, <2>2
  <2>3. CASE ~(i <= m)
    <3>1. i - m \in 1..w /\ i - m \in 1..Len(buf) /\ m + (i - m) = i
      BY <1>1, <1>7, <2>3 DEF l
    <3>2. IsHeader(i - m, u)
      <4>1. i \in Nat /\ i > j * u
        BY <1>1, <1>7, <1>l, <2>3
      <4>2. IsHeader(i - j * u, u)
        BY <1>14, <4>1, HeaderFollows
      <4> QED BY <1>l, <4>2
    <3> QED BY <1>4, <1>5, <3>1, <3>2
  <2> QED BY <2>2, <2>3
<1>15. Len(all) - l < u
  BY <1>4, <1>10
<1>16. HasChecked(all, rest, u)
  BY <1>7, <1>12, <1>13, <1>14, <1>15, <1>l DEF tail, HasChecked
<1> QED BY <1>16 DEF rest, all

LEMMA TakenWholly ==
  ASSUME NEW s, NEW s1, NEW file, NEW chunk, NEW n,
         Taken(s, s1, file, chunk, n)
  PROVE  TakenWhole(s1)
<1> SUFFICES ASSUME s1.asked = <<Whole>> PROVE TakenWhole(s1)
  BY DEF TakenWhole
<1>1. PICK sent, at : PassedOn(s, chunk, sent, at) /\ TookFrom(s, s1, chunk, sent, at)
  BY DEF Taken
<1>2. /\ s \in ReaderState /\ s1 \in ReaderState /\ n \in Nat /\ WholeFile(file)
      /\ Good(s, file, n) /\ s.at = "read" /\ ChunkOf(s, file, chunk)
      /\ ~CorruptFrag(IF s.frag = NoFrag THEN NoFrag ELSE s.frag \o chunk, s.unit)
  BY DEF Taken
<1>3. /\ s1.left = s.left - Len(chunk) /\ s1.read = s.read + Len(chunk)
      /\ s1.sum = (IF s.sum = NoSum THEN s.sum ELSE s.sum \o chunk)
      /\ s1.frag = Rest(IF s.frag = NoFrag THEN NoFrag ELSE s.frag \o chunk, s.unit)
      /\ s1.unit = s.unit /\ s1.end = s.end /\ s1.started = s.started /\ s1.at = at
      /\ s1.sent = s.sent \o sent /\ s1.todo = s.todo /\ s1.asked = s.asked
      /\ s1.splice = s.splice /\ s1.validate = s.validate
  BY <1>1 DEF TookFrom
<1>4. s.end = "none" /\ s.todo = <<>> /\ s.asked = <<Whole>>
  <2>1. s.end = "none" /\ Begun(s) \in 1..Len(s.asked)
    BY <1>2, RangeIs
  <2>2. s.asked = <<Whole>> /\ Len(s.asked) = 1
    <3>1. s.asked = <<Whole>>
      BY <1>3
    <3>2. Len(<<Whole>>) = 1
      OBVIOUS
    <3> QED BY <3>1, <3>2
  <2>3. s.todo \in Seq(Span) /\ Len(s.todo) \in Nat
    BY <1>2 DEF ReaderState
  <2>4. Len(s.todo) = 0
    BY <2>1, <2>2, <2>3 DEF Begun
  <2> QED BY <2>1, <2>2, <2>3, <2>4
<1>5. /\ s.started /\ s.read = Len(s.sent) /\ s.left = Size - Len(s.sent)
      /\ \A i \in 1..Len(s.sent) : s.sent[i] \in {0, i}
      /\ s.splice \/ s.validate = "always" => s.sum = s.sent
      /\ s.unit > 0 => HasChecked(s.sent, s.frag, s.unit)
  BY <1>2, <1>4 DEF Good, TakenWhole
<1>6. s.pos = Len(s.sent)
  BY <1>2, <1>5 DEF Good, Judged
<1>7. /\ chunk \in Seq(Int) /\ Len(chunk) \in Nat /\ Len(chunk) > 0 /\ Len(file) \in Nat
      /\ s.pos + Len(chunk) <= Len(file) /\ Len(file) <= Size /\ Size \in Nat
      /\ s.sent \in Seq(Int) /\ Len(s.sent) \in Nat /\ s.left \in Int /\ s.unit \in Nat
      /\ s.frag \in Seq(Int) /\ s.sum \in Seq(Int) /\ s.read \in Nat
  <2>1. /\ chunk \in Seq(Int) /\ Len(chunk) \in Nat /\ Len(chunk) > 0
        /\ s.pos + Len(chunk) <= Len(file)
    BY <1>2 DEF ChunkOf
  <2>2. Len(file) \in Nat /\ Len(file) <= Size
    BY <1>2 DEF WholeFile
  <2>3. Size \in Nat
    BY ReaderAssumption
  <2>4. /\ s.sent \in Seq(Int) /\ s.left \in Int /\ s.unit \in Nat
        /\ s.frag \in Seq(Int) /\ s.sum \in Seq(Int) /\ s.read \in Nat
    BY <1>2 DEF ReaderState
  <2>5. Len(s.sent) \in Nat
    BY <2>4
  <2> QED BY <2>1, <2>2, <2>3, <2>4, <2>5
<1>8. sent = chunk /\ at = "read"
  <2>1. Len(chunk) <= s.left
    BY <1>5, <1>6, <1>7
  <2> QED BY <1>1, <2>1 DEF PassedOn
<1>9. \A i \in 1..Len(chunk) : chunk[i] >= 0 /\ chunk[i] \in {0, s.pos + i}
  BY <1>2, ChunkIsByte
<1>10. Len(s.sent \o chunk) = Len(s.sent) + Len(chunk)
  BY <1>7, CatIs
<1>11. ASSUME NEW i \in 1..Len(s.sent \o chunk)
       PROVE  (s.sent \o chunk)[i] \in {0, i}
  <2>1. CASE i <= Len(s.sent)
    <3>1. i \in 1..Len(s.sent)
      BY <1>7, <1>10, <2>1
    <3>2. (s.sent \o chunk)[i] = s.sent[i]
      BY <1>7, <3>1, CatIs
    <3> QED BY <1>5, <3>1, <3>2
  <2>2. CASE ~(i <= Len(s.sent))
    <3>1. /\ i \in 1..Len(s.sent) + Len(chunk) /\ i > Len(s.sent)
          /\ i - Len(s.sent) \in 1..Len(chunk) /\ s.pos + (i - Len(s.sent)) = i
      BY <1>6, <1>7, <1>10, <2>2
    <3>2. (s.sent \o chunk)[i] = chunk[i - Len(s.sent)]
      BY <1>7, <3>1, CatIs
    <3> QED BY <1>9, <3>1, <3>2
  <2> QED BY <2>1, <2>2
<1>12. ASSUME s1.splice \/ s1.validate = "always"
       PROVE  s1.sum = s1.sent
  <2>1. s.sum = s.sent
    BY <1>3, <1>5, <1>12
  <2>2. s.sent # NoSum
    <3>1. Len(NoSum) = 1 /\ NoSum[1] = -1
      BY DEF NoSum
    <3> SUFFICES ASSUME s.sent = NoSum PROVE FALSE
      OBVIOUS
    <3>2. 1 \in 1..Len(s.sent) /\ s.sent[1] = -1
      BY <3>1
    <3> QED BY <1>5, <3>2
  <2> QED BY <1>3, <1>8, <2>1, <2>2
<1>13. ASSUME s.unit > 0
       PROVE  HasChecked(s1.sent, s1.frag, s1.unit)
  <2>1. HasChecked(s.sent, s.frag, s.unit) /\ s.frag # NoFrag
    BY <1>5, <1>13 DEF HasChecked
  <2>2. ~CorruptFrag(s.frag \o chunk, s.unit) /\ s1.frag = Rest(s.frag \o chunk, s.unit)
    BY <1>2, <1>3, <2>1
  <2>3. \A i \in 1..Len(s.sent) : s.sent[i] >= 0
    <3> SUFFICES ASSUME NEW i \in 1..Len(s.sent) PROVE s.sent[i] >= 0
      OBVIOUS
    <3>1. s.sent[i] \in {0, i} /\ i \in Nat
      BY <1>5
    <3> QED BY <3>1
  <2>4. Bytewise(s.sent) /\ Bytewise(chunk)
    BY <1>7, <1>9, <2>3 DEF Bytewise
  <2>5. HasChecked(s.sent \o chunk, Rest(s.frag \o chunk, s.unit), s.unit)
    BY <1>7, <1>13, <2>1, <2>2, <2>4, CheckedGoesOn
  <2> QED BY <1>3, <1>8, <2>2, <2>5
<1>14. s1.started /\ s1.read = Len(s1.sent) /\ s1.left = Size - Len(s1.sent)
  BY <1>3, <1>5, <1>7, <1>8, <1>10
<1>15. /\ s1.at = "read" /\ s1.sent = s.sent \o chunk
       /\ (s1.unit > 0 => HasChecked(s1.sent, s1.frag, s1.unit))
  BY <1>3, <1>8, <1>13
<1> QED BY <1>11, <1>12, <1>14, <1>15 DEF TakenWhole

LEMMA TakenIsGood ==
  ASSUME NEW s, NEW s1, NEW file, NEW chunk, NEW n,
         Taken(s, s1, file, chunk, n)
  PROVE  Good(s1, file, n)
<1>1. s1.end # "all"
  <2>1. PICK sent, at : TookFrom(s, s1, chunk, sent, at)
    BY DEF Taken
  <2>2. s1.end = s.end /\ s.end = "none"
    BY <2>1 DEF TookFrom, Taken, Good, Placed
  <2> QED BY <2>2
<1> QED BY <1>1, TakenPlaced, TakenOnItsWay, TakenJudged, TakenWholly DEF Good, Finished

\* At the end of the file the range is over.
LEMMA EofIsGood ==
  ASSUME NEW s \in ReaderState, NEW n \in Nat, NEW file, WholeFile(file),
         Good(s, file, n), s.at = "read", Len(file) <= s.pos, NEW s1,
         s1 = [s EXCEPT !.at = "next", !.eof = TRUE]
  PROVE  s1 \in ReaderState /\ Good(s1, file, n)
<1>1. /\ s1.at = "next" /\ s1.eof = TRUE /\ s1.end = s.end /\ s1.fp = s.fp /\ s1.unit = s.unit
      /\ s1.todo = s.todo /\ s1.splice = s.splice /\ s1.pos = s.pos /\ s1.left = s.left
      /\ s1.read = s.read /\ s1.started = s.started /\ s1.sum = s.sum /\ s1.frag = s.frag
      /\ s1.sent = s.sent /\ s1.asked = s.asked /\ s1.validate = s.validate
  BY DEF ReaderState
<1>2. s1 \in ReaderState
  BY DEF ReaderState
<1>3. /\ Placed(s, n) /\ OnItsWay(s, file) /\ Judged(s, file) /\ TakenWhole(s)
      /\ s.end = "none"
  BY DEF Good, Placed
<1> DEFINE k == Begun(s)
           g == s.asked[k]
<1>4. /\ g.start \in Nat /\ g.stop \in Nat /\ g.stop <= Size /\ s.pos <= g.stop
      /\ k \in 1..Len(s.asked)
      /\ AskedUpto(s.asked, k) = AskedUpto(s.asked, k - 1)
                                   \o Bytes([start |-> g.start, stop |-> g.stop])
  BY RangeIs
<1>5. s.pos \in Nat /\ Size \in Nat /\ Len(file) \in Nat /\ Len(file) <= Size
  BY ReaderAssumption DEF ReaderState, WholeFile
<1>6. Begun(s1) = k
  BY <1>1 DEF Begun
<1>7. Placed(s1, n)
  BY <1>1, <1>3 DEF Placed
<1>8. OnItsWay(s1, file)
  <2>1. ASSUME Len(file) = Size
        PROVE  Agrees(s.sent, AskedUpto(s.asked, k))
    <3>1. s.pos = g.stop
      <4> DEFINE to == g.stop
      <4>1. to \in Nat /\ to <= Size /\ s.pos <= to /\ s.pos \in Nat /\ Size <= s.pos
        BY <1>4, <1>5, <2>1
      <4> HIDE DEF to
      <4>2. s.pos = to
        BY <1>5, <4>1
      <4> QED BY <4>2 DEF to
    <3>2. Halfway(s) = [start |-> g.start, stop |-> g.stop]
      BY <3>1 DEF Halfway
    <3>3. Agrees(s.sent, AskedUpto(s.asked, k - 1) \o Bytes(Halfway(s)))
      BY <1>3, <2>1 DEF OnItsWay
    <3> QED BY <1>4, <3>2, <3>3
  <2>2. /\ k \in 0..Len(s.asked)
        /\ \A i \in 1..Len(s.todo) : s.todo[i] = s.asked[k + i]
    BY <1>3 DEF OnItsWay
  <2> HIDE DEF k
  <2> QED BY <1>1, <1>6, <2>1, <2>2 DEF OnItsWay
<1>9. Judged(s1, file)
  <2>1. file = Sound => s.pos = Size
    <3>1. file = Sound => Len(file) = Size
      BY <1>5, SoundIs
    <3>2. s.pos <= Size
      BY <1>3 DEF Placed
    <3>3. Len(file) = Size => s.pos = Size
      BY <1>5, <3>2
    <3> QED BY <3>1, <3>3
  <2> QED BY <1>1, <1>3, <2>1 DEF Judged
<1>10. TakenWhole(s1)
  <2>1. s.asked = <<Whole>> => s.todo = <<>>
    <3> SUFFICES ASSUME s.asked = <<Whole>> PROVE s.todo = <<>>
      OBVIOUS
    <3>1. Len(s.asked) = 1
      OBVIOUS
    <3>2. s.todo \in Seq(Span) /\ Len(s.todo) \in Nat
      BY DEF ReaderState
    <3>3. Len(s.todo) = 0
      BY <1>4, <3>1, <3>2 DEF Begun
    <3> QED BY <3>2, <3>3
  <2> QED BY <1>1, <1>3, <2>1 DEF TakenWhole
<1>11. Finished(s1, file)
  BY <1>1, <1>3 DEF Finished
<1> QED BY <1>2, <1>7, <1>8, <1>9, <1>10, <1>11 DEF Good

\* A client that leaves.
LEMMA LeaveIsGood ==
  ASSUME NEW s \in ReaderState, NEW n, NEW file,
         Good(s, file, n), s.at \in {"read", "next"}, NEW s1,
         s1 = [s EXCEPT !.at = "next", !.todo = <<>>, !.end = "left"]
  PROVE  s1 \in ReaderState /\ Good(s1, file, n)
<1>1. /\ s1.at = "next" /\ s1.eof = s.eof /\ s1.end = "left" /\ s1.fp = s.fp /\ s1.unit = s.unit
      /\ s1.todo = <<>> /\ s1.splice = s.splice /\ s1.pos = s.pos /\ s1.left = s.left
      /\ s1.read = s.read /\ s1.started = s.started /\ s1.sum = s.sum /\ s1.frag = s.frag
      /\ s1.sent = s.sent /\ s1.asked = s.asked /\ s1.validate = s.validate
  BY DEF ReaderState
<1>2. s1 \in ReaderState
  <2>1. <<>> \in Seq(Span)
    OBVIOUS
  <2> QED BY <2>1 DEF ReaderState
<1>3. Placed(s, n) /\ Judged(s, file)
  BY DEF Good
<1>4. Placed(s1, n)
  BY <1>1, <1>3 DEF Placed
<1>5. OnItsWay(s1, file)
  BY <1>1 DEF OnItsWay
<1>6. Judged(s1, file)
  BY <1>1, <1>3 DEF Judged
<1>7. TakenWhole(s1)
  BY <1>1 DEF TakenWhole
<1>8. Finished(s1, file)
  BY <1>1 DEF Finished
<1> QED BY <1>2, <1>4, <1>5, <1>6, <1>7, <1>8 DEF Good

\* A reader that is done.
LEMMA DoneIsGood ==
  ASSUME NEW s \in ReaderState, NEW n, NEW file, Placed(s, n), s.at # "idle",
         NEW end \in {"all", "left", "failed", "quarantined"}, NEW s1,
         s1 = [s EXCEPT !.at = "done", !.end = end],
         end = "quarantined" /\ s.validate # "sometimes" => file # Sound,
         end = "all" => Finished(s1, file)
  PROVE  s1 \in ReaderState /\ Good(s1, file, n)
<1>1. /\ s1.at = "done" /\ s1.eof = s.eof /\ s1.end = end /\ s1.fp = s.fp /\ s1.unit = s.unit
      /\ s1.todo = s.todo /\ s1.splice = s.splice /\ s1.pos = s.pos /\ s1.left = s.left
      /\ s1.read = s.read /\ s1.started = s.started /\ s1.sum = s.sum /\ s1.frag = s.frag
      /\ s1.sent = s.sent /\ s1.asked = s.asked /\ s1.validate = s.validate
  BY DEF ReaderState
<1>2. s1 \in ReaderState
  BY DEF ReaderState
<1>3. Placed(s1, n)
  BY <1>1 DEF Placed
<1>4. OnItsWay(s1, file)
  BY <1>1 DEF OnItsWay
<1>5. Judged(s1, file)
  BY <1>1 DEF Judged
<1>6. TakenWhole(s1)
  BY <1>1 DEF TakenWhole
<1>7. Finished(s1, file)
  BY <1>1 DEF Finished
<1> QED BY <1>2, <1>3, <1>4, <1>5, <1>6, <1>7 DEF Good

\* A reader whose fragment fails has not read a sound file.
LEMMA FailedFragment ==
  ASSUME NEW s \in ReaderState, NEW n, NEW file, WholeFile(file),
         Good(s, file, n), s.at = "read", NEW chunk, ChunkOf(s, file, chunk),
         CorruptFrag(IF s.frag = NoFrag THEN NoFrag ELSE s.frag \o chunk, s.unit)
  PROVE  file # Sound
<1> SUFFICES ASSUME file = Sound PROVE FALSE
  OBVIOUS
<1>1. s.frag # NoFrag
  BY DEF CorruptFrag
<1>2. NoZero(s.frag) /\ s.unit > 0
  BY <1>1 DEF Good, Judged
<1>3. NoZero(chunk)
  BY SoundReadOn
<1>4. /\ s.frag \in Seq(Int) /\ chunk \in Seq(Int) /\ Len(chunk) > 0 /\ s.unit \in Nat
      /\ \A i \in 1..Len(chunk) : chunk[i] >= 0
  <2>1. s.frag \in Seq(Int) /\ s.unit \in Nat
    BY DEF ReaderState
  <2>2. \A i \in 1..Len(chunk) : chunk[i] >= 0
    BY ChunkIsByte
  <2>3. chunk \in Seq(Int) /\ Len(chunk) > 0
    BY DEF ChunkOf
  <2> QED BY <2>1, <2>2, <2>3
<1>5. ~CorruptFrag(s.frag \o chunk, s.unit)
  BY <1>2, <1>3, <1>4, BufferStaysSound
<1> QED BY <1>1, <1>5

\* What closing suspects of a reader.
Suspected(s) == \/ s.read # Size
                \/ s.sum # NoSum /\ s.sum # Sound
                \/ s.frag \notin {NoFrag, <<>>} /\ s.frag[1] = 0

\* Nobody who read a sound file to its end is suspected.
LEMMA SoundIsTrusted ==
  ASSUME NEW s \in ReaderState, s.validate # "sometimes", NEW n, NEW file,
         Good(s, file, n), s.at = "next", s.started, s.eof, Suspected(s)
  PROVE  file # Sound
<1> SUFFICES ASSUME file = Sound PROVE FALSE
  OBVIOUS
<1>1. /\ s.frag = NoFrag \/ NoZero(s.frag)
      /\ s.pos = s.read /\ s.pos = Size
      /\ s.sum = NoSum \/ s.sum = SubSeq(Sound, 1, s.pos)
  BY DEF Good, Judged
<1>2. SubSeq(Sound, 1, Size) = Sound
  <2> DEFINE sound == Sound
  <2>1. sound \in Seq(Int) /\ Len(sound) = Size
    BY SoundIs, ReaderAssumption
  <2> HIDE DEF sound
  <2>2. SubSeq(sound, 1, Len(sound)) = sound
    BY <2>1
  <2> QED BY <2>1, <2>2 DEF sound
<1>3. ~(s.frag \notin {NoFrag, <<>>} /\ s.frag[1] = 0)
  <2>1. s.frag \in Seq(Int)
    BY DEF ReaderState
  <2>2. s.frag # <<>> => 1 \in 1..Len(s.frag)
    BY <2>1
  <2> QED BY <1>1, <2>2 DEF NoZero
<1> QED BY <1>1, <1>2, <1>3 DEF Suspected

\* Who has sent everything and is not suspected.
LEMMA AllIsFinished ==
  ASSUME NEW s \in ReaderState, NEW n, NEW file,
         Good(s, file, n), s.at = "next", s.todo = <<>>, s.end = "none",
         ~(s.started /\ s.eof /\ Suspected(s)), NEW s1,
         s1.sent = s.sent, s1.asked = s.asked, s1.unit = s.unit,
         s1.splice = s.splice, s1.validate = s.validate
  PROVE  Finished(s1, file)
<1>1. s.asked \in Seq(Span) /\ s.sent \in Seq(Int) /\ s.unit \in Nat
  BY DEF ReaderState
<1>2. ASSUME Len(file) = Size
      PROVE  Agrees(s.sent, Asked(s.asked))
  <2>1. Agrees(s.sent, AskedUpto(s.asked, Begun(s)))
    BY <1>2 DEF Good, OnItsWay
  <2>2. Begun(s) = Len(s.asked)
    <3>1. Len(s.asked) \in Nat /\ Len(<<>>) = 0
      BY <1>1
    <3> QED BY <3>1 DEF Begun
  <2>3. SubSeq(s.asked, 1, Len(s.asked)) = s.asked
    BY <1>1
  <2> QED BY <2>1, <2>2, <2>3 DEF AskedUpto
<1>3. ASSUME s.asked = <<Whole>>
      PROVE  /\ Len(s.sent) = Size
             /\ s.splice \/ s.validate = "always" => s.sent = Sound
             /\ s.unit > 0 => \A i \in 1..Size : IsHeader(i, s.unit) => s.sent[i] = i
  <2>1. /\ s.started /\ s.eof /\ s.read = Len(s.sent)
        /\ \A i \in 1..Len(s.sent) : s.sent[i] \in {0, i}
        /\ s.splice \/ s.validate = "always" => s.sum = s.sent
        /\ s.unit > 0 => HasChecked(s.sent, s.frag, s.unit)
    BY <1>3 DEF Good, TakenWhole
  <2>2. /\ s.read = Size /\ (s.sum = NoSum \/ s.sum = Sound)
        /\ s.frag = NoFrag \/ s.frag = <<>> \/ s.frag[1] # 0
    BY <2>1 DEF Suspected
  <2>3. ASSUME s.splice \/ s.validate = "always"
        PROVE  s.sent = Sound
    <3>1. s.sent # NoSum
      <4>1. Len(NoSum) = 1 /\ NoSum[1] = -1
        BY DEF NoSum
      <4> SUFFICES ASSUME s.sent = NoSum PROVE FALSE
        OBVIOUS
      <4>2. 1 \in 1..Len(s.sent) /\ s.sent[1] = -1
        BY <4>1
      <4> QED BY <2>1, <4>2
    <3> QED BY <2>1, <2>2, <2>3, <3>1
  <2>4. ASSUME s.unit > 0, NEW i \in 1..Size, IsHeader(i, s.unit)
        PROVE  s.sent[i] = i
    <3>1. PICK j \in Nat, m \in 0..Len(s.sent) :
            /\ m = j * s.unit /\ Len(s.sent) - m < s.unit
            /\ s.frag = SubSeq(s.sent, m + 1, Len(s.sent))
            /\ \A h \in 1..m : IsHeader(h, s.unit) => s.sent[h] # 0
      BY <2>1, <2>4 DEF HasChecked
    <3>2. s.frag # NoFrag
      BY <2>1, <2>4 DEF HasChecked
    <3>3. /\ Len(s.sent) \in Nat /\ m \in Nat /\ m <= Len(s.sent) /\ Len(s.sent) <= Len(s.sent)
          /\ Len(s.sent) = Size /\ i \in 1..Len(s.sent)
      <4> DEFINE sent == s.sent
      <4>1. /\ sent \in Seq(Int) /\ m \in 0..Len(sent) /\ Len(sent) = Size /\ Size \in Nat
            /\ i \in 1..Size
        BY <1>1, <2>1, <2>2, ReaderAssumption
      <4> HIDE DEF sent
      <4>2. /\ Len(sent) \in Nat /\ m \in Nat /\ m <= Len(sent) /\ Len(sent) <= Len(sent)
            /\ Len(sent) = Size /\ i \in 1..Len(sent)
        BY <4>1
      <4> QED BY <4>2 DEF sent
    <3>4. /\ s.frag \in Seq(Int) /\ Len(s.frag) = Len(s.sent) - m
          /\ \A h \in 1..(Len(s.sent) - m) : s.frag[h] = s.sent[m + h]
      <4> DEFINE sent == s.sent
                 frag == s.frag
      <4>1. /\ sent \in Seq(Int) /\ m \in Nat /\ Len(sent) \in Nat /\ m <= Len(sent)
            /\ Len(sent) <= Len(sent) /\ frag = SubSeq(sent, m + 1, Len(sent))
        BY <1>1, <3>1, <3>3
      <4> HIDE DEF sent, frag
      <4>2. /\ frag \in Seq(Int) /\ Len(frag) = Len(sent) - m
            /\ \A h \in 1..(Len(sent) - m) : frag[h] = sent[m + h]
        BY <4>1, PartIs
      <4> QED BY <4>2 DEF sent, frag
    <3>5. CASE i <= m
      BY <2>1, <2>4, <3>1, <3>3, <3>5
    <3>6. CASE ~(i <= m)
      <4>1. i \in Nat /\ i > j * s.unit
        BY <3>1, <3>3, <3>6
      <4>2. IsHeader(i - m, s.unit)
        <5> DEFINE u == s.unit
        <5>1. u \in Nat /\ u > 0 /\ i \in Nat /\ i > j * u /\ IsHeader(i, u) /\ m = j * u
          BY <1>1, <2>4, <3>1, <4>1
        <5> HIDE DEF u
        <5>2. IsHeader(i - j * u, u)
          BY <5>1, HeaderFollows
        <5> QED BY <5>1, <5>2 DEF u
      <4>3. i - m = 1
        <5> DEFINE u == s.unit
                   h == i - m
        <5>1. u \in Nat /\ u > 0 /\ h \in Nat /\ h < u
          <6>1. Len(s.sent) - m < s.unit
            BY <3>1
          <6> QED BY <1>1, <2>4, <3>3, <3>6, <6>1
        <5>2. IsHeader(h, u)
          BY <4>2
        <5> HIDE DEF u, h
        <5>3. h = 1
          BY <5>1, <5>2, FirstHeader
        <5> QED BY <5>3 DEF h
      <4>4. 1 \in 1..(Len(s.sent) - m) /\ m + 1 = i
        BY <3>3, <3>6, <4>3
      <4>5. s.frag # <<>> /\ s.frag[1] = s.sent[i]
        BY <3>3, <3>4, <4>4
      <4> QED BY <2>1, <2>2, <3>2, <3>3, <4>5
    <3> QED BY <3>5, <3>6
  <2>5. Len(s.sent) = Size
    BY <2>1, <2>2
  <2> QED BY <2>3, <2>4, <2>5
<1> QED BY <1>2, <1>3 DEF Finished

\* Which sums a range may begin with.
SumsOf(s, start) ==
  IF start # 0 THEN {s.sum}
  ELSE IF s.splice \/ s.validate = "always" THEN {<<>>}
  ELSE IF s.validate = "sometimes" THEN {<<>>, s.sum} ELSE {s.sum}

\* A reader that begins a range.
LEMMA BegunState ==
  ASSUME NEW s \in ReaderState, NEW todo \in Seq(Span), NEW pos \in Nat, NEW left \in Int,
         NEW started \in BOOLEAN, NEW sum \in Seq(Int), NEW frag \in Seq(Int)
  PROVE  [s EXCEPT !.at = "read", !.todo = todo, !.pos = pos, !.left = left, !.read = 0,
                   !.started = started, !.eof = FALSE, !.sum = sum, !.frag = frag]
           \in ReaderState
BY DEF ReaderState

\* What NextRange makes of a reader: s1 begins with the range g.
RangeBegins(s, s1, g, sum) ==
  /\ g = Head(s.todo) /\ sum \in SumsOf(s, g.start)
  /\ s1 = [s EXCEPT !.at = "read", !.todo = Tail(s.todo),
             !.pos = g.start, !.left = g.stop - g.start, !.read = 0,
             !.started = g.start = 0, !.eof = FALSE, !.sum = sum,
             !.frag = IF g.start = 0 /\ s.unit > 0 THEN <<>> ELSE NoFrag]

LEMMA RangeStartsGood ==
  ASSUME NEW s \in ReaderState, NEW n, NEW file,
         Good(s, file, n), s.at = "next", s.todo # <<>>,
         NEW g, NEW sum, NEW s1, RangeBegins(s, s1, g, sum)
  PROVE  s1 \in ReaderState /\ Good(s1, file, n)
<1>0. g = Head(s.todo) /\ sum \in SumsOf(s, g.start)
  BY DEF RangeBegins
<1> DEFINE k == Begun(s)
           frag == IF g.start = 0 /\ s.unit > 0 THEN <<>> ELSE NoFrag
           left == g.stop - g.start
           started == g.start = 0
           todo == Tail(s.todo)
<1>1. /\ s.todo \in Seq(Span) /\ s.asked \in Seq(Span) /\ s.sum \in Seq(Int)
      /\ s.unit \in Nat /\ s.sent \in Seq(Int) /\ Len(s.todo) \in Nat /\ Len(s.asked) \in Nat
      /\ Size \in Nat /\ Chunk \in Nat
  BY ReaderAssumption DEF ReaderState
<1>2. /\ Len(s.todo) > 0 /\ g = s.todo[1] /\ g \in Span
      /\ todo \in Seq(Span) /\ Len(todo) = Len(s.todo) - 1
      /\ \A i \in 1..Len(todo) : todo[i] = s.todo[i + 1]
  BY <1>0, <1>1
<1>3. g.start \in Nat /\ g.stop \in Nat /\ g.start < g.stop /\ g.stop <= Size
  BY <1>1, <1>2 DEF Span
<1>4. sum \in {<<>>, s.sum} /\ sum \in Seq(Int)
  <2>1. sum \in {<<>>, s.sum}
    BY <1>0 DEF SumsOf
  <2>2. <<>> \in Seq(Int)
    OBVIOUS
  <2> QED BY <1>1, <2>1, <2>2
<1>5. frag \in Seq(Int) /\ (frag # NoFrag => s.unit > 0 /\ frag = <<>>)
  BY DEF NoFrag
<1>6. started \in BOOLEAN /\ left \in Int /\ 0 <= left /\ left <= Size
  BY <1>1, <1>3
<1>7. s1 = [s EXCEPT !.at = "read", !.todo = todo, !.pos = g.start, !.left = left, !.read = 0,
                     !.started = started, !.eof = FALSE, !.sum = sum, !.frag = frag]
  BY DEF RangeBegins
<1>8. /\ s.end = "none" /\ s.fp \in 0..n /\ s.fp # 0
      /\ s.splice => s.asked = <<Whole>>
  BY DEF Good, Placed
<1> HIDE DEF frag, left, started, todo
<1>9. /\ s1.at = "read" /\ s1.eof = FALSE /\ s1.end = s.end /\ s1.fp = s.fp /\ s1.unit = s.unit
      /\ s1.todo = todo /\ s1.splice = s.splice /\ s1.pos = g.start /\ s1.left = left
      /\ s1.read = 0 /\ s1.sum = sum /\ s1.frag = frag
      /\ s1.sent = s.sent /\ s1.asked = s.asked /\ s1.validate = s.validate
  BY <1>7 DEF ReaderState
<1>10. s1.started = started
  BY <1>7 DEF ReaderState
<1>11. s1 \in ReaderState
  <2>1. /\ todo \in Seq(Span) /\ g.start \in Nat /\ left \in Int /\ sum \in Seq(Int)
        /\ frag \in Seq(Int) /\ 0 \in Nat
    BY <1>2, <1>3, <1>4, <1>5, <1>6
  <2> DEFINE at0 == g.start
  <2> HIDE DEF at0
  <2>2. at0 \in Nat
    BY <2>1 DEF at0
  <2>3. [s EXCEPT !.at = "read", !.todo = todo, !.pos = at0, !.left = left, !.read = 0,
                  !.started = started, !.eof = FALSE, !.sum = sum, !.frag = frag]
          \in ReaderState
    BY <1>6, <2>1, <2>2, BegunState, Zenon
  <2> QED BY <1>7, <2>3, Zenon DEF at0
<1>12. started <=> g.start = 0
  BY DEF started
<1>13. /\ k \in 0..Len(s.asked) /\ \A i \in 1..Len(s.todo) : s.todo[i] = s.asked[k + i]
       /\ Len(file) = Size => Agrees(s.sent, AskedUpto(s.asked, k))
  BY <1>8 DEF Good, OnItsWay
<1>14. /\ Begun(s1) = k + 1 /\ k + 1 \in 1..Len(s.asked) /\ k \in 0..Len(s.asked) - 1
       /\ s.asked[k + 1] = g
  <2>1. Begun(s1) = Len(s.asked) - Len(todo)
    BY <1>9 DEF Begun
  <2>2. k = Len(s.asked) - Len(s.todo)
    BY DEF Begun
  <2> DEFINE a == Len(s.asked)
             l == Len(s.todo)
             b == Begun(s1)
  <2>3. a \in Nat /\ l \in Nat /\ l > 0 /\ k = a - l /\ b = a - (l - 1) /\ k \in 0..a
    BY <1>1, <1>2, <1>13, <2>1, <2>2
  <2> HIDE DEF k, a, l, b
  <2>4. k \in Nat /\ b = k + 1 /\ k + 1 \in 1..a /\ k \in 0..a - 1 /\ 1 \in 1..l
    BY <2>3
  <2>5. s.todo[1] = s.asked[k + 1]
    BY <1>13, <2>4 DEF l
  <2> QED BY <1>2, <2>4, <2>5 DEF a, b
<1> HIDE DEF k
<1>15. Placed(s1, n)
  <2>1. Good(s, file, n) /\ Placed(s, n)
    BY DEF Good
  <2>2. g.start <= Size /\ -Chunk <= left /\ left <= Size
    BY <1>1, <1>3, <1>6
  <2> QED BY <1>8, <1>9, <2>2 DEF Placed
<1>16. OnItsWay(s1, file)
  <2>1. ASSUME Len(file) = Size
        PROVE  Agrees(s1.sent, AskedUpto(s1.asked, Begun(s1) - 1) \o Bytes(Halfway(s1)))
    <3>1. Halfway(s1) = [start |-> g.start, stop |-> g.start]
      BY <1>9, <1>14 DEF Halfway
    <3>2. Bytes([start |-> g.start, stop |-> g.start]) \in Seq(Int)
          /\ Len(Bytes([start |-> g.start, stop |-> g.start])) = 0
      <4>1. g.start \in Int /\ g.start <= g.start /\ g.start - g.start = 0
        BY <1>3
      <4> QED BY <4>1, StretchIs
    <3>3. Bytes(Halfway(s1)) = <<>>
      BY <3>1, <3>2
    <3>4. AskedUpto(s.asked, k) \in Seq(Int)
      BY <1>1, <1>14, AskedGrows
    <3>5. AskedUpto(s.asked, k) \o <<>> = AskedUpto(s.asked, k)
      BY <3>4
    <3>6. Begun(s1) - 1 = k
      BY <1>13, <1>14
    <3> QED BY <1>9, <1>13, <2>1, <3>3, <3>5, <3>6
  <2>2. \A i \in 1..Len(todo) : todo[i] = s.asked[(k + 1) + i]
    <3> SUFFICES ASSUME NEW i \in 1..Len(todo) PROVE todo[i] = s.asked[(k + 1) + i]
      OBVIOUS
    <3>1. i + 1 \in 1..Len(s.todo) /\ k + (i + 1) = (k + 1) + i
      <4> DEFINE l == Len(s.todo)
                 m == Len(todo)
      <4>1. l \in Nat /\ l > 0 /\ m = l - 1 /\ k \in Int /\ i \in 1..m
        BY <1>1, <1>2, <1>14
      <4> HIDE DEF l, m
      <4>2. i + 1 \in 1..l /\ k + (i + 1) = (k + 1) + i
        BY <4>1
      <4> QED BY <4>2 DEF l
    <3>2. todo[i] = s.todo[i + 1] /\ s.todo[i + 1] = s.asked[k + (i + 1)]
      BY <1>2, <1>13, <3>1
    <3> QED BY <3>1, <3>2
  <2>3. /\ Begun(s1) \in 0..Len(s1.asked) /\ Begun(s1) > 0
        /\ \A i \in 1..Len(s1.todo) : s1.todo[i] = s1.asked[Begun(s1) + i]
    <3> DEFINE a == Len(s.asked)
               b == Begun(s1)
    <3>1. b = k + 1 /\ k + 1 \in 1..a /\ a \in Nat
      BY <1>1, <1>14
    <3> HIDE DEF a, b
    <3>2. b \in 0..a /\ b > 0
      BY <3>1
    <3>3. \A i \in 1..Len(todo) : todo[i] = s.asked[b + i]
      BY <2>2, <3>1
    <3> QED BY <1>9, <3>2, <3>3 DEF a, b
  <2>4. /\ s1.left >= 0 /\ s1.left = s1.asked[Begun(s1)].stop - s1.pos
        /\ s1.asked[Begun(s1)].start <= s1.pos
    BY <1>3, <1>6, <1>9, <1>14 DEF left
  <2> QED BY <1>9, <2>1, <2>3, <2>4 DEF OnItsWay
<1>17. Judged(s1, file)
  <2>1. s.validate = "never" /\ ~s.splice => s.sum = NoSum
    BY DEF Good, Judged
  <2>2. s1.validate = "never" /\ ~s1.splice => s1.sum = NoSum
    BY <1>0, <1>9, <2>1 DEF SumsOf
  <2>3. g.start = 0 => s.validate = "sometimes" \/ sum = <<>> \/ sum = NoSum
    <3>1. s.validate \in {"never", "sometimes", "always"}
      BY ReaderAssumption DEF ReaderState
    <3> QED BY <1>0, <2>1, <3>1 DEF SumsOf
  <2>4. SubSeq(Sound, 1, 0) = <<>>
    OBVIOUS
  <2>5. NoZero(<<>>)
    BY DEF NoZero
  <2>6. /\ s1.frag # NoFrag => s1.unit > 0
        /\ s1.frag = NoFrag \/ NoZero(s1.frag)
    BY <1>5, <1>9, <2>5
  <2>7. s1.started => g.start = 0
    BY <1>10, <1>12
  <2>8. s1.started => s1.pos = s1.read
    BY <1>9, <2>7
  <2>9. s1.started => \/ s1.validate = "sometimes"
                      \/ s1.sum = NoSum
                      \/ s1.sum = SubSeq(Sound, 1, s1.pos)
    BY <1>9, <2>3, <2>4, <2>7
  <2>10. s1.end # "quarantined" /\ s1.eof = FALSE
    BY <1>8, <1>9
  <2> QED BY <1>9, <2>2, <2>6, <2>8, <2>9, <2>10 DEF Judged
<1>18. TakenWhole(s1)
  <2> SUFFICES ASSUME s1.asked = <<Whole>> PROVE TakenWhole(s1)
    BY DEF TakenWhole
  <2>1. s.asked = <<Whole>> /\ s.sent = <<>>
    BY <1>9 DEF Good, TakenWhole
  <2>2. Len(s.asked) = 1
    BY <2>1
  <2>3. k = 0
    BY <1>14, <2>2
  <2>4. g = Whole
    BY <1>14, <2>1, <2>3
  <2>5. g.start = 0 /\ g.stop = Size
    BY <1>1, <2>4, WholeIs DEF Whole
  <2>6. s1.started
    BY <1>10, <1>12, <2>5
  <2>7. s1.sent = <<>> /\ s1.read = 0 /\ s1.left = Size
    BY <1>1, <1>9, <2>1, <2>5 DEF left
  <2>8. s1.splice \/ s1.validate = "always" => s1.sum = <<>>
    BY <1>0, <1>9, <2>5 DEF SumsOf
  <2>9. s1.unit > 0 => HasChecked(s1.sent, s1.frag, s1.unit)
    <3> SUFFICES ASSUME s.unit > 0 PROVE HasChecked(<<>>, <<>>, s.unit)
      BY <1>9, <2>5, <2>7 DEF frag
    <3>1. <<>> # NoFrag /\ SubSeq(<<>>, 1, 0) = <<>> /\ Len(<<>>) = 0
      BY DEF NoFrag
    <3>2. /\ 0 \in 0..Len(<<>>) /\ <<>> = SubSeq(<<>>, 0 + 1, Len(<<>>))
          /\ 0 = 0 * s.unit /\ Len(<<>>) - 0 < s.unit
      BY <1>1, <3>1
    <3> QED BY <3>1, <3>2 DEF HasChecked
  <2>10. Len(s1.sent) = 0
    BY <2>7
  <2> QED BY <1>1, <1>9, <2>6, <2>7, <2>8, <2>9, <2>10 DEF TakenWhole
<1>19. Finished(s1, file)
  BY <1>8, <1>9 DEF Finished
<1> QED BY <1>11, <1>15, <1>16, <1>17, <1>18, <1>19 DEF Good

LEMMA ClosedIsState == Closed \in ReaderState
<1>1. NoSum \in Seq(Int) /\ NoFrag \in Seq(Int) /\ <<>> \in Seq(Int)
  BY DEF NoSum, NoFrag
<1>2. <<>> \in Seq(Span)
  OBVIOUS
<1> QED BY <1>1, <1>2 DEF Closed, ReaderState

LEMMA OpenState ==
  ASSUME NEW s \in ReaderState, NEW v \in Nat, NEW unit \in Nat, NEW multi \in BOOLEAN,
         NEW splice \in BOOLEAN, NEW validate \in Validate, NEW asked \in Seq(Span)
  PROVE  [s EXCEPT !.at = "next", !.fp = v, !.unit = unit, !.multi = multi,
                   !.splice = splice, !.validate = validate,
                   !.todo = asked, !.asked = asked] \in ReaderState
BY DEF ReaderState

\* A reader that has just opened.
Opens(s1, v, unit, multi, splice, validate, asked) ==
  s1 = [Closed EXCEPT !.at = "next", !.fp = v, !.unit = unit, !.multi = multi,
                      !.splice = splice, !.validate = validate,
                      !.todo = asked, !.asked = asked]

LEMMA OpenIsGood ==
  ASSUME NEW n, NEW file, NEW v \in 0..n, v # 0, v \in Nat,
         NEW unit \in Nat, NEW multi \in BOOLEAN, NEW splice \in BOOLEAN,
         NEW validate \in Validate, NEW asked \in Seq(Span), Len(asked) > 0,
         splice => asked = <<Whole>>, NEW s1,
         Opens(s1, v, unit, multi, splice, validate, asked)
  PROVE  s1 \in ReaderState /\ Good(s1, file, n)
<1>1. /\ s1.at = "next" /\ s1.eof = FALSE /\ s1.end = "none" /\ s1.fp = v /\ s1.unit = unit
      /\ s1.todo = asked /\ s1.splice = splice /\ s1.pos = 0 /\ s1.left = 0
      /\ s1.read = 0 /\ s1.started = FALSE /\ s1.sum = NoSum /\ s1.frag = NoFrag
      /\ s1.sent = <<>> /\ s1.asked = asked /\ s1.validate = validate
  BY DEF Closed, Opens
<1>2. s1 \in ReaderState
  <2>2. s1 = [Closed EXCEPT !.at = "next", !.fp = v, !.unit = unit, !.multi = multi,
                !.splice = splice, !.validate = validate, !.todo = asked, !.asked = asked]
    BY DEF Opens
  <2>3. Closed \in ReaderState
    BY ClosedIsState
  <2>4. v \in Nat /\ unit \in Nat /\ multi \in BOOLEAN /\ splice \in BOOLEAN
        /\ asked \in Seq(Span) /\ validate \in Validate
    OBVIOUS
  <2>5. [Closed EXCEPT !.at = "next", !.fp = v, !.unit = unit, !.multi = multi,
                !.splice = splice, !.validate = validate,
                   !.todo = asked, !.asked = asked] \in ReaderState
    BY <2>3, <2>4, OpenState, Zenon
  <2> QED BY <2>2, <2>5, Zenon
<1>3. Size \in Nat /\ Chunk \in Nat
  BY ReaderAssumption
<1>4. Placed(s1, n)
  BY <1>1, <1>3 DEF Placed
<1>5. Begun(s1) = 0 /\ Len(asked) \in Nat
  BY <1>1 DEF Begun
<1>6. OnItsWay(s1, file)
  <2>1. AskedUpto(asked, 0) = <<>>
    <3>1. 0 \in 0..Len(asked) - 1
      BY <1>5
    <3> QED BY <1>3, <3>1, AskedGrows
  <2>2. Agrees(<<>>, <<>>)
    BY DEF Agrees
  <2> QED BY <1>1, <1>5, <2>1, <2>2 DEF OnItsWay
<1>7. Judged(s1, file)
  BY <1>1 DEF Judged
<1>8. TakenWhole(s1)
  <2>1. asked # <<>>
    OBVIOUS
  <2> QED BY <1>1, <2>1 DEF TakenWhole
<1>9. Finished(s1, file)
  BY <1>1 DEF Finished
<1> QED BY <1>2, <1>4, <1>6, <1>7, <1>8, <1>9 DEF Good

\* A step of one reader: the files stay, the directory may go.
LEMMA OneReads ==
  ASSUME ReadInv, NEW r \in Readers,
         reader' = [q \in Readers |-> reader'[q]], \A q \in Readers \ {r} : reader'[q] = reader[q],
         UNCHANGED <<newest, content>>, dir' \in {0, dir},
         reader'[r] \in ReaderState,
         Good(reader'[r], content[reader'[r].fp], newest)
  PROVE  ReadInv'
<1>1. FilesAreWhole'
  <2>1. newest' = newest /\ content' = content
    OBVIOUS
  <2>2. newest \in Version /\ dir \in 0..newest
    BY DEF ReadInv, FilesAreWhole
  <2>3. dir' \in 0..newest
    BY <2>2, ReaderAssumption DEF Version
  <2> QED BY <2>1, <2>2, <2>3 DEF ReadInv, FilesAreWhole, Version, Text, Byte
<1>2. \A q \in Readers : reader'[q] \in ReaderState
  BY DEF ReadInv
<1>3. ASSUME NEW q \in Readers
      PROVE  Good(reader'[q], content[reader'[q].fp], newest)
  BY DEF ReadInv
<1>4. reader' \in [Readers -> ReaderState]
  <2>1. reader \in [Readers -> ReaderState]
    BY DEF ReadInv
  <2> QED BY <1>2, <2>1
<1> QED BY <1>1, <1>3, <1>4 DEF ReadInv

\* What a reader has open is a file.
LEMMA OpenFileIs ==
  ASSUME ReadInv, NEW r \in Readers, reader[r].at # "idle"
  PROVE  /\ reader[r].fp \in 1..newest /\ newest \in Nat /\ WholeFile(content[reader[r].fp])
         /\ reader[r] \in ReaderState
         /\ Good(reader[r], content[reader[r].fp], newest)
<1>1. /\ reader[r] \in ReaderState /\ Good(reader[r], content[reader[r].fp], newest)
      /\ FilesAreWhole
  BY DEF ReadInv
<1>2. newest \in Nat
  BY <1>1, ReaderAssumption DEF FilesAreWhole, Version
<1>3. reader[r].fp \in 1..newest
  <2>1. reader[r].fp \in 0..newest /\ reader[r].fp # 0
    BY <1>1 DEF Good, Placed
  <2> QED BY <1>2, <2>1
<1>4. WholeFile(content[reader[r].fp])
  BY <1>1, <1>3, FileIs DEF WholeFile
<1> QED BY <1>1, <1>2, <1>3, <1>4

\* What it reads next of it.
LEMMA NextChunkIs ==
  ASSUME ReadInv, NEW r \in Readers, reader[r].at = "read"
  PROVE  /\ NextChunk(r) # <<>> /\ Readable(NextChunk(r))
              => ChunkOf(reader[r], content[reader[r].fp], NextChunk(r))
         /\ NextChunk(r) = <<>> => Len(content[reader[r].fp]) <= reader[r].pos
<1>1. /\ reader[r].fp \in 1..newest /\ reader[r] \in ReaderState /\ FilesAreWhole
      /\ reader[r].pos \in Nat
  BY OpenFileIs DEF ReadInv, ReaderState
<1> QED BY <1>1, ChunkIs DEF ChunkOf, Readable

\* The steps of Next, one by one.
LEMMA ReadChunkStep ==
  ASSUME ReadInv, NEW r \in Readers, ReadChunk(r)
  PROVE  ReadInv'
<1> DEFINE s == reader[r]
           file == content[s.fp]
           chunk == NextChunk(r)
<1>1. /\ s.at = "read" /\ chunk # <<>> /\ Readable(chunk) /\ ~CorruptFrag(Buffer(r), s.unit)
      /\ UNCHANGED <<dir, newest, content>>
  BY DEF ReadChunk
<1>2. /\ s \in ReaderState /\ newest \in Nat /\ WholeFile(file) /\ Good(s, file, newest)
      /\ ChunkOf(s, file, chunk)
  BY <1>1, OpenFileIs, NextChunkIs
<1>3. PICK sent, at : PassedOn(s, chunk, sent, at) /\ Took(r, sent, at)
  <2>1. CASE Len(chunk) <= s.left
    <3>1. Took(r, chunk, "read")
      BY <2>1 DEF ReadChunk
    <3> QED BY <2>1, <3>1 DEF PassedOn
  <2>2. CASE ~(Len(chunk) <= s.left)
    <3>1. Took(r, SubSeq(chunk, 1, s.left), "next")
      BY <2>2 DEF ReadChunk
    <3> QED BY <2>2, <3>1 DEF PassedOn
  <2> QED BY <2>1, <2>2
<1> DEFINE s1 == reader'[r]
<1>4. /\ reader' = [q \in Readers |-> reader'[q]] /\ \A q \in Readers \ {r} : reader'[q] = reader[q]
      /\ DOMAIN s1 = Fields /\ TookFrom(s, s1, chunk, sent, at)
  <2>1. reader \in [Readers -> ReaderState]
    BY DEF ReadInv
  <2> QED BY <1>3, <2>1, TookIs
<1>5. s1 \in ReaderState
  <2> USE DEF TookFrom
  <2>1. /\ chunk \in Seq(Int) /\ Len(chunk) \in Nat /\ at \in {"read", "next"}
        /\ sent \in Seq(Int)
    <3>1. chunk \in Seq(Int) /\ Len(chunk) \in Nat
      BY <1>2 DEF ChunkOf
    <3>2. s.left \in Int /\ s.left >= 0
      <4>1. /\ s.end = "none" /\ s.left \in Int
        BY <1>1, <1>2 DEF ReaderState, Good, Placed
      <4> QED BY <1>1, <1>2, <4>1 DEF Good, OnItsWay
    <3>3. ~(Len(chunk) <= s.left) => SubSeq(chunk, 1, s.left) \in Seq(Int)
      <4> SUFFICES ASSUME ~(Len(chunk) <= s.left) PROVE SubSeq(chunk, 0 + 1, s.left) \in Seq(Int)
        OBVIOUS
      <4>1. 0 \in Nat /\ s.left \in Nat /\ 0 <= s.left /\ s.left <= Len(chunk)
        BY <3>1, <3>2
      <4> QED BY <3>1, <4>1, PartIs
    <3> QED BY <1>3, <3>1, <3>3 DEF PassedOn
  <2>2. /\ s.pos \in Nat /\ s.read \in Nat /\ s.sent \in Seq(Int) /\ s.left \in Int
        /\ s.sum \in Seq(Int) /\ s.frag \in Seq(Int) /\ s.unit \in Nat
    BY <1>2 DEF ReaderState
  <2>3. s.sent \o sent \in Seq(Int) /\ s.sum \o chunk \in Seq(Int)
    BY <2>1, <2>2
  <2>4. s1.frag \in Seq(Int)
    <3>1. CASE s.frag = NoFrag
      <4>1. s1.frag = NoFrag
        BY <1>4, <3>1 DEF Rest
      <4> QED BY <4>1 DEF NoFrag
    <3>2. CASE s.frag # NoFrag
      <4>1. s.unit > 0
        BY <1>1, <1>2, <3>2 DEF Good, Judged
      <4>2. Len(chunk) > 0 /\ \A i \in 1..Len(chunk) : chunk[i] >= 0
        <5> HIDE DEF s, file, chunk
        <5>1. Len(chunk) > 0
          BY <1>2 DEF ChunkOf
        <5>2. \A i \in 1..Len(chunk) : chunk[i] >= 0 /\ chunk[i] \in {0, s.pos + i}
          BY <1>2, ChunkIsByte
        <5> QED BY <5>1, <5>2
      <4> DEFINE frag == s.frag
                 u == s.unit
                 buf == frag \o chunk
                 m == (Len(buf) \div u) * u
      <4>3. frag \in Seq(Int) /\ u \in Nat /\ u > 0
        BY <2>2, <4>1
      <4>4. s1.frag = Rest(frag \o chunk, u)
        BY <1>4, <3>2
      <4> HIDE DEF frag, u
      <4>5. /\ buf \in Seq(Int) /\ m \in 0..Len(buf)
            /\ Rest(buf, u) = SubSeq(buf, m + 1, Len(buf))
        BY <2>1, <4>2, <4>3, BufferIs
      <4> HIDE DEF buf, m
      <4>6. m \in Nat /\ m <= Len(buf) /\ Len(buf) \in Nat /\ Len(buf) <= Len(buf)
        BY <4>5
      <4>7. SubSeq(buf, m + 1, Len(buf)) \in Seq(Int)
        BY <4>5, <4>6, PartIs
      <4> QED BY <4>4, <4>5, <4>7 DEF buf
    <3> QED BY <3>1, <3>2
  <2>5. /\ s1.at \in {"idle", "next", "read", "done"} /\ s1.pos \in Nat /\ s1.read \in Nat
        /\ s1.left \in Int /\ s1.sum \in Seq(Int) /\ s1.sent \in Seq(Int)
    <3>1. s1.at = at /\ s1.pos = s.pos + Len(chunk) /\ s1.read = s.read + Len(chunk)
          /\ s1.sent = s.sent \o sent /\ s1.left = s.left - Len(chunk)
          /\ s1.sum \in {s.sum, s.sum \o chunk}
      BY <1>4
    <3> HIDE DEF s1, s, chunk
    <3>2. s1.pos \in Nat /\ s1.read \in Nat /\ s1.left \in Int
      <4> DEFINE l == Len(chunk)
      <4>1. l \in Nat /\ s.pos \in Nat /\ s.read \in Nat /\ s.left \in Int
        BY <2>1, <2>2
      <4>2. s1.pos = s.pos + l /\ s1.read = s.read + l /\ s1.left = s.left - l
        BY <3>1
      <4> HIDE DEF l
      <4> QED BY <4>1, <4>2
    <3>3. s1.sum \in Seq(Int) /\ s1.sent \in Seq(Int)
      <4>1. s1.sum = s.sum \/ s1.sum = s.sum \o chunk
        BY <3>1
      <4> QED BY <2>2, <2>3, <3>1, <4>1, Zenon
    <3> QED BY <2>1, <3>1, <3>2, <3>3, Zenon
  <2>6. /\ s1.fp \in Nat /\ s1.unit \in Nat /\ s1.todo \in Seq(Span) /\ s1.multi \in BOOLEAN
        /\ s1.splice \in BOOLEAN /\ s1.started \in BOOLEAN /\ s1.eof \in BOOLEAN
        /\ s1.validate \in Validate \cup {"never"}
        /\ s1.asked \in Seq(Span) /\ s1.end \in {"none", "all", "left", "failed", "quarantined"}
    <3>1. /\ s1.fp = s.fp /\ s1.unit = s.unit /\ s1.todo = s.todo /\ s1.multi = s.multi
          /\ s1.splice = s.splice /\ s1.validate = s.validate
          /\ s1.started = s.started /\ s1.eof = s.eof
          /\ s1.asked = s.asked /\ s1.end = s.end
      BY <1>4
    <3> HIDE DEF s1, s
    <3> QED BY <1>2, <3>1 DEF ReaderState
  <2>7. s1 = [f \in Fields |-> s1[f]]
    <3>1. s1 = [f \in DOMAIN s1 |-> s1[f]]
      <4>1. reader'[r] = [f \in DOMAIN reader'[r] |-> reader'[r][f]]
        BY <1>3, OpenFileIs DEF Took, ReadInv, ReaderState
      <4> QED BY <4>1
    <3> QED BY <1>4, <3>1
  <2> HIDE DEF s1
  <2> QED BY <2>4, <2>5, <2>6, <2>7, StateIs
<1>6. Taken(s, s1, file, chunk, newest)
  BY <1>1, <1>2, <1>3, <1>4, <1>5 DEF Taken, Buffer
<1>7. Good(s1, file, newest)
  BY <1>6, TakenIsGood
<1>8. s1.fp = s.fp
  BY <1>4 DEF TookFrom
<1> QED BY <1>1, <1>4, <1>5, <1>7, <1>8, OneReads

\* reader' changes one reader's state s into s1.
LEMMA MovesTo ==
  ASSUME ReadInv, NEW r \in Readers, NEW s1, reader' = [reader EXCEPT ![r] = s1]
  PROVE  /\ reader' = [q \in Readers |-> reader'[q]]
         /\ \A q \in Readers \ {r} : reader'[q] = reader[q]
         /\ reader'[r] = s1
<1>1. reader \in [Readers -> ReaderState]
  BY DEF ReadInv
<1> QED BY <1>1

LEMMA OpenFailsStep ==
  ASSUME ReadInv, NEW r \in Readers, OpenFails(r)
  PROVE  ReadInv'
<1> DEFINE s == reader[r]
           t == [s EXCEPT !.fp = dir]
           s1 == [t EXCEPT !.at = "done", !.end = "quarantined"]
<1>1. /\ s.at = "idle" /\ dir # 0 /\ Len(content[dir]) # Size
      /\ dir' = 0 /\ UNCHANGED <<newest, content>>
      /\ reader' = [reader EXCEPT ![r].at = "done", ![r].end = "quarantined", ![r].fp = dir]
  BY DEF OpenFails, Quarantine
<1>2. /\ s \in ReaderState /\ Placed(s, newest) /\ dir \in 0..newest /\ dir \in Nat /\ Size \in Nat
  BY ReaderAssumption DEF ReadInv, Good, FilesAreWhole
<1>3. s = Closed
  BY <1>1, <1>2 DEF Placed
<1>4. reader' = [reader EXCEPT ![r] = s1]
  <2>1. [s EXCEPT !.at = "done", !.end = "quarantined", !.fp = dir] = s1
    BY <1>3 DEF Closed
  <2>2. reader \in [Readers -> ReaderState]
    BY DEF ReadInv
  <2>3. reader' = [reader EXCEPT ![r] = [s EXCEPT !.at = "done", !.end = "quarantined", !.fp = dir]]
    BY <1>1, <2>2
  <2> QED BY <2>1, <2>3
<1>5. t \in ReaderState /\ t.at = "idle" /\ t.fp = dir /\ t.splice = FALSE
  <2>1. t \in ReaderState
    BY <1>2 DEF ReaderState
  <2>2. t.at = "idle" /\ t.fp = dir /\ t.splice = FALSE
    BY <1>3 DEF Closed
  <2> QED BY <2>1, <2>2
<1>6. /\ s1.at = "done" /\ s1.end = "quarantined" /\ s1.fp = dir /\ s1.pos = 0 /\ s1.left = 0
      /\ s1.splice = FALSE
  BY <1>3 DEF Closed
<1>7. s1 \in ReaderState
  BY <1>5 DEF ReaderState
<1> HIDE DEF s1, t
<1>8. content[dir] # Sound
  BY <1>1, <1>2, SoundIs
<1>9. Good(s1, content[dir], newest)
  <2>1. Placed(s1, newest)
    BY <1>1, <1>2, <1>6, ReaderAssumption DEF Placed
  <2>2. OnItsWay(s1, content[dir]) /\ TakenWhole(s1)
    BY <1>6 DEF OnItsWay, TakenWhole
  <2>3. Judged(s1, content[dir])
    BY <1>6, <1>8 DEF Judged
  <2>4. Finished(s1, content[dir])
    BY <1>6 DEF Finished
  <2> QED BY <2>1, <2>2, <2>3, <2>4 DEF Good
<1>10. /\ reader' = [q \in Readers |-> reader'[q]]
       /\ \A q \in Readers \ {r} : reader'[q] = reader[q]
       /\ reader'[r] = s1
  BY <1>4, MovesTo
<1> QED BY <1>1, <1>6, <1>7, <1>9, <1>10, OneReads

LEMMA OpenStep ==
  ASSUME ReadInv, NEW r \in Readers, Open(r)
  PROVE  ReadInv'
<1>1. dir # 0 /\ UNCHANGED <<dir, newest, content>>
  BY DEF Open
<1>2. PICK splice \in BOOLEAN, n \in 0..MaxRanges, unit \in Frags, validate \in Validate :
      \E todo \in [1..n -> Span] :
       /\ splice => n = 0 /\ unit = 0
       /\ reader' = [reader EXCEPT ![r] =
            [Closed EXCEPT !.at = "next", !.fp = dir, !.unit = unit, !.multi = n > 1,
                           !.splice = splice, !.validate = validate,
                           !.todo = IF n = 0 THEN <<Whole>> ELSE todo,
                           !.asked = IF n = 0 THEN <<Whole>> ELSE todo]]
  BY DEF Open
<1>3. PICK todo \in [1..n -> Span] :
       /\ splice => n = 0 /\ unit = 0
       /\ reader' = [reader EXCEPT ![r] =
            [Closed EXCEPT !.at = "next", !.fp = dir, !.unit = unit, !.multi = n > 1,
                           !.splice = splice, !.validate = validate,
                           !.todo = IF n = 0 THEN <<Whole>> ELSE todo,
                           !.asked = IF n = 0 THEN <<Whole>> ELSE todo]]
  BY <1>2
<1> DEFINE asked == IF n = 0 THEN <<Whole>> ELSE todo
           multi == n > 1
           s1 == [Closed EXCEPT !.at = "next", !.fp = dir, !.unit = unit, !.multi = multi,
                             !.splice = splice, !.validate = validate,
                             !.todo = asked, !.asked = asked]
<1>4. n \in Nat /\ unit \in Nat /\ multi \in BOOLEAN
  BY ReaderAssumption
<1>5. asked \in Seq(Span) /\ Len(asked) > 0 /\ (splice => asked = <<Whole>>)
  <2>1. CASE n = 0
    <3>1. <<Whole>> \in Seq(Span) /\ Len(<<Whole>>) = 1
      BY WholeIs, ReaderAssumption
    <3> QED BY <2>1, <3>1
  <2>2. CASE n # 0
    <3>1. todo \in Seq(Span) /\ Len(todo) = n
      BY <1>4
    <3> QED BY <1>3, <1>4, <2>2, <3>1
  <2> QED BY <2>1, <2>2
<1>6. reader' = [reader EXCEPT ![r] = s1]
  BY <1>3
<1> HIDE DEF asked, multi
<1>7. dir \in 0..newest /\ dir \in Nat
  BY DEF ReadInv, FilesAreWhole
<1>8. s1 \in ReaderState /\ Good(s1, content[dir], newest)
  <2> DEFINE file == content[dir]
  <2>1. /\ dir # 0 /\ dir \in 0..newest /\ dir \in Nat /\ unit \in Nat /\ multi \in BOOLEAN
        /\ splice \in BOOLEAN /\ validate \in Validate
        /\ asked \in Seq(Span) /\ Len(asked) > 0 /\ (splice => asked = <<Whole>>)
    BY <1>1, <1>4, <1>5, <1>7
  <2> HIDE DEF file
  <2>2. s1 \in ReaderState /\ Good(s1, file, newest)
    <3>1. Opens(s1, dir, unit, multi, splice, validate, asked)
      BY DEF Opens
    <3> HIDE DEF s1
    <3> QED BY <2>1, <3>1, OpenIsGood
  <2> QED BY <2>2 DEF file
<1>9. s1.fp = dir
  BY DEF Closed
<1> HIDE DEF s1
<1>10. /\ reader' = [q \in Readers |-> reader'[q]]
       /\ \A q \in Readers \ {r} : reader'[q] = reader[q]
       /\ reader'[r] = s1
  BY <1>6, MovesTo
<1> QED BY <1>1, <1>8, <1>9, <1>10, OneReads

LEMMA NextRangeStep ==
  ASSUME ReadInv, NEW r \in Readers, NextRange(r)
  PROVE  ReadInv'
<1> DEFINE s == reader[r]
           g == Head(s.todo)
<1>1. s.at = "next" /\ s.todo # <<>> /\ UNCHANGED <<dir, newest, content>>
  BY DEF NextRange
<1>2. PICK sum \in MaySum(r, g.start) :
        reader' = [reader EXCEPT ![r].at = "read", ![r].todo = Tail(@),
             ![r].pos = g.start, ![r].left = g.stop - g.start, ![r].read = 0,
             ![r].started = g.start = 0, ![r].eof = FALSE, ![r].sum = sum,
             ![r].frag = IF g.start = 0 /\ reader[r].unit > 0 THEN <<>> ELSE NoFrag]
  BY DEF NextRange
<1>3. sum \in SumsOf(s, g.start)
  BY DEF MaySum, AlwaysSums, SumsOf
<1> DEFINE todo == Tail(s.todo)
           pos == g.start
           left == g.stop - g.start
           started == g.start = 0
           frag == IF g.start = 0 /\ s.unit > 0 THEN <<>> ELSE NoFrag
           s1 == [s EXCEPT !.at = "read", !.todo = todo, !.pos = pos, !.left = left, !.read = 0,
                           !.started = started, !.eof = FALSE, !.sum = sum, !.frag = frag]
<1>4. reader' = [reader EXCEPT ![r] = s1]
  <2>1. reader' = [reader EXCEPT ![r].at = "read", ![r].todo = todo,
                     ![r].pos = pos, ![r].left = left, ![r].read = 0,
                     ![r].started = started, ![r].eof = FALSE, ![r].sum = sum, ![r].frag = frag]
    BY <1>2
  <2>2. reader \in [Readers -> ReaderState]
    BY DEF ReadInv
  <2> HIDE DEF todo, pos, left, started, frag
  <2> QED BY <2>1, <2>2
<1>5. /\ s \in ReaderState /\ Good(s, content[s.fp], newest)
  BY <1>1, OpenFileIs
<1>6. s1 \in ReaderState /\ Good(s1, content[s.fp], newest)
  <2> DEFINE file == content[s.fp]
  <2>1. RangeBegins(s, s1, g, sum)
    BY <1>3 DEF RangeBegins
  <2>2. s \in ReaderState /\ Good(s, file, newest) /\ s.at = "next" /\ s.todo # <<>>
    BY <1>1, <1>5
  <2> HIDE DEF s1, s, g, file
  <2>3. s1 \in ReaderState /\ Good(s1, file, newest)
    BY <2>1, <2>2, RangeStartsGood
  <2> QED BY <2>3 DEF file
<1>7. s1.fp = s.fp
  BY <1>5 DEF ReaderState
<1> HIDE DEF s1
<1>8. /\ reader' = [q \in Readers |-> reader'[q]]
      /\ \A q \in Readers \ {r} : reader'[q] = reader[q]
      /\ reader'[r] = s1
  BY <1>4, MovesTo
<1> QED BY <1>1, <1>6, <1>7, <1>8, OneReads

LEMMA ReadToEofStep ==
  ASSUME ReadInv, NEW r \in Readers, ReadToEof(r)
  PROVE  ReadInv'
<1> DEFINE s == reader[r]
           s1 == [s EXCEPT !.at = "next", !.eof = TRUE]
<1>1. /\ s.at = "read" /\ NextChunk(r) = <<>> /\ UNCHANGED <<dir, newest, content>>
      /\ reader' = [reader EXCEPT ![r].at = "next", ![r].eof = TRUE]
  BY DEF ReadToEof
<1>2. /\ s \in ReaderState /\ Good(s, content[s.fp], newest) /\ newest \in Nat
      /\ WholeFile(content[s.fp]) /\ Len(content[s.fp]) <= s.pos
  BY <1>1, OpenFileIs, NextChunkIs
<1>3. reader' = [reader EXCEPT ![r] = s1]
  BY <1>1 DEF ReadInv
<1>4. s1 \in ReaderState /\ Good(s1, content[s.fp], newest)
  BY <1>1, <1>2, EofIsGood
<1>5. s1.fp = s.fp
  BY <1>2 DEF ReaderState
<1> HIDE DEF s1
<1>6. /\ reader' = [q \in Readers |-> reader'[q]]
      /\ \A q \in Readers \ {r} : reader'[q] = reader[q]
      /\ reader'[r] = s1
  BY <1>3, MovesTo
<1> QED BY <1>1, <1>4, <1>5, <1>6, OneReads

LEMMA ClientLeavesStep ==
  ASSUME ReadInv, NEW r \in Readers, ClientLeaves(r)
  PROVE  ReadInv'
<1> DEFINE s == reader[r]
           s1 == [s EXCEPT !.at = "next", !.todo = <<>>, !.end = "left"]
<1>1. /\ s.at \in {"read", "next"} /\ UNCHANGED <<dir, newest, content>>
      /\ reader' = [reader EXCEPT ![r].at = "next", ![r].todo = <<>>, ![r].end = "left"]
  BY DEF ClientLeaves
<1>2. s \in ReaderState /\ Good(s, content[s.fp], newest)
  BY <1>1, OpenFileIs
<1>3. reader' = [reader EXCEPT ![r] = s1]
  BY <1>1 DEF ReadInv
<1>4. s1 \in ReaderState /\ Good(s1, content[s.fp], newest)
  BY <1>1, <1>2, LeaveIsGood
<1>5. s1.fp = s.fp
  BY <1>2 DEF ReaderState
<1> HIDE DEF s1
<1>6. /\ reader' = [q \in Readers |-> reader'[q]]
      /\ \A q \in Readers \ {r} : reader'[q] = reader[q]
      /\ reader'[r] = s1
  BY <1>3, MovesTo
<1> QED BY <1>1, <1>4, <1>5, <1>6, OneReads

\* However a reader ends.
LEMMA EndStep ==
  ASSUME ReadInv, NEW r \in Readers, NEW end \in {"all", "left", "failed", "quarantined"},
         reader[r].at # "idle",
         reader' = [reader EXCEPT ![r].at = "done", ![r].end = end],
         UNCHANGED <<newest, content>>, dir' \in {0, dir},
         end = "quarantined" /\ reader[r].validate # "sometimes" => content[reader[r].fp] # Sound,
         end = "all" => /\ Good(reader[r], content[reader[r].fp], newest)
                        /\ reader[r].at = "next" /\ reader[r].todo = <<>> /\ reader[r].end = "none"
                        /\ ~(reader[r].started /\ reader[r].eof /\ Suspected(reader[r]))
  PROVE  ReadInv'
<1> DEFINE s == reader[r]
           s1 == [s EXCEPT !.at = "done", !.end = end]
<1>1. s \in ReaderState /\ Placed(s, newest)
  BY OpenFileIs DEF Good
<1>2. reader' = [reader EXCEPT ![r] = s1]
  BY DEF ReadInv
<1>3. /\ s1.sent = s.sent /\ s1.asked = s.asked /\ s1.unit = s.unit /\ s1.fp = s.fp
      /\ s1.splice = s.splice /\ s1.validate = s.validate
  BY <1>1 DEF ReaderState
<1>4. end = "all" => Finished(s1, content[s.fp])
  BY <1>1, <1>3, AllIsFinished
<1>5. s1 \in ReaderState /\ Good(s1, content[s.fp], newest)
  BY <1>1, <1>4, DoneIsGood
<1> HIDE DEF s1
<1>6. /\ reader' = [q \in Readers |-> reader'[q]]
      /\ \A q \in Readers \ {r} : reader'[q] = reader[q]
      /\ reader'[r] = s1
  BY <1>2, MovesTo
<1> QED BY <1>3, <1>5, <1>6, OneReads

LEMMA FragmentFailsStep ==
  ASSUME ReadInv, NEW r \in Readers, FragmentFails(r)
  PROVE  ReadInv'
<1> DEFINE s == reader[r]
<1>1. /\ s.at = "read" /\ NextChunk(r) # <<>> /\ Readable(NextChunk(r))
      /\ CorruptFrag(Buffer(r), s.unit)
      /\ dir' = 0 /\ UNCHANGED <<newest, content>>
      /\ reader' = [reader EXCEPT ![r].at = "done", ![r].end = "quarantined"]
  BY DEF FragmentFails, Quarantine
<1>2. /\ s \in ReaderState /\ Good(s, content[s.fp], newest)
      /\ WholeFile(content[s.fp]) /\ ChunkOf(s, content[s.fp], NextChunk(r))
  BY <1>1, OpenFileIs, NextChunkIs
<1>3. content[s.fp] # Sound
  BY <1>1, <1>2, FailedFragment DEF Buffer
<1> QED BY <1>1, <1>3, EndStep

LEMMA ReadFailsStep ==
  ASSUME ReadInv, NEW r \in Readers, ReadFails(r)
  PROVE  ReadInv'
<1> DEFINE s == reader[r]
           file == content[s.fp]
           chunk == NextChunk(r)
<1>1. s.at = "read" /\ ~Readable(chunk) /\ UNCHANGED <<newest, content>>
  BY DEF ReadFails
<1>2. /\ s.fp \in 1..newest /\ s \in ReaderState /\ WholeFile(file) /\ FilesAreWhole
      /\ s.pos \in Nat
  BY <1>1, OpenFileIs DEF ReadInv, ReaderState
<1>3. PICK i \in 1..Len(chunk) : chunk[i] = Unreadable
  BY <1>1 DEF Readable
<1>4. /\ chunk \in Seq(Int) /\ Len(chunk) \in 0..Chunk
      /\ chunk # <<>> => Len(chunk) > 0 /\ s.pos + Len(chunk) <= Len(file)
      /\ \A k \in 1..Len(chunk) : chunk[k] = file[s.pos + k]
  BY <1>2, ChunkIs
<1>5. /\ chunk # <<>> /\ Len(chunk) \in Nat /\ Len(file) \in Nat /\ Len(file) <= Size
      /\ Size \in Nat
  BY <1>2, <1>3, <1>4, ReaderAssumption DEF WholeFile
<1>6. s.pos + i \in 1..Size /\ file[s.pos + i] = Unreadable
  <2>1. file[s.pos + i] = Unreadable
    BY <1>3, <1>4
  <2>2. s.pos + Len(chunk) <= Len(file)
    BY <1>4, <1>5
  <2>3. i \in 1..Len(chunk)
    BY <1>3
  <2> HIDE DEF s, file, chunk
  <2>4. s.pos + i \in 1..Size
    BY <1>2, <1>5, <2>2, <2>3
  <2> QED BY <2>1, <2>4
<1>7. file # Sound
  <2>1. Sound[s.pos + i] = s.pos + i /\ s.pos + i # Unreadable
    BY <1>5, <1>6, SoundIs DEF Unreadable
  <2> QED BY <1>6, <2>1
<1>8. CASE s.splice
  <2>1. dir' = dir /\ reader' = [reader EXCEPT ![r].at = "done", ![r].end = "failed"]
    BY <1>8 DEF ReadFails
  <2> QED BY <1>1, <2>1, EndStep
<1>9. CASE ~s.splice
  <2>1. dir' = 0 /\ reader' = [reader EXCEPT ![r].at = "done", ![r].end = "quarantined"]
    BY <1>9 DEF ReadFails, Quarantine
  <2> QED BY <1>1, <1>7, <2>1, EndStep
<1> QED BY <1>8, <1>9

LEMMA CloseStep ==
  ASSUME ReadInv, NEW r \in Readers, Close(r)
  PROVE  ReadInv'
<1> DEFINE s == reader[r]
<1>1. s.at = "next" /\ s.todo = <<>> /\ UNCHANGED <<newest, content>>
  BY DEF Close
<1>2. s \in ReaderState /\ Good(s, content[s.fp], newest)
  BY <1>1, OpenFileIs
<1>3. Suspect(r) <=> Suspected(s)
  BY DEF Suspect, Suspected
<1>4. CASE s.started /\ s.eof /\ Suspect(r)
  <2>1. dir' = 0 /\ reader' = [reader EXCEPT ![r].at = "done", ![r].end = "quarantined"]
    BY <1>4 DEF Close, Quarantine
  <2>2. s.validate # "sometimes" => content[s.fp] # Sound
    BY <1>1, <1>2, <1>3, <1>4, SoundIsTrusted
  <2> QED BY <1>1, <2>1, <2>2, EndStep
<1>5. CASE ~(s.started /\ s.eof /\ Suspect(r))
  <2> DEFINE end == IF s.end = "left" THEN "left" ELSE "all"
  <2>1. UNCHANGED dir /\ reader' = [reader EXCEPT ![r].at = "done", ![r].end = end]
    BY <1>5 DEF Close
  <2>2. s.end \in {"none", "left"}
    BY <1>1, <1>2 DEF Good, Placed
  <2>3. end \in {"all", "left", "failed", "quarantined"} /\ end # "quarantined"
        /\ (end = "all" => s.end = "none")
    BY <2>2
  <2> HIDE DEF end
  <2> QED BY <1>1, <1>2, <1>3, <1>5, <2>1, <2>3, EndStep
<1> QED BY <1>4, <1>5

LEMMA PutStep ==
  ASSUME ReadInv, Put
  PROVE  ReadInv'
<1>1. /\ newest <= MaxPuts /\ newest' = newest + 1 /\ dir' = newest + 1
      /\ content' = content /\ reader' = reader
  BY DEF Put
<1>2. newest \in Version /\ MaxPuts \in Nat /\ FilesAreWhole
  BY ReaderAssumption DEF ReadInv, FilesAreWhole
<1>3. newest \in Nat /\ newest + 1 \in Version /\ newest + 1 \in 0..newest + 1
  BY <1>1, <1>2 DEF Version
<1>4. FilesAreWhole'
  BY <1>1, <1>2, <1>3 DEF FilesAreWhole, Version, Text, Byte
<1>5. ASSUME NEW r \in Readers
      PROVE  Good(reader[r], content[reader[r].fp], newest + 1)
  <2>1. reader[r].fp \in Nat
    BY DEF ReadInv, ReaderState
  <2> QED BY <1>3, <2>1, PutKeepsGood DEF ReadInv
<1> QED BY <1>1, <1>4, <1>5 DEF ReadInv

\* What damage does to one file.
LEMMA Damaged ==
  ASSUME NEW f \in Seq(Byte), Len(f) <= Size, f # <<>>,
         \A j \in 1..Len(f) : f[j] \in {Unreadable, 0, j}, NEW g,
         \/ \E i \in 1..Len(f), b \in {0, Unreadable} : g = [f EXCEPT ![i] = b]
         \/ g = SubSeq(f, 1, Len(f) - 1)
  PROVE  /\ g \in Seq(Byte) /\ Len(g) <= Size /\ g # Sound
         /\ Len(g) = Size => Len(f) = Size
         /\ \A j \in 1..Len(g) : g[j] \in {Unreadable, 0, j}
<1>1. Size \in Nat /\ Len(f) \in Nat /\ Len(f) > 0 /\ 0 \in Byte /\ Unreadable \in Byte
  BY ReaderAssumption DEF Byte
<1>2. Len(Sound) = Size /\ \A i \in 1..Size : Sound[i] = i
  BY <1>1, SoundIs
<1>3. CASE \E i \in 1..Len(f), b \in {0, Unreadable} : g = [f EXCEPT ![i] = b]
  <2>1. PICK i \in 1..Len(f), b \in {0, Unreadable} : g = [f EXCEPT ![i] = b]
    BY <1>3
  <2>2. /\ g \in Seq(Byte) /\ Len(g) = Len(f) /\ g[i] = b
        /\ \A j \in 1..Len(f) : j # i => g[j] = f[j]
    BY <1>1, <2>1
  <2>3. g # Sound
    <3>1. i \in 1..Size /\ i # 0 /\ i # Unreadable
      BY <1>1 DEF Unreadable
    <3> QED BY <1>2, <2>2, <3>1
  <2> QED BY <1>1, <2>2, <2>3
<1>4. CASE g = SubSeq(f, 1, Len(f) - 1)
  <2>1. /\ g \in Seq(Byte) /\ Len(g) = Len(f) - 1
        /\ \A j \in 1..Len(f) - 1 : g[j] = f[j] /\ j \in 1..Len(f)
    <3>1. \A q \in Seq(Byte), m \in Nat : m <= Len(q) =>
            /\ SubSeq(q, 1, m) \in Seq(Byte) /\ Len(SubSeq(q, 1, m)) = m
            /\ \A j \in 1..m : SubSeq(q, 1, m)[j] = q[j]
      <4> HIDE DEF Byte
      <4> QED OBVIOUS
    <3>2. /\ Len(f) - 1 \in Nat /\ Len(f) - 1 <= Len(f)
          /\ \A j \in 1..Len(f) - 1 : j \in 1..Len(f)
      BY <1>1
    <3> QED BY <1>4, <3>1, <3>2
  <2>2. Len(g) < Size /\ Len(g) # Size /\ Len(g) <= Size
    BY <1>1, <2>1
  <2> QED BY <1>1, <1>2, <2>1, <2>2
<1> QED BY <1>3, <1>4

LEMMA RotStep ==
  ASSUME ReadInv, Rot
  PROVE  ReadInv'
<1>1. UNCHANGED <<dir, newest, reader>>
  BY DEF Rot
<1>2. PICK v \in 1..newest : content[v] # <<>> /\
        \/ \E i \in 1..Len(content[v]), b \in {0, Unreadable} : content' = [content EXCEPT ![v][i] = b]
        \/ content' = [content EXCEPT ![v] = SubSeq(@, 1, Len(@) - 1)]
  BY DEF Rot
<1> DEFINE f == content[v]
           g == content'[v]
<1>3. /\ v \in Version /\ f \in Seq(Byte) /\ Len(f) <= Size /\ Len(f) \in Nat
      /\ \A i \in 1..Len(f) : f[i] \in {Unreadable, 0, i}
      /\ FilesAreWhole /\ content \in [Version -> Text]
  BY FileIs DEF ReadInv, FilesAreWhole
<1>4. /\ \/ \E i \in 1..Len(f), b \in {0, Unreadable} : g = [f EXCEPT ![i] = b]
         \/ g = SubSeq(f, 1, Len(f) - 1)
      /\ content' = [content EXCEPT ![v] = g]
  <2>1. CASE \E i \in 1..Len(f), b \in {0, Unreadable} : content' = [content EXCEPT ![v][i] = b]
    <3>1. PICK i \in 1..Len(f), b \in {0, Unreadable} : content' = [content EXCEPT ![v][i] = b]
      BY <2>1
    <3>2. content' = [content EXCEPT ![v] = [f EXCEPT ![i] = b]]
      BY <3>1
    <3>3. g = [f EXCEPT ![i] = b]
      BY <1>3, <3>2
    <3> QED BY <3>2, <3>3
  <2>2. CASE content' = [content EXCEPT ![v] = SubSeq(@, 1, Len(@) - 1)]
    <3>1. content' = [content EXCEPT ![v] = SubSeq(f, 1, Len(f) - 1)]
      BY <2>2
    <3>2. g = SubSeq(f, 1, Len(f) - 1)
      BY <1>3, <3>1
    <3> QED BY <3>1, <3>2
  <2> QED BY <1>2, <2>1, <2>2
<1>5. /\ g \in Seq(Byte) /\ Len(g) <= Size /\ g # Sound
      /\ Len(g) = Size => Len(f) = Size
      /\ \A j \in 1..Len(g) : g[j] \in {Unreadable, 0, j}
  <2>1. f # <<>>
    BY <1>2
  <2> HIDE DEF f, g
  <2> QED BY <1>3, <1>4, <2>1, Damaged
<1>6. g \in Text
  BY <1>5, TextIs, ReaderAssumption
<1> HIDE DEF g
<1>7. content' \in [Version -> Text]
      /\ \A u \in Version : content'[u] = IF u = v THEN g ELSE content[u]
  BY <1>3, <1>4, <1>6
<1>8. FilesAreWhole'
  <2>1. newest \in Version /\ dir \in 0..newest
    BY <1>3 DEF FilesAreWhole
  <2>2. ASSUME NEW u \in Version, NEW i \in 1..Len(content'[u])
        PROVE  content'[u][i] \in {Unreadable, 0, i}
    <3>1. CASE u = v
      BY <1>5, <1>7, <2>2, <3>1
    <3>2. CASE u # v
      BY <1>3, <1>7, <2>2, <3>2 DEF FilesAreWhole
    <3> QED BY <3>1, <3>2
  <2> QED BY <1>1, <1>7, <2>1, <2>2 DEF FilesAreWhole, Version, Text, Byte
<1>9. ASSUME NEW r \in Readers
      PROVE  Good(reader[r], content'[reader[r].fp], newest)
  <2>1. Good(reader[r], content[reader[r].fp], newest)
    BY DEF ReadInv
  <2>2. CASE reader[r].fp = v
    <3>1. content'[reader[r].fp] = g /\ content[reader[r].fp] = f
      BY <1>3, <1>7, <2>2
    <3> HIDE DEF f
    <3>2. Good(reader[r], f, newest)
      BY <2>1, <3>1
    <3>3. Good(reader[r], g, newest)
      BY <1>5, <3>2, RotKeepsGood
    <3> QED BY <3>1, <3>3
  <2>3. CASE reader[r].fp # v
    <3>1. content'[reader[r].fp] = content[reader[r].fp]
      BY <1>3, <1>4, <2>3
    <3> QED BY <2>1, <3>1
  <2> QED BY <2>2, <2>3
<1> QED BY <1>1, <1>8, <1>9 DEF ReadInv

\* The invariant holds at the start and is kept.
LEMMA ReadStarts ==
  ASSUME Init
  PROVE  ReadInv
<1>1. /\ dir = 1 /\ newest = 1 /\ content = [v \in Version |-> Sound]
      /\ reader = [r \in Readers |-> Closed] /\ Size \in Nat /\ MaxPuts \in Nat /\ Chunk \in Nat
  BY ReaderAssumption DEF Init
<1>2. Sound \in Text /\ \A i \in 1..Len(Sound) : Sound[i] \in {Unreadable, 0, i}
  <2>1. /\ Sound \in Seq(Byte) /\ Len(Sound) = Size
        /\ \A i \in 1..Size : Sound[i] = i
    BY <1>1, SoundIs
  <2>2. Len(Sound) <= Size
    BY <1>1, <2>1
  <2>3. Sound \in Text
    BY <1>1, <2>1, <2>2, TextIs
  <2> QED BY <2>1, <2>3
<1>3. FilesAreWhole
  <2>1. 1 \in Version /\ 1 \in 0..1
    BY <1>1 DEF Version
  <2> QED BY <1>1, <1>2, <2>1 DEF FilesAreWhole
<1> DEFINE s == Closed
<1>4. s \in ReaderState
  <2>1. NoSum \in Seq(Int) /\ NoFrag \in Seq(Int) /\ <<>> \in Seq(Int)
    BY DEF NoSum, NoFrag
  <2>2. <<>> \in Seq(Span)
    OBVIOUS
  <2> QED BY <2>1, <2>2 DEF Closed, ReaderState
<1>5. /\ s.at = "idle" /\ s.fp = 0 /\ s.pos = 0 /\ s.left = 0 /\ s.end = "none"
      /\ s.splice = FALSE
  BY DEF Closed
<1>6. s = Closed
  OBVIOUS
<1> HIDE DEF s
<1>7. Good(s, content[s.fp], newest)
  <2>1. Placed(s, newest)
    BY <1>1, <1>5, <1>6 DEF Placed
  <2>2. OnItsWay(s, content[s.fp]) /\ TakenWhole(s)
    BY <1>5 DEF OnItsWay, TakenWhole
  <2>3. Judged(s, content[s.fp]) /\ Finished(s, content[s.fp])
    BY <1>5 DEF Judged, Finished
  <2> QED BY <2>1, <2>2, <2>3 DEF Good
<1> QED BY <1>1, <1>3, <1>4, <1>6, <1>7 DEF ReadInv

LEMMA ReadStep ==
  ASSUME ReadInv, [Next]_vars
  PROVE  ReadInv'
<1>1. CASE Next
  <2>1. ASSUME NEW r \in Readers, Read(r)
        PROVE  ReadInv'
    BY <2>1, OpenFailsStep, OpenStep, NextRangeStep, ReadChunkStep, FragmentFailsStep,
       ReadFailsStep,
       ReadToEofStep, ClientLeavesStep, CloseStep DEF Read
  <2> QED BY <1>1, <2>1, PutStep, RotStep DEF Next
<1>2. CASE UNCHANGED vars
  BY <1>2 DEF vars, ReadInv, FilesAreWhole, Version, Text, Byte
<1> QED BY <1>1, <1>2

LEMMA ReadAlways == Spec => []ReadInv
<1>1. Init => ReadInv
  BY ReadStarts
<1>2. ReadInv /\ [Next]_vars => ReadInv'
  BY ReadStep
<1> QED BY <1>1, <1>2, PTL DEF Spec

\* The invariant says what the properties say.
LEMMA ReadIsSafe ==
  ASSUME ReadInv
  PROVE  /\ SentIsAsked /\ CorruptionIsFound
         /\ "sometimes" \notin Validate => AccusedIsCorrupt
         /\ TypeOK
<1>1. SentIsAsked
  <2> SUFFICES ASSUME NEW r \in Readers, reader[r].end = "all",
                      Len(content[reader[r].fp]) = Size
               PROVE  /\ Len(reader[r].sent) = Len(Asked(reader[r].asked))
                      /\ \A i \in 1..Len(Asked(reader[r].asked)) :
                           reader[r].sent[i] \in {0, Asked(reader[r].asked)[i]}
    BY DEF SentIsAsked
  <2> QED BY DEF ReadInv, Good, Finished, Agrees
<1>2. CorruptionIsFound
  BY DEF CorruptionIsFound, AlwaysSums, ReadInv, Good, Finished
<1>3. "sometimes" \notin Validate => AccusedIsCorrupt
  BY DEF AccusedIsCorrupt, ReadInv, Good, Judged, ReaderState
<1>4. TypeOK
  <2>1. /\ dir \in 0..newest /\ newest \in Version /\ content \in [Version -> Text]
        /\ newest \in Nat /\ newest <= MaxPuts + 1 /\ MaxPuts \in Nat
    BY ReaderAssumption DEF ReadInv, FilesAreWhole, Version
  <2>2. ASSUME NEW r \in Readers
        PROVE  LET s == reader[r]
               IN /\ s.fp \in {0} \cup Version /\ s.pos \in 0..Size /\ s.read \in Nat
                  /\ s.left \in -Chunk..Size
                  /\ s.at \in {"idle", "next", "read", "done"}
                  /\ s.end \in {"none", "all", "left", "failed", "quarantined"}
    <3> DEFINE s == reader[r]
    <3>1. s \in ReaderState /\ Placed(s, newest) /\ Size \in Nat /\ Chunk \in Nat
      BY ReaderAssumption DEF ReadInv, Good
    <3>2. /\ s.fp \in 0..newest /\ s.pos <= Size /\ s.pos \in Nat
          /\ -Chunk <= s.left /\ s.left <= Size
          /\ s.left \in Int /\ s.read \in Nat
          /\ s.at \in {"idle", "next", "read", "done"}
          /\ s.end \in {"none", "all", "left", "failed", "quarantined"}
      BY <3>1 DEF ReaderState, Placed
    <3>3. s.fp \in {0} \cup Version
      BY <2>1, <3>2 DEF Version
    <3> QED BY <3>1, <3>2, <3>3
  <2> QED BY <2>1, <2>2 DEF TypeOK
<1> QED BY <1>1, <1>2, <1>3, <1>4

(* For any size, chunk and fragments, any number of readers, of ranges, of PUTs*)
(* and of bytes lost: who is answered to the end of what he asked for is sent*)
(* exactly those ranges, one after the other, of the version that was opened*)
(* (bs_diskfile.py, app_iter_range and app_iter_ranges).                   *)
THEOREM SentIsAskedAlways ==
  Spec => []SentIsAsked
<1>1. ReadInv => SentIsAsked
  BY ReadIsSafe
<1> QED BY <1>1, ReadAlways, PTL

(* Nobody is sent a whole object to its end with its end lost, nor, where   *)
(* whole reads are summed, with a rotten byte, nor with a rotten header of a*)
(* fragment: that object is quarantined when it is read or when the reader  *)
(* closes (bs_diskfile.py, _check_frag and _handle_close_quarantine).       *)
THEOREM CorruptionIsFoundAlways ==
  Spec => []CorruptionIsFound
<1>1. ReadInv => CorruptionIsFound
  BY ReadIsSafe
<1> QED BY <1>1, ReadAlways, PTL

(* Moreover a reader accuses only a file that is corrupt, where no reader sums*)
(* only sometimes: one that does may go on, in a range it does not sum, with*)
(* the sum of an earlier one (bs_diskfile.py, _init_checks).                *)
THEOREM ReaderInvAlways ==
  ASSUME "sometimes" \notin Validate
  PROVE  Spec => []ReaderInv
<1>1. ReadInv => ReaderInv
  BY ReadIsSafe DEF ReaderInv
<1> QED BY <1>1, ReadAlways, PTL
=============================================================================
