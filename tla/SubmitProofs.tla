---------------------------- MODULE SubmitProofs ----------------------------
(***************************************************************************)
(* The hand-over keeps its promises for any number of workers, requests,   *)
(* Objects and transactions: SubmitInv of module Submit is inductive, and  *)
(* the safety properties the runs check are its conjuncts.                 *)
(***************************************************************************)
EXTENDS Submit, SequenceTheorems, TLAPS

-----------------------------------------------------------------------------
(* Increasing sequences and the elements of sequences.                     *)

LEMMA ElementsOfConcat ==
    ASSUME NEW s \in Seq(Nat), NEW t \in Seq(Nat)
    PROVE  Elements(s \o t) = Elements(s) \cup Elements(t)
<1>1. /\ s \o t \in Seq(Nat) /\ Len(s \o t) = Len(s) + Len(t)
      /\ \A i \in 1 .. Len(s) + Len(t) :
            (s \o t)[i] = IF i <= Len(s) THEN s[i] ELSE t[i - Len(s)]
  BY ConcatProperties
<1>2. Len(s) \in Nat /\ Len(t) \in Nat
  BY LenProperties
<1>3. ASSUME NEW x \in Elements(s \o t)
      PROVE  x \in Elements(s) \cup Elements(t)
  BY <1>1, <1>2, <1>3 DEF Elements
<1>4. ASSUME NEW x \in Elements(s)
      PROVE  x \in Elements(s \o t)
  BY <1>1, <1>2, <1>4 DEF Elements
<1>5. ASSUME NEW x \in Elements(t)
      PROVE  x \in Elements(s \o t)
  <2>1. PICK i \in 1 .. Len(t) : x = t[i]
    BY <1>5 DEF Elements
  <2>2. /\ i + Len(s) \in 1 .. Len(s) + Len(t)
        /\ (s \o t)[i + Len(s)] = t[i]
    BY <1>1, <1>2
  <2> QED
    BY <1>1, <2>1, <2>2 DEF Elements
<1> QED
  BY <1>3, <1>4, <1>5

LEMMA EmptyHasNoElements == Elements(<<>>) = {}
BY DEF Elements

LEMMA ElementsAreNaturals ==
    ASSUME NEW s \in Seq(Nat)
    PROVE  Elements(s) \subseteq Nat
BY ElementOfSeq DEF Elements

LEMMA ElementsOfAppend ==
    ASSUME NEW s \in Seq(Nat), NEW n \in Nat
    PROVE  Elements(Append(s, n)) = Elements(s) \cup {n}
<1>1. Append(s, n) = s \o <<n>> /\ <<n>> \in Seq(Nat)
  BY AppendIsConcat
<1>2. Elements(<<n>>) = {n}
  BY DEF Elements
<1> QED
  BY <1>1, <1>2, ElementsOfConcat

\* What is appended to an increasing sequence keeps it so if it is larger
\* than everything there.
LEMMA IncreasingAppend ==
    ASSUME NEW s \in Seq(Nat), NEW n \in Nat, Increasing(s),
           \A x \in Elements(s) : x < n
    PROVE  Increasing(Append(s, n))
<1>1. /\ Len(s) \in Nat /\ Len(Append(s, n)) = Len(s) + 1
      /\ \A i \in 1 .. Len(s) : Append(s, n)[i] = s[i]
      /\ Append(s, n)[Len(s) + 1] = n
  BY AppendProperties, LenProperties
<1>2. ASSUME NEW i \in 1 .. Len(s) + 1, NEW j \in 1 .. Len(s) + 1, i < j
      PROVE  Append(s, n)[i] < Append(s, n)[j]
  <2>1. CASE j = Len(s) + 1
    <3>1. i \in 1 .. Len(s) /\ s[i] \in Elements(s)
      BY <1>1, <1>2, <2>1 DEF Elements
    <3> QED
      BY <1>1, <2>1, <3>1
  <2>2. CASE j # Len(s) + 1
    <3>1. i \in 1 .. Len(s) /\ j \in 1 .. Len(s)
      BY <1>1, <1>2, <2>2
    <3> QED
      BY <1>1, <1>2, <3>1 DEF Increasing
  <2> QED
    BY <2>1, <2>2
<1> QED
  BY <1>1, <1>2 DEF Increasing

\* A part of an increasing sequence is increasing, and so is what is left
\* when its middle is taken out.
LEMMA IncreasingParts ==
    ASSUME NEW a \in Seq(Nat), NEW b \in Seq(Nat), NEW c \in Seq(Nat),
           Increasing((a \o b) \o c)
    PROVE  Increasing((a \o <<>>) \o c)
<1> DEFINE l == (a \o b) \o c
           m == a \o c
<1>1. Len(a) \in Nat /\ Len(b) \in Nat /\ Len(c) \in Nat
  BY LenProperties
<1>2. (a \o <<>>) \o c = m
  BY ConcatEmptySeq
<1>3. /\ Len(l) = Len(a) + Len(b) + Len(c)
      /\ \A i \in 1 .. Len(a) : l[i] = a[i]
      /\ \A i \in 1 .. Len(c) : l[i + Len(a) + Len(b)] = c[i]
  <2>1. /\ a \o b \in Seq(Nat) /\ Len(a \o b) = Len(a) + Len(b)
        /\ \A i \in 1 .. Len(a) : (a \o b)[i] = a[i]
    BY <1>1, ConcatProperties
  <2>2. /\ Len(l) = Len(a \o b) + Len(c)
        /\ \A i \in 1 .. Len(a \o b) + Len(c) :
              l[i] = IF i <= Len(a \o b) THEN (a \o b)[i]
                                         ELSE c[i - Len(a \o b)]
    BY <2>1, ConcatProperties
  <2> QED
    BY <1>1, <2>1, <2>2
<1>4. /\ Len(m) = Len(a) + Len(c)
      /\ \A i \in 1 .. Len(m) :
            m[i] = IF i <= Len(a) THEN a[i] ELSE c[i - Len(a)]
  BY ConcatProperties
<1> DEFINE at(i) == IF i <= Len(a) THEN i ELSE i + Len(b)
<1>5. ASSUME NEW i \in 1 .. Len(m)
      PROVE  at(i) \in 1 .. Len(l) /\ m[i] = l[at(i)]
  <2>1. CASE i <= Len(a)
    BY <1>1, <1>3, <1>4, <2>1
  <2>2. CASE ~(i <= Len(a))
    <3>1. i - Len(a) \in 1 .. Len(c) /\ (i - Len(a)) + Len(a) + Len(b) = at(i)
      BY <1>1, <1>4, <2>2
    <3> QED
      BY <1>1, <1>3, <1>4, <2>2, <3>1
  <2> QED
    BY <2>1, <2>2
<1>6. ASSUME NEW i \in 1 .. Len(m), NEW j \in 1 .. Len(m), i < j
      PROVE  at(i) < at(j)
  BY <1>1, <1>4, <1>6
<1> HIDE DEF l, m, at
<1>7. ASSUME NEW i \in 1 .. Len(m), NEW j \in 1 .. Len(m), i < j
      PROVE  m[i] < m[j]
  <2>1. at(i) \in 1 .. Len(l) /\ at(j) \in 1 .. Len(l) /\ at(i) < at(j)
    BY <1>5, <1>6, <1>7
  <2>2. l[at(i)] < l[at(j)]
    BY <2>1 DEF Increasing, l
  <2> QED
    BY <1>5, <2>2
<1> QED
  BY <1>2, <1>7 DEF Increasing

\* Nothing occurs twice in an increasing sequence.
LEMMA IncreasingIsDisjoint ==
    ASSUME NEW a \in Seq(Nat), NEW b \in Seq(Nat), NEW c \in Seq(Nat),
           Increasing((a \o b) \o c), NEW x \in Elements(b)
    PROVE  x \notin Elements(a) /\ x \notin Elements(c)
<1> DEFINE l == (a \o b) \o c
<1>1. Len(a) \in Nat /\ Len(b) \in Nat /\ Len(c) \in Nat
  BY LenProperties
<1>2. /\ Len(l) = Len(a) + Len(b) + Len(c)
      /\ \A i \in 1 .. Len(a) : l[i] = a[i]
      /\ \A i \in 1 .. Len(b) : l[i + Len(a)] = b[i]
      /\ \A i \in 1 .. Len(c) : l[i + Len(a) + Len(b)] = c[i]
  <2>1. /\ a \o b \in Seq(Nat) /\ Len(a \o b) = Len(a) + Len(b)
        /\ \A i \in 1 .. Len(a) + Len(b) :
              (a \o b)[i] = IF i <= Len(a) THEN a[i] ELSE b[i - Len(a)]
    BY <1>1, ConcatProperties
  <2>2. /\ Len(l) = Len(a \o b) + Len(c)
        /\ \A i \in 1 .. Len(a \o b) + Len(c) :
              l[i] = IF i <= Len(a \o b) THEN (a \o b)[i]
                                         ELSE c[i - Len(a \o b)]
    BY <2>1, ConcatProperties
  <2> QED
    BY <1>1, <2>1, <2>2
<1>3. \A i, j \in 1 .. Len(l) : i < j => l[i] < l[j]
  BY DEF Increasing
<1>4. PICK k \in 1 .. Len(b) : x = b[k]
  BY DEF Elements
<1>5. k + Len(a) \in 1 .. Len(l) /\ l[k + Len(a)] = x /\ x \in Nat
  BY <1>1, <1>2, <1>4, ElementOfSeq
<1> HIDE DEF l
<1>6. ASSUME NEW i \in 1 .. Len(a)
      PROVE  a[i] # x
  <2>1. i \in 1 .. Len(l) /\ i < k + Len(a) /\ l[i] = a[i]
    BY <1>1, <1>2, <1>4
  <2>2. a[i] < x
    BY <1>3, <1>5, <2>1
  <2> QED
    BY <1>5, <2>2
<1>7. ASSUME NEW i \in 1 .. Len(c)
      PROVE  c[i] # x
  <2>1. /\ i + Len(a) + Len(b) \in 1 .. Len(l)
        /\ k + Len(a) < i + Len(a) + Len(b)
        /\ l[i + Len(a) + Len(b)] = c[i]
    BY <1>1, <1>2, <1>4
  <2>2. x < c[i]
    BY <1>3, <1>5, <2>1
  <2> QED
    BY <1>5, <2>2
<1> QED
  BY <1>6, <1>7 DEF Elements

\* In an increasing sequence, what is smaller than an element of a prefix is
\* in that prefix.
LEMMA SmallerIsEarlier ==
    ASSUME NEW a \in Seq(Nat), NEW b \in Seq(Nat), Increasing(a \o b),
           NEW t \in Elements(a), NEW u \in Elements(a \o b), u < t
    PROVE  u \in Elements(a)
<1>1. /\ Len(a) \in Nat /\ Len(b) \in Nat
      /\ Len(a \o b) = Len(a) + Len(b)
      /\ \A i \in 1 .. Len(a) + Len(b) :
            (a \o b)[i] = IF i <= Len(a) THEN a[i] ELSE b[i - Len(a)]
  BY ConcatProperties, LenProperties
<1>2. PICK i \in 1 .. Len(a) : t = a[i]
  BY DEF Elements
<1>3. PICK j \in 1 .. Len(a) + Len(b) : u = (a \o b)[j]
  BY <1>1 DEF Elements
<1>4. i \in 1 .. Len(a \o b) /\ t = (a \o b)[i]
  BY <1>1, <1>2
<1>5. t \in Nat /\ u \in Nat
  BY ElementsAreNaturals, ConcatProperties
<1>6. ~(i < j)
  <2>1. i < j => t < u
    BY <1>1, <1>3, <1>4 DEF Increasing
  <2> QED
    BY <1>5, <2>1
<1>7. j \in 1 .. Len(a) /\ u = a[j]
  BY <1>1, <1>2, <1>3, <1>6
<1> QED
  BY <1>7 DEF Elements

-----------------------------------------------------------------------------
(* Nothing has happened: every part of the invariant holds.                *)

LEMMA InitInv == Init => SubmitInv
<1> SUFFICES ASSUME Init PROVE SubmitInv
  OBVIOUS
<1> USE SubmitAssumption
<1>1. TypeOK
  BY DEF Init, TypeOK, Places, Jobs, NoJob
<1>2. called \subseteq Txns /\ lost \subseteq Txns
  BY DEF Init
<1>3. Locks
  BY DEF Init, Locks
<1>4. HandedInOrder
  <2>1. Held = <<>> /\ handed = <<>> /\ queue = <<>>
    BY DEF Init, Held
  <2>2. Line = <<>>
    BY <2>1, ConcatEmptySeq, EmptySeq DEF Line
  <2>3. Txns = {} /\ lost = {}
    BY DEF Init, Txns
  <2> QED
    BY <2>2, <2>3, EmptyHasNoElements DEF HandedInOrder, Increasing
<1>5. NoStranded /\ Futures /\ CommittedInOrder /\ AckedDurable
  BY DEF Init, NoStranded, Futures, CommittedInOrder, AckedDurable
<1> QED
  BY <1>1, <1>2, <1>3, <1>4, <1>5 DEF SubmitInv

-----------------------------------------------------------------------------
(* Facts the steps share.                                                  *)

\* What the submitter holds is a sequence of transactions, and the line is
\* made of transactions that were prepared.
LEMMA LineFacts ==
    ASSUME SubmitInv
    PROVE  /\ Held \in Seq(Nat) /\ handed \o Held \in Seq(Nat)
           /\ Line \in Seq(Nat)
           /\ Elements(Line) = Elements(handed) \cup Elements(Held)
                                               \cup Elements(queue)
<1>1. handed \in Seq(Nat) /\ queue \in Seq(Nat)
  BY DEF SubmitInv, TypeOK
<1>2. Held \in Seq(Nat)
  BY EmptySeq DEF SubmitInv, TypeOK, Held
<1>3. handed \o Held \in Seq(Nat)
  BY <1>1, <1>2, ConcatProperties
<1> QED
  BY <1>1, <1>2, <1>3, ConcatProperties, ElementsOfConcat DEF Line

\* A prepared transaction is the youngest of the line.
LEMMA PrepareKeepsOrder ==
    ASSUME SubmitInv, NEW o \in Objects, NEW tracked \in BOOLEAN,
           Prepare(o, tracked),
           UNCHANGED <<handed, lost, batch, submitLock>>
    PROVE  /\ HandedInOrder' /\ queue' \in Seq(Nat) /\ of' \in Seq(Objects)
           /\ Txns' = Txns \cup {Len(of')} /\ Len(of') = Len(of) + 1
           /\ Elements(queue') = Elements(queue) \cup {Len(of')}
           /\ \A t \in Txns : of'[t] = of[t]
           /\ of'[Len(of')] = o
<1>1. /\ queue \in Seq(Nat) /\ handed \in Seq(Nat) /\ of \in Seq(Objects)
      /\ lost \subseteq Txns /\ HandedInOrder
  BY DEF SubmitInv, TypeOK
<1>2. /\ of' = Append(of, o) /\ queue' = Append(queue, Len(of'))
  BY DEF Prepare
<1>3. /\ Len(of) \in Nat /\ of' \in Seq(Objects) /\ Len(of') = Len(of) + 1
      /\ \A t \in 1 .. Len(of) : of'[t] = of[t]
      /\ of'[Len(of) + 1] = o
  BY <1>1, <1>2, AppendProperties, LenProperties
<1>4. Txns' = Txns \cup {Len(of')} /\ Len(of') \notin Txns
  BY <1>3 DEF Txns
<1>5. /\ queue' \in Seq(Nat)
      /\ Elements(queue') = Elements(queue) \cup {Len(of')}
  BY <1>1, <1>2, <1>3, AppendProperties, ElementsOfAppend
<1>6. Held' = Held
  BY DEF Held
<1>7. Len(of') \in Nat /\ lost' = lost /\ handed' = handed
  BY <1>3
<1>8. Line' = Append(Line, Len(of'))
  <2>1. handed \o Held \in Seq(Nat) /\ <<Len(of')>> \in Seq(Nat)
    BY <1>7, LineFacts
  <2>2. Append(queue, Len(of')) = queue \o <<Len(of')>>
    BY <1>1, <1>7, AppendIsConcat
  <2>3. Append(Line, Len(of')) = Line \o <<Len(of')>>
    BY <1>7, LineFacts, AppendIsConcat
  <2>4. Line' = (handed \o Held) \o (queue \o <<Len(of')>>)
    BY <1>2, <1>6, <1>7, <2>2 DEF Line
  <2>5. (handed \o Held) \o (queue \o <<Len(of')>>)
           = ((handed \o Held) \o queue) \o <<Len(of')>>
    BY <1>1, <2>1, ConcatAssociative
  <2> QED
    BY <2>3, <2>4, <2>5 DEF Line
<1>9. Increasing(Line')
  <2>1. \A x \in Elements(Line) : x < Len(of')
    BY <1>1, <1>3 DEF HandedInOrder, Txns
  <2>2. Increasing(Append(Line, Len(of')))
    BY <1>1, <1>7, <2>1, LineFacts, IncreasingAppend DEF HandedInOrder
  <2> QED
    BY <1>8, <2>2
<1>10. Elements(Line') = Txns' \ lost'
  <2>1. Elements(Append(Line, Len(of'))) = Elements(Line) \cup {Len(of')}
    BY <1>7, LineFacts, ElementsOfAppend
  <2>2. Elements(Line') = Elements(Line) \cup {Len(of')}
    BY <1>8, <2>1
  <2> QED
    BY <1>1, <1>4, <1>7, <2>2 DEF HandedInOrder
<1> QED
  BY <1>3, <1>4, <1>5, <1>9, <1>10 DEF HandedInOrder, Txns

\* No step but those that touch the line can put it out of order.
LEMMA LineUnchanged ==
    ASSUME SubmitInv, Line' = Line, UNCHANGED <<of, lost>>
    PROVE  HandedInOrder'
BY DEF SubmitInv, HandedInOrder, Txns

-----------------------------------------------------------------------------
(* The hub's steps.                                                        *)

\* Write and Change prepare a transaction and make a call for it.
LEMMA PrepareAndCall ==
    ASSUME SubmitInv, NEW r \in Requests, NEW o \in Objects,
           NEW kind \in Kinds,
           holder' \in [Objects -> Requests \cup {"shared", "gone"}],
           Prepare(o, TRUE), Execute(r, kind, o, Len(of')),
           UNCHANGED <<threadVars, storeVars, acked>>
    PROVE  SubmitInv'
<1> USE DEF threadVars, storeVars
<1>1. /\ HandedInOrder' /\ queue' \in Seq(Nat) /\ of' \in Seq(Objects)
      /\ Txns' = Txns \cup {Len(of')} /\ Len(of') = Len(of) + 1
      /\ Elements(queue') = Elements(queue) \cup {Len(of')}
      /\ \A t \in Txns : of'[t] = of[t]
      /\ of'[Len(of')] = o
  BY PrepareKeepsOrder
<1>2. Len(of) \in Nat /\ Len(of') \in Nat /\ Len(of') # 0
  BY <1>1, LenProperties DEF SubmitInv, TypeOK
<1>a. PICK n \in Nat : n = Len(of')
  BY <1>2
<1> DEFINE j == [kind |-> kind, req |-> r, obj |-> o, owed |-> n]
<1>3. /\ done' = [done EXCEPT ![o] = n] /\ reqq' = Append(reqq, j)
      /\ called' = called \cup {n} /\ calls' = calls \cup {r}
  BY <1>2, <1>a DEF Prepare, Execute
<1>4. j \in Jobs
  BY <1>2 DEF Jobs
<1>5. /\ reqq' \in Seq(Jobs) /\ Len(reqq') = Len(reqq) + 1
      /\ Len(reqq) \in Nat
      /\ \A i \in 1 .. Len(reqq) : reqq'[i] = reqq[i] /\ reqq[i] \in Jobs
      /\ reqq'[Len(reqq) + 1] = j
  BY <1>3, <1>4, AppendProperties, LenProperties, ElementOfSeq
     DEF SubmitInv, TypeOK
<1>6. TypeOK'
  BY <1>1, <1>2, <1>3, <1>5 DEF SubmitInv, TypeOK
<1>7. called' \subseteq Txns' /\ lost' \subseteq Txns' /\ Locks'
  BY <1>1, <1>3, <1>a DEF SubmitInv, Locks
<1>8. NoStranded'
  <2> SUFFICES ASSUME lost = {}, NEW t \in called' \cap Elements(queue')
               PROVE  \/ \E i \in 1 .. Len(reqq') : reqq'[i].owed = t
                      \/ \E w \in Workers : pc[w] = "try" /\ job[w].owed = t
                      \/ \E w \in Workers : Looking(w)
    BY DEF NoStranded, Looking
  <2>1. CASE t = n
    BY <1>5, <2>1
  <2>2. CASE t # n
    <3>1. t \in called \cap Elements(queue)
      BY <1>1, <1>3, <1>a, <2>2
    <3> QED
      BY <1>5, <3>1 DEF SubmitInv, NoStranded
  <2> QED
    BY <2>1, <2>2
<1>9. Futures'
  <2>1. ASSUME NEW p \in Objects
        PROVE  /\ done'[p] \in Nat /\ done[p] \in Nat /\ done[p] <= done'[p]
               /\ done'[p] # 0 => done'[p] \in Txns' /\ of'[done'[p]] = p
    <3>1. done \in [Objects -> Nat] /\ Txns = 1 .. Len(of)
      BY DEF SubmitInv, TypeOK, Txns
    <3>2. done[p] # 0 => done[p] \in Txns /\ of[done[p]] = p
      BY DEF SubmitInv, Futures
    <3>3. CASE p = o
      BY <1>1, <1>2, <1>3, <1>a, <3>1, <3>2, <3>3
    <3>4. CASE p # o
      BY <1>1, <1>3, <3>1, <3>2, <3>4
    <3> QED
      BY <3>3, <3>4
  <2>2. ASSUME NEW k \in Jobs, NEW p \in Nat, NEW q \in Nat, p <= q, Owes(k, p)
        PROVE  k.owed # 0 => /\ k.owed \in Txns' /\ of'[k.owed] = k.obj
                             /\ k.owed <= q
    BY <1>1, <2>2 DEF Owes, Jobs
  <2>3. ASSUME NEW i \in 1 .. Len(reqq')
        PROVE  Owes(reqq[i], done[reqq[i].obj])'
    <3>1. CASE i = Len(reqq) + 1
      BY <1>1, <1>2, <1>3, <1>5, <1>a, <2>1, <3>1 DEF Owes, SubmitInv, TypeOK
    <3>2. CASE i # Len(reqq) + 1
      <4>1. /\ i \in 1 .. Len(reqq) /\ reqq'[i] = reqq[i] /\ reqq[i] \in Jobs
            /\ reqq[i].obj \in Objects
        BY <1>5, <3>2 DEF Jobs
      <4>2. Owes(reqq[i], done[reqq[i].obj])
        BY <4>1 DEF SubmitInv, Futures
      <4> QED
        BY <2>1, <2>2, <4>1, <4>2 DEF Owes
    <3> QED
      BY <3>1, <3>2
  <2>4. ASSUME NEW w \in Workers
        PROVE  /\ pc'[w] # "idle" => Owes(job[w], done[job[w].obj])'
               /\ pc'[w] = "wait" =>
                    /\ Owes(job[w], local[w])'
                    /\ local'[w] # 0 => /\ local'[w] \in Txns'
                                        /\ of'[local'[w]] = job'[w].obj
    <3>1. CASE pc[w] = "idle"
      BY <3>1
    <3>2. CASE pc[w] # "idle"
      <4>1. job[w] \in Jobs /\ job[w].obj \in Objects /\ local[w] \in Nat
        BY <3>2 DEF SubmitInv, TypeOK, Jobs
      <4>2. Owes(job[w], done[job[w].obj])'
        <5>1. Owes(job[w], done[job[w].obj])
          BY <3>2 DEF SubmitInv, Futures
        <5> QED
          BY <2>1, <2>2, <4>1, <5>1 DEF Owes
      <4>3. ASSUME pc[w] = "wait"
            PROVE  /\ Owes(job[w], local[w])'
                   /\ local'[w] # 0 => /\ local'[w] \in Txns'
                                       /\ of'[local'[w]] = job'[w].obj
        <5>1. /\ Owes(job[w], local[w])
              /\ local[w] # 0 => local[w] \in Txns /\ of[local[w]] = job[w].obj
          BY <4>3 DEF SubmitInv, Futures
        <5> QED
          BY <1>1, <2>2, <4>1, <5>1 DEF Owes
      <4> QED
        BY <4>2, <4>3
    <3> QED
      BY <3>1, <3>2
  <2> QED
    BY <2>1, <2>3, <2>4 DEF Futures
<1>10. CommittedInOrder' /\ AckedDurable'
  <2>1. durable \subseteq Txns /\ durable \subseteq Elements(handed)
    BY LineFacts DEF SubmitInv, HandedInOrder, CommittedInOrder
  <2>2. ASSUME NEW t \in durable, NEW u \in Txns' \ lost,
               u < t, of'[u] = of'[t]
        PROVE  u \in durable
    <3>1. u # n
      BY <1>1, <1>2, <1>a, <2>1, <2>2 DEF Txns
    <3>2. u \in Txns \ lost /\ of[u] = of[t]
      BY <1>1, <1>a, <2>1, <2>2, <3>1
    <3> QED
      BY <2>2, <3>2 DEF SubmitInv, CommittedInOrder
  <2> QED
    BY <2>1, <2>2 DEF SubmitInv, CommittedInOrder, AckedDurable
<1> QED
  BY <1>1, <1>6, <1>7, <1>8, <1>9, <1>10 DEF SubmitInv

LEMMA DiscardStep ==
    ASSUME SubmitInv, NEW o \in Objects, Discard(o)
    PROVE  SubmitInv'
<1> USE DEF callVars, threadVars, storeVars
<1>1. /\ Prepare(o, FALSE)
      /\ UNCHANGED <<callVars, threadVars, storeVars, acked>>
      /\ done' = done /\ holder' = [holder EXCEPT ![o] = "gone"]
  BY DEF Discard, Prepare
<1>2. /\ HandedInOrder' /\ queue' \in Seq(Nat) /\ of' \in Seq(Objects)
      /\ Txns' = Txns \cup {Len(of')} /\ Len(of') = Len(of) + 1
      /\ Elements(queue') = Elements(queue) \cup {Len(of')}
      /\ \A t \in Txns : of'[t] = of[t]
  BY <1>1, PrepareKeepsOrder
<1>3. Len(of) \in Nat
  BY LenProperties DEF SubmitInv, TypeOK
<1>4. PICK n \in Nat : n = Len(of')
  BY <1>2, <1>3
<1>5. n \notin Txns /\ Txns' = Txns \cup {n}
  BY <1>2, <1>3, <1>4 DEF Txns
<1>6. TypeOK'
  BY <1>1, <1>2 DEF SubmitInv, TypeOK
<1>7. called' \subseteq Txns' /\ lost' \subseteq Txns' /\ Locks'
  BY <1>1, <1>5 DEF SubmitInv, Locks
<1>8. NoStranded'
  <2>1. called' \cap Elements(queue') = called \cap Elements(queue)
    BY <1>1, <1>2, <1>4, <1>5 DEF SubmitInv
  <2> QED
    BY <1>1, <2>1 DEF SubmitInv, NoStranded, Looking
<1>9. Futures'
  BY <1>1, <1>2 DEF SubmitInv, Futures, Owes
<1>10. CommittedInOrder' /\ AckedDurable'
  <2>1. durable \subseteq Txns /\ durable \subseteq Elements(handed)
    BY LineFacts DEF SubmitInv, HandedInOrder, CommittedInOrder
  <2>2. ASSUME NEW t \in durable, NEW u \in Txns' \ lost,
               u < t, of'[u] = of'[t]
        PROVE  u \in durable
    <3>1. u # n
      BY <1>2, <1>3, <1>4, <2>1, <2>2 DEF Txns
    <3> QED
      BY <1>2, <1>4, <2>1, <2>2, <3>1 DEF SubmitInv, CommittedInOrder
  <2> QED
    BY <1>1, <2>1, <2>2 DEF SubmitInv, CommittedInOrder, AckedDurable
<1> QED
  BY <1>2, <1>6, <1>7, <1>8, <1>9, <1>10 DEF SubmitInv

LEMMA LookStep ==
    ASSUME SubmitInv, NEW r \in Requests, NEW o \in Objects, Look(r, o)
    PROVE  SubmitInv'
<1> USE DEF hubVars, threadVars, storeVars
<1> DEFINE j == [kind |-> "sync", req |-> r, obj |-> o, owed |-> 0]
<1>1. /\ UNCHANGED <<hubVars, threadVars, storeVars, acked, called>>
      /\ reqq' = Append(reqq, j) /\ calls' = calls \cup {r}
  BY DEF Look, Execute
<1>2. j \in Jobs
  BY DEF Jobs, Kinds
<1>3. /\ reqq' \in Seq(Jobs) /\ Len(reqq') = Len(reqq) + 1 /\ Len(reqq) \in Nat
      /\ \A i \in 1 .. Len(reqq) : reqq'[i] = reqq[i]
      /\ reqq'[Len(reqq) + 1] = j
  BY <1>1, <1>2, AppendProperties, LenProperties DEF SubmitInv, TypeOK
<1>4. TypeOK' /\ called' \subseteq Txns' /\ lost' \subseteq Txns' /\ Locks'
  BY <1>1, <1>3 DEF SubmitInv, TypeOK, Locks, Txns
<1>5. HandedInOrder'
  BY <1>1, LineUnchanged DEF Line, Held
<1>6. NoStranded'
  BY <1>1, <1>3 DEF SubmitInv, NoStranded, Looking
<1>7. Futures'
  BY <1>1, <1>3 DEF SubmitInv, Futures, Owes, Txns
<1>8. CommittedInOrder' /\ AckedDurable'
  BY <1>1 DEF SubmitInv, CommittedInOrder, AckedDurable, Txns
<1> QED
  BY <1>4, <1>5, <1>6, <1>7, <1>8 DEF SubmitInv

-----------------------------------------------------------------------------
(* The workers' steps.                                                     *)

LEMMA TakeStep ==
    ASSUME SubmitInv, NEW w \in Workers, Take(w)
    PROVE  SubmitInv'
<1> USE DEF hubVars, storeVars
<1>1. /\ UNCHANGED <<hubVars, called, calls, batch, local, submitLock,
                     queueLock, storeVars, acked>>
      /\ pc[w] = "idle" /\ reqq # <<>>
      /\ job' = [job EXCEPT ![w] = Head(reqq)] /\ reqq' = Tail(reqq)
      /\ pc' = [pc EXCEPT ![w] = "try"]
  BY DEF Take
<1>2. /\ reqq' \in Seq(Jobs) /\ Len(reqq') = Len(reqq) - 1
      /\ Len(reqq) \in Nat \ {0}
      /\ Head(reqq) = reqq[1] /\ reqq[1] \in Jobs
      /\ \A i \in 1 .. Len(reqq) - 1 : reqq'[i] = reqq[i + 1]
  BY <1>1, HeadTailProperties, EmptySeq, ElementOfSeq DEF SubmitInv, TypeOK
<1>3. TypeOK'
  <2>1. reqq[1] # NoJob
    <3>1. reqq[1].kind # "none" /\ NoJob.kind = "none"
      BY <1>2 DEF Jobs, Kinds, NoJob
    <3> QED
      BY <3>1
  <2> QED
    BY <1>1, <1>2, <2>1 DEF SubmitInv, TypeOK, Places
<1>4. called' \subseteq Txns' /\ lost' \subseteq Txns' /\ Locks'
  BY <1>1 DEF SubmitInv, TypeOK, Locks, Txns
<1>5. HandedInOrder'
  BY <1>1, LineUnchanged DEF Line, Held
<1>6. NoStranded'
  <2> SUFFICES ASSUME lost = {}, NEW t \in called \cap Elements(queue)
               PROVE  \/ \E i \in 1 .. Len(reqq') : reqq'[i].owed = t
                      \/ \E v \in Workers : pc'[v] = "try" /\ job'[v].owed = t
                      \/ \E v \in Workers : Looking(v)'
    BY <1>1 DEF NoStranded
  <2>1. ASSUME NEW i \in 1 .. Len(reqq), reqq[i].owed = t
        PROVE  \/ \E k \in 1 .. Len(reqq') : reqq'[k].owed = t
               \/ \E v \in Workers : pc'[v] = "try" /\ job'[v].owed = t
    <3>1. CASE i = 1
      BY <1>1, <1>2, <2>1, <3>1 DEF SubmitInv, TypeOK
    <3>2. CASE i # 1
      <4>1. i - 1 \in 1 .. Len(reqq') /\ reqq'[i - 1] = reqq[i]
        BY <1>2, <3>2
      <4> QED
        BY <2>1, <4>1
    <3> QED
      BY <3>1, <3>2
  <2>2. ASSUME NEW v \in Workers, pc[v] = "try" /\ job[v].owed = t
        PROVE  pc'[v] = "try" /\ job'[v].owed = t
    BY <1>1, <2>2 DEF SubmitInv, TypeOK
  <2>3. ASSUME NEW v \in Workers, Looking(v)
        PROVE  Looking(v)'
    BY <1>1, <2>3 DEF SubmitInv, TypeOK, Looking
  <2> QED
    BY <2>1, <2>2, <2>3 DEF SubmitInv, NoStranded
<1>7. Futures'
  <2>1. \A i \in 1 .. Len(reqq') : Owes(reqq[i], done[reqq[i].obj])'
    BY <1>1, <1>2 DEF SubmitInv, Futures, Owes, Txns
  <2>2. ASSUME NEW v \in Workers
        PROVE  /\ pc'[v] # "idle" => Owes(job[v], done[job[v].obj])'
               /\ pc'[v] = "wait" =>
                    /\ Owes(job[v], local[v])'
                    /\ local'[v] # 0 => /\ local'[v] \in Txns'
                                        /\ of'[local'[v]] = job'[v].obj
    <3>1. CASE v = w
      BY <1>1, <1>2, <3>1 DEF SubmitInv, TypeOK, Futures, Owes, Txns
    <3>2. CASE v # w
      BY <1>1, <3>2 DEF SubmitInv, TypeOK, Futures, Owes, Txns
    <3> QED
      BY <3>1, <3>2
  <2> QED
    BY <1>1, <2>1, <2>2 DEF SubmitInv, Futures, Txns
<1>8. CommittedInOrder' /\ AckedDurable'
  BY <1>1 DEF SubmitInv, CommittedInOrder, AckedDurable, Txns
<1> QED
  BY <1>3, <1>4, <1>5, <1>6, <1>7, <1>8 DEF SubmitInv

\* Most steps of a worker move no transaction and start or end no call.
LEMMA QuietStep ==
    ASSUME SubmitInv, TypeOK', Locks', Line' = Line,
           UNCHANGED <<of, done, callVars, job, storeVars, acked>>,
           Elements(queue') \subseteq Elements(queue),
           \A w \in Workers :
               /\ pc'[w] = "idle" <=> pc[w] = "idle"
               /\ pc'[w] = "wait" => pc[w] = "wait" /\ local'[w] = local[w]
               /\ Elements(queue') # {} => 
                    /\ Looking(w) => \E v \in Workers : Looking(v)'
                    /\ pc[w] = "try" =>
                          pc'[w] = "try" \/ \E v \in Workers : Looking(v)'
    PROVE  SubmitInv'
<1> USE DEF callVars, storeVars
<1>1. HandedInOrder' /\ called' \subseteq Txns' /\ lost' \subseteq Txns'
  BY LineUnchanged DEF SubmitInv, Txns
<1>2. NoStranded'
  <2> SUFFICES ASSUME lost = {}, NEW t \in called \cap Elements(queue')
               PROVE  \/ \E i \in 1 .. Len(reqq) : reqq[i].owed = t
                      \/ \E v \in Workers : pc'[v] = "try" /\ job[v].owed = t
                      \/ \E v \in Workers : Looking(v)'
    BY DEF NoStranded
  <2> QED
    BY DEF SubmitInv, NoStranded
<1>3. Futures'
  BY DEF SubmitInv, Futures, Owes, Txns
<1>4. CommittedInOrder' /\ AckedDurable'
  BY DEF SubmitInv, CommittedInOrder, AckedDurable, Txns
<1> QED
  BY <1>1, <1>2, <1>3, <1>4 DEF SubmitInv

LEMMA TryLockStep ==
    ASSUME SubmitInv, NEW w \in Workers, TryLock(w)
    PROVE  SubmitInv'
<1> USE DEF hubVars
<1>1. /\ pc[w] = "try" /\ w # NoWorker
      /\ UNCHANGED <<hubVars, callVars, job, batch, local, queueLock,
                     storeVars, acked>>
  BY SubmitAssumption DEF TryLock
<1>2. CASE submitLock = NoWorker
  <2>1. submitLock' = w /\ pc' = [pc EXCEPT ![w] = "lock"]
    BY <1>2 DEF TryLock
  <2>2. TypeOK'
    BY <1>1, <1>2, <2>1 DEF SubmitInv, TypeOK, Places, callVars, storeVars
  <2>6. Locks'
    <3>1. ASSUME NEW v \in Workers
          PROVE  /\ pc'[v] \in {"lock", "locked", "hand"} => submitLock' = v
                 /\ pc'[v] \in {"locked", "release"} <=> queueLock' = v
                 /\ batch'[v] # <<>> <=> pc'[v] = "hand"
      BY <1>1, <1>2, <2>1, SubmitAssumption DEF SubmitInv, TypeOK, Locks
    <3>2. submitLock' # NoWorker => pc'[submitLock'] \in {"lock", "locked", "hand"}
      BY <1>1, <2>1 DEF SubmitInv, TypeOK
    <3> QED
      BY <3>1, <3>2 DEF Locks
  <2>3. Line' = Line
    BY <1>1, <1>2, <2>1 DEF SubmitInv, TypeOK, Locks, Line, Held, storeVars
  <2>4. Looking(w)'
    BY <2>1 DEF Looking, SubmitInv, TypeOK
  <2>5. \A v \in Workers :
            /\ pc'[v] = "idle" <=> pc[v] = "idle"
            /\ pc'[v] = "wait" => pc[v] = "wait" /\ local'[v] = local[v]
    BY <1>1, <2>1 DEF SubmitInv, TypeOK
  <2> QED
    BY <1>1, <2>1, <2>2, <2>3, <2>4, <2>5, <2>6, QuietStep
<1>3. CASE submitLock # NoWorker
  <2>1. submitLock' = submitLock /\ pc' = [pc EXCEPT ![w] = "return"]
    BY <1>3 DEF TryLock
  <2>2. TypeOK'
    BY <1>1, <2>1 DEF SubmitInv, TypeOK, Places, callVars, storeVars
  <2>6. Locks'
    BY <1>1, <1>3, <2>1 DEF SubmitInv, TypeOK, Locks
  <2>3. Line' = Line
    BY <1>1, <2>1 DEF Line, Held, storeVars
  <2>4. submitLock \in Workers /\ Looking(submitLock)'
    BY <1>1, <1>3, <2>1 DEF Looking, SubmitInv, TypeOK, Locks
  <2>5. \A v \in Workers :
            /\ pc'[v] = "idle" <=> pc[v] = "idle"
            /\ pc'[v] = "wait" => pc[v] = "wait" /\ local'[v] = local[v]
    BY <1>1, <2>1 DEF SubmitInv, TypeOK
  <2> QED
    BY <1>1, <2>1, <2>2, <2>3, <2>4, <2>5, <2>6, QuietStep
<1> QED
  BY <1>2, <1>3

LEMMA LockQueueStep ==
    ASSUME SubmitInv, NEW w \in Workers, LockQueue(w)
    PROVE  SubmitInv'
<1>1. /\ pc[w] = "lock" /\ queueLock = NoWorker /\ queueLock' = w
      /\ pc' = [pc EXCEPT ![w] = "locked"] /\ w # NoWorker
      /\ UNCHANGED <<hubVars, callVars, job, batch, local, submitLock,
                     storeVars, acked>>
  BY SubmitAssumption DEF LockQueue
<1>2. TypeOK'
  BY <1>1 DEF SubmitInv, TypeOK, Places, hubVars, callVars, storeVars
<1>5. Locks'
  BY <1>1, SubmitAssumption DEF SubmitInv, TypeOK, Locks
<1>3. Line' = Line
  BY <1>1 DEF Line, Held, hubVars, storeVars
<1>4. \A v \in Workers :
          /\ pc'[v] = "idle" <=> pc[v] = "idle"
          /\ pc'[v] = "wait" => pc[v] = "wait" /\ local'[v] = local[v]
          /\ Looking(v) => Looking(v)'
          /\ pc[v] = "try" => pc'[v] = "try"
  BY <1>1 DEF SubmitInv, TypeOK, Looking
<1> QED
  BY <1>1, <1>2, <1>3, <1>4, <1>5, QuietStep DEF hubVars

LEMMA SwapStep ==
    ASSUME SubmitInv, NEW w \in Workers, Swap(w)
    PROVE  SubmitInv'
<1>1. /\ pc[w] = "locked" /\ queue # <<>> /\ queueLock' = NoWorker
      /\ batch' = [batch EXCEPT ![w] = queue] /\ queue' = <<>>
      /\ pc' = [pc EXCEPT ![w] = "hand"] /\ w # NoWorker
      /\ UNCHANGED <<holder, of, done, callVars, job, local, submitLock,
                     storeVars, acked>>
  BY SubmitAssumption DEF Swap
<1>2. TypeOK'
  BY <1>1, EmptySeq DEF SubmitInv, TypeOK, Places, callVars, storeVars
<1>5. Locks'
  BY <1>1, SubmitAssumption DEF SubmitInv, TypeOK, Locks
<1>3. Line' = Line
  <2>1. /\ submitLock = w /\ Held = <<>> /\ Held' = queue
        /\ handed \in Seq(Nat) /\ queue \in Seq(Nat) /\ handed' = handed
    BY <1>1 DEF SubmitInv, TypeOK, Locks, Held, storeVars
  <2>2. handed \o <<>> = handed
    BY <2>1, ConcatEmptySeq
  <2>3. (handed \o queue) \o <<>> = handed \o queue
    BY <2>1, ConcatProperties, ConcatEmptySeq
  <2> QED
    BY <1>1, <2>1, <2>2, <2>3 DEF Line
<1>4. \A v \in Workers :
          /\ pc'[v] = "idle" <=> pc[v] = "idle"
          /\ pc'[v] = "wait" => pc[v] = "wait" /\ local'[v] = local[v]
          /\ Looking(v) => Looking(v)'
          /\ pc[v] = "try" => pc'[v] = "try"
  BY <1>1 DEF SubmitInv, TypeOK, Looking
<1> QED
  BY <1>1, <1>2, <1>3, <1>4, <1>5, QuietStep, EmptyHasNoElements

\* submit_lock goes while queue_lock is held, so the queue is still empty.
LEMMA FoundEmptyStep ==
    ASSUME SubmitInv, NEW w \in Workers, FoundEmpty(w)
    PROVE  SubmitInv'
<1>1. /\ pc[w] = "locked" /\ queue = <<>>
      /\ submitLock' = NoWorker /\ queueLock' = queueLock
      /\ pc' = [pc EXCEPT ![w] = "release"]
      /\ UNCHANGED <<hubVars, callVars, job, batch, local, storeVars, acked>>
  BY DEF FoundEmpty, Unlock, ReleaseOrder
<1>2. TypeOK'
  BY <1>1 DEF SubmitInv, TypeOK, Places, hubVars, callVars, storeVars
<1>3. Locks'
  BY <1>1, SubmitAssumption DEF SubmitInv, TypeOK, Locks
<1>4. Line' = Line
  BY <1>1 DEF SubmitInv, TypeOK, Locks, Line, Held, hubVars, storeVars
<1>5. Elements(queue') = {} /\ Elements(queue) = {}
  BY <1>1, EmptyHasNoElements DEF hubVars
<1>6. \A v \in Workers :
          /\ pc'[v] = "idle" <=> pc[v] = "idle"
          /\ pc'[v] = "wait" => pc[v] = "wait" /\ local'[v] = local[v]
  BY <1>1 DEF SubmitInv, TypeOK
<1> QED
  BY <1>1, <1>2, <1>3, <1>4, <1>5, <1>6, QuietStep DEF hubVars

LEMMA ReleasedStep ==
    ASSUME SubmitInv, NEW w \in Workers, Released(w)
    PROVE  SubmitInv'
<1>1. /\ pc[w] = "release"
      /\ submitLock' = submitLock /\ queueLock' = NoWorker
      /\ pc' = [pc EXCEPT ![w] = "return"]
      /\ UNCHANGED <<hubVars, callVars, job, batch, local, storeVars, acked>>
  BY DEF Released, Unlock, ReleaseOrder
<1>2. TypeOK'
  BY <1>1 DEF SubmitInv, TypeOK, Places, hubVars, callVars, storeVars
<1>3. Locks'
  BY <1>1, SubmitAssumption DEF SubmitInv, TypeOK, Locks
<1>4. Line' = Line
  BY <1>1 DEF Line, Held, hubVars, storeVars
<1>5. \A v \in Workers :
          /\ pc'[v] = "idle" <=> pc[v] = "idle"
          /\ pc'[v] = "wait" => pc[v] = "wait" /\ local'[v] = local[v]
          /\ Looking(v) => Looking(v)'
          /\ pc[v] = "try" => pc'[v] = "try"
  BY <1>1 DEF SubmitInv, TypeOK, Looking
<1> QED
  BY <1>1, <1>2, <1>3, <1>4, <1>5, QuietStep DEF hubVars

LEMMA HandStep ==
    ASSUME SubmitInv, NEW w \in Workers, Hand(w)
    PROVE  SubmitInv'
<1> DEFINE h == Head(batch[w])
           b == Tail(batch[w])
<1>1. /\ pc[w] = "hand" /\ submitLock = w /\ w # NoWorker
      /\ handed' = Append(handed, h) /\ batch' = [batch EXCEPT ![w] = b]
      /\ pc' = [pc EXCEPT ![w] = IF Len(batch[w]) = 1 THEN "lock" ELSE "hand"]
      /\ UNCHANGED <<hubVars, callVars, job, local, submitLock, queueLock,
                     durable, lost, acked>>
  BY SubmitAssumption DEF Hand, SubmitInv, Locks
<1>2. batch[w] \in Seq(Nat) /\ batch[w] # <<>> /\ handed \in Seq(Nat)
      /\ queue \in Seq(Nat)
  BY <1>1 DEF SubmitInv, TypeOK, Locks
<1>3. /\ h \in Nat /\ b \in Seq(Nat) /\ Len(b) = Len(batch[w]) - 1
      /\ Len(batch[w]) \in Nat \ {0} /\ batch[w] = <<h>> \o b
      /\ <<h>> \in Seq(Nat)
  BY <1>2, HeadTailProperties, EmptySeq, LenProperties
<1> HIDE DEF h, b
<1>4. b = <<>> <=> Len(batch[w]) = 1
  <2>1. Len(b) = 0 <=> b = <<>>
    BY <1>3, EmptySeq, LenProperties
  <2> QED
    BY <1>3, <2>1
<1>5. TypeOK'
  <2>1. handed' \in Seq(Nat)
    BY <1>1, <1>2, <1>3, AppendProperties
  <2>2. batch' \in [Workers -> Seq(Nat)]
    BY <1>1, <1>3 DEF SubmitInv, TypeOK
  <2>3. pc' \in [Workers -> Places]
    BY <1>1 DEF SubmitInv, TypeOK, Places
  <2> QED
    BY <1>1, <2>1, <2>2, <2>3 DEF SubmitInv, TypeOK, hubVars, callVars
<1>6. Locks'
  <2>1. ASSUME NEW v \in Workers
        PROVE  /\ pc'[v] \in {"lock", "locked", "hand"} => submitLock' = v
               /\ pc'[v] \in {"locked", "release"} <=> queueLock' = v
               /\ batch'[v] # <<>> <=> pc'[v] = "hand"
    BY <1>1, <1>4 DEF SubmitInv, TypeOK, Locks
  <2>2. pc'[submitLock'] \in {"lock", "locked", "hand"}
    BY <1>1 DEF SubmitInv, TypeOK
  <2> QED
    BY <2>1, <2>2 DEF Locks
<1>7. Line' = Line
  <2>1. Held = <<h>> \o b /\ Held' = b /\ queue' = queue
    BY <1>1, <1>3 DEF Held, SubmitInv, TypeOK, hubVars
  <2>2. handed' = handed \o <<h>>
    BY <1>1, <1>2, <1>3, AppendIsConcat
  <2>3. (handed \o <<h>>) \o b = handed \o (<<h>> \o b)
    BY <1>2, <1>3, ConcatAssociative
  <2> QED
    BY <2>1, <2>2, <2>3 DEF Line
<1>8. HandedInOrder' /\ called' \subseteq Txns' /\ lost' \subseteq Txns'
  BY <1>1, <1>7, LineUnchanged DEF SubmitInv, Txns, hubVars, callVars
<1>9. NoStranded'
  <2>1. Looking(w)'
    BY <1>1 DEF Looking, SubmitInv, TypeOK
  <2> QED
    BY <2>1 DEF NoStranded
<1>10. Futures'
  <2>1. \A v \in Workers :
            /\ pc'[v] = "idle" <=> pc[v] = "idle"
            /\ pc'[v] = "wait" => pc[v] = "wait"
    BY <1>1 DEF SubmitInv, TypeOK
  <2> QED
    BY <1>1, <2>1 DEF SubmitInv, Futures, Owes, Txns, hubVars, callVars
<1>11. CommittedInOrder' /\ AckedDurable'
  <2>1. Elements(handed) \subseteq Elements(handed')
    BY <1>1, <1>2, <1>3, ElementsOfAppend
  <2> QED
    BY <1>1, <2>1 DEF SubmitInv, CommittedInOrder, AckedDurable, Txns, hubVars
<1> QED
  BY <1>5, <1>6, <1>8, <1>9, <1>10, <1>11 DEF SubmitInv

\* A call ends: its worker is idle again, and nobody else is concerned.
LEMMA ReturnFacts ==
    ASSUME SubmitInv, NEW w \in Workers, Return(w), pc[w] # "idle",
           UNCHANGED <<of, done, reqq>>
    PROVE  /\ pc' = [pc EXCEPT ![w] = "idle"] /\ pc' \in [Workers -> Places]
           /\ job' = [job EXCEPT ![w] = NoJob]
           /\ job' \in [Workers -> Jobs \cup {NoJob}]
           /\ local' \in [Workers -> Nat]
           /\ \A v \in Workers : pc'[v] = "idle" <=> job'[v] = NoJob
           /\ calls' \subseteq Requests /\ called' = called
           /\ Futures'
<1>1. /\ pc' = [pc EXCEPT ![w] = "idle"] /\ job' = [job EXCEPT ![w] = NoJob]
      /\ local' = [local EXCEPT ![w] = 0] /\ calls' = calls \ {job[w].req}
      /\ called' = called
  BY DEF Return
<1>2. \A v \in Workers : /\ v = w => pc'[v] = "idle"
                         /\ v # w => /\ pc'[v] = pc[v] /\ job'[v] = job[v]
                                     /\ local'[v] = local[v]
  BY <1>1 DEF SubmitInv, TypeOK
<1>3. Futures'
  BY <1>2 DEF SubmitInv, Futures, Owes, Txns
<1> QED
  BY <1>1, <1>2, <1>3 DEF SubmitInv, TypeOK, Places

LEMMA HandFailsStep ==
    ASSUME SubmitInv, NEW w \in Workers, HandFails(w)
    PROVE  SubmitInv'
<1>1. /\ pc[w] = "hand" /\ submitLock = w /\ w # NoWorker
      /\ lost' = lost \cup Elements(batch[w])
      /\ batch' = [batch EXCEPT ![w] = <<>>] /\ submitLock' = NoWorker
      /\ Return(w)
      /\ UNCHANGED <<hubVars, reqq, queueLock, handed, durable, acked>>
  BY SubmitAssumption DEF HandFails, SubmitInv, Locks
<1>2. /\ batch[w] \in Seq(Nat) /\ batch[w] # <<>> /\ handed \in Seq(Nat)
      /\ queue \in Seq(Nat) /\ Held = batch[w] /\ Held' = <<>>
  BY <1>1 DEF SubmitInv, TypeOK, Locks, Held
<1>3. Elements(batch[w]) # {} /\ Elements(batch[w]) \subseteq Txns
  <2>1. Len(batch[w]) \in Nat \ {0}
    BY <1>2, EmptySeq
  <2>2. batch[w][1] \in Elements(batch[w])
    BY <2>1 DEF Elements
  <2>3. Elements(batch[w]) \subseteq Txns
    BY <1>2, LineFacts DEF SubmitInv, HandedInOrder
  <2> QED
    BY <2>2, <2>3
<1>4. /\ pc' = [pc EXCEPT ![w] = "idle"] /\ pc' \in [Workers -> Places]
      /\ job' \in [Workers -> Jobs \cup {NoJob}] /\ local' \in [Workers -> Nat]
      /\ \A v \in Workers : pc'[v] = "idle" <=> job'[v] = NoJob
      /\ calls' \subseteq Requests /\ called' = called /\ Futures'
  BY <1>1, ReturnFacts DEF hubVars
<1>5. TypeOK' /\ called' \subseteq Txns' /\ lost' \subseteq Txns'
  <2>1. lost' \subseteq Txns' /\ called' \subseteq Txns' /\ lost' \subseteq Nat
    <3>1. Elements(batch[w]) \subseteq Nat
      BY <1>2, ElementsAreNaturals
    <3>2. lost' \subseteq Nat
      BY <1>1, <3>1 DEF SubmitInv, TypeOK
    <3> QED
      BY <1>1, <1>3, <1>4, <3>2 DEF SubmitInv, Txns, hubVars
  <2>2. batch' \in [Workers -> Seq(Nat)]
    BY <1>1, EmptySeq DEF SubmitInv, TypeOK
  <2> QED
    BY <1>1, <1>4, <2>1, <2>2 DEF SubmitInv, TypeOK, hubVars
<1>6. Locks'
  BY <1>1, <1>4, SubmitAssumption DEF SubmitInv, TypeOK, Locks
<1>7. HandedInOrder'
  <2>1. Line = (handed \o batch[w]) \o queue
        /\ Line' = (handed \o <<>>) \o queue
    BY <1>1, <1>2 DEF Line, hubVars
  <2>2. Increasing(Line')
    BY <1>2, <2>1, IncreasingParts DEF SubmitInv, HandedInOrder
  <2>3. handed \o <<>> = handed
    BY <1>2, ConcatEmptySeq
  <2>4. Elements(Line') = Elements(handed) \cup Elements(queue)
    BY <1>2, <2>1, <2>3, ElementsOfConcat
  <2>5. Elements(Line) = Elements(handed) \cup Elements(batch[w])
                                         \cup Elements(queue)
    BY <1>2, LineFacts
  <2>6. \A x \in Elements(batch[w]) :
            x \notin Elements(handed) /\ x \notin Elements(queue)
    BY <1>2, <2>1, IncreasingIsDisjoint DEF SubmitInv, HandedInOrder
  <2>7. Elements(Line') = Txns' \ lost'
    BY <1>1, <2>4, <2>5, <2>6 DEF SubmitInv, HandedInOrder, Txns, hubVars
  <2> QED
    BY <2>2, <2>7 DEF HandedInOrder
<1>8. NoStranded' /\ AckedDurable'
  BY <1>1, <1>3 DEF NoStranded, AckedDurable
<1>9. CommittedInOrder'
  BY <1>1 DEF SubmitInv, CommittedInOrder, Txns, hubVars
<1> QED
  BY <1>4, <1>5, <1>6, <1>7, <1>8, <1>9 DEF SubmitInv

\* The line and the promise to queued transactions outlive a return.
LEMMA EndedCall ==
    ASSUME SubmitInv, NEW w \in Workers, Return(w), pc[w] \in {"return", "wait"},
           acked' \subseteq Nat, lost = {} => acked' \subseteq durable,
           UNCHANGED <<hubVars, reqq, batch, submitLock, queueLock, storeVars>>
    PROVE  SubmitInv'
<1> USE DEF hubVars, storeVars
<1>1. /\ pc' = [pc EXCEPT ![w] = "idle"] /\ pc' \in [Workers -> Places]
      /\ job' = [job EXCEPT ![w] = NoJob]
      /\ job' \in [Workers -> Jobs \cup {NoJob}] /\ local' \in [Workers -> Nat]
      /\ \A v \in Workers : pc'[v] = "idle" <=> job'[v] = NoJob
      /\ calls' \subseteq Requests /\ called' = called /\ Futures'
  BY ReturnFacts
<1>2. TypeOK' /\ called' \subseteq Txns' /\ lost' \subseteq Txns'
  BY <1>1 DEF SubmitInv, TypeOK, Txns
<1>3. Locks'
  BY <1>1 DEF SubmitInv, TypeOK, Locks
<1>4. HandedInOrder'
  BY LineUnchanged DEF Line, Held
<1>5. NoStranded'
  <2>1. \A v \in Workers :
            /\ pc[v] = "try" => pc'[v] = "try" /\ job'[v] = job[v]
            /\ Looking(v) => Looking(v)'
    BY <1>1 DEF SubmitInv, TypeOK, Looking
  <2> QED
    BY <1>1, <2>1 DEF SubmitInv, NoStranded
<1>6. CommittedInOrder' /\ AckedDurable'
  BY DEF SubmitInv, CommittedInOrder, AckedDurable, Txns
<1> QED
  BY <1>1, <1>2, <1>3, <1>4, <1>5, <1>6 DEF SubmitInv

LEMMA SubmitReturnsStep ==
    ASSUME SubmitInv, NEW w \in Workers, SubmitReturns(w)
    PROVE  SubmitInv'
BY EndedCall DEF SubmitReturns, SubmitInv, TypeOK, AckedDurable

\* What the caller prepared is no younger than what it waited for, and
\* transactions of one Object become durable in order.
LEMMA SyncReturnsStep ==
    ASSUME SubmitInv, NEW w \in Workers, SyncReturns(w)
    PROVE  SubmitInv'
<1>1. /\ pc[w] = "wait" /\ local[w] \in durable \cup {0} /\ Return(w)
      /\ acked' = acked \cup ({job[w].owed} \ {0})
      /\ UNCHANGED <<hubVars, reqq, batch, submitLock, queueLock, storeVars>>
  BY DEF SyncReturns
<1>2. job[w] \in Jobs /\ job[w].owed \in Nat /\ local[w] \in Nat
  BY <1>1 DEF SubmitInv, TypeOK, Jobs
<1>3. /\ Owes(job[w], local[w])
      /\ local[w] # 0 => local[w] \in Txns /\ of[local[w]] = job[w].obj
  BY <1>1 DEF SubmitInv, Futures
<1>4. ASSUME lost = {}
      PROVE  acked' \subseteq durable
  <2>1. CASE job[w].owed = 0
    BY <1>1, <1>4, <2>1 DEF SubmitInv, AckedDurable
  <2>2. CASE job[w].owed # 0
    <3>1. /\ job[w].owed \in Txns \ lost /\ of[job[w].owed] = of[local[w]]
          /\ local[w] \in durable /\ job[w].owed <= local[w]
      BY <1>1, <1>2, <1>3, <1>4, <2>2 DEF Owes
    <3>2. job[w].owed \in durable
      BY <1>2, <3>1 DEF SubmitInv, CommittedInOrder
    <3> QED
      BY <1>1, <1>4, <3>2 DEF SubmitInv, AckedDurable
  <2> QED
    BY <2>1, <2>2
<1>5. acked' \subseteq Nat
  BY <1>1, <1>2 DEF SubmitInv, TypeOK
<1> QED
  BY <1>1, <1>4, <1>5, EndedCall

LEMMA ReadDoneStep ==
    ASSUME SubmitInv, NEW w \in Workers, ReadDone(w)
    PROVE  SubmitInv'
<1> USE DEF hubVars, callVars, storeVars
<1>1. /\ pc[w] = "return" /\ local' = [local EXCEPT ![w] = done[job[w].obj]]
      /\ pc' = [pc EXCEPT ![w] = "wait"]
      /\ UNCHANGED <<hubVars, callVars, job, batch, submitLock, queueLock,
                     storeVars, acked>>
  BY DEF ReadDone
<1>2. job[w] \in Jobs /\ job[w].obj \in Objects /\ done[job[w].obj] \in Nat
  BY <1>1 DEF SubmitInv, TypeOK, Jobs
<1>3. TypeOK'
  BY <1>1, <1>2 DEF SubmitInv, TypeOK, Places
<1>4. Locks' /\ called' \subseteq Txns' /\ lost' \subseteq Txns'
  BY <1>1 DEF SubmitInv, TypeOK, Locks, Txns
<1>5. HandedInOrder'
  BY <1>1, LineUnchanged DEF Line, Held
<1>6. NoStranded'
  <2>1. \A v \in Workers :
            /\ pc[v] = "try" => pc'[v] = "try"
            /\ Looking(v) => Looking(v)'
    BY <1>1 DEF SubmitInv, TypeOK, Looking
  <2> QED
    BY <1>1, <2>1 DEF SubmitInv, NoStranded
<1>7. Futures'
  <2>1. /\ Owes(job[w], done[job[w].obj])
        /\ done[job[w].obj] # 0 => /\ done[job[w].obj] \in Txns
                                   /\ of[done[job[w].obj]] = job[w].obj
    BY <1>1, <1>2 DEF SubmitInv, Futures
  <2>2. /\ local'[w] = done[job[w].obj]
        /\ \A v \in Workers : v # w => pc'[v] = pc[v] /\ local'[v] = local[v]
    BY <1>1 DEF SubmitInv, TypeOK
  <2> QED
    BY <1>1, <2>1, <2>2 DEF SubmitInv, Futures, Owes, Txns
<1>8. CommittedInOrder' /\ AckedDurable'
  BY <1>1 DEF SubmitInv, CommittedInOrder, AckedDurable, Txns
<1> QED
  BY <1>3, <1>4, <1>5, <1>6, <1>7, <1>8 DEF SubmitInv

-----------------------------------------------------------------------------
(* BlueStore's step.                                                       *)

LEMMA CommitStep ==
    ASSUME SubmitInv, NEW t \in Txns, Commit(t)
    PROVE  SubmitInv'
<1> USE DEF hubVars, callVars, threadVars
<1>1. /\ t \in Elements(handed)
      /\ \A u \in Elements(handed) : u < t /\ of[u] = of[t] => u \in durable
      /\ durable' = durable \cup {t}
      /\ UNCHANGED <<hubVars, callVars, threadVars, handed, lost, acked>>
  BY DEF Commit
<1>2. TypeOK' /\ called' \subseteq Txns' /\ lost' \subseteq Txns'
  <2>1. t \in Nat
    BY <1>1, ElementsAreNaturals DEF SubmitInv, TypeOK
  <2> QED
    BY <1>1, <2>1 DEF SubmitInv, TypeOK, Txns
<1>3. Locks' /\ NoStranded' /\ Futures' /\ AckedDurable'
  BY <1>1 DEF SubmitInv, Locks, NoStranded, Looking, Futures, Owes, Txns,
              AckedDurable
<1>4. HandedInOrder'
  BY <1>1, LineUnchanged DEF Line, Held
<1>5. CommittedInOrder'
  <2>1. /\ handed \in Seq(Nat) /\ Held \o queue \in Seq(Nat)
        /\ Line = handed \o (Held \o queue)
    <3>1. handed \in Seq(Nat) /\ Held \in Seq(Nat) /\ queue \in Seq(Nat)
      BY LineFacts DEF SubmitInv, TypeOK
    <3>2. (handed \o Held) \o queue = handed \o (Held \o queue)
      BY <3>1, ConcatAssociative
    <3> QED
      BY <3>1, <3>2, ConcatProperties DEF Line
  <2>2. ASSUME NEW u \in Txns \ lost, u < t, of[u] = of[t]
        PROVE  u \in durable
    <3>1. u \in Elements(handed \o (Held \o queue))
          /\ Increasing(handed \o (Held \o queue))
      BY <2>1, <2>2 DEF SubmitInv, HandedInOrder
    <3>2. u \in Elements(handed)
      BY <1>1, <2>1, <2>2, <3>1, SmallerIsEarlier
    <3> QED
      BY <1>1, <2>2, <3>2
  <2> QED
    BY <1>1, <2>2 DEF SubmitInv, CommittedInOrder, Txns
<1> QED
  BY <1>2, <1>3, <1>4, <1>5 DEF SubmitInv

-----------------------------------------------------------------------------
LEMMA StutterStep ==
    ASSUME SubmitInv, UNCHANGED vars
    PROVE  SubmitInv'
<1> USE DEF vars, hubVars, callVars, threadVars, storeVars
<1>1. HandedInOrder'
  BY LineUnchanged DEF Line, Held
<1>2. TypeOK' /\ called' \subseteq Txns' /\ lost' \subseteq Txns' /\ Locks'
  BY DEF SubmitInv, TypeOK, Txns, Locks
<1>3. NoStranded' /\ Futures' /\ CommittedInOrder' /\ AckedDurable'
  BY DEF SubmitInv, NoStranded, Looking, Futures, Owes, Txns, CommittedInOrder,
         AckedDurable
<1> QED
  BY <1>1, <1>2, <1>3 DEF SubmitInv

LEMMA StepInv == SubmitInv /\ [Next]_vars => SubmitInv'
<1> SUFFICES ASSUME SubmitInv, [Next]_vars PROVE SubmitInv'
  OBVIOUS
<1>1. ASSUME NEW r \in Requests, NEW o \in Objects, Write(r, o)
      PROVE  SubmitInv'
  <2>1. "submit" \in Kinds /\ holder' \in [Objects -> Requests \cup {"shared", "gone"}]
    BY <1>1 DEF Write, Kinds, SubmitInv, TypeOK
  <2> QED
    BY <1>1, <2>1, PrepareAndCall DEF Write
<1>2. ASSUME NEW r \in Requests, NEW o \in Objects, Change(r, o)
      PROVE  SubmitInv'
  <2>1. "sync" \in Kinds /\ holder' \in [Objects -> Requests \cup {"shared", "gone"}]
    BY <1>2 DEF Change, Kinds, SubmitInv, TypeOK
  <2> QED
    BY <1>2, <2>1, PrepareAndCall DEF Change
<1>3. ASSUME NEW w \in Workers, Work(w)
      PROVE  SubmitInv'
  BY <1>3, TakeStep, TryLockStep, LockQueueStep, SwapStep, FoundEmptyStep,
     ReleasedStep, HandStep, HandFailsStep, SubmitReturnsStep, ReadDoneStep,
     SyncReturnsStep DEF Work
<1>4. CASE UNCHANGED vars
  BY <1>4, StutterStep
<1> QED
  BY <1>1, <1>2, <1>3, <1>4, LookStep, DiscardStep, CommitStep DEF Next

(* The invariant holds in every state of every behaviour.                  *)
THEOREM SubmitInvariant == Spec => []SubmitInv
BY InitInv, StepInv, PTL DEF Spec

(* The state keeps its types: queues hold transaction numbers, a worker is *)
(* somewhere in submit() or sync(), and has a call unless it is idle.      *)
THEOREM TypeCorrect == Spec => []TypeOK
<1>1. SubmitInv => TypeOK
  BY DEF SubmitInv
<1> QED
  BY <1>1, SubmitInvariant, PTL

(* For any pool and any requests, transactions reach BlueStore once and in *)
(* the order their decisions were made (internal.cpp:176-217).             *)
THEOREM OrderKept == Spec => []HandedInOrder
<1>1. SubmitInv => HandedInOrder
  BY DEF SubmitInv
<1> QED
  BY <1>1, SubmitInvariant, PTL

(* For any pool and any requests, the worker that returns because another  *)
(* is submitting leaves nothing behind (internal.cpp:195-205).             *)
THEOREM NothingStranded == Spec => []NoStranded
<1>1. SubmitInv => NoStranded
  BY DEF SubmitInv
<1> QED
  BY <1>1, SubmitInvariant, PTL

(* For any pool and any requests, what a returned sync() was called for is *)
(* durable (object.cpp:156-167).                                           *)
THEOREM SyncMeansDurable == Spec => []AckedDurable
<1>1. SubmitInv => AckedDurable
  BY DEF SubmitInv
<1> QED
  BY <1>1, SubmitInvariant, PTL
=============================================================================
