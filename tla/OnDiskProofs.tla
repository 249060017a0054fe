---------------------------- MODULE OnDiskProofs ----------------------------
(***************************************************************************)
(* OnDisk keeps what was written, opens one state and leaves nothing       *)
(* obsolete, for any number of writers, readers, timestamps and writes:    *)
(* what the rules of get_ondisk_files give, then the inductive invariants, *)
(* action by action.                                                       *)
(***************************************************************************)
EXTENDS OnDisk, TLAPS, FiniteSetTheorems

\* A .data or a .ts outdates everything older, a .meta of its own time, and a
\* .ts a .data of its own time too.
Outdates(b, f) ==
  \/ b.ext \in {"data", "ts"} /\ f.ts < b.ts
  \/ b.ext \in {"data", "ts"} /\ f.ts = b.ts /\ f.ext = "meta"
  \/ b.ext = "ts" /\ f.ts = b.ts /\ f.ext = "data"

Marked(f, fs) == \E b \in fs : Outdates(b, f)

\* The two orders of .meta files.
Later(g, f) == f.ts < g.ts \/ (f.ts = g.ts /\ f.ctype < g.ctype)
LaterType(g, f) == f.ctype < g.ctype \/ (f.ctype = g.ctype /\ f.ts < g.ts)

\* A file that can be done without once these were written.  What makes it
\* so is never unmade, however the files that do are removed in turn.
Superfluous(f, fs) ==
  \/ Marked(f, fs)
  \/ /\ f.ext = "meta"
     /\ \E g \in Kind(fs, "meta") : Later(g, f)
     /\ \E g \in Kind(fs, "meta") : LaterType(g, f)

\* One of the two whose order in the listing decides which one is retained.
Clashing(f, fs) ==
  /\ f.ext = "meta"
  /\ \E g, c \in Kind(fs, "meta") :
       /\ f # g /\ f.ts = g.ts /\ c.ts < f.ts
       /\ c.ctype > f.ctype /\ c.ctype > g.ctype

Found(fs) == \E d \in Kind(fs, "data") : ~Marked(d, fs)

-----------------------------------------------------------------------------
(* Largest and the two orders of files.                                    *)

\* A set of natural numbers has a least element: initial segments are finite
\* sets, and strict inclusion of finite sets is well-founded.
LEMMA LeastExists ==
  ASSUME NEW S, S \subseteq Nat, S # {}
  PROVE  \E x \in S : \A y \in S : x <= y
<1> DEFINE Segments == {0 .. x : x \in S}
           R == StrictSubsetOrdering(Nat)
<1>1. Segments \subseteq FiniteSubsetsOf(Nat) /\ Segments # {}
  <2>1. \A x \in S : IsFiniteSet(0 .. x)
    BY FS_Interval
  <2>2. \A x \in S : 0 .. x \in SUBSET Nat
    OBVIOUS
  <2>3. \A x \in S : 0 .. x \in FiniteSubsetsOf(Nat)
    BY <2>1, <2>2 DEF FiniteSubsetsOf
  <2> QED BY <2>3
<1>2. IsWellFoundedOn(R, FiniteSubsetsOf(Nat))
  BY FS_StrictSubsetOrderingWellFounded
<1> HIDE DEF R
<1>3. PICK s \in Segments : \A t \in Segments : ~(<<t, s>> \in R)
  <2> HIDE DEF Segments
  <2> QED BY <1>1, <1>2, WFMin
<1>4. PICK x \in S : s = 0 .. x
  OBVIOUS
<1>5. ASSUME NEW y \in S, y < x
      PROVE  FALSE
  <2>1. /\ 0 .. y \in Segments
        /\ 0 .. y \in SUBSET Nat /\ 0 .. x \in SUBSET Nat
        /\ 0 .. y \subseteq 0 .. x
        /\ x \in 0 .. x /\ x \notin 0 .. y
    BY <1>5
  <2>2. <<0 .. y, 0 .. x>> \in R
    BY <2>1 DEF R, StrictSubsetOrdering
  <2> QED BY <2>1, <2>2, <1>3, <1>4
<1> QED BY <1>5

LEMMA GreatestExists ==
  ASSUME NEW n \in Nat, NEW S, S \subseteq 0 .. n, S # {}
  PROVE  \E x \in S : \A y \in S : y <= x
<1> DEFINE Gaps == {n - y : y \in S}
<1>1. Gaps \subseteq Nat /\ Gaps # {}
  <2>1. \A y \in S : n - y \in Nat
    OBVIOUS
  <2> QED BY <2>1
<1>2. PICK g \in Gaps : \A h \in Gaps : g <= h
  <2> HIDE DEF Gaps
  <2> QED BY <1>1, LeastExists
<1>3. PICK x \in S : g = n - x
  OBVIOUS
<1>4. \A y \in S : n - y \in Gaps /\ y \in 0 .. n
  OBVIOUS
<1>5. \A y \in S : y <= x
  <2> HIDE DEF Gaps
  <2> QED BY <1>2, <1>3, <1>4
<1> QED BY <1>5

LEMMA LargestIs ==
  ASSUME NEW n \in Nat, NEW S, S \subseteq 0 .. n, S # {}
  PROVE  Largest(S) \in S /\ \A y \in S : y <= Largest(S)
BY GreatestExists DEF Largest

LEMMA LargestIsIt ==
  ASSUME NEW n \in Nat, NEW S, S \subseteq 0 .. n,
         NEW x \in S, \A y \in S : y <= x
  PROVE  Largest(S) = x
<1>1. Largest(S) \in S /\ \A y \in S : y <= Largest(S)
  BY LargestIs
<1> DEFINE m == Largest(S)
<1>2. m \in S /\ x <= m /\ m <= x
  BY <1>1
<1>3. x \in 0 .. n /\ m \in 0 .. n
  BY <1>2
<1> HIDE DEF m
<1>4. x = m
  BY <1>2, <1>3
<1> QED BY <1>4 DEF m

LEMMA FileType ==
  ASSUME NEW f \in File
  PROVE  /\ f.ext \in {"data", "ts", "meta"}
         /\ f.ts \in Nat /\ 1 <= f.ts /\ f.ts <= MaxTime
         /\ f.ctype \in Nat /\ f.ctype <= f.ts
         /\ f.ext # "meta" => f.ctype = 0
         /\ f = [ext |-> f.ext, ts |-> f.ts, ctype |-> f.ctype]
<1>1. CASE f \in [ext : {"data", "ts"}, ts : Time, ctype : {0}]
  BY <1>1, OnDiskAssumption DEF Time
<1>2. CASE f \in [ext : {"meta"}, ts : Time, ctype : 0..MaxTime] /\ f.ctype <= f.ts
  BY <1>2, OnDiskAssumption DEF Time
<1> QED BY <1>1, <1>2 DEF File

LEMMA SameFile ==
  ASSUME NEW f \in File, NEW g \in File,
         f.ext = g.ext, f.ts = g.ts, f.ctype = g.ctype
  PROVE  f = g
BY FileType

\* Of the files that are there one is the newest of either order.
LEMMA LatestExists ==
  ASSUME NEW fs, fs \subseteq File, fs # {}
  PROVE  \E f \in fs : f \in Latest(fs)
<1> DEFINE T == {f.ts : f \in fs}
<1>1. T \subseteq 0 .. MaxTime /\ T # {} /\ MaxTime \in Nat
  BY FileType, OnDiskAssumption
<1>2. PICK t \in T : \A u \in T : u <= t
  <2> HIDE DEF T
  <2> QED BY <1>1, GreatestExists
<1>3. PICK f \in fs : f.ts = t
  OBVIOUS
<1> QED BY <1>2, <1>3 DEF Latest

LEMMA NewestTypeExists ==
  ASSUME NEW fs, fs \subseteq File, fs # {}
  PROVE  \E f \in fs : f \in NewestType(fs)
<1> DEFINE T == {f.ctype : f \in fs}
<1>0. \A f \in fs : f.ts \in 0 .. MaxTime /\ f.ctype \in 0 .. MaxTime
  BY FileType, OnDiskAssumption
<1>1. T \subseteq 0 .. MaxTime /\ T # {} /\ MaxTime \in Nat
  BY <1>0, OnDiskAssumption
<1>2. PICK t \in T : \A u \in T : u <= t
  <2> HIDE DEF T
  <2> QED BY <1>1, GreatestExists
<1> DEFINE G == {f \in fs : f.ctype = t}
           C == {f.ts : f \in G}
<1>3. C \subseteq 0 .. MaxTime /\ C # {}
  BY <1>0
<1>4. PICK c \in C : \A d \in C : d <= c
  <2> HIDE DEF C
  <2> QED BY <1>1, <1>3, GreatestExists
<1>5. PICK f \in G : f.ts = c
  OBVIOUS
<1>6. \A g \in fs : \/ g.ctype < f.ctype
                    \/ g.ctype = f.ctype /\ g.ts <= f.ts
  <2> SUFFICES ASSUME NEW g \in fs, ~(g.ctype < f.ctype)
               PROVE  g.ctype = f.ctype /\ g.ts <= f.ts
    OBVIOUS
  <2>1. g.ctype = f.ctype
    BY <1>0, <1>2, <1>5
  <2>2. g.ts \in C
    BY <2>1, <1>5
  <2> QED BY <2>1, <2>2, <1>4, <1>5
<1> QED BY <1>5, <1>6 DEF NewestType

-----------------------------------------------------------------------------
(* What get_ondisk_files finds.                                            *)

\* What is not discarded for every policy, and what is not obsolete.
Counting(lead, fs) == fs \ SupersededAfter(lead, fs)
Obsolete(lead, fs) == get_ondisk_files(lead, fs).obsolete
Valid(lead, fs) == fs \ Obsolete(lead, fs)

LEMMA Info ==
  ASSUME NEW fs, NEW lead
  PROVE  LET info == get_ondisk_files(lead, fs)
             byData == Outdated(Counting(lead, fs), info.data)
             metas == Kind(Counting(lead, fs), "meta") \ byData
         IN /\ info.data = Latest(Kind(Counting(lead, fs), "data"))
            /\ info.obsolete = SupersededAfter(lead, fs) \cup byData
            /\ info.meta = IF info.data = {} THEN {} ELSE Latest(metas)
            /\ info.ctype = {m \in NewestType(metas) : \E d \in info.data : m.ctype > d.ts}
            /\ info.ts = IF info.data = {} THEN Kind(Counting(lead, fs), "ts") ELSE {}
            /\ info.possible_reclaim = IF info.data = {} THEN metas ELSE {}
BY DEF get_ondisk_files, Counting

LEMMA SupersededIs ==
  ASSUME NEW fs, NEW lead
  PROVE  SupersededAfter(lead, fs) = (fs \ Undeleted(fs))
            \cup (Kind(Undeleted(fs), "meta") \ RetainedMeta(lead, Kind(Undeleted(fs), "meta")))
BY DEF SupersededAfter

LEMMA OutdatesChain ==
  ASSUME NEW f \in File, NEW b \in File, NEW c \in File,
         Outdates(b, f), Outdates(c, b)
  PROVE  Outdates(c, f)
<1>1. f.ts \in Nat /\ b.ts \in Nat /\ c.ts \in Nat
  BY FileType
<1> QED BY <1>1 DEF Outdates

\* The newest .data or .ts, of the two of one time the .ts, outdates whatever
\* any of them does.
LEMMA TopMark ==
  ASSUME NEW fs, fs \subseteq File, NEW mark \in fs, mark.ext # "meta"
  PROVE  \E t \in fs : /\ t.ext \in {"data", "ts"}
                       /\ ~Marked(t, fs)
                       /\ \A b \in fs : b.ext # "meta" => b.ts <= t.ts
                       /\ \A f \in File : Marked(f, fs) => Outdates(t, f)
<1> DEFINE M == {f \in fs : f.ext # "meta"}
           T == {f.ts : f \in M}
<1>0. \A f \in File : f.ts \in 0 .. MaxTime /\ f.ts \in Nat
                        /\ f.ext \in {"data", "ts", "meta"}
  BY FileType, OnDiskAssumption
<1>1. T \subseteq 0 .. MaxTime /\ T # {} /\ MaxTime \in Nat
  BY <1>0, OnDiskAssumption
<1>2. PICK at \in T : \A u \in T : u <= at
  <2> HIDE DEF T
  <2> QED BY <1>1, GreatestExists
<1>3. PICK t \in M : /\ t.ts = at
                     /\ t.ext = "data" => \A f \in M : f.ts = at => f.ext = "data"
  <2>1. PICK u \in M : u.ts = at
    OBVIOUS
  <2>2. CASE \E f \in M : f.ts = at /\ f.ext # "data"
    BY <2>2
  <2>3. CASE \A f \in M : f.ts = at => f.ext = "data"
    BY <2>1, <2>3
  <2> QED BY <2>2, <2>3
<1>4. \A b \in fs : b.ext # "meta" => b.ts <= t.ts
  BY <1>2, <1>3
<1>5. t.ext \in {"data", "ts"} /\ t \in fs
  BY <1>0
<1>6. ~Marked(t, fs)
  <2> SUFFICES ASSUME NEW b \in fs, Outdates(b, t)
               PROVE  FALSE
    BY DEF Marked
  <2>1. b.ts \in Nat /\ t.ts \in Nat /\ b \in M
    BY <1>0 DEF Outdates
  <2>2. b.ts <= t.ts
    BY <1>4, <2>1
  <2>3. b.ext = "ts" /\ b.ts = t.ts /\ t.ext = "data"
    BY <2>1, <2>2, <1>5 DEF Outdates
  <2> QED BY <2>1, <2>3, <1>3
<1>7. ASSUME NEW f \in File, NEW b \in fs, Outdates(b, f)
      PROVE  Outdates(t, f)
  <2>1. b.ts \in Nat /\ t.ts \in Nat /\ f.ts \in Nat /\ b \in M
    BY <1>0, <1>7 DEF Outdates
  <2>2. b.ts <= t.ts
    BY <1>4, <2>1
  <2>3. CASE b.ts < t.ts
    BY <2>1, <2>3, <1>5, <1>7 DEF Outdates
  <2>4. CASE b.ts = t.ts
    <3>1. b.ext = "ts" => t.ext = "ts"
      BY <2>1, <2>4, <1>3, <1>5
    <3> QED BY <2>1, <2>4, <3>1, <1>5, <1>7 DEF Outdates
  <2> QED BY <2>1, <2>2, <2>3, <2>4
<1> QED BY <1>4, <1>5, <1>6, <1>7 DEF Marked

LEMMA UndeletedIs ==
  ASSUME NEW fs, fs \subseteq File, NEW f \in fs
  PROVE  f \in Undeleted(fs) <=> \A b \in Kind(fs, "ts") : ~Outdates(b, f)
<1>0. /\ \A g \in File : g.ts \in Nat /\ g.ctype \in Nat
                           /\ g.ext \in {"data", "ts", "meta"}
      /\ \A g \in File : g.ext = "ts" => g.ctype = 0
  BY FileType
<1>1. ASSUME NEW b \in Kind(fs, "ts"), Outdates(b, f)
      PROVE  f \notin Undeleted(fs)
  <2>1. PICK n \in Kind(fs, "ts") : n \in Latest(Kind(fs, "ts"))
    BY <1>1, LatestExists DEF Kind
  <2>2. n \in fs /\ n.ext = "ts" /\ b \in fs /\ b.ext = "ts"
    BY DEF Kind
  <2>3. b.ts <= n.ts
    BY <2>1, <2>2, <1>0 DEF Latest
  <2>4. f.ts < n.ts \/ (f.ts = n.ts /\ f.ext # n.ext)
    BY <2>2, <2>3, <1>0, <1>1 DEF Outdates
  <2> QED BY <2>1, <2>4 DEF Undeleted, Outdated
<1>2. ASSUME f \notin Undeleted(fs)
      PROVE  \E b \in Kind(fs, "ts") : Outdates(b, f)
  <2>1. PICK b \in Latest(Kind(fs, "ts")) :
          f.ts < b.ts \/ (f.ts = b.ts /\ f.ext # b.ext)
    BY <1>2 DEF Undeleted, Outdated
  <2>2. b \in Kind(fs, "ts") /\ b \in fs /\ b.ext = "ts"
    BY DEF Kind, Latest
  <2>3. Outdates(b, f)
    BY <2>1, <2>2, <1>0 DEF Outdates
  <2> QED BY <2>2, <2>3
<1> QED BY <1>1, <1>2

\* What any of the files outdates is obsolete.
LEMMA MarkedIsObsolete ==
  ASSUME NEW fs, fs \subseteq File, NEW lead, NEW f \in fs, Marked(f, fs)
  PROVE  f \in Obsolete(lead, fs)
<1>0. /\ \A g \in File : g.ts \in Nat /\ g.ctype \in Nat
                           /\ g.ext \in {"data", "ts", "meta"}
      /\ \A g \in File : g.ext = "data" => g.ctype = 0
  BY FileType
<1> DEFINE data == Kind(Counting(lead, fs), "data")
<1>1. Obsolete(lead, fs) = SupersededAfter(lead, fs) \cup Outdated(Counting(lead, fs), Latest(data))
  BY Info DEF Obsolete
<1>2. SUFFICES ASSUME f \in Counting(lead, fs)
               PROVE  f \in Outdated(Counting(lead, fs), Latest(data))
  BY <1>1 DEF Counting
<1>3. f \in Undeleted(fs)
  BY <1>2, SupersededIs DEF Counting
<1>4. PICK b \in fs : Outdates(b, f)
  BY DEF Marked
<1>5. b.ext = "data" /\ b \in data
  <2>1. b.ext = "data"
    BY <1>3, <1>4, UndeletedIs, <1>0 DEF Kind, Outdates
  <2>2. ASSUME NEW c \in Kind(fs, "ts"), Outdates(c, b)
        PROVE  FALSE
    <3>1. c \in fs
      BY DEF Kind
    <3>2. Outdates(c, f)
      BY <3>1, <1>4, <2>2, OutdatesChain
    <3> QED BY <3>2, <1>3, UndeletedIs
  <2>3. b \in Undeleted(fs)
    BY <2>2, UndeletedIs
  <2>4. b \in Counting(lead, fs)
    BY <2>1, <2>3, SupersededIs DEF Counting, Kind
  <2> QED BY <2>1, <2>4 DEF Kind
<1>6. PICK n \in data : n \in Latest(data)
  <2>1. data \subseteq File
    BY DEF Kind, Counting
  <2> HIDE DEF data
  <2> QED BY <1>5, <2>1, LatestExists
<1>7. n \in fs /\ n.ext = "data" /\ b.ts <= n.ts
  <2>1. n \in fs /\ n.ext = "data"
    BY DEF Kind, Counting
  <2> QED BY <2>1, <1>0, <1>5, <1>6 DEF Latest
<1>8. f.ts < n.ts \/ (f.ts = n.ts /\ f.ext # n.ext)
  BY <1>0, <1>4, <1>5, <1>7 DEF Outdates
<1> QED BY <1>2, <1>6, <1>8 DEF Outdated

\* Sorted by content type and by timestamp one comes first.
LEMMA NewestTypeIsOne ==
  ASSUME NEW fs, fs \subseteq File, \A f \in fs : f.ext = "meta",
         NEW f \in NewestType(fs), NEW g \in NewestType(fs)
  PROVE  f = g
<1>1. f \in fs /\ g \in fs /\ f \in File /\ g \in File
  BY DEF NewestType
<1>2. f.ts \in Nat /\ f.ctype \in Nat /\ g.ts \in Nat /\ g.ctype \in Nat
  BY <1>1, FileType
<1>3. f.ts = g.ts /\ f.ctype = g.ctype
  BY <1>1, <1>2 DEF NewestType
<1> QED BY <1>1, <1>3, SameFile

LEMMA LeadIs ==
  ASSUME NEW fs, NEW lead \in Leads(fs)
  PROVE  LET metas == Kind(Undeleted(fs), "meta")
         IN \/ Latest(metas) = {} /\ lead = {}
            \/ \E l \in Latest(metas) : lead = {l}
BY DEF Leads

\* A .meta that is not retained is behind another one in either order, or
\* clashes.
LEMMA NotRetained ==
  ASSUME NEW ms, ms \subseteq File, \A m \in ms : m.ext = "meta",
         NEW l \in Latest(ms), NEW f \in ms, f \notin RetainedMeta({l}, ms)
  PROVE  \/ /\ \E g \in ms : Later(g, f)
            /\ \E g \in ms : LaterType(g, f)
         \/ Clashing(f, ms)
<1> DEFINE rest == ms \ {l}
<1>0. \A g \in File : g.ts \in Nat /\ g.ctype \in Nat
  BY FileType
<1>1. l \in ms /\ \A g \in ms : g.ts <= l.ts
  BY DEF Latest
<1>2. /\ ~(f \in NewestType(rest) /\ f.ctype > l.ctype)
      /\ f = l => \E s \in NewestType(rest) : s.ctype > l.ctype /\ s.ts = l.ts
  BY DEF RetainedMeta
<1>3. CASE f = l
  <2>1. PICK s \in NewestType(rest) : s.ctype > l.ctype /\ s.ts = l.ts
    BY <1>2, <1>3
  <2>2. s \in ms
    BY DEF NewestType
  <2> QED BY <2>1, <2>2, <1>3 DEF Later, LaterType
<1>4. CASE f # l
  <2>1. PICK s \in rest : s \in NewestType(rest)
    BY <1>4, NewestTypeExists
  <2>2. f.ctype < s.ctype \/ (f.ctype = s.ctype /\ f.ts <= s.ts)
    BY <1>4, <2>1 DEF NewestType
  <2>3. \E g \in ms : LaterType(g, f)
    <3>1. CASE f = s
      <4>1. f.ctype <= l.ctype
        BY <1>0, <1>1, <1>2, <2>1, <3>1
      <4>2. f.ts # l.ts \/ f.ctype # l.ctype
        BY <1>1, <1>4, SameFile
      <4>3. LaterType(l, f)
        BY <1>0, <1>1, <4>1, <4>2 DEF LaterType
      <4> QED BY <1>1, <4>3
    <3>2. CASE f # s
      <4>1. f.ts # s.ts \/ f.ctype # s.ctype
        BY <2>1, <3>2, SameFile
      <4>2. LaterType(s, f)
        BY <1>0, <2>1, <2>2, <4>1 DEF LaterType
      <4> QED BY <2>1, <4>2
    <3> QED BY <3>1, <3>2
  <2>4. CASE f.ts < l.ts \/ f.ctype <= l.ctype
    <3>1. f.ts # l.ts \/ f.ctype # l.ctype
      BY <1>1, <1>4, SameFile
    <3>2. Later(l, f)
      BY <1>0, <1>1, <2>4, <3>1 DEF Later
    <3> QED BY <1>1, <2>3, <3>2
  <2>5. CASE ~(f.ts < l.ts \/ f.ctype <= l.ctype)
    <3>1. f.ts = l.ts /\ f.ctype > l.ctype
      BY <1>0, <1>1, <2>5
    <3>2. f # s
      BY <1>2, <2>1, <3>1
    <3>3. s \in ms /\ s.ts <= f.ts /\ s.ctype > f.ctype
      <4>1. s \in ms /\ s.ts <= f.ts
        BY <1>1, <2>1, <3>1
      <4>2. f.ts # s.ts \/ f.ctype # s.ctype
        BY <2>1, <3>2, SameFile
      <4> QED BY <1>0, <2>2, <4>1, <4>2
    <3>4. CASE s.ts = f.ts
      BY <1>0, <2>3, <3>3, <3>4 DEF Later
    <3>5. CASE s.ts < f.ts
      <4>1. s.ctype > l.ctype
        BY <1>0, <1>1, <3>1, <3>3
      <4>2. f \in Kind(ms, "meta") /\ l \in Kind(ms, "meta") /\ s \in Kind(ms, "meta")
        BY <1>1, <3>3 DEF Kind
      <4> QED BY <1>4, <3>1, <3>3, <3>5, <4>1, <4>2 DEF Clashing, Kind
    <3> QED BY <1>0, <3>3, <3>4, <3>5
  <2> QED BY <2>4, <2>5
<1> QED BY <1>3, <1>4

LEMMA ObsoleteIsSuperfluous ==
  ASSUME NEW fs, fs \subseteq File, NEW lead \in Leads(fs),
         NEW f \in Obsolete(lead, fs)
  PROVE  f \in fs /\ (Superfluous(f, fs) \/ Clashing(f, fs))
<1>0. \A g \in File : /\ g.ts \in Nat /\ g.ctype \in Nat
                      /\ g.ext \in {"data", "ts", "meta"}
  BY FileType
<1> DEFINE data == Kind(Counting(lead, fs), "data")
           metas == Kind(Undeleted(fs), "meta")
<1>1. Obsolete(lead, fs) = SupersededAfter(lead, fs) \cup Outdated(Counting(lead, fs), Latest(data))
  BY Info DEF Obsolete
<1>2. CASE f \in fs \ Undeleted(fs)
  <2>1. PICK b \in Kind(fs, "ts") : Outdates(b, f)
    BY <1>2, UndeletedIs
  <2> QED BY <1>2, <2>1 DEF Superfluous, Marked, Kind
<1>3. CASE f \in metas \ RetainedMeta(lead, metas)
  <2>1. metas \subseteq fs /\ \A m \in metas : m.ext = "meta" /\ m \in Kind(fs, "meta")
    BY DEF Kind, Undeleted
  <2>2. PICK l \in Latest(metas) : lead = {l}
    <3>1. \E l \in metas : l \in Latest(metas)
      <4>1. metas \subseteq File /\ metas # {}
        BY <1>3, <2>1
      <4> HIDE DEF metas
      <4> QED BY <4>1, LatestExists
    <3> QED BY <3>1, LeadIs
  <2>3. \/ (\E g \in metas : Later(g, f)) /\ \E g \in metas : LaterType(g, f)
        \/ Clashing(f, metas)
    <3>1. metas \subseteq File /\ f \in metas /\ f \notin RetainedMeta({l}, metas)
      BY <1>3, <2>1, <2>2
    <3> HIDE DEF metas
    <3> QED BY <2>1, <2>2, <3>1, NotRetained
  <2>4. Clashing(f, metas) => Clashing(f, fs)
    BY <2>1 DEF Clashing, Kind
  <2> QED BY <1>3, <2>1, <2>3, <2>4 DEF Superfluous
<1>4. CASE f \in Outdated(Counting(lead, fs), Latest(data))
  <2>1. PICK d \in Latest(data) : f.ts < d.ts \/ (f.ts = d.ts /\ f.ext # d.ext)
    BY <1>4 DEF Outdated
  <2>2. f \in fs /\ d \in fs /\ d.ext = "data" /\ d \in Undeleted(fs)
    BY <1>4, SupersededIs DEF Outdated, Latest, Kind, Counting, Undeleted
  <2>3. ~(f.ext = "ts" /\ f.ts = d.ts)
    <3> SUFFICES ASSUME f.ext = "ts", f.ts = d.ts
                 PROVE  FALSE
      OBVIOUS
    <3>1. f \in Kind(fs, "ts") /\ Outdates(f, d)
      BY <2>2 DEF Kind, Outdates
    <3> QED BY <2>2, <3>1, UndeletedIs
  <2>4. Outdates(d, f)
    BY <2>1, <2>2, <2>3, <1>0 DEF Outdates
  <2> QED BY <2>2, <2>4 DEF Superfluous, Marked
<1> QED BY <1>1, <1>2, <1>3, <1>4, SupersededIs

LEMMA SuperfluousStays ==
  ASSUME NEW fs, NEW more, fs \subseteq more, NEW f
  PROVE  /\ Superfluous(f, fs) => Superfluous(f, more)
         /\ Clashing(f, fs) => Clashing(f, more)
<1>1. Kind(fs, "meta") \subseteq Kind(more, "meta")
  BY DEF Kind
<1>2. Superfluous(f, fs) => Superfluous(f, more)
  BY <1>1 DEF Superfluous, Marked
<1>3. Clashing(f, fs) => Clashing(f, more)
  BY <1>1 DEF Clashing
<1> QED BY <1>2, <1>3

LEMMA ValidIs ==
  ASSUME NEW fs, NEW lead
  PROVE  /\ Valid(lead, fs) \subseteq Counting(lead, fs)
         /\ Counting(lead, fs) \subseteq Undeleted(fs)
         /\ Counting(lead, fs) \subseteq fs
         /\ Kind(Counting(lead, fs), "meta")
              \ Outdated(Counting(lead, fs), get_ondisk_files(lead, fs).data) = Kind(Valid(lead, fs), "meta")
         /\ Kind(Valid(lead, fs), "data") \subseteq Kind(Counting(lead, fs), "data")
<1> DEFINE data == get_ondisk_files(lead, fs).data
           byData == Outdated(Counting(lead, fs), data)
<1>1. Obsolete(lead, fs) = SupersededAfter(lead, fs) \cup byData
  BY Info DEF Obsolete
<1>2. byData \subseteq Counting(lead, fs) /\ data = Latest(Kind(Counting(lead, fs), "data"))
  BY Info DEF Outdated
<1>3. Valid(lead, fs) = Counting(lead, fs) \ byData
  BY <1>1 DEF Valid, Counting
<1>4. Counting(lead, fs) \subseteq Undeleted(fs) /\ Counting(lead, fs) \subseteq fs
  BY SupersededIs DEF Counting, Undeleted
<1>5. Kind(Counting(lead, fs), "meta") \ byData = Kind(Valid(lead, fs), "meta")
  BY <1>3 DEF Kind
<1> QED BY <1>3, <1>4, <1>5 DEF Kind

LEMMA MeaningFound ==
  ASSUME NEW fs, fs \subseteq File
  PROVE  /\ Meaning(fs).found \in BOOLEAN
         /\ Meaning(fs).found <=> Found(fs)
         /\ \A d \in Kind(fs, "data") : ~Marked(d, fs) => Meaning(fs).data = d.ts
<1>0. \A g \in File : /\ g.ts \in Nat /\ g.ts \in 0 .. MaxTime /\ 0 < g.ts
                      /\ g.ext \in {"data", "ts", "meta"}
                      /\ (g.ext # "meta" => g.ctype = 0)
                      /\ g = [ext |-> g.ext, ts |-> g.ts, ctype |-> g.ctype]
  BY FileType, OnDiskAssumption
<1> DEFINE marks == Kind(fs, "data") \cup Kind(fs, "ts")
           times == {0} \cup {f.ts : f \in marks}
           at == Largest(times)
           deciding == \E f \in Kind(marks, "data") :
                         f.ts = at /\ [f EXCEPT !.ext = "ts"] \notin fs
<1>1. (Meaning(fs).found <=> deciding) /\ Meaning(fs).found \in BOOLEAN
  BY DEF Meaning
<1>2. at \in times /\ \A t \in times : t <= at
  <2>1. times \subseteq 0 .. MaxTime /\ times # {} /\ MaxTime \in Nat
    BY <1>0, OnDiskAssumption DEF Kind
  <2> HIDE DEF times
  <2> QED BY <2>1, LargestIs
<1>3. \A b \in fs : b.ext # "meta" => b.ts <= at
  BY <1>0, <1>2 DEF Kind
<1> HIDE DEF at
<1>4. ASSUME deciding
      PROVE  Found(fs)
  <2>1. PICK d \in Kind(marks, "data") : d.ts = at /\ [d EXCEPT !.ext = "ts"] \notin fs
    BY <1>4
  <2>2. d \in fs /\ d.ext = "data"
    BY DEF Kind
  <2>3. ASSUME NEW b \in fs, Outdates(b, d)
        PROVE  FALSE
    <3>1. b.ext = "ts" /\ b.ts = d.ts
      BY <1>0, <1>3, <2>1, <2>2, <2>3 DEF Outdates
    <3>2. b = [d EXCEPT !.ext = "ts"]
      BY <1>0, <2>2, <3>1
    <3> QED BY <2>1, <3>2
  <2> QED BY <2>2, <2>3 DEF Found, Kind, Marked
<1>5. ASSUME NEW d \in fs, d.ext = "data", ~Marked(d, fs)
      PROVE  deciding /\ d.ts = at
  <2>1. d.ts = at
    <3>1. d.ts <= at /\ d.ts \in times
      BY <1>3, <1>5 DEF Kind
    <3>2. PICK b \in marks : b.ts = at
      BY <1>0, <1>2, <3>1, <1>5 DEF Kind
    <3>3. b \in fs /\ b.ext \in {"data", "ts"} /\ ~Outdates(b, d)
      BY <1>5 DEF Kind, Marked
    <3> QED BY <1>0, <1>5, <3>1, <3>2, <3>3 DEF Outdates
  <2>2. [d EXCEPT !.ext = "ts"] \notin fs
    <3> DEFINE t == [d EXCEPT !.ext = "ts"]
    <3>1. t.ext = "ts" /\ t.ts = d.ts
      BY <1>0
    <3>2. Outdates(t, d)
      BY <1>5, <3>1 DEF Outdates
    <3> HIDE DEF t
    <3> QED BY <1>5, <3>2 DEF Marked, t
  <2> QED BY <1>5, <2>1, <2>2 DEF Kind
<1>6. Meaning(fs).data = at
  BY DEF Meaning, at
<1>7. (Found(fs) => deciding) /\ \A d \in Kind(fs, "data") : ~Marked(d, fs) => Meaning(fs).data = d.ts
  BY <1>5, <1>6 DEF Found, Kind
<1> QED BY <1>1, <1>4, <1>7

\* The files that are left say what all those ever written say: which data, as
\* long as of the others only .meta and outdated files are gone; and everything,
\* as long as only superfluous ones are gone and no .meta ever clashed.
LEMMA KeptMeaning ==
  ASSUME NEW all, all \subseteq File, NEW fs, fs \subseteq all,
         NEW lead \in Leads(fs),
         \A f \in all \ fs : f.ext # "meta" => Marked(f, all)
  PROVE  LET seen == Opened(get_ondisk_files(lead, fs))
         IN /\ seen.found = Meaning(all).found /\ seen.data = Meaning(all).data
            /\ (\A f \in all \ fs : Superfluous(f, all)) /\ ~Clash(all)
                 => seen = Meaning(all)
<1> DEFINE info == get_ondisk_files(lead, fs)
           marks == Kind(all, "data") \cup Kind(all, "ts")
           times == {0} \cup {f.ts : f \in marks}
           at == Largest(times)
           after == {m \in Kind(all, "meta") : m.ts > at}
           metas == Kind(Valid(lead, fs), "meta")
           whole == (\A f \in all \ fs : Superfluous(f, all)) /\ ~Clash(all)
<1>0. \A g \in File : /\ g.ts \in Nat /\ g.ts \in 0 .. MaxTime /\ 0 < g.ts
                      /\ g.ctype \in Nat /\ g.ctype \in 0 .. MaxTime
                      /\ g.ctype <= g.ts
                      /\ g.ext \in {"data", "ts", "meta"}
  BY FileType, OnDiskAssumption
<1>1. /\ info.data = Latest(Kind(Counting(lead, fs), "data"))
      /\ info.meta = IF info.data = {} THEN {} ELSE Latest(metas)
      /\ info.ctype = {m \in NewestType(metas) : \E d \in info.data : m.ctype > d.ts}
      /\ info.ts = IF info.data = {} THEN Kind(Counting(lead, fs), "ts") ELSE {}
  <2>1. Kind(Counting(lead, fs), "meta") \ Outdated(Counting(lead, fs), info.data) = metas
    BY ValidIs
  <2> HIDE DEF metas
  <2> QED BY <2>1, Info
<1>2. at \in times /\ \A b \in all : b.ext # "meta" => b.ts <= at
  <2>1. times \subseteq 0 .. MaxTime /\ times # {} /\ MaxTime \in Nat
    BY <1>0, OnDiskAssumption DEF Kind
  <2>2. at \in times /\ \A t \in times : t <= at
    <3> HIDE DEF times
    <3> QED BY <2>1, LargestIs
  <2> QED BY <2>2, <1>0 DEF Kind
<1>3. ASSUME NEW f \in all, ~Superfluous(f, all), f.ext = "meta" => whole
      PROVE  f \in fs /\ f \in Valid(lead, fs)
  <2>1. f \in fs
    BY <1>3 DEF Superfluous
  <2>2. ~Superfluous(f, fs)
    BY <1>3, SuperfluousStays
  <2>3. ~Clashing(f, fs)
    <3> SUFFICES ASSUME Clashing(f, fs)
                 PROVE  FALSE
      OBVIOUS
    <3>1. Clashing(f, all) /\ f.ext = "meta"
      BY SuperfluousStays DEF Clashing
    <3>2. f \in Kind(all, "meta")
      BY <3>1 DEF Kind
    <3>3. PICK g \in Kind(all, "meta"), c \in Kind(all, "meta") :
            /\ f # g /\ f.ts = g.ts /\ c.ts < f.ts
            /\ c.ctype > f.ctype /\ c.ctype > g.ctype
      BY <3>1 DEF Clashing
    <3>4. Clash(all)
      BY <3>2, <3>3 DEF Clash
    <3> QED BY <1>3, <3>1, <3>4
  <2>4. f \notin Obsolete(lead, fs)
    <3>1. fs \subseteq File
      OBVIOUS
    <3> QED BY <3>1, <2>2, <2>3, ObsoleteIsSuperfluous
  <2> QED BY <2>1, <2>4 DEF Valid
<1>4. \A t \in all : t.ext # "meta" /\ ~Marked(t, all) => t \in fs /\ t \in Valid(lead, fs)
  BY <1>3 DEF Superfluous
<1>5. Meaning(all) =
        IF Found(all)
        THEN [found |-> TRUE, data |-> at,
              meta |-> Largest({0} \cup {m.ts : m \in after}),
              ctype |-> Largest({at} \cup {m.ctype : m \in after})]
        ELSE [found |-> FALSE, data |-> at, meta |-> 0, ctype |-> 0]
  <2>1. Meaning(all).found <=> \E f \in Kind(marks, "data") :
                                 f.ts = at /\ [f EXCEPT !.ext = "ts"] \notin all
    BY DEF Meaning
  <2>2. Found(all) <=> \E f \in Kind(marks, "data") :
                         f.ts = at /\ [f EXCEPT !.ext = "ts"] \notin all
    BY <2>1, MeaningFound
  <2> QED BY <2>2 DEF Meaning
<1>6. CASE Found(all)
  <2>1. PICK d \in all : d.ext = "data" /\ ~Marked(d, all)
    BY <1>6 DEF Found, Kind
  <2>2. d \in fs /\ d \in Valid(lead, fs)
    BY <2>1, <1>4
  <2>3. d.ts = at
    <3>1. d.ts <= at /\ at # 0
      BY <1>0, <1>2, <2>1
    <3>2. PICK b \in marks : b.ts = at
      BY <1>2, <3>1
    <3>3. b \in all /\ b.ext \in {"data", "ts"} /\ ~Outdates(b, d)
      BY <2>1 DEF Kind, Marked
    <3> QED BY <1>0, <2>1, <3>1, <3>2, <3>3 DEF Outdates
  <2>4. info.data # {} /\ \A x \in info.data : x.ts = at
    <3>1. d \in Kind(Counting(lead, fs), "data")
      BY <2>1, <2>2, ValidIs DEF Kind
    <3>2. \A x \in Kind(Counting(lead, fs), "data") : x \in all /\ x.ext = "data" /\ x.ctype = 0
      BY ValidIs, FileType DEF Kind
    <3>3. \A x \in Kind(Counting(lead, fs), "data") : x.ts <= d.ts
      BY <3>2, <1>2, <2>3
    <3>4. d \in Latest(Kind(Counting(lead, fs), "data"))
      BY <3>1, <3>2, <3>3, <1>0 DEF Latest
    <3>5. \A x \in Latest(Kind(Counting(lead, fs), "data")) : x.ts = d.ts
      BY <3>1, <3>2, <3>3, <1>0, <2>1 DEF Latest
    <3> QED BY <3>4, <3>5, <1>1, <2>3
  <2>5. Largest({f.ts : f \in info.data}) = at
    <3> DEFINE dates == {f.ts : f \in info.data}
    <3>1. dates = {at}
      BY <2>4
    <3>2. dates \subseteq 0 .. MaxTime /\ MaxTime \in Nat /\ at \in dates
      BY <3>1, <2>3, <2>1, <1>0, OnDiskAssumption
    <3>3. at \in Nat
      BY <2>3, <2>1, <1>0
    <3> HIDE DEF at
    <3>4. \A n \in dates : n <= at
      BY <3>1, <3>3
    <3> HIDE DEF dates
    <3>5. Largest(dates) = at
      BY <3>2, <3>4, LargestIsIt
    <3> QED BY <3>5 DEF dates
  <2>6. metas \subseteq after
    <3> SUFFICES ASSUME NEW m \in metas
                 PROVE  m.ts > at
      BY ValidIs DEF Kind
    <3>1. m \in fs /\ m.ext = "meta" /\ m \notin Obsolete(lead, fs)
      BY DEF Kind, Valid
    <3>2. ~Outdates(d, m)
      BY <3>1, <2>2, MarkedIsObsolete DEF Marked
    <3> QED BY <3>1, <3>2, <2>1, <2>3, <1>0 DEF Outdates
  <2>7. \A m \in after : m \in all /\ m.ext = "meta" /\ ~Marked(m, all) /\ m.ts > at
    <3> SUFFICES ASSUME NEW m \in after, NEW b \in all, Outdates(b, m)
                 PROVE  FALSE
      BY DEF Kind, Marked
    <3>1. m \in all /\ m.ext = "meta" /\ m.ts > at
      BY DEF Kind
    <3>2. b.ts <= at
      BY <1>2 DEF Outdates
    <3> QED BY <3>1, <3>2, <2>3, <1>0 DEF Outdates
  <2>8. info.meta = Latest(metas)
    BY <1>1, <2>4
  <2>9. whole => Largest({0} \cup {f.ts : f \in info.meta})
                   = Largest({0} \cup {m.ts : m \in after})
    <3> SUFFICES ASSUME whole
                 PROVE  Largest({0} \cup {f.ts : f \in info.meta})
                          = Largest({0} \cup {m.ts : m \in after})
      OBVIOUS
    <3> HIDE DEF whole
    <3> DEFINE A == {0} \cup {f.ts : f \in Latest(metas)}
               B == {0} \cup {m.ts : m \in after}
    <3> HIDE DEF at, metas
    <3>0. Latest(metas) \subseteq metas /\ MaxTime \in Nat
      BY OnDiskAssumption DEF Latest
    <3>1. A \subseteq 0 .. MaxTime /\ B \subseteq 0 .. MaxTime
      BY <3>0, <2>6, <2>7, <1>0
    <3>2. CASE after = {}
      <4>1. A = {0} /\ B = {0}
        BY <2>6, <3>2 DEF Latest
      <4> HIDE DEF A, B
      <4>2. Largest(A) = Largest(B)
        BY <4>1
      <4> QED BY <4>2, <2>8 DEF A, B
    <3>3. CASE after # {}
      <4>1. PICK a \in after : a \in Latest(after) /\ a \in NewestType(Latest(after))
        <5>1. after \subseteq File
          BY DEF Kind
        <5> HIDE DEF after
        <5>2. Latest(after) \subseteq after /\ Latest(after) # {}
          BY <5>1, <3>3, LatestExists DEF Latest
        <5>3. PICK a \in Latest(after) : a \in NewestType(Latest(after))
          BY <5>1, <5>2, NewestTypeExists
        <5> QED BY <5>2, <5>3
      <4>2. ~Superfluous(a, all)
        <5> SUFFICES ASSUME NEW g \in Kind(all, "meta"), Later(g, a)
                     PROVE  FALSE
          BY <2>7, <4>1 DEF Superfluous
        <5>1. g \in after
          BY <2>3, <2>1, <4>1, <2>7, <1>0 DEF Later, Kind
        <5>2. g.ts = a.ts /\ g.ctype > a.ctype
          BY <5>1, <4>1, <2>7, <1>0 DEF Later, Latest
        <5>3. g \in Latest(after)
          BY <5>1, <5>2, <4>1 DEF Latest
        <5> QED BY <5>2, <5>3, <4>1, <2>7, <1>0 DEF NewestType
      <4>3. a \in metas
        BY <4>1, <4>2, <2>7, <1>3 DEF Kind, metas
      <4>4. \A m \in after : m.ts <= a.ts
        BY <4>1, <2>7, <1>0 DEF Latest
      <4>5. a \in Latest(metas)
        BY <4>1, <4>3, <2>6 DEF Latest
      <4>6. a.ts \in A /\ a.ts \in B
        BY <4>1, <4>5
      <4>7. (\A n \in A : n <= a.ts) /\ \A n \in B : n <= a.ts
        BY <4>1, <4>4, <3>0, <2>6, <2>7, <1>0
      <4> HIDE DEF A, B
      <4>8. Largest(A) = a.ts /\ Largest(B) = a.ts
        BY <4>6, <4>7, <3>0, <3>1, LargestIsIt
      <4> QED BY <4>8, <2>8 DEF A, B
    <3> QED BY <3>2, <3>3
  <2>10. whole => Largest({at} \cup {f.ctype : f \in info.meta \cup info.ctype})
                    = Largest({at} \cup {m.ctype : m \in after})
    <3> SUFFICES ASSUME whole
                 PROVE  Largest({at} \cup {f.ctype : f \in info.meta \cup info.ctype})
                          = Largest({at} \cup {m.ctype : m \in after})
      OBVIOUS
    <3> HIDE DEF whole
    <3> DEFINE both == info.meta \cup info.ctype
               A == {at} \cup {f.ctype : f \in both}
               B == {at} \cup {m.ctype : m \in after}
    <3>1. at \in Nat /\ at \in 0 .. MaxTime /\ MaxTime \in Nat
      BY <2>3, <2>1, <1>0, OnDiskAssumption
    <3>2. info.ctype = {m \in NewestType(metas) : m.ctype > at}
      BY <1>1, <2>4
    <3>3. both \subseteq metas
      BY <2>8, <3>2 DEF Latest, NewestType
    <3> HIDE DEF at, info, metas
    <3>4. A \subseteq 0 .. MaxTime /\ B \subseteq 0 .. MaxTime
      BY <2>6, <2>7, <3>1, <3>3, <1>0
    <3>5. CASE \A m \in after : m.ctype <= at
      <4>1. (\A n \in A : n <= at) /\ \A n \in B : n <= at
        BY <2>6, <3>1, <3>3, <3>5
      <4>2. at \in A /\ at \in B
        OBVIOUS
      <4> HIDE DEF A, B
      <4>3. Largest(A) = at /\ Largest(B) = at
        BY <4>1, <4>2, <3>1, <3>4, LargestIsIt
      <4> QED BY <4>3 DEF A, B
    <3>6. CASE ~\A m \in after : m.ctype <= at
      <4>1. PICK a \in after : a \in NewestType(after)
        <5>1. after \subseteq File /\ after # {}
          BY <2>7, <3>6
        <5> HIDE DEF after
        <5> QED BY <5>1, NewestTypeExists
      <4>2. \A m \in after : m.ctype <= a.ctype
        BY <4>1, <2>7, <1>0 DEF NewestType
      <4>3. a.ctype > at
        BY <4>1, <4>2, <3>6, <3>1, <2>7, <1>0
      <4>4. ~Superfluous(a, all)
        <5> SUFFICES ASSUME NEW g \in Kind(all, "meta"), LaterType(g, a)
                     PROVE  FALSE
          BY <2>7, <4>1 DEF Superfluous
        <5>1. g \in all /\ g.ext = "meta"
          BY DEF Kind
        <5>2. g.ctype > at /\ g.ts >= g.ctype
          BY <5>1, <3>1, <4>1, <4>3, <2>7, <1>0 DEF LaterType
        <5>3. g.ts > at
          BY <5>1, <5>2, <3>1, <1>0
        <5>4. g \in after
          BY <5>3
        <5> QED BY <5>1, <5>4, <4>1, <2>7, <1>0 DEF LaterType, NewestType
      <4>5. a \in metas
        BY <4>1, <4>4, <2>7, <1>3 DEF Kind, metas
      <4>6. a \in NewestType(metas)
        BY <4>1, <4>5, <2>6 DEF NewestType
      <4>7. a \in both
        BY <4>3, <4>6, <3>2
      <4>8. a.ctype \in A /\ a.ctype \in B
        BY <4>1, <4>7
      <4>9. (\A n \in A : n <= a.ctype) /\ \A n \in B : n <= a.ctype
        BY <4>1, <4>2, <4>3, <2>6, <2>7, <3>1, <3>3, <1>0
      <4> HIDE DEF A, B
      <4>10. Largest(A) = a.ctype /\ Largest(B) = a.ctype
        BY <4>8, <4>9, <3>1, <3>4, LargestIsIt
      <4> QED BY <4>10 DEF A, B
    <3> QED BY <3>5, <3>6
  <2>11. LET seen == Opened(info)
         IN /\ seen.found = TRUE /\ seen.data = at
            /\ whole => seen = [found |-> TRUE, data |-> at,
                                meta |-> Largest({0} \cup {m.ts : m \in after}),
                                ctype |-> Largest({at} \cup {m.ctype : m \in after})]
    <3> HIDE DEF whole
    <3> QED BY <2>4, <2>5, <2>9, <2>10 DEF Opened
  <2> HIDE DEF at, after, whole, info
  <2>12. LET seen == Opened(info)
         IN /\ seen.found = Meaning(all).found /\ seen.data = Meaning(all).data
            /\ whole => seen = Meaning(all)
    <3> DEFINE meta == Largest({0} \cup {m.ts : m \in after})
               ctype == Largest({at} \cup {m.ctype : m \in after})
               meant == [found |-> TRUE, data |-> at, meta |-> meta, ctype |-> ctype]
    <3>1. Meaning(all) = meant
      BY <1>5, <1>6
    <3>2. LET seen == Opened(info)
          IN seen.found = TRUE /\ seen.data = at /\ (whole => seen = meant)
      BY <2>11
    <3>3. meant.found = TRUE /\ meant.data = at
      OBVIOUS
    <3> HIDE DEF meant
    <3> QED BY <3>1, <3>2, <3>3
  <2> QED BY <2>12 DEF whole, info
<1>7. CASE ~Found(all)
  <2>1. info.data = {}
    <3> SUFFICES ASSUME NEW x \in info.data
                 PROVE  FALSE
      OBVIOUS
    <3>1. x \in fs /\ x.ext = "data"
      BY <1>1, ValidIs DEF Latest, Kind
    <3>2. PICK t \in all : /\ t.ext \in {"data", "ts"} /\ ~Marked(t, all)
                           /\ \A f \in File : Marked(f, all) => Outdates(t, f)
      BY <3>1, TopMark
    <3>3. t \in fs /\ t.ext = "ts"
      BY <3>2, <1>4, <1>7 DEF Found, Kind
    <3>4. Outdates(t, x)
      BY <3>1, <3>2, <1>7 DEF Found, Kind
    <3>5. x \in Undeleted(fs)
      BY <1>1, ValidIs DEF Latest, Kind
    <3> QED BY <3>1, <3>3, <3>4, <3>5, UndeletedIs DEF Kind
  <2>2. Largest({0} \cup {f.ts : f \in info.ts}) = at
    <3> DEFINE found == {0} \cup {f.ts : f \in info.ts}
    <3>1. info.ts \subseteq marks
      BY <1>1, <2>1, ValidIs DEF Kind
    <3>2. found \subseteq 0 .. MaxTime /\ MaxTime \in Nat
      BY <3>1, <1>0, OnDiskAssumption DEF Kind
    <3>3. \A n \in found : n <= at
      BY <3>1, <1>0, <1>2 DEF Kind
    <3>4. at \in found
      <4>1. CASE at = 0
        BY <4>1
      <4>2. CASE at # 0
        <5>1. PICK m \in all : m.ext # "meta" /\ m.ts = at
          BY <1>2, <4>2 DEF Kind
        <5>2. PICK t \in all : /\ t.ext \in {"data", "ts"} /\ ~Marked(t, all)
                               /\ \A b \in all : b.ext # "meta" => b.ts <= t.ts
          BY <5>1, TopMark
        <5>3. t.ext = "ts" /\ t \in Valid(lead, fs)
          BY <5>2, <1>4, <1>7 DEF Found, Kind
        <5>4. t \in Kind(Counting(lead, fs), "ts")
          BY <5>3, ValidIs DEF Kind
        <5>5. t \in info.ts
          <6> HIDE DEF info
          <6> QED BY <5>4, <1>1, <2>1
        <5>6. t.ts = at
          BY <5>1, <5>2, <1>0, <1>2
        <5> QED BY <5>5, <5>6
      <4> QED BY <4>1, <4>2
    <3> HIDE DEF found
    <3>5. Largest(found) = at
      BY <3>2, <3>3, <3>4, LargestIsIt
    <3> QED BY <3>5 DEF found
  <2>3. Opened(info) = [found |-> FALSE, data |-> at, meta |-> 0, ctype |-> 0]
    BY <2>1, <2>2 DEF Opened
  <2>4. Opened(info) = Meaning(all)
    BY <2>3, <1>5, <1>7
  <2> QED BY <2>4
<1> QED BY <1>6, <1>7

-----------------------------------------------------------------------------
(* The inductive invariant.                                                *)

\* The data that counts came when it was past the reclaim age.
LateFound == \E d \in Kind(ever, "data") : ~Marked(d, ever) /\ d.ts \in late

\* A file that may be gone: superfluous, one of two that clash, or past the
\* reclaim age while there is no data it could describe.  Data that comes so
\* late changes nothing for what it outdates, but for a .meta it does.
Dispensable(f) ==
  \/ Superfluous(f, ever)
  \/ Clashing(f, ever)
  \/ f.ts < old /\ ~Found(ever)
  \/ f.ext = "meta" /\ f.ts < old /\ LateFound

\* What a writer is still to unlink.
Doomed(w) == writer[w].removing \cup writer[w].reclaim

\* Nothing else is gone, and nothing else is about to go.
NothingElseGoes ==
  /\ \A f \in ever \ files : Dispensable(f)
  /\ \A w \in Writers : Doomed(w) \subseteq ever /\ \A f \in Doomed(w) : Dispensable(f)
  /\ \A w \in Writers : writer[w].at # "remove" => Doomed(w) = {}

\* What an open that found the object has yet to read and has read.
WantsIt(want, meant) ==
  LET metas == Kind(want, "meta")
  IN /\ \A f \in want : f.ext \in {"data", "meta"}
     /\ \A d \in Kind(want, "data") :
          d.ts = meant.data /\ \A e \in Kind(want, "data") : e = d
     /\ metas = {} => meant.meta = 0 /\ meant.ctype = meant.data
     /\ metas # {} => \E m \in Latest(metas) : m.ts = meant.meta
     /\ \A m \in metas : m.ctype <= meant.ctype
     /\ meant.ctype # meant.data => \E m \in metas : m.ctype = meant.ctype
     /\ meant.data <= meant.ctype

GotIt(got, want, meant) ==
  /\ got.found /\ got.data = meant.data
  /\ \A m \in want : m.ext = "meta" /\ m.ctype <= meant.ctype
  /\ got.meta # 0 => got.meta = meant.meta
  /\ got.meta = 0 /\ want = {} => meant.meta = 0
  /\ got.meta = 0 /\ want # {} => \E m \in Latest(want) : m.ts = meant.meta
  /\ got.ctype <= meant.ctype
  /\ meant.ctype # got.ctype => \E m \in want : m.ctype = meant.ctype

SeesOne(r) ==
  LET x == reader[r]
  IN /\ x.at = "data" => x.began.found /\ WantsIt(x.want, x.began)
     /\ x.at = "meta" => x.began.found /\ GotIt(x.got, x.want, x.began)
     /\ x.at = "done" /\ x.got.found => x.got = x.began

SeesInv == TypeOK /\ NothingElseGoes /\ \A r \in Readers : SeesOne(r)

\* What is left when all that is doomed is gone.
Left == {f \in files : \A w \in Writers : f \notin Doomed(w)}

\* With nobody about to list the directory again, nothing obsolete is left.
Tidy ==
  ~died /\ (\A w \in Writers : writer[w].at # "clean")
    => \A lead \in Leads(Left) : Obsolete(lead, Left) = {}

OneReclaim == \A w \in Writers : \A f, g \in writer[w].reclaim : f = g

TidyInv == SeesInv /\ OneReclaim /\ Tidy

-----------------------------------------------------------------------------
(* Types.                                                                  *)

LEMMA InfoType ==
  ASSUME NEW fs, fs \subseteq File, NEW lead \in Leads(fs)
  PROVE  LET info == get_ondisk_files(lead, fs)
         IN /\ info.data \cup info.meta \cup info.ctype \subseteq fs
            /\ info.ts \subseteq fs /\ info.obsolete \subseteq fs
            /\ info.possible_reclaim \subseteq fs
            /\ \A d \in info.data : d.ext = "data"
            /\ \A d, e \in info.data : d = e
            /\ \A t, u \in info.ts : t = u
            /\ info.meta = {} <=> info.data = {} \/ Kind(Valid(lead, fs), "meta") = {}
            /\ \A m \in info.meta \cup info.ctype : m.ext = "meta"
            /\ info.meta \cup info.ctype \subseteq Kind(Valid(lead, fs), "meta")
            /\ info.data # {} => info.meta = Latest(Kind(Valid(lead, fs), "meta"))
<1> DEFINE info == get_ondisk_files(lead, fs)
           metas == Kind(Valid(lead, fs), "meta")
<1>0. \A g \in File : g.ts \in Nat /\ g.ctype \in Nat /\ (g.ext # "meta" => g.ctype = 0)
  BY FileType
<1>1. Kind(Counting(lead, fs), "meta") \ Outdated(Counting(lead, fs), info.data) = metas
  BY ValidIs
<1>2. Counting(lead, fs) \subseteq fs /\ Valid(lead, fs) \subseteq fs /\ Counting(lead, fs) \subseteq Undeleted(fs)
  BY ValidIs
<1> HIDE DEF metas
<1>3. /\ info.data = Latest(Kind(Counting(lead, fs), "data"))
      /\ info.meta = IF info.data = {} THEN {} ELSE Latest(metas)
      /\ info.ctype = {m \in NewestType(metas) : \E d \in info.data : m.ctype > d.ts}
      /\ info.ts = IF info.data = {} THEN Kind(Counting(lead, fs), "ts") ELSE {}
      /\ info.possible_reclaim = IF info.data = {} THEN metas ELSE {}
  BY <1>1, Info
<1>4. metas \subseteq fs /\ \A m \in metas : m.ext = "meta"
  BY <1>2 DEF metas, Kind
<1>5. info.data \subseteq fs /\ \A d \in info.data : d.ext = "data"
  BY <1>2, <1>3 DEF Latest, Kind
<1>6. \A d, e \in info.data : d = e
  <2> SUFFICES ASSUME NEW d \in info.data, NEW e \in info.data
               PROVE  d = e
    OBVIOUS
  <2>1. d \in Latest(Kind(Counting(lead, fs), "data")) /\ e \in Latest(Kind(Counting(lead, fs), "data"))
    BY <1>3
  <2>2. d \in File /\ e \in File /\ d.ext = "data" /\ e.ext = "data"
    BY <1>5
  <2>3. d.ts = e.ts /\ d.ctype = e.ctype
    BY <2>1, <2>2, <1>0 DEF Latest
  <2> QED BY <2>2, <2>3, SameFile
<1>7. \A t, u \in info.ts : t = u
  <2> SUFFICES ASSUME NEW t \in info.ts, NEW u \in info.ts
               PROVE  t = u
    OBVIOUS
  <2>1. /\ t \in fs /\ u \in fs /\ t.ext = "ts" /\ u.ext = "ts"
        /\ t \in Undeleted(fs) /\ u \in Undeleted(fs)
    BY <1>2, <1>3 DEF Kind
  <2>2. ~Outdates(t, u) /\ ~Outdates(u, t)
    BY <2>1, UndeletedIs DEF Kind
  <2>3. t.ts = u.ts /\ t.ctype = u.ctype
    BY <2>1, <2>2, <1>0 DEF Outdates
  <2> QED BY <2>1, <2>3, SameFile
<1>8. info.obsolete \subseteq fs
  <2>1. info.obsolete = Obsolete(lead, fs)
    BY DEF Obsolete
  <2> QED BY <2>1, ObsoleteIsSuperfluous
<1>9. Latest(metas) = {} <=> metas = {}
  <2>1. Latest(metas) \subseteq metas
    BY DEF Latest
  <2> QED BY <2>1, <1>4, LatestExists
<1>10. info.meta \cup info.ctype \subseteq metas
  BY <1>3 DEF Latest, NewestType
<1>11. info.ts \subseteq fs /\ info.possible_reclaim \subseteq fs
  BY <1>2, <1>3, <1>4 DEF Kind
<1>12. info.meta = {} <=> info.data = {} \/ metas = {}
  BY <1>3, <1>9
<1> HIDE DEF info
<1> QED BY <1>3, <1>4, <1>5, <1>6, <1>7, <1>8, <1>10, <1>11, <1>12 DEF metas, info

LEMMA OpenedType ==
  ASSUME NEW fs, fs \subseteq File, NEW lead \in Leads(fs)
  PROVE  Opened(get_ondisk_files(lead, fs)) \in Outcome
<1> DEFINE info == get_ondisk_files(lead, fs)
           both == info.meta \cup info.ctype
           dates == {f.ts : f \in info.data}
           tombs == {0} \cup {f.ts : f \in info.ts}
           newer == {0} \cup {f.ts : f \in info.meta}
           types == {Largest(dates)} \cup {f.ctype : f \in both}
<1>0. /\ \A g \in File : g.ts \in 0 .. MaxTime /\ g.ctype \in 0 .. MaxTime
      /\ MaxTime \in Nat /\ 0 \in 0 .. MaxTime
  BY FileType, OnDiskAssumption
<1>1. info.data \subseteq File /\ info.ts \subseteq File /\ info.meta \subseteq File /\ both \subseteq File
  BY InfoType
<1>2. Opened(info) = IF info.data # {}
                     THEN [found |-> TRUE, data |-> Largest(dates),
                           meta |-> Largest(newer), ctype |-> Largest(types)]
                     ELSE [found |-> FALSE, data |-> Largest(tombs), meta |-> 0, ctype |-> 0]
  BY DEF Opened
<1>3. dates \subseteq 0 .. MaxTime /\ tombs \subseteq 0 .. MaxTime /\ newer \subseteq 0 .. MaxTime
  BY <1>0, <1>1
<1>4. tombs # {} /\ newer # {} /\ (info.data # {} => dates # {})
  OBVIOUS
<1> HIDE DEF info, tombs, newer, dates
<1>5. Largest(tombs) \in 0 .. MaxTime /\ Largest(newer) \in 0 .. MaxTime
  BY <1>0, <1>3, <1>4, LargestIs
<1>6. info.data # {} => Largest(dates) \in 0 .. MaxTime
  BY <1>0, <1>3, <1>4, LargestIs
<1>7. ASSUME info.data # {}
      PROVE  Largest(types) \in 0 .. MaxTime
  <2>1. types \subseteq 0 .. MaxTime /\ types # {}
    BY <1>0, <1>1, <1>6, <1>7
  <2> HIDE DEF types
  <2> QED BY <1>0, <2>1, LargestIs
<1> HIDE DEF types
<1>8. Opened(info) \in Outcome
  BY <1>0, <1>2, <1>5, <1>6, <1>7 DEF Outcome
<1> QED BY <1>8 DEF info

LEMMA TypeInit == Init => TypeOK
<1>1. Nothing \in Outcome /\ 1 \in 1 .. MaxOld
  BY OnDiskAssumption DEF Nothing, Outcome
<1>2. Resting \in [at : {"idle", "clean", "remove"},
                   reclaim : SUBSET File, removing : SUBSET File]
  BY DEF Resting
<1>3. Waiting \in [at : {"idle", "data", "meta", "done"},
                   want : SUBSET File, got : Outcome, began : Outcome]
  BY <1>1 DEF Waiting
<1> QED BY <1>1, <1>2, <1>3 DEF Init, TypeOK

LEMMA TypeWrite ==
  ASSUME TypeOK, NEW w \in Writers, Write(w)
  PROVE  TypeOK'
<1>0. /\ files \subseteq ever /\ ever \subseteq File /\ old \in 1 .. MaxOld
      /\ late \subseteq Time /\ \A f \in File : f.ts \in Time
      /\ writer \in [Writers -> [at : {"idle", "clean", "remove"},
                                 reclaim : SUBSET File, removing : SUBSET File]]
      /\ reader \in [Readers -> [at : {"idle", "data", "meta", "done"},
                                 want : SUBSET File, got : Outcome, began : Outcome]]
      /\ died \in BOOLEAN
  BY DEF TypeOK, File
<1>1. ASSUME NEW f \in File, FinalizePut(w, f)
      PROVE  TypeOK'
  BY <1>0, <1>1 DEF FinalizePut, TypeOK
<1>2. CASE StartCleanup(w)
  BY <1>0, <1>2 DEF StartCleanup, TypeOK
<1>3. CASE ListForCleanup(w)
  <2>0. PICK lead \in SortedLeads(files) :
          LET info == get_ondisk_files(lead, files)
          IN writer' = [writer EXCEPT ![w] =
               [at |-> "remove", reclaim |-> Reclaimable(info.ts),
                removing |-> info.obsolete \cup Reclaimable(info.possible_reclaim)]]
    BY <1>3 DEF ListForCleanup
  <2> DEFINE info == get_ondisk_files(lead, files)
             gone == info.obsolete \cup Reclaimable(info.possible_reclaim)
             dead == Reclaimable(info.ts)
  <2>1. gone \in SUBSET File /\ dead \in SUBSET File
    BY <1>0, InfoType DEF Reclaimable, SortedLeads
  <2>2. /\ writer' = [writer EXCEPT ![w] =
                        [at |-> "remove", reclaim |-> dead, removing |-> gone]]
        /\ UNCHANGED <<files, ever, old, late, reader, died>>
    BY <1>3, <2>0 DEF ListForCleanup
  <2> HIDE DEF gone, dead
  <2> QED BY <1>0, <2>1, <2>2 DEF TypeOK
<1>4. CASE Reclaim(w)
  BY <1>0, <1>4 DEF Reclaim, TypeOK
<1>5. CASE Remove(w)
  BY <1>0, <1>5 DEF Remove, TypeOK
<1>6. CASE CleanupEnds(w)
  BY <1>0, <1>6 DEF CleanupEnds, TypeOK, Resting
<1>7. CASE Dies(w)
  BY <1>0, <1>7 DEF Dies, TypeOK, Resting
<1> QED BY <1>1, <1>2, <1>3, <1>4, <1>5, <1>6, <1>7 DEF Write

LEMMA TypeRead ==
  ASSUME TypeOK, NEW r \in Readers, Read(r)
  PROVE  TypeOK'
<1>0. /\ files \subseteq ever /\ ever \subseteq File
      /\ reader \in [Readers -> [at : {"idle", "data", "meta", "done"},
                                 want : SUBSET File, got : Outcome, began : Outcome]]
      /\ reader[r].want \in SUBSET File /\ reader[r].got \in Outcome
      /\ reader[r].began \in Outcome
      /\ \A f \in File : f.ts \in 0 .. MaxTime /\ f.ctype \in 0 .. MaxTime
      /\ 0 \in 0 .. MaxTime
  BY FileType, OnDiskAssumption DEF TypeOK
<1>1. /\ reader' \in [Readers -> [at : {"idle", "data", "meta", "done"},
                                  want : SUBSET File, got : Outcome, began : Outcome]]
      /\ UNCHANGED <<files, ever, old, late, writer, died>>
      => TypeOK'
  BY DEF TypeOK
<1>2. Nothing \in Outcome
  BY <1>0 DEF Nothing, Outcome
<1>3. CASE Open(r)
  <2>0. PICK lead \in Leads(files) :
          LET info == get_ondisk_files(lead, files)
          IN reader' = [reader EXCEPT ![r] =
               [at |-> IF info.data # {} THEN "data" ELSE "done",
                want |-> info.data \cup info.meta \cup info.ctype,
                got |-> IF info.data # {} THEN Nothing ELSE Opened(info),
                began |-> Opened(info)]]
    BY <1>3 DEF Open
  <2> DEFINE info == get_ondisk_files(lead, files)
             want == info.data \cup info.meta \cup info.ctype
             got == IF info.data # {} THEN Nothing ELSE Opened(info)
             at == IF info.data # {} THEN "data" ELSE "done"
             meant == Opened(info)
  <2>1. /\ want \in SUBSET File /\ got \in Outcome /\ meant \in Outcome
        /\ at \in {"data", "done"}
    BY <1>0, <1>2, InfoType, OpenedType
  <2>2. /\ reader' = [reader EXCEPT ![r] =
                        [at |-> at, want |-> want, got |-> got, began |-> meant]]
        /\ UNCHANGED <<files, ever, old, late, writer, died>>
    BY <1>3, <2>0 DEF Open
  <2> HIDE DEF want, got, meant, at
  <2> QED BY <1>0, <1>1, <2>1, <2>2
<1>4. CASE Missing(r) /\ UNCHANGED <<files, ever, old, late, writer, died>>
  <2> DEFINE next == [reader[r] EXCEPT !.at = "done", !.want = {}, !.got = Nothing]
  <2>1. reader' = [reader EXCEPT ![r] = next]
    BY <1>4 DEF Missing
  <2>2. next \in [at : {"idle", "data", "meta", "done"},
                  want : SUBSET File, got : Outcome, began : Outcome]
    BY <1>0, <1>2
  <2> HIDE DEF next
  <2> QED BY <1>0, <1>1, <1>4, <2>1, <2>2
<1>5. CASE OpenData(r)
  <2>1. PICK d \in Kind(reader[r].want, "data") :
          IF d \in files
          THEN reader' = [reader EXCEPT ![r].at = "meta", ![r].want = @ \ {d},
               ![r].got = [found |-> TRUE, data |-> d.ts, meta |-> 0, ctype |-> d.ts]]
          ELSE Missing(r)
    BY <1>5 DEF OpenData
  <2>2. UNCHANGED <<files, ever, old, late, writer, died>>
    BY <1>5 DEF OpenData
  <2> DEFINE got == [found |-> TRUE, data |-> d.ts, meta |-> 0, ctype |-> d.ts]
  <2>3. got \in Outcome
    BY <1>0 DEF Kind, Outcome
  <2>4. CASE d \in files
    <3> DEFINE next == [at |-> "meta", want |-> reader[r].want \ {d}, got |-> got,
                        began |-> reader[r].began]
    <3> HIDE DEF got
    <3>1. reader' = [reader EXCEPT ![r] = next]
      BY <1>0, <2>1, <2>4 DEF got
    <3>2. next \in [at : {"idle", "data", "meta", "done"},
                    want : SUBSET File, got : Outcome, began : Outcome]
      BY <1>0, <2>3
    <3> HIDE DEF next
    <3> QED BY <1>0, <1>1, <2>2, <3>1, <3>2
  <2> QED BY <1>4, <2>1, <2>2, <2>4
<1>6. CASE ReadMeta(r)
  <2>1. PICK m \in Latest(reader[r].want) :
          IF m \in files
          THEN reader' = [reader EXCEPT ![r].want = @ \ {m},
               ![r].got.meta = IF @ = 0 THEN m.ts ELSE @,
               ![r].got.ctype = IF m.ctype > @ THEN m.ctype ELSE @]
          ELSE Missing(r)
    BY <1>6 DEF ReadMeta
  <2>2. UNCHANGED <<files, ever, old, late, writer, died>>
    BY <1>6 DEF ReadMeta
  <2>3. CASE m \in files
    <3>1. m \in File
      BY <1>0 DEF Latest
    <3> QED BY <1>0, <1>1, <2>1, <2>2, <2>3, <3>1 DEF Outcome
  <2> QED BY <1>4, <2>1, <2>2, <2>3
<1>7. CASE OpenEnds(r)
  BY <1>0, <1>1, <1>7 DEF OpenEnds
<1>8. CASE Close(r)
  BY <1>0, <1>1, <1>2, <1>8 DEF Close, Waiting
<1> QED BY <1>3, <1>5, <1>6, <1>7, <1>8 DEF Read

LEMMA TypeStep ==
  ASSUME TypeOK, [Next]_vars
  PROVE  TypeOK'
<1>1. CASE Ages
  BY <1>1, OnDiskAssumption DEF Ages, TypeOK
<1>2. CASE UNCHANGED vars
  BY <1>2 DEF vars, TypeOK
<1> QED BY <1>1, <1>2, TypeWrite, TypeRead DEF Next

-----------------------------------------------------------------------------
(* What is gone or going.                                                  *)

LEMMA KeptByThat ==
  ASSUME TypeOK, NothingElseGoes
  PROVE  FoundIsKept
<1> DEFINE meant == Meaning(ever)
<1>0. /\ ever \subseteq File /\ files \subseteq ever /\ old \in Nat
      /\ \A f \in ever : f.ts \in Nat /\ 1 <= f.ts /\ f.ext \in {"data", "ts", "meta"}
  BY FileType DEF TypeOK
<1>1. SUFFICES ASSUME meant.found \/ old = 1, NEW lead \in Leads(files)
               PROVE  LET seen == Opened(get_ondisk_files(lead, files))
                      IN /\ seen.found = meant.found /\ seen.data = meant.data
                         /\ meant.data \in late \/ Clash(ever) \/ seen = meant
  BY DEF FoundIsKept
<1>2. \A f \in ever \ files : ~(f.ts < old /\ ~Found(ever))
  <2>1. meant.found <=> Found(ever)
    BY <1>0, MeaningFound
  <2> QED BY <1>0, <1>1, <2>1
<1>3. LateFound => meant.data \in late
  BY <1>0, MeaningFound DEF LateFound
<1>4. \A f \in ever \ files : Clashing(f, ever) => f.ext = "meta" /\ Clash(ever)
  BY DEF Clashing, Clash, Kind
<1>5. \A f \in ever \ files : \/ Superfluous(f, ever)
                              \/ f.ext = "meta" /\ (meant.data \in late \/ Clash(ever))
  <2> HIDE DEF meant
  <2>1. \A f \in ever \ files : Dispensable(f)
    BY DEF NothingElseGoes
  <2> QED BY <1>2, <1>3, <1>4, <2>1 DEF Dispensable
<1>6. \A f \in ever \ files : f.ext # "meta" => Marked(f, ever)
  BY <1>5 DEF Superfluous
<1> HIDE DEF meant
<1>7. CASE meant.data \in late \/ Clash(ever)
  BY <1>0, <1>1, <1>6, <1>7, KeptMeaning DEF meant
<1>8. CASE ~(meant.data \in late \/ Clash(ever))
  BY <1>0, <1>1, <1>5, <1>6, <1>8, KeptMeaning DEF meant
<1> QED BY <1>7, <1>8

LEMMA NoDataNotFound ==
  ASSUME TypeOK, NothingElseGoes, NEW lead \in Leads(files),
         get_ondisk_files(lead, files).data = {}
  PROVE  ~Found(ever)
<1>1. ever \subseteq File
  BY DEF TypeOK
<1>2. ~Opened(get_ondisk_files(lead, files)).found
  BY DEF Opened
<1>3. FoundIsKept
  BY KeptByThat
<1> QED BY <1>1, <1>2, <1>3, MeaningFound DEF FoundIsKept

\* What is written of late.
Comes(f) ==
  /\ ever' = ever \cup {f}
  /\ late' = IF f.ext = "data" /\ f.ts < old THEN late \cup {f.ts} ELSE late

\* Data that counts from now on outdates what was old before or is late; and
\* what outdates late data leaves no data, or is data in its turn.
LEMMA DispensableStays ==
  ASSUME TypeOK, NEW g \in ever, Dispensable(g),
         old' \in Nat, old <= old',
         \/ ever' = ever /\ late' = late
         \/ old' = old /\ \E f \in File : Comes(f)
  PROVE  Dispensable(g)'
<1>0. /\ ever \subseteq File /\ old \in Nat
      /\ \A f \in File : f.ts \in Nat /\ f.ext \in {"data", "ts", "meta"}
      /\ \A d, e \in File : d.ext = "data" /\ e.ext = "data" /\ d.ts = e.ts => d = e
  BY FileType, SameFile DEF TypeOK
<1>1. CASE Superfluous(g, ever) \/ Clashing(g, ever)
  <2>1. ever \subseteq ever'
    BY DEF Comes
  <2> QED BY <1>1, <2>1, SuperfluousStays DEF Dispensable
<1>2. CASE ever' = ever /\ late' = late
  <2>1. LateFound => LateFound'
    BY <1>2 DEF LateFound
  <2>2. g.ts < old => g.ts < old'
    BY <1>0
  <2> QED BY <1>2, <2>1, <2>2 DEF Dispensable
<1>3. ASSUME NEW f \in File, Comes(f), old' = old, g.ts < old,
             NEW d \in ever', d.ext = "data", ~Marked(d, ever'),
             d = f
      PROVE  Dispensable(g)'
  <2>1. CASE f.ts < old /\ g.ext = "meta"
    <3>1. d.ts \in late'
      BY <1>3, <2>1 DEF Comes
    <3>2. LateFound'
      BY <1>3, <3>1 DEF LateFound, Kind
    <3> QED BY <1>3, <2>1, <3>2 DEF Dispensable
  <2>2. CASE f.ts >= old
    <3>1. Outdates(f, g)
      BY <1>0, <1>3, <2>2 DEF Outdates
    <3> QED BY <1>3, <3>1 DEF Dispensable, Superfluous, Marked
  <2>3. CASE g.ext # "meta" /\ f # g
    <3>1. g \in ever' /\ ~Outdates(g, f)
      BY <1>3 DEF Comes, Marked
    <3>2. Outdates(f, g)
      BY <1>0, <1>3, <2>3, <3>1 DEF Outdates
    <3> QED BY <1>3, <3>2 DEF Dispensable, Superfluous, Marked
  <2>4. CASE f = g
    <3>1. ever' = ever /\ Found(ever) /\ g.ext # "meta"
      BY <1>3, <2>4 DEF Comes, Found, Kind
    <3> QED BY <1>1, <3>1 DEF Dispensable
  <2> QED BY <1>0, <2>1, <2>2, <2>3, <2>4
<1>4. ASSUME NEW f \in File, Comes(f), old' = old, g.ts < old, ~Found(ever)
      PROVE  Dispensable(g)'
  <2>1. CASE ~Found(ever')
    BY <1>4, <2>1 DEF Dispensable
  <2>2. CASE Found(ever')
    <3>1. PICK d \in ever' : d.ext = "data" /\ ~Marked(d, ever')
      BY <2>2 DEF Found, Kind
    <3>2. d = f
      BY <1>4, <3>1 DEF Found, Kind, Marked, Comes
    <3> QED BY <1>3, <1>4, <3>1, <3>2
  <2> QED BY <2>1, <2>2
<1>5. ASSUME NEW f \in File, Comes(f), old' = old, g.ts < old, LateFound, g.ext = "meta"
      PROVE  Dispensable(g)'
  <2>1. PICK d \in ever : d.ext = "data" /\ ~Marked(d, ever) /\ d.ts \in late
    BY <1>5 DEF LateFound, Kind
  <2>2. CASE ~Found(ever')
    BY <1>5, <2>2 DEF Dispensable
  <2>3. CASE Found(ever')
    <3>1. PICK e \in ever' : e.ext = "data" /\ ~Marked(e, ever')
      BY <2>3 DEF Found, Kind
    <3>2. CASE e = f
      BY <1>3, <1>5, <3>1, <3>2
    <3>3. CASE e # f
      <4>1. e \in ever /\ ~Outdates(d, e) /\ ~Outdates(e, d)
        BY <1>5, <2>1, <3>1, <3>3 DEF Comes, Marked
      <4>2. e = d
        BY <1>0, <2>1, <3>1, <4>1 DEF Outdates
      <4>3. e.ts \in late'
        BY <1>5, <2>1, <4>2 DEF Comes
      <4>4. LateFound'
        BY <3>1, <4>3 DEF LateFound, Kind
      <4> QED BY <1>5, <4>4 DEF Dispensable
    <3> QED BY <3>2, <3>3
  <2> QED BY <2>2, <2>3
<1> QED BY <1>1, <1>2, <1>4, <1>5 DEF Dispensable

\* A step that writes or ages, and lets nothing new go.
LEMMA GoesOn ==
  ASSUME TypeOK, NothingElseGoes,
         old' \in Nat, old <= old',
         \/ ever' = ever /\ late' = late /\ files' \subseteq files
         \/ old' = old /\ \E f \in File : Comes(f) /\ files' = files \cup {f},
         \A f \in files \ files' : \E w \in Writers : f \in Doomed(w),
         \A w \in Writers : Doomed(w)' \subseteq Doomed(w),
         \A w \in Writers : writer'[w].at # "remove" => Doomed(w)' = {}
  PROVE  NothingElseGoes'
<1>1. \A g \in ever : Dispensable(g) => Dispensable(g)'
  BY DispensableStays
<1>2. \A f \in ever' \ files' : f \in ever /\ Dispensable(f)
  BY DEF NothingElseGoes, Comes
<1>3. \A w \in Writers : \A f \in Doomed(w)' : f \in ever /\ Dispensable(f)
  BY DEF NothingElseGoes
<1>4. ever \subseteq ever'
  BY DEF Comes
<1>5. \A f \in ever' \ files' : Dispensable(f)'
  BY <1>1, <1>2
<1>6. \A w \in Writers : Doomed(w)' \subseteq ever' /\ \A f \in Doomed(w)' : Dispensable(f)'
  BY <1>1, <1>3, <1>4
<1> QED BY <1>5, <1>6 DEF NothingElseGoes

LEMMA GoesInit == Init => NothingElseGoes
BY DEF Init, NothingElseGoes, Doomed, Resting

LEMMA GoesWrite ==
  ASSUME TypeOK, NothingElseGoes, NEW w \in Writers, Write(w)
  PROVE  NothingElseGoes'
<1>0. /\ files \subseteq ever /\ ever \subseteq File /\ old \in Nat /\ old <= old
      /\ writer \in [Writers -> [at : {"idle", "clean", "remove"},
                                 reclaim : SUBSET File, removing : SUBSET File]]
      /\ \A v \in Writers : writer[v].at # "remove" => Doomed(v) = {}
  BY DEF TypeOK, NothingElseGoes
<1>1. ASSUME NEW f \in File, FinalizePut(w, f)
      PROVE  NothingElseGoes'
  <2>1. \A v \in Writers : /\ Doomed(v)' \subseteq Doomed(v)
                           /\ writer'[v].at # "remove" => Doomed(v)' = {}
    BY <1>0, <1>1 DEF FinalizePut, Doomed, Resting
  <2>2. Comes(f) /\ files' = files \cup {f} /\ old' = old
    BY <1>1 DEF FinalizePut, Comes
  <2> QED BY <1>0, <2>1, <2>2, GoesOn
<1>2. CASE StartCleanup(w)
  <2>1. \A v \in Writers : /\ Doomed(v)' \subseteq Doomed(v)
                           /\ writer'[v].at # "remove" => Doomed(v)' = {}
    BY <1>0, <1>2 DEF StartCleanup, Doomed, Resting
  <2>2. ever' = ever /\ late' = late /\ files' = files /\ old' = old
    BY <1>2 DEF StartCleanup
  <2> QED BY <1>0, <2>1, <2>2, GoesOn
<1>3. CASE ListForCleanup(w)
  <2>0. PICK lead \in Leads(files) :
          LET info == get_ondisk_files(lead, files)
          IN writer' = [writer EXCEPT ![w] =
               [at |-> "remove", reclaim |-> Reclaimable(info.ts),
                removing |-> info.obsolete \cup Reclaimable(info.possible_reclaim)]]
    BY <1>3 DEF ListForCleanup, SortedLeads
  <2> DEFINE info == get_ondisk_files(lead, files)
             gone == info.obsolete \cup Reclaimable(info.possible_reclaim)
             dead == Reclaimable(info.ts)
  <2>1. /\ writer' = [writer EXCEPT ![w] =
                        [at |-> "remove", reclaim |-> dead, removing |-> gone]]
        /\ UNCHANGED <<files, ever, old, late, reader, died>>
    BY <1>3, <2>0 DEF ListForCleanup
  <2>2. \A f \in gone \cup dead : f \in ever /\ Dispensable(f)
    <3>1. info.obsolete = Obsolete(lead, files) /\ files \subseteq File
      BY <1>0 DEF Obsolete
    <3>2. \A f \in info.obsolete : f \in ever /\ (Superfluous(f, ever) \/ Clashing(f, ever))
      BY <1>0, <3>1, ObsoleteIsSuperfluous, SuperfluousStays
    <3>3. info.ts # {} \/ info.possible_reclaim # {} => info.data = {}
      BY Info
    <3>4. \A f \in Reclaimable(info.possible_reclaim) \cup Reclaimable(info.ts) :
             f \in files /\ f.ts < old /\ info.data = {}
      <4>1. info.possible_reclaim \subseteq files /\ info.ts \subseteq files
        BY <3>1, InfoType
      <4> QED BY <3>3, <4>1 DEF Reclaimable
    <3>5. info.data = {} => ~Found(ever)
      BY NoDataNotFound
    <3> QED BY <1>0, <3>2, <3>4, <3>5 DEF Dispensable
  <2> HIDE DEF gone, dead
  <2>3. \A f : Dispensable(f)' <=> Dispensable(f)
    BY <2>1 DEF Dispensable, LateFound
  <2>4. \A v \in Writers : Doomed(v)' = IF v = w THEN gone \cup dead ELSE Doomed(v)
    BY <1>0, <2>1 DEF Doomed
  <2>5. \A v \in Writers : writer'[v].at # "remove" => v # w /\ writer[v].at # "remove"
    BY <1>0, <2>1
  <2>6. \A v \in Writers : Doomed(v)' \subseteq ever' /\ \A f \in Doomed(v)' : Dispensable(f)'
    BY <2>1, <2>2, <2>3, <2>4 DEF NothingElseGoes
  <2>7. \A f \in ever' \ files' : Dispensable(f)'
    BY <2>1, <2>3 DEF NothingElseGoes
  <2>8. \A v \in Writers : writer'[v].at # "remove" => Doomed(v)' = {}
    BY <1>0, <2>4, <2>5
  <2> QED BY <2>6, <2>7, <2>8 DEF NothingElseGoes
<1>4. CASE Reclaim(w)
  <2>1. \A v \in Writers : /\ Doomed(v)' \subseteq Doomed(v)
                           /\ writer'[v].at # "remove" => Doomed(v)' = {}
    BY <1>0, <1>4 DEF Reclaim, Doomed
  <2>2. ever' = ever /\ late' = late /\ files' \subseteq files /\ old' = old
    BY <1>4 DEF Reclaim
  <2>3. \A f \in files \ files' : f \in Doomed(w)
    BY <1>4 DEF Reclaim, Doomed
  <2> QED BY <1>0, <2>1, <2>2, <2>3, GoesOn
<1>5. CASE Remove(w)
  <2>1. \A v \in Writers : /\ Doomed(v)' \subseteq Doomed(v)
                           /\ writer'[v].at # "remove" => Doomed(v)' = {}
    BY <1>0, <1>5 DEF Remove, Doomed
  <2>2. ever' = ever /\ late' = late /\ files' \subseteq files /\ old' = old
    BY <1>5 DEF Remove
  <2>3. \A f \in files \ files' : f \in Doomed(w)
    BY <1>5 DEF Remove, Doomed
  <2> QED BY <1>0, <2>1, <2>2, <2>3, GoesOn
<1>6. CASE CleanupEnds(w) \/ Dies(w)
  <2>1. \A v \in Writers : /\ Doomed(v)' \subseteq Doomed(v)
                           /\ writer'[v].at # "remove" => Doomed(v)' = {}
    BY <1>0, <1>6 DEF CleanupEnds, Dies, Doomed, Resting
  <2>2. ever' = ever /\ late' = late /\ files' = files /\ old' = old
    BY <1>6 DEF CleanupEnds, Dies
  <2> QED BY <1>0, <2>1, <2>2, GoesOn
<1> QED BY <1>1, <1>2, <1>3, <1>4, <1>5, <1>6 DEF Write

LEMMA GoesStep ==
  ASSUME TypeOK, NothingElseGoes, [Next]_vars
  PROVE  NothingElseGoes'
<1>1. ASSUME NEW r \in Readers, Read(r)
      PROVE  NothingElseGoes'
  <2>1. UNCHANGED <<files, ever, old, late, writer>>
    BY <1>1 DEF Read, Open, OpenData, ReadMeta, OpenEnds, Close, Missing
  <2> QED BY <2>1 DEF NothingElseGoes, Doomed, Dispensable, LateFound
<1>2. CASE Ages
  <2>1. /\ ever' = ever /\ late' = late /\ files' = files /\ writer' = writer /\ old' \in Nat /\ old <= old'
    BY <1>2 DEF Ages, TypeOK
  <2>2. \A w \in Writers : Doomed(w)' = Doomed(w)
    BY <2>1 DEF Doomed
  <2> QED BY <2>1, <2>2, GoesOn DEF NothingElseGoes
<1>3. CASE UNCHANGED vars
  BY <1>3 DEF vars, NothingElseGoes, Doomed, Dispensable, LateFound
<1> QED BY <1>1, <1>2, <1>3, GoesWrite DEF Next

-----------------------------------------------------------------------------
(* What an open sees.                                                      *)

\* A listing that finds the object gives an open all it takes.
LEMMA ListingWantsIt ==
  ASSUME NEW fs, fs \subseteq File, NEW lead \in Leads(fs), NEW meant,
         Opened(get_ondisk_files(lead, fs)) = meant, meant.found
  PROVE  LET info == get_ondisk_files(lead, fs)
         IN info.data # {} /\ WantsIt(info.data \cup info.meta \cup info.ctype, meant)
<1> DEFINE info == get_ondisk_files(lead, fs)
           want == info.data \cup info.meta \cup info.ctype
           metas == Kind(want, "meta")
           date == Largest({f.ts : f \in info.data})
           times == {0} \cup {f.ts : f \in info.meta}
           types == {date} \cup {f.ctype : f \in metas}
<1>0. /\ \A g \in File : /\ g.ts \in Nat /\ g.ts \in 0 .. MaxTime
                         /\ g.ctype \in Nat /\ g.ctype \in 0 .. MaxTime
      /\ MaxTime \in Nat
  BY FileType, OnDiskAssumption
<1>1. info.data # {}
  BY DEF Opened
<1>2. /\ want \subseteq fs /\ want \subseteq File
      /\ \A d \in info.data : d.ext = "data"
      /\ \A d, e \in info.data : d = e
      /\ \A m \in info.meta \cup info.ctype : m.ext = "meta"
      /\ info.meta \cup info.ctype \subseteq Kind(Valid(lead, fs), "meta")
      /\ info.meta = {} <=> Kind(Valid(lead, fs), "meta") = {}
      /\ info.meta = Latest(Kind(Valid(lead, fs), "meta"))
  BY <1>1, InfoType
<1>3. /\ metas = info.meta \cup info.ctype /\ Kind(want, "data") = info.data
      /\ \A f \in want : f.ext \in {"data", "meta"}
  BY <1>2 DEF Kind
<1>4. /\ meant.data = date /\ meant.meta = Largest(times)
      /\ meant.ctype = Largest(types)
  BY <1>1, <1>3 DEF Opened
<1>5. PICK d \in info.data : d \in File
  BY <1>1, <1>2
<1>6. date = d.ts
  <2> DEFINE dates == {f.ts : f \in info.data}
  <2>1. dates = {d.ts}
    BY <1>2
  <2>2. dates \subseteq 0 .. MaxTime /\ d.ts \in dates /\ \A n \in dates : n <= d.ts
    BY <2>1, <1>0, <1>5
  <2> HIDE DEF dates
  <2>3. Largest(dates) = d.ts
    BY <1>0, <2>2, LargestIsIt
  <2> QED BY <2>3 DEF dates
<1> HIDE DEF date, info, want
<1>7. /\ meant.ctype \in types /\ \A n \in types : n <= meant.ctype
  <2>1. types \subseteq 0 .. MaxTime /\ types # {}
    BY <1>0, <1>2, <1>5, <1>6 DEF Kind
  <2> HIDE DEF types
  <2> QED BY <1>0, <1>4, <2>1, LargestIs
<1> SUFFICES WantsIt(want, meant)
  BY <1>1 DEF info, want
<1>8. /\ \A e \in Kind(want, "data") : e.ts = meant.data /\ \A f \in Kind(want, "data") : f = e
      /\ meant.data <= meant.ctype
      /\ \A m \in metas : m.ctype <= meant.ctype
      /\ meant.ctype # meant.data => \E m \in metas : m.ctype = meant.ctype
  BY <1>2, <1>3, <1>4, <1>5, <1>6, <1>7
<1>9. CASE metas = {}
  <2>1. times = {0} /\ types = {date}
    BY <1>3, <1>9
  <2>2. meant.meta = 0
    <3>1. Largest({0}) = 0
      BY <1>0, LargestIsIt
    <3> QED BY <1>4, <2>1, <3>1
  <2> QED BY <1>3, <1>8, <1>9, <2>2 DEF WantsIt
<1>10. CASE metas # {}
  <2>1. PICK m \in info.meta : m \in Latest(Kind(Valid(lead, fs), "meta"))
    BY <1>2, <1>3, <1>10
  <2>2. m \in Latest(metas)
    BY <1>2, <1>3, <2>1 DEF Latest
  <2>3. meant.meta = m.ts
    <3>1. \A n \in info.meta : n \in File /\ n.ts <= m.ts
      <4>1. \A n \in info.meta : n \in Latest(Kind(Valid(lead, fs), "meta")) /\ n \in File
        BY <1>2 DEF want
      <4> QED BY <1>0, <2>1, <4>1 DEF Latest
    <3>2. times \subseteq 0 .. MaxTime /\ m.ts \in times /\ \A n \in times : n <= m.ts
      BY <1>0, <2>1, <3>1
    <3> HIDE DEF times
    <3> QED BY <1>0, <1>4, <3>2, LargestIsIt
  <2> QED BY <1>3, <1>8, <1>10, <2>2, <2>3 DEF WantsIt
<1> QED BY <1>9, <1>10

LEMMA SeesRead ==
  ASSUME SeesInv, NEW r \in Readers, Read(r)
  PROVE  SeesOne(r)'
<1>0. /\ files \subseteq ever /\ ever \subseteq File
      /\ reader \in [Readers -> [at : {"idle", "data", "meta", "done"},
                                 want : SUBSET File, got : Outcome, began : Outcome]]
      /\ SeesOne(r)
      /\ \A f \in File : f.ts \in Nat /\ f.ctype \in Nat /\ 0 < f.ts
  BY FileType DEF TypeOK, SeesInv
<1> DEFINE x == reader[r]
<1>1. /\ x.at \in {"idle", "data", "meta", "done"} /\ x.want \subseteq File
      /\ x.got \in Outcome /\ x.began \in Outcome
  BY <1>0
<1>2. \A o \in Outcome : /\ o.found \in BOOLEAN /\ o.data \in Nat /\ o.meta \in Nat /\ o.ctype \in Nat
                         /\ o = [found |-> o.found, data |-> o.data,
                                 meta |-> o.meta, ctype |-> o.ctype]
  BY OnDiskAssumption DEF Outcome
<1>3. CASE Open(r)
  <2>0. PICK lead \in Leads(files) :
          LET info == get_ondisk_files(lead, files)
          IN reader' = [reader EXCEPT ![r] =
               [at |-> IF info.data # {} THEN "data" ELSE "done",
                want |-> info.data \cup info.meta \cup info.ctype,
                got |-> IF info.data # {} THEN Nothing ELSE Opened(info),
                began |-> Opened(info)]]
    BY <1>3 DEF Open
  <2> DEFINE info == get_ondisk_files(lead, files)
             want == info.data \cup info.meta \cup info.ctype
             got == IF info.data # {} THEN Nothing ELSE Opened(info)
             at == IF info.data # {} THEN "data" ELSE "done"
             meant == Opened(info)
  <2>1. reader'[r] = [at |-> at, want |-> want, got |-> got, began |-> meant]
    BY <1>0, <2>0
  <2>2. files \subseteq File
    BY <1>0
  <2>3. info.data # {} <=> meant.found
    BY DEF Opened
  <2>4. meant.found => WantsIt(want, meant)
    BY <2>2, ListingWantsIt
  <2>5. at = "data" => meant.found /\ WantsIt(want, meant)
    BY <2>3, <2>4
  <2>6. at # "meta" /\ (at = "done" => got = meant)
    OBVIOUS
  <2> HIDE DEF at, want, got, meant
  <2> QED BY <2>1, <2>5, <2>6 DEF SeesOne
<1>4. CASE Missing(r)
  <2>1. reader'[r].at = "done" /\ reader'[r].got = Nothing
    BY <1>0, <1>4 DEF Missing
  <2> QED BY <2>1 DEF SeesOne, Nothing
<1>5. CASE OpenData(r)
  <2>1. x.at = "data"
    BY <1>5 DEF OpenData
  <2>2. PICK d \in Kind(x.want, "data") :
          IF d \in files
          THEN reader' = [reader EXCEPT ![r].at = "meta", ![r].want = @ \ {d},
               ![r].got = [found |-> TRUE, data |-> d.ts, meta |-> 0, ctype |-> d.ts]]
          ELSE Missing(r)
    BY <1>5 DEF OpenData
  <2>3. CASE d \in files
    <3> DEFINE got == [found |-> TRUE, data |-> d.ts, meta |-> 0, ctype |-> d.ts]
    <3>1. reader'[r] = [at |-> "meta", want |-> x.want \ {d}, got |-> got, began |-> x.began]
      BY <1>0, <2>2, <2>3
    <3>2. SUFFICES x.began.found /\ GotIt(got, x.want \ {d}, x.began)
      <4> HIDE DEF got
      <4> QED BY <3>1 DEF SeesOne
    <3>3. x.began.found /\ WantsIt(x.want, x.began)
      BY <1>0, <2>1 DEF SeesOne
    <3> DEFINE metas == Kind(x.want, "meta")
    <3>4. d.ext = "data" /\ d.ts = x.began.data
      BY <3>3 DEF WantsIt, Kind
    <3>5. x.want \ {d} = metas
      BY <3>3, <3>4 DEF WantsIt, Kind
    <3>6. \A m \in metas : m.ext = "meta"
      BY DEF Kind
    <3> HIDE DEF metas
    <3>7. GotIt(got, metas, x.began)
      BY <3>3, <3>4, <3>6, <1>1, <1>2 DEF WantsIt, GotIt, metas
    <3> QED BY <3>3, <3>5, <3>7
  <2> QED BY <1>4, <2>2, <2>3
<1>6. CASE ReadMeta(r)
  <2>1. x.at = "meta" /\ x.want # {}
    BY <1>6 DEF ReadMeta
  <2>2. PICK m \in Latest(x.want) :
          IF m \in files
          THEN reader' = [reader EXCEPT ![r].want = @ \ {m},
               ![r].got.meta = IF @ = 0 THEN m.ts ELSE @,
               ![r].got.ctype = IF m.ctype > @ THEN m.ctype ELSE @]
          ELSE Missing(r)
    BY <1>6 DEF ReadMeta
  <2>3. CASE m \in files
    <3> DEFINE want == x.want \ {m}
               meta == IF x.got.meta = 0 THEN m.ts ELSE x.got.meta
               ctype == IF m.ctype > x.got.ctype THEN m.ctype ELSE x.got.ctype
               got == [found |-> x.got.found, data |-> x.got.data,
                       meta |-> meta, ctype |-> ctype]
    <3>1. /\ reader'[r].at = "meta" /\ reader'[r].want = want
          /\ reader'[r].began = x.began /\ reader'[r].got = got
      BY <1>0, <1>1, <1>2, <2>1, <2>2, <2>3
    <3>2. SUFFICES x.began.found /\ GotIt(got, want, x.began)
      <4> HIDE DEF got, want
      <4> QED BY <3>1 DEF SeesOne
    <3>3. x.began.found /\ GotIt(x.got, x.want, x.began)
      BY <1>0, <2>1 DEF SeesOne
    <3>4. m \in x.want /\ m \in File /\ m.ts \in Nat /\ 0 < m.ts /\ m.ctype \in Nat
          /\ \A g \in x.want : g.ts <= m.ts
      BY <1>0, <1>1 DEF Latest
    <3>5. meta = x.began.meta /\ meta # 0
      <4>1. CASE x.got.meta = 0
        <5>1. PICK n \in Latest(x.want) : n.ts = x.began.meta
          BY <2>1, <3>3, <4>1 DEF GotIt
        <5>2. n.ts = m.ts
          BY <5>1, <1>0, <1>1 DEF Latest
        <5> QED BY <3>4, <4>1, <5>1, <5>2
      <4>2. CASE x.got.meta # 0
        BY <3>3, <4>2 DEF GotIt
      <4> QED BY <4>1, <4>2
    <3>6. /\ ctype <= x.began.ctype
          /\ x.began.ctype # ctype => \E n \in want : n.ctype = x.began.ctype
      <4>1. /\ m.ctype <= x.began.ctype /\ x.got.ctype <= x.began.ctype
            /\ x.began.ctype # x.got.ctype => \E n \in x.want : n.ctype = x.began.ctype
            /\ x.got.ctype \in Nat /\ x.began.ctype \in Nat
        BY <3>3, <3>4, <1>1, <1>2 DEF GotIt
      <4> QED BY <3>4, <4>1
    <3>7. /\ x.got.found /\ x.got.data = x.began.data
          /\ \A n \in want : n.ext = "meta" /\ n.ctype <= x.began.ctype
      BY <3>3 DEF GotIt
    <3> HIDE DEF meta, ctype, want
    <3> QED BY <3>3, <3>5, <3>6, <3>7 DEF GotIt
  <2> QED BY <1>4, <2>2, <2>3
<1>7. CASE OpenEnds(r)
  <2>1. reader'[r] = [x EXCEPT !.at = "done"] /\ x.at = "meta" /\ x.want = {}
    BY <1>0, <1>7 DEF OpenEnds
  <2>2. SUFFICES x.got = x.began
    BY <1>0, <2>1 DEF SeesOne
  <2>3. x.began.found /\ GotIt(x.got, {}, x.began)
    BY <1>0, <2>1 DEF SeesOne
  <2>4. /\ x.got.found = x.began.found /\ x.got.data = x.began.data
        /\ x.got.meta = x.began.meta /\ x.got.ctype = x.began.ctype
    BY <2>3, <1>1, <1>2 DEF GotIt
  <2> QED BY <2>4, <1>1, <1>2
<1>8. CASE Close(r)
  BY <1>0, <1>8 DEF Close, SeesOne, Waiting, Nothing
<1> QED BY <1>3, <1>5, <1>6, <1>7, <1>8 DEF Read

LEMMA SeesStep ==
  ASSUME SeesInv, [Next]_vars
  PROVE  SeesInv'
<1>1. TypeOK' /\ NothingElseGoes'
  BY TypeStep, GoesStep DEF SeesInv
<1>2. ASSUME NEW r \in Readers
      PROVE  SeesOne(r)'
  <2>1. CASE reader'[r] = reader[r]
    BY <2>1 DEF SeesInv, SeesOne
  <2>2. CASE Read(r)
    BY <2>2, SeesRead
  <2>3. ASSUME NEW q \in Readers, Read(q), q # r
        PROVE  reader'[r] = reader[r]
    BY <2>3 DEF SeesInv, TypeOK, Read, Open, OpenData, ReadMeta, OpenEnds, Close, Missing
  <2>4. ASSUME NEW w \in Writers, Write(w)
        PROVE  reader' = reader
    BY <2>4 DEF Write, FinalizePut, StartCleanup, ListForCleanup, Reclaim, Remove,
                CleanupEnds, Dies
  <2> QED BY <2>1, <2>2, <2>3, <2>4 DEF Next, Ages, vars
<1> QED BY <1>1, <1>2 DEF SeesInv

LEMMA SeesInit == Init => SeesInv
<1>1. Init => \A r \in Readers : SeesOne(r)
  BY DEF Init, SeesOne, Waiting, Nothing
<1> QED BY <1>1, TypeInit, GoesInit DEF SeesInv

-----------------------------------------------------------------------------
(* What is left.                                                           *)

\* Of the .meta that are retained none is superseded by the others, whichever
\* of them comes first.
LEMMA RetainedStays ==
  ASSUME NEW ms, ms \subseteq File, \A m \in ms : m.ext = "meta",
         NEW l \in Latest(ms),
         NEW few, few \subseteq RetainedMeta({l}, ms),
         NEW o \in Latest(few), NEW f \in few
  PROVE  f \in RetainedMeta({o}, few)
<1> DEFINE second == {s \in NewestType(ms \ {l}) : s.ctype > l.ctype}
<1>0. \A g \in File : g.ts \in Nat /\ g.ctype \in Nat
  BY FileType
<1>1. /\ \A g \in few : \/ g \in second
                        \/ g = l /\ \A s \in second : s.ts # l.ts
      /\ o \in few /\ \A g \in few : g.ts <= o.ts
  BY DEF RetainedMeta, Latest
<1>2. \A s \in second : s \in ms /\ s # l /\ s.ctype > l.ctype /\ s.ts <= l.ts
  BY DEF NewestType, Latest
<1>3. \A s, u \in second : s = u
  <2>1. ms \ {l} \subseteq File /\ \A m \in ms \ {l} : m.ext = "meta"
    OBVIOUS
  <2> QED BY <2>1, NewestTypeIsOne
<1>4. l \in File /\ \A s \in second : s \in File
  BY <1>2 DEF Latest
<1> HIDE DEF second
<1>5. \A g \in few : g.ts = o.ts => g = o
  BY <1>1, <1>3
<1>6. CASE f = o
  BY <1>5, <1>6 DEF RetainedMeta, NewestType
<1>7. CASE f # o
  <2>1. f \in second /\ o = l /\ f.ts # l.ts
    BY <1>0, <1>1, <1>2, <1>3, <1>4, <1>7
  <2>2. \A g \in few \ {o} : g = f
    BY <1>1, <1>3, <2>1
  <2>3. f \in NewestType(few \ {o})
    BY <1>0, <1>4, <1>7, <2>1, <2>2 DEF NewestType
  <2>4. f.ctype > o.ctype
    BY <1>2, <2>1
  <2> QED BY <2>3, <2>4 DEF RetainedMeta
<1> QED BY <1>6, <1>7

\* What is left of a directory by a cleanup has nothing obsolete in it, nor
\* has any part of that.
LEMMA NothingObsoleteIsLeft ==
  ASSUME NEW fs, fs \subseteq File, NEW lead \in Leads(fs),
         NEW few, few \subseteq Valid(lead, fs), NEW other \in Leads(few)
  PROVE  Obsolete(other, few) = {}
<1> DEFINE ms == Kind(Undeleted(fs), "meta")
           fewer == Kind(Undeleted(few), "meta")
           data == Kind(Counting(other, few), "data")
<1>0. few \subseteq fs /\ few \subseteq File
  BY DEF Valid
<1>1. \A f \in few : ~Marked(f, few) /\ ~Marked(f, fs)
  <2>1. \A f \in few : ~Marked(f, fs)
    BY MarkedIsObsolete DEF Valid
  <2> QED BY <1>0, <2>1 DEF Marked
<1>2. \A f \in few : f \in Undeleted(few) /\ f \in Undeleted(fs)
  BY <1>0, <1>1, UndeletedIs DEF Marked, Kind
<1>3. ASSUME NEW f \in few, f \in Outdated(Counting(other, few), Latest(data))
      PROVE  FALSE
  <2>1. PICK d \in Latest(data) : f.ts < d.ts \/ (f.ts = d.ts /\ f.ext # d.ext)
    BY <1>3 DEF Outdated
  <2>2. d \in few /\ d.ext = "data"
    BY DEF Latest, Kind, Counting
  <2>3. ~Outdates(d, f) /\ ~Outdates(f, d)
    BY <1>1, <2>2 DEF Marked
  <2>4. f.ext \in {"data", "ts", "meta"} /\ f.ts \in Nat /\ d.ts \in Nat
    BY <1>0, <2>2, FileType
  <2> QED BY <2>1, <2>2, <2>3, <2>4 DEF Outdates
<1>4. ASSUME NEW f \in fewer, f \notin RetainedMeta(other, fewer)
      PROVE  FALSE
  <2>1. /\ fewer \subseteq ms /\ ms \subseteq File
        /\ \A m \in ms : m.ext = "meta"
    BY <1>0, <1>2 DEF Kind, Undeleted
  <2>2. fewer \subseteq RetainedMeta(lead, ms)
    <3>1. \A g \in fewer : g \in few /\ g \in ms
      BY <2>1 DEF Kind, Undeleted
    <3>2. \A g \in few : g \notin SupersededAfter(lead, fs)
      BY Info DEF Valid, Obsolete
    <3> QED BY <3>1, <3>2, SupersededIs
  <2> HIDE DEF fewer, ms
  <2>3. PICK l \in Latest(ms) : lead = {l}
    <3>1. \E l \in ms : l \in Latest(ms)
      BY <1>4, <2>1, LatestExists
    <3> QED BY <3>1, LeadIs DEF ms
  <2>4. PICK o \in Latest(fewer) : other = {o}
    <3>1. \E o \in fewer : o \in Latest(fewer)
      <4>1. fewer \subseteq File /\ fewer # {}
        BY <1>4, <2>1
      <4> QED BY <4>1, LatestExists
    <3> QED BY <3>1, LeadIs DEF fewer
  <2>5. f \in RetainedMeta({o}, fewer)
    BY <1>4, <2>1, <2>2, <2>3, RetainedStays
  <2> QED BY <1>4, <2>4, <2>5
<1>5. SupersededAfter(other, few) = {}
  BY <1>2, <1>4, SupersededIs
<1>6. Obsolete(other, few) = SupersededAfter(other, few) \cup Outdated(Counting(other, few), Latest(data))
  BY Info DEF Obsolete
<1>7. Outdated(Counting(other, few), Latest(data)) = {}
  BY <1>3 DEF Outdated, Counting
<1> QED BY <1>5, <1>6, <1>7

\* A step that leaves what is left as it is.
LEMMA TidyGoesOn ==
  ASSUME TidyInv, Left' = Left,
         died' = died,
         \A w \in Writers : writer[w].at = "clean" => writer'[w].at = "clean"
  PROVE  Tidy'
BY DEF TidyInv, Tidy

LEMMA TidyWrite ==
  ASSUME TidyInv, NEW w \in Writers, Write(w)
  PROVE  OneReclaim' /\ Tidy'
<1>0. /\ files \subseteq ever /\ ever \subseteq File /\ old \in Nat
      /\ \A f \in File : f.ts \in Nat
      /\ writer \in [Writers -> [at : {"idle", "clean", "remove"},
                                 reclaim : SUBSET File, removing : SUBSET File]]
      /\ TypeOK /\ NothingElseGoes
      /\ \A v \in Writers : writer[v].at # "remove" => Doomed(v) = {}
      /\ \A v \in Writers : Doomed(v) \subseteq ever
      /\ OneReclaim /\ Tidy
  BY FileType DEF TypeOK, NothingElseGoes, SeesInv, TidyInv
<1>1. ASSUME NEW f \in File, FinalizePut(w, f)
      PROVE  OneReclaim' /\ Tidy'
  <2>1. /\ died' = died /\ writer' = [writer EXCEPT ![w].at = "clean"]
    BY <1>1 DEF FinalizePut
  <2>2. writer'[w].at = "clean" /\ \A v \in Writers : writer'[v].reclaim = writer[v].reclaim
    BY <1>0, <2>1
  <2> QED BY <1>0, <2>1, <2>2 DEF Tidy, OneReclaim
<1>2. CASE StartCleanup(w)
  <2>1. \A v \in Writers : Doomed(v)' = Doomed(v) /\ writer'[v].reclaim = writer[v].reclaim
    BY <1>0, <1>2 DEF StartCleanup, Doomed
  <2>2. /\ ever' = ever /\ files' = files /\ died' = died
        /\ \A v \in Writers : writer[v].at = "clean" => writer'[v].at = "clean"
    BY <1>0, <1>2 DEF StartCleanup
  <2>3. Left' = Left
    BY <2>1, <2>2 DEF Left
  <2> QED BY <1>0, <2>1, <2>2, <2>3, TidyGoesOn DEF OneReclaim
<1>3. CASE ListForCleanup(w)
  <2>0. PICK lead \in Leads(files) :
          LET info == get_ondisk_files(lead, files)
          IN writer' = [writer EXCEPT ![w] =
               [at |-> "remove", reclaim |-> Reclaimable(info.ts),
                removing |-> info.obsolete \cup Reclaimable(info.possible_reclaim)]]
    BY <1>3 DEF ListForCleanup, SortedLeads
  <2> DEFINE info == get_ondisk_files(lead, files)
             gone == info.obsolete \cup Reclaimable(info.possible_reclaim)
             dead == Reclaimable(info.ts)
  <2>1. /\ writer' = [writer EXCEPT ![w] =
                        [at |-> "remove", reclaim |-> dead, removing |-> gone]]
        /\ UNCHANGED <<files, ever, old, late, reader, died>>
    BY <1>3, <2>0 DEF ListForCleanup
  <2>2. \A s, t \in dead : s = t
    BY <1>0, InfoType DEF Reclaimable
  <2>3. Obsolete(lead, files) \subseteq gone
    BY DEF Obsolete
  <2> HIDE DEF gone, dead
  <2>4. \A v \in Writers : Doomed(v)' = IF v = w THEN gone \cup dead ELSE Doomed(v)
    BY <1>0, <2>1 DEF Doomed
  <2>5. OneReclaim'
    BY <1>0, <2>1, <2>2 DEF OneReclaim
  <2>6. Left' \subseteq Valid(lead, files)
    <3>1. \A f \in Left' : f \notin gone /\ f \in files
      BY <2>1, <2>4 DEF Left
    <3> QED BY <2>3, <3>1 DEF Valid
  <2>7. \A other \in Leads(Left') : Obsolete(other, Left') = {}
    BY <1>0, <2>6, NothingObsoleteIsLeft
  <2>8. Tidy'
    BY <2>7 DEF Tidy, Obsolete
  <2> QED BY <2>5, <2>8
<1>4. CASE Reclaim(w)
  <2>1. PICK f \in writer[w].reclaim :
          files' = files \ {f} /\ writer' = [writer EXCEPT ![w].reclaim = {}]
    BY <1>4 DEF Reclaim
  <2>2. writer[w].reclaim = {f}
    BY <1>0, <2>1 DEF OneReclaim
  <2>3. \A v \in Writers : Doomed(v)' \cup (IF v = w THEN {f} ELSE {}) = Doomed(v)
    BY <1>0, <2>1, <2>2 DEF Doomed
  <2>4. Left' = Left
    BY <2>1, <2>2, <2>3 DEF Left
  <2>5. /\ died' = died
        /\ \A v \in Writers : writer[v].at = "clean" => writer'[v].at = "clean"
    BY <1>0, <1>4 DEF Reclaim
  <2>6. OneReclaim'
    BY <1>0, <2>1 DEF OneReclaim
  <2> QED BY <2>4, <2>5, <2>6, TidyGoesOn
<1>5. CASE Remove(w)
  <2>1. PICK f \in writer[w].removing :
          files' = files \ {f} /\ writer' = [writer EXCEPT ![w].removing = @ \ {f}]
    BY <1>5 DEF Remove
  <2>2. \A v \in Writers : Doomed(v) \ {f} \subseteq Doomed(v)' /\ Doomed(v)' \subseteq Doomed(v)
    BY <1>0, <2>1 DEF Doomed
  <2>3. f \in Doomed(w)
    BY DEF Doomed
  <2>4. Left' = Left
    BY <2>1, <2>2, <2>3 DEF Left
  <2>5. /\ died' = died
        /\ \A v \in Writers : writer[v].at = "clean" => writer'[v].at = "clean"
    BY <1>0, <1>5 DEF Remove
  <2>6. OneReclaim'
    BY <1>0, <2>1 DEF OneReclaim
  <2> QED BY <2>4, <2>5, <2>6, TidyGoesOn
<1>6. CASE CleanupEnds(w)
  <2>1. /\ writer[w].reclaim = {} /\ writer[w].removing = {} /\ writer[w].at = "remove"
        /\ writer' = [writer EXCEPT ![w] = Resting]
        /\ files' = files /\ died' = died
    BY <1>6 DEF CleanupEnds
  <2>2. \A v \in Writers : Doomed(v)' = Doomed(v)
    BY <1>0, <2>1 DEF Doomed, Resting
  <2>3. Left' = Left
    BY <2>1, <2>2 DEF Left
  <2>4. \A v \in Writers : writer[v].at = "clean" => writer'[v].at = "clean"
    BY <1>0, <2>1
  <2>5. OneReclaim'
    BY <1>0, <2>1 DEF OneReclaim, Resting
  <2> QED BY <2>1, <2>3, <2>4, <2>5, TidyGoesOn
<1>7. CASE Dies(w)
  <2>1. died' /\ writer' = [writer EXCEPT ![w] = Resting]
    BY <1>7 DEF Dies
  <2> QED BY <1>0, <2>1 DEF OneReclaim, Tidy, Resting
<1> QED BY <1>1, <1>2, <1>3, <1>4, <1>5, <1>6, <1>7 DEF Write

LEMMA TidyStep ==
  ASSUME TidyInv, [Next]_vars
  PROVE  TidyInv'
<1>1. SeesInv'
  BY SeesStep DEF TidyInv
<1>2. CASE UNCHANGED <<files, writer, died>>
  <2>1. Left' = Left
    BY <1>2 DEF Left, Doomed
  <2>2. OneReclaim'
    BY <1>2 DEF TidyInv, OneReclaim
  <2> QED BY <1>1, <1>2, <2>1, <2>2, TidyGoesOn DEF TidyInv
<1>3. ASSUME NEW r \in Readers, Read(r)
      PROVE  UNCHANGED <<files, writer, died>>
  BY <1>3 DEF Read, Open, OpenData, ReadMeta, OpenEnds, Close, Missing
<1>4. OneReclaim' /\ Tidy'
  BY <1>2, <1>3, TidyWrite DEF TidyInv, Next, Ages, vars
<1> QED BY <1>1, <1>4 DEF TidyInv

LEMMA TidyInit == Init => TidyInv
<1> SUFFICES ASSUME Init
             PROVE  TidyInv
  OBVIOUS
<1>1. files = {} /\ Left = {}
  BY DEF Init, Left
<1>2. \A lead \in Leads({}) : Obsolete(lead, {}) = {}
  BY ObsoleteIsSuperfluous
<1>3. OneReclaim
  BY DEF Init, OneReclaim, Resting
<1> QED BY <1>1, <1>2, <1>3, SeesInit DEF TidyInv, Tidy

-----------------------------------------------------------------------------

LEMMA TidyAlways == Spec => []TidyInv
<1>1. TidyInv /\ [Next]_vars => TidyInv'
  BY TidyStep
<1> QED BY <1>1, TidyInit, PTL DEF Spec

\* However any number of writers race with their cleanups (FinalizePut,
\* ListForCleanup, Reclaim, Remove), die or find things aged, the files keep
\* their types and the directory opens as what was ever written into it says:
\* no cleanup takes the newest data, nor, unless .meta files clash or the data
\* came past the reclaim age, its newest metadata or content type.
THEOREM OnDiskInvAlways == Spec => []OnDiskInv
<1>1. TidyInv => OnDiskInv
  BY KeptByThat DEF TidyInv, SeesInv, OnDiskInv
<1> QED BY <1>1, TidyAlways, PTL

\* DiskFile.open, which lists the directory once and then opens the files one
\* by one while others write and unlink them, returns the state at its
\* listing or nothing, for any number of readers.
THEOREM OpensOneStateAlways == Spec => []OpensOneState
<1>1. TidyInv => OpensOneState
  BY DEF TidyInv, SeesInv, SeesOne, OpensOneState
<1> QED BY <1>1, TidyAlways, PTL

\* cleanup_ondisk_files after every write is enough: when every writer has
\* finished and none has died, nothing in the directory is obsolete, although
\* each one unlinks from a listing that may be out of date.
THEOREM QuietIsCleanAlways == Spec => []QuietIsClean
<1>1. ASSUME TidyInv
      PROVE  QuietIsClean
  <2> SUFFICES ASSUME \A w \in Writers : writer[w] = Resting, ~died,
                      NEW lead \in Leads(files)
               PROVE  Obsolete(lead, files) = {}
    BY DEF QuietIsClean, Obsolete
  <2>1. Left = files
    BY DEF Left, Doomed, Resting
  <2>2. \A w \in Writers : writer[w].at # "clean"
    BY DEF Resting
  <2> QED BY <1>1, <2>1, <2>2 DEF TidyInv, Tidy
<1>2. TidyInv => QuietIsClean
  BY <1>1
<1> QED BY <1>2, TidyAlways, PTL
=============================================================================
