------------------------------ MODULE ECProofs ------------------------------
(***************************************************************************)
(* EC keeps what its invariants say, for any number of writers, files,     *)
(* timestamps and fragments. The inductive invariant FilesInv says of      *)
(* every file that is gone, or about to go, why it can be dispensed with,  *)
(* in terms of what was ever written (ever); what the directory means is   *)
(* then read off that.                                                     *)
(***************************************************************************)
EXTENDS EC, TLAPS, FiniteSetTheorems

-----------------------------------------------------------------------------
\* The newest timestamp among some files, or 0.
Top(fs) == Largest({0} \cup {f.ts : f \in fs})

\* The files that say that a time is durable.
Marks(fs) == {f \in fs : f.ext = "durable" \/ f.durable}

\* The tombstone t deletes the file f.
Deletes(t, f) == t.ext = "ts" /\ (f.ts < t.ts \/ (f.ts = t.ts /\ f.ext # "ts"))

\* What is left when the files that are outdated are taken away, and of it
\* the durable fragments.
Counting(fs) == fs \ Superseded(fs)
DurableSet(fs) == At(Kind(Counting(fs), "data"), DurableTime(Counting(fs)))

-----------------------------------------------------------------------------
\* A finite set of integers has a greatest element: strict inclusion of finite
\* sets is well-founded.
LEMMA GreatestExists ==
  ASSUME NEW S, S \subseteq Int, IsFiniteSet(S), S # {}
  PROVE  \E x \in S : \A y \in S : y <= x
<1> DEFINE From(x) == {y \in S : x <= y}
           Segments == {From(x) : x \in S}
           R == StrictSubsetOrdering(S)
<1>1. Segments \subseteq FiniteSubsetsOf(S) /\ Segments # {}
  <2>1. \A x \in S : IsFiniteSet(From(x)) /\ From(x) \in SUBSET S
    BY FS_Subset
  <2> QED BY <2>1 DEF FiniteSubsetsOf
<1>2. IsWellFoundedOn(R, FiniteSubsetsOf(S))
  BY FS_StrictSubsetOrderingWellFounded
<1> HIDE DEF R
<1>3. PICK s \in Segments : \A t \in Segments : ~(<<t, s>> \in R)
  <2> HIDE DEF Segments
  <2> QED BY <1>1, <1>2, WFMin
<1>4. PICK x \in S : s = From(x)
  OBVIOUS
<1>5. ASSUME NEW y \in S, ~(y <= x)
      PROVE  FALSE
  <2>1. /\ From(y) \in Segments
        /\ From(y) \in SUBSET S /\ From(x) \in SUBSET S
        /\ From(y) \subseteq From(x)
        /\ x \in From(x) /\ x \notin From(y)
    <3>1. x \in Int /\ y \in Int /\ x < y
      BY <1>5
    <3>2. From(y) \in Segments /\ From(y) \in SUBSET S /\ From(x) \in SUBSET S
      OBVIOUS
    <3>3. \A z \in S : y <= z => x <= z
      BY <3>1
    <3>4. x \in From(x) /\ x \notin From(y)
      BY <3>1
    <3> QED BY <3>2, <3>3, <3>4
  <2>2. <<From(y), From(x)>> \in R
    BY <2>1 DEF R, StrictSubsetOrdering
  <2> QED BY <2>1, <2>2, <1>3, <1>4
<1> QED BY <1>5

\* So Largest is a greatest element.
LEMMA LargestIs ==
  ASSUME NEW S, S \subseteq Int, IsFiniteSet(S), S # {}
  PROVE  Largest(S) \in S /\ \A y \in S : y <= Largest(S)
BY GreatestExists DEF Largest

\* What the name of a file says.
WellNamed(f) ==
  /\ f.ext \in {"data", "ts", "meta", "durable"}
  /\ f.ts \in Time /\ f.ts \in Nat /\ 1 <= f.ts /\ f.ts <= MaxTime
  /\ f.ctype = 0
  /\ f.frag \in Frags \cup {NoIndex}
  /\ f.durable \in BOOLEAN
  /\ f.ext = "data" => f.frag \in Frags /\ f = DataFile(f.ts, f.frag, f.durable)
  /\ f.ext # "data" => /\ f.frag = NoIndex /\ f.durable = FALSE
                       /\ f = OtherFile(f.ext, f.ts)

\* The time stamps, and what the names of files hold.
LEMMA TimeIs == \A t \in Time : t \in Nat /\ 1 <= t /\ t <= MaxTime
BY ECAssumption DEF Time

LEMMA DataIsNamed ==
  ASSUME NEW t \in Time, NEW fi \in Frags, NEW d \in BOOLEAN
  PROVE  WellNamed(DataFile(t, fi, d))
<1> DEFINE f == DataFile(t, fi, d)
<1>1. /\ f.ext = "data" /\ f.ts = t /\ f.ctype = 0 /\ f.frag = fi /\ f.durable = d
  BY DEF DataFile
<1>2. f = DataFile(f.ts, f.frag, f.durable)
  BY <1>1, Zenon
<1>3. f.ts \in Time /\ f.frag \in Frags /\ f.durable \in BOOLEAN
  BY <1>1, Zenon
<1> HIDE DEF f
<1>4. f.ts \in Nat /\ 1 <= f.ts /\ f.ts <= MaxTime
  BY <1>1, TimeIs
<1>5. WellNamed(f)
  BY <1>1, <1>2, <1>3, <1>4, Zenon DEF WellNamed
<1> QED BY <1>5 DEF f

LEMMA OtherIsNamed ==
  ASSUME NEW t \in Time, NEW ext \in {"ts", "meta", "durable"}
  PROVE  WellNamed(OtherFile(ext, t))
<1> DEFINE f == OtherFile(ext, t)
<1>1. /\ f.ext = ext /\ f.ts = t /\ f.ctype = 0 /\ f.frag = NoIndex /\ f.durable = FALSE
  BY DEF OtherFile
<1>2. f = OtherFile(f.ext, f.ts)
  BY <1>1, Zenon
<1>3. f.ts \in Time /\ f.durable \in BOOLEAN /\ f.ext # "data"
  BY <1>1, Zenon
<1> HIDE DEF f
<1>4. f.ts \in Nat /\ 1 <= f.ts /\ f.ts <= MaxTime
  BY <1>1, TimeIs
<1>5. WellNamed(f)
  BY <1>1, <1>2, <1>3, <1>4, Zenon DEF WellNamed
<1> QED BY <1>5 DEF f

LEMMA FileIsNamed == \A f \in File : WellNamed(f)
<1> SUFFICES ASSUME NEW f \in File
             PROVE  WellNamed(f)
  OBVIOUS
<1>1. ASSUME NEW t \in Time, NEW fi \in Frags, NEW d \in BOOLEAN, f = DataFile(t, fi, d)
      PROVE  WellNamed(f)
  BY <1>1, DataIsNamed, Zenon
<1>2. ASSUME NEW t \in Time, NEW ext \in {"ts", "meta", "durable"}, f = OtherFile(ext, t)
      PROVE  WellNamed(f)
  BY <1>2, OtherIsNamed, Zenon
<1>3. \/ \E t \in Time, fi \in Frags, d \in BOOLEAN : f = DataFile(t, fi, d)
      \/ \E t \in Time, ext \in {"ts", "meta", "durable"} : f = OtherFile(ext, t)
  BY DEF File
<1> QED BY <1>1, <1>2, <1>3, Zenon

LEMMA FileType ==
  ASSUME NEW f \in File
  PROVE  /\ f.ext \in {"data", "ts", "meta", "durable"}
         /\ f.ts \in Time /\ f.ts \in Nat /\ 1 <= f.ts /\ f.ts <= MaxTime
         /\ f.ctype = 0
         /\ f.frag \in Frags \cup {NoIndex}
         /\ f.durable \in BOOLEAN
         /\ f.ext = "data" => f.frag \in Frags /\ f = DataFile(f.ts, f.frag, f.durable)
         /\ f.ext # "data" => /\ f.frag = NoIndex /\ f.durable = FALSE
                              /\ f = OtherFile(f.ext, f.ts)
BY FileIsNamed, Zenon DEF WellNamed

\* A rename to the durable name.
LEMMA Renamed ==
  ASSUME NEW t, NEW fi, NEW d, NEW v
  PROVE  [DataFile(t, fi, d) EXCEPT !.durable = v] = DataFile(t, fi, v)
<1> DEFINE r == DataFile(t, fi, d)
           q == [r EXCEPT !.durable = v]
           p == DataFile(t, fi, v)
           Fields == {"ext", "ts", "ctype", "frag", "durable"}
<1>1. DOMAIN r = Fields /\ DOMAIN p = Fields
  BY DEF DataFile
<1>2. DOMAIN q = Fields
  BY <1>1
<1>3. q.ext = "data" /\ q.ts = t /\ q.ctype = 0 /\ q.frag = fi /\ q.durable = v
  BY DEF DataFile
<1>4. p.ext = "data" /\ p.ts = t /\ p.ctype = 0 /\ p.frag = fi /\ p.durable = v
  BY DEF DataFile
<1>5. q = [x \in Fields |-> q[x]] /\ p = [x \in Fields |-> p[x]]
  BY <1>1, <1>2 DEF DataFile
<1>6. \A x \in Fields : q[x] = p[x]
  BY <1>3, <1>4
<1> HIDE DEF p, q, r
<1>7. p = q
  BY <1>5, <1>6
<1> QED BY <1>7 DEF p, q, r

LEMMA RenamedDurable ==
  ASSUME NEW t, NEW fi, NEW d
  PROVE  Durable(DataFile(t, fi, d)) = DataFile(t, fi, TRUE)
<1>1. \A v : [DataFile(t, fi, d) EXCEPT !.durable = v] = DataFile(t, fi, v)
  BY Renamed
<1>2. [DataFile(t, fi, d) EXCEPT !.durable = TRUE] = DataFile(t, fi, TRUE)
  BY <1>1, Zenon
<1> QED BY <1>2 DEF Durable

LEMMA DataFileIs ==
  ASSUME NEW t \in Time, NEW fi \in Frags, NEW d \in BOOLEAN
  PROVE  /\ DataFile(t, fi, d) \in File
         /\ DataFile(t, fi, d).ext = "data" /\ DataFile(t, fi, d).ts = t
         /\ DataFile(t, fi, d).frag = fi /\ DataFile(t, fi, d).durable = d
         /\ Durable(DataFile(t, fi, d)) = DataFile(t, fi, TRUE)
<1>1. DataFile(t, fi, d) \in File
  BY DEF File
<1>2. /\ DataFile(t, fi, d).ext = "data" /\ DataFile(t, fi, d).ts = t
      /\ DataFile(t, fi, d).frag = fi /\ DataFile(t, fi, d).durable = d
  BY Zenon DEF DataFile
<1>3. Durable(DataFile(t, fi, d)) = DataFile(t, fi, TRUE)
  BY RenamedDurable
<1> QED BY <1>1, <1>2, <1>3

LEMMA OtherFileIs ==
  ASSUME NEW t \in Time, NEW ext \in {"ts", "meta", "durable"}
  PROVE  /\ OtherFile(ext, t) \in File
         /\ OtherFile(ext, t).ext = ext /\ OtherFile(ext, t).ts = t
<1>1. OtherFile(ext, t) \in File
  BY DEF File
<1> QED BY <1>1 DEF OtherFile

LEMMA DurableIsFile ==
  ASSUME NEW f \in File, f.ext = "data"
  PROVE  /\ Durable(f) \in File
         /\ Durable(f).ext = "data" /\ Durable(f).ts = f.ts
         /\ Durable(f).frag = f.frag /\ Durable(f).durable = TRUE
<1>1. /\ f.ts \in Time /\ f.frag \in Frags /\ f.durable \in BOOLEAN
      /\ f = DataFile(f.ts, f.frag, f.durable)
  BY FileType
<1> DEFINE t == f.ts  fi == f.frag  d == f.durable
<1> HIDE DEF t, fi, d
<1>2. f = DataFile(t, fi, d) /\ t \in Time /\ fi \in Frags /\ d \in BOOLEAN
  BY <1>1 DEF t, fi, d
<1>3. Durable(f) = DataFile(t, fi, TRUE) /\ f.ts = t /\ f.frag = fi
  BY <1>2, DataFileIs, Zenon
<1>4. TRUE \in BOOLEAN
  OBVIOUS
<1>5. /\ DataFile(t, fi, TRUE) \in File
      /\ DataFile(t, fi, TRUE).ext = "data" /\ DataFile(t, fi, TRUE).ts = t
      /\ DataFile(t, fi, TRUE).frag = fi /\ DataFile(t, fi, TRUE).durable = TRUE
  BY <1>2, <1>4, DataFileIs, Zenon
<1> QED BY <1>3, <1>5, Zenon

\* The newest timestamp is one of them and no older than any.
LEMMA TopIs ==
  ASSUME NEW fs, fs \subseteq File
  PROVE  /\ Top(fs) \in Nat
         /\ Top(fs) = 0 \/ \E f \in fs : f.ts = Top(fs)
         /\ \A f \in fs : f.ts <= Top(fs)
<1> DEFINE S == {0} \cup {f.ts : f \in fs}
<1>1. S \subseteq 0 .. MaxTime /\ S # {} /\ MaxTime \in Nat
  <2>1. \A f \in fs : f.ts \in 0 .. MaxTime
    <3> TAKE f \in fs
    <3>1. f.ts \in Nat /\ 1 <= f.ts /\ f.ts <= MaxTime
      BY FileType
    <3> QED BY <3>1
  <2> QED BY <2>1, ECAssumption
<1>2. Largest(S) \in S /\ \A y \in S : y <= Largest(S)
  <2> HIDE DEF S
  <2>1. IsFiniteSet(0 .. MaxTime)
    BY <1>1, FS_Interval
  <2>2. IsFiniteSet(S)
    BY <1>1, <2>1, FS_Subset
  <2>3. S \subseteq Int
    BY <1>1
  <2> QED BY <1>1, <2>2, <2>3, LargestIs
<1>4. Top(fs) = Largest(S)
  BY DEF Top
<1>5. S \subseteq Nat
  BY <1>1
<1> HIDE DEF S
<1>6. Top(fs) \in S /\ \A y \in S : y <= Top(fs)
  BY <1>2, <1>4
<1> QED BY <1>5, <1>6 DEF S

LEMMA DurableTimeIs ==
  ASSUME NEW fs
  PROVE  DurableTime(fs) = Top(Marks(fs))
BY DEF DurableTime, Top, Marks

\* The fragment index that is chosen among some files is one of theirs.
LEMMA TopFragment ==
  ASSUME NEW fs, fs \subseteq File, IsFiniteSet(fs), fs # {}
  PROVE  \E f \in fs : f.frag = Largest({NoIndex} \cup {g.frag : g \in fs})
<1> DEFINE S == {NoIndex} \cup {g.frag : g \in fs}
<1>1. S \subseteq Int /\ \A f \in fs : f.frag >= NoIndex
  <2>1. \A f \in fs : f.frag \in Nat \cup {NoIndex}
    <3> TAKE f \in fs
    <3> QED BY FileType, ECAssumption
  <2> QED BY <2>1 DEF NoIndex
<1>2. IsFiniteSet(S) /\ S # {}
  <2>1. IsFiniteSet({g.frag : g \in fs})
    <3> DEFINE T == {g.frag : g \in fs}
               F == [g \in fs |-> g.frag]
    <3>1. F \in Surjection(fs, T)
      BY DEF Surjection
    <3> HIDE DEF T, F
    <3>2. IsFiniteSet(T)
      BY <3>1, FS_Surjection
    <3> QED BY <3>2 DEF T
  <2> QED BY <2>1, FS_Union, FS_Singleton
<1> DEFINE m == Largest(S)
<1>3. m \in S /\ \A y \in S : y <= m
  <2> HIDE DEF S
  <2> QED BY <1>1, <1>2, LargestIs
<1> HIDE DEF m
<1>4. ASSUME m = NoIndex PROVE \E f \in fs : f.frag = m
  <2>1. PICK f \in fs : TRUE
    OBVIOUS
  <2>2. f.frag \in Int /\ f.frag >= NoIndex /\ f.frag <= NoIndex
    <3>1. f.frag \in S
      OBVIOUS
    <3> HIDE DEF S
    <3>2. f.frag <= m /\ f.frag \in Int /\ f.frag >= NoIndex
      BY <1>1, <1>3, <3>1
    <3> QED BY <3>2, <1>4
  <2> QED BY <2>1, <2>2, <1>4 DEF NoIndex
<1>5. ASSUME m # NoIndex PROVE \E f \in fs : f.frag = m
  BY <1>3, <1>5
<1> QED BY <1>4, <1>5 DEF m

\* What is outdated has been deleted by the newest tombstone.
LEMMA NewestTombstone ==
  ASSUME NEW fs, fs \subseteq File, NEW t \in fs, t.ext = "ts"
  PROVE  \E m \in Latest(Kind(fs, "ts")) : m.ext = "ts" /\ t.ts <= m.ts
<1> DEFINE T == Kind(fs, "ts")
<1>1. T \subseteq File /\ t \in T /\ \A g \in T : g.ext = "ts"
  BY DEF Kind
<1>2. \A g \in T : g.ts \in Nat /\ g.ts >= 1 /\ g.ctype = 0
  BY <1>1, FileType
<1> HIDE DEF T
<1>3. Top(T) \in Nat /\ (Top(T) = 0 \/ \E f \in T : f.ts = Top(T)) /\ \A f \in T : f.ts <= Top(T)
  BY <1>1, TopIs
<1>4. PICK m \in T : m.ts = Top(T)
  BY <1>1, <1>2, <1>3
<1>5. \A g \in T : g.ts <= m.ts
  BY <1>3, <1>4
<1>6. m \in Latest(T)
  BY <1>5 DEF Latest
<1>7. t.ts <= m.ts
  BY <1>1, <1>3, <1>4
<1> QED BY <1>1, <1>6, <1>7 DEF T

LEMMA SupersededIs ==
  ASSUME NEW fs, fs \subseteq File
  PROVE  /\ Superseded(fs) \subseteq fs
         /\ \A f \in fs : (\E t \in fs : Deletes(t, f)) => f \in Superseded(fs)
         /\ \A f \in fs : f.ext # "meta" /\ f \in Superseded(fs)
                            => \E t \in fs : Deletes(t, f)
<1>1. Superseded(fs) \subseteq fs
  BY DEF Superseded, SupersededAfter, Undeleted, Outdated, Kind
<1>2. ASSUME NEW f \in fs, NEW t \in fs, Deletes(t, f)
      PROVE  f \in Superseded(fs)
  <2>1. PICK m \in Latest(Kind(fs, "ts")) : m.ext = "ts" /\ t.ts <= m.ts
    BY <1>2, NewestTombstone DEF Deletes
  <2>2. m \in fs
    BY <2>1 DEF Latest, Kind
  <2>3. f.ts \in Nat /\ t.ts \in Nat /\ m.ts \in Nat
    BY <2>2, FileType
  <2>4. f.ts < m.ts \/ (f.ts = m.ts /\ f.ext # m.ext)
    BY <1>2, <2>1, <2>3 DEF Deletes
  <2>5. f \in Outdated(fs, Latest(Kind(fs, "ts")))
    BY <2>1, <2>4 DEF Outdated
  <2> QED BY <2>5 DEF Superseded, SupersededAfter, Undeleted
<1>3. ASSUME NEW f \in fs, f.ext # "meta", f \in Superseded(fs)
      PROVE  \E t \in fs : Deletes(t, f)
  <2>1. f \in Outdated(fs, Latest(Kind(fs, "ts")))
    BY <1>3 DEF Superseded, SupersededAfter, Undeleted, Kind
  <2>2. PICK b \in Latest(Kind(fs, "ts")) : f.ts < b.ts \/ (f.ts = b.ts /\ f.ext # b.ext)
    BY <2>1 DEF Outdated
  <2>3. b \in fs /\ b.ext = "ts"
    BY <2>2 DEF Latest, Kind
  <2> QED BY <2>2, <2>3 DEF Deletes
<1> QED BY <1>1, <1>2, <1>3

LEMMA CountingIs ==
  ASSUME NEW fs, fs \subseteq File
  PROVE  /\ Counting(fs) \subseteq fs
         /\ \A f \in Counting(fs), t \in fs : ~Deletes(t, f)
         /\ \A f \in fs : f.ext # "meta" /\ (\A t \in fs : ~Deletes(t, f))
                            => f \in Counting(fs)
BY SupersededIs DEF Counting

\* The fragments an open may choose from.
Candidates(fs) ==
  IF DurableSet(fs) = {} THEN Kind(Counting(fs), "data")
  ELSE {f \in Kind(Counting(fs), "data") : f.ts >= DurableTime(Counting(fs))}

\* What get_ondisk_files makes of a listing.
LEMMA InfoIs ==
  ASSUME NEW fs, NEW index, NEW prefs
  PROVE  LET info == get_ondisk_files(fs, index, prefs)
             at == DurableTime(Counting(fs))
         IN /\ info.data = Choose(Candidates(fs), DurableSet(fs), index, prefs)
            /\ info.data = {} => info.durable = {}
            /\ info.data # {} => info.durable = DurableSet(fs) /\ info.ts = {}
            /\ info.data = {} =>
                 \A f : f \in info.ts <=> /\ f \in Counting(fs) /\ f.ext = "ts"
                                          /\ ~(f.ts < at)
            /\ \A f \in info.obsolete :
                 \/ f \in Superseded(fs)
                 \/ f \in Counting(fs) /\ f.ts < at
                 \/ /\ DurableSet(fs) = {} /\ f \in Counting(fs)
                    /\ f.ext = "durable" /\ f.ts = at
            /\ info.possible_reclaim \subseteq Counting(fs)
<1> DEFINE info == get_ondisk_files(fs, index, prefs)
           exts == Counting(fs)
           durableAt == DurableTime(exts)
           durableSet == DurableSet(fs)
           fragments == Candidates(fs)
           data == Choose(fragments, durableSet, index, prefs)
           at == Largest({0} \cup {f.ts : f \in data})
           hidden == {m \in Kind(exts, "meta") : at > durableAt /\ m.ts <= at}
           isolated == IF durableSet = {} THEN At(Kind(exts, "durable"), durableAt) ELSE {}
           older == {f \in exts \ hidden : f.ts < durableAt}
           metas == Kind(exts, "meta") \ (hidden \cup older)
<1>1. info =
        [data |-> data,
         durable |-> IF data = {} THEN {} ELSE durableSet,
         meta |-> IF data = {} THEN {} ELSE Latest(metas),
         ts |-> IF data = {} THEN Kind(exts, "ts") \ older ELSE {},
         possible_reclaim |-> (fragments \ (durableSet \cup At(fragments, at)))
                                \cup (IF durableSet = {} THEN metas ELSE {}),
         obsolete |-> Superseded(fs) \cup older \cup isolated]
  BY DEF get_ondisk_files, Counting, DurableSet, Candidates
<1> HIDE DEF info
<1>2. /\ info.data = data
      /\ info.durable = IF data = {} THEN {} ELSE durableSet
      /\ info.ts = IF data = {} THEN Kind(exts, "ts") \ older ELSE {}
      /\ info.possible_reclaim = (fragments \ (durableSet \cup At(fragments, at)))
                                   \cup (IF durableSet = {} THEN metas ELSE {})
      /\ info.obsolete = Superseded(fs) \cup older \cup isolated
  BY <1>1
<1>3. fragments \subseteq exts /\ metas \subseteq exts
  BY DEF Candidates, Kind
<1>4. \A f \in isolated : durableSet = {} /\ f \in exts /\ f.ext = "durable" /\ f.ts = durableAt
  BY DEF At, Kind
<1>5. \A f \in older : f \in exts /\ f.ts < durableAt
  OBVIOUS
<1>6. \A f : f \in Kind(exts, "ts") \ older
               <=> f \in exts /\ f.ext = "ts" /\ ~(f.ts < durableAt)
  BY DEF Kind
<1> HIDE DEF data, exts, durableAt, durableSet, fragments, isolated, older, metas, at
<1>7. /\ info.data = data
      /\ data = {} => info.durable = {}
      /\ data # {} => info.durable = durableSet /\ info.ts = {}
      /\ data = {} => \A f : f \in info.ts <=> f \in exts /\ f.ext = "ts" /\ ~(f.ts < durableAt)
      /\ \A f \in info.obsolete :
           \/ f \in Superseded(fs)
           \/ f \in exts /\ f.ts < durableAt
           \/ durableSet = {} /\ f \in exts /\ f.ext = "durable" /\ f.ts = durableAt
      /\ info.possible_reclaim \subseteq exts
  BY <1>2, <1>3, <1>4, <1>5, <1>6
<1> QED BY <1>7 DEF info, data, exts, durableAt, durableSet, fragments

\* Without preferences it is a fragment of the durable set that is chosen, if
\* it has any.
LEMMA ChooseIs ==
  ASSUME NEW frags, NEW durableSet, durableSet \subseteq File, IsFiniteSet(durableSet),
         NEW index
  PROVE  /\ Choose(frags, durableSet, index, NoPrefs) \subseteq durableSet
         /\ index = NoIndex /\ durableSet # {}
              => Choose(frags, durableSet, index, NoPrefs) # {}
<1>1. NoPrefs.given = FALSE
  BY DEF NoPrefs
<1> DEFINE wanted == IF index = NoIndex
                     THEN Largest({NoIndex} \cup {f.frag : f \in durableSet}) ELSE index
<1>2. Choose(frags, durableSet, index, NoPrefs) = {f \in durableSet : f.frag = wanted}
  BY <1>1 DEF Choose
<1> QED BY <1>2, TopFragment

\* What makes a file one that nobody will miss: a tombstone that deletes it,
\* something newer that is durable, or that it was renamed.
Beaten(f) ==
  \/ \E t \in ever : Deletes(t, f)
  \/ \E m \in Marks(ever) : f.ts < m.ts
  \/ f.ext = "data" /\ ~f.durable /\ Durable(f) \in ever

\* Or a purge took it, of what is not data what it belonged to; or it is past
\* the reclaim age and, if it still awaits its commit, the commit window.
Dispensable(f) ==
  \/ Beaten(f)
  \/ f.ext = "data" /\ f \in purged
  \/ f.ext # "data" /\ purged # {}
  \/ f.ts < old /\ (f.ext = "data" /\ ~f.durable => f \in late)

\* What a cleanup is about to take away.
Doomed(w) == writer[w].removing \cup writer[w].reclaim

\* Nothing but what can be dispensed with has gone, or is about to go; which
\* of the .meta files are left does not matter to the data.
NothingElseGoes ==
  \A f \in ever : f.ext # "meta" /\ (f \notin files \/ \E w \in Writers : f \in Doomed(w))
                    => Dispensable(f)

\* Nobody unlinks what was never there.
Known == \A w \in Writers : Doomed(w) \subseteq ever

\* An older version wrote its .durable next to a fragment.
LegacyHasData ==
  \A g \in ever : g.ext = "durable" => \E f \in ever : f.ext = "data" /\ f.ts = g.ts

\* Who commits has put the fragment.
CommitsOwn ==
  \A w \in Writers : writer[w].at = "commit" =>
    \A f \in writer[w].file : f \in ever /\ f.ext = "data" /\ ~f.durable

\* What was answered well still means something at least as new.
AckedStands == \A f \in acked : Meaning(ever).at >= f.ts

\* The inductive invariant.
FilesInv ==
  /\ TypeOK
  /\ IsFiniteSet(ever)
  /\ NothingElseGoes
  /\ Known
  /\ LegacyHasData
  /\ CommitsOwn
  /\ AckedStands

-----------------------------------------------------------------------------
LEMMA MarkIsNoTombstone ==
  ASSUME NEW f \in File, f.ext = "durable" \/ f.durable
  PROVE  f.ext # "ts" /\ f.ext # "meta"
<1>1. f.ext # "data" => f.durable = FALSE
  BY FileType
<1> QED BY <1>1, Zenon

\* A listing takes for obsolete, and for what can be reclaimed, only what can
\* be dispensed with.
LEMMA ObsoleteIsDispensable ==
  ASSUME TypeOK, NothingElseGoes, LegacyHasData,
         NEW f \in get_ondisk_files(files, NoIndex, NoPrefs).obsolete, f.ext # "meta"
  PROVE  Dispensable(f)
<1> DEFINE exts == Counting(files)
           at == DurableTime(exts)
<1>1. files \subseteq ever /\ ever \subseteq File /\ files \subseteq File
  BY DEF TypeOK
<1>2. exts \subseteq files /\ exts \subseteq File
  BY <1>1, CountingIs
<1>3. \/ f \in Superseded(files)
      \/ f \in exts /\ f.ts < at
      \/ DurableSet(files) = {} /\ f \in exts /\ f.ext = "durable" /\ f.ts = at
  BY InfoIs
<1>4. CASE f \in Superseded(files)
  <2>1. f \in files
    BY <1>1, <1>4, SupersededIs
  <2>2. \E t \in files : Deletes(t, f)
    BY <1>1, <1>4, <2>1, SupersededIs
  <2> QED BY <1>1, <2>2 DEF Dispensable, Beaten
<1>5. CASE f \in exts /\ f.ts < at
  <2>1. at \in Nat /\ (at = 0 \/ \E m \in Marks(exts) : m.ts = at)
    <3>1. Marks(exts) \subseteq File
      BY <1>2 DEF Marks
    <3>2. at = Top(Marks(exts))
      BY DurableTimeIs
    <3> QED BY <3>1, <3>2, TopIs
  <2>2. f.ts \in Nat
    BY <1>2, <1>5, FileType
  <2>3. PICK m \in Marks(exts) : m.ts = at
    BY <1>5, <2>1, <2>2
  <2>4. m \in Marks(ever)
    BY <1>1, <1>2 DEF Marks
  <2> QED BY <1>5, <2>3, <2>4 DEF Dispensable, Beaten
<1>6. CASE DurableSet(files) = {} /\ f \in exts /\ f.ext = "durable" /\ f.ts = at
  <2>1. f \in ever /\ f \in files /\ f.ext # "data" /\ f.ext # "ts" /\ f \in File
    BY <1>1, <1>2, <1>6
  <2>2. PICK d \in ever : d.ext = "data" /\ d.ts = f.ts
    BY <1>6, <2>1 DEF LegacyHasData
  <2>3. d \in File /\ d.ext # "meta" /\ d.ext # "ts"
    BY <1>1, <2>2
  \* Whatever makes one of its fragments dispensable makes it so.
  <2>4. ASSUME NEW g \in ever, g.ext = "data", g.ts = f.ts, g \in files
        PROVE  Dispensable(f)
    <3>1. g \notin exts
      BY <1>6, <2>4 DEF DurableSet, At, Kind
    <3>2. PICK t \in files : Deletes(t, g)
      BY <1>1, <2>4, <3>1, CountingIs
    <3>3. Deletes(t, f)
      BY <2>1, <2>4, <3>2 DEF Deletes
    <3> QED BY <1>1, <3>3 DEF Dispensable, Beaten
  <2>5. ASSUME NEW g \in ever, g.ext = "data", g.ts = f.ts, Dispensable(g),
               ~(~g.durable /\ Durable(g) \in ever)
        PROVE  Dispensable(f)
    <3>1. CASE \E t \in ever : Deletes(t, g)
      BY <2>1, <2>5, <3>1 DEF Dispensable, Beaten, Deletes
    <3>2. CASE \E m \in Marks(ever) : g.ts < m.ts
      BY <2>5, <3>2 DEF Dispensable, Beaten
    <3>3. CASE g \in purged
      BY <2>1, <3>3 DEF Dispensable
    <3>4. CASE g.ts < old
      BY <2>1, <2>5, <3>4 DEF Dispensable
    <3> QED BY <2>5, <3>1, <3>2, <3>3, <3>4 DEF Dispensable, Beaten
  <2>6. ASSUME NEW g \in ever, g.ext = "data", g.ts = f.ts,
               ~(~g.durable /\ Durable(g) \in ever)
        PROVE  Dispensable(f)
    <3>1. CASE g \in files
      BY <2>4, <2>6, <3>1
    <3>2. CASE g \notin files
      <4>1. Dispensable(g)
        BY <2>6, <3>2 DEF NothingElseGoes
      <4> QED BY <2>5, <2>6, <4>1
    <3> QED BY <3>1, <3>2
  <2>7. CASE ~(~d.durable /\ Durable(d) \in ever)
    BY <2>2, <2>6, <2>7
  <2>8. CASE ~d.durable /\ Durable(d) \in ever
    <3>1. Durable(d).ext = "data" /\ Durable(d).ts = d.ts /\ Durable(d).durable
      BY <2>2, <2>3, DurableIsFile, Zenon
    <3> QED BY <2>2, <2>6, <2>8, <3>1
  <2> QED BY <2>7, <2>8
<1> QED BY <1>3, <1>4, <1>5, <1>6

\* What was written says what the directory says, as long as nothing was
\* reclaimed or purged.
LEMMA KeptMeaning ==
  ASSUME TypeOK, IsFiniteSet(ever), NothingElseGoes, LegacyHasData,
         old = 1, purged = {}
  PROVE  Opened(Live(files)) = Meaning(ever)
<1> DEFINE D == Top(Kind(ever, "ts"))
           M == Top(Marks(ever))
           exts == Counting(files)
           at == DurableTime(exts)
           info == Live(files)
           set == DurableSet(files)
<1>1. files \subseteq ever /\ ever \subseteq File /\ files \subseteq File
  BY DEF TypeOK
<1>2. \A f \in ever : f.ext # "meta" /\ f \notin files => Beaten(f)
  <2> TAKE f \in ever
  <2> HAVE f.ext # "meta" /\ f \notin files
  <2>1. Dispensable(f)
    BY DEF NothingElseGoes
  <2>2. f.ts \in Nat /\ 1 <= f.ts
    BY <1>1, FileType
  <2>3. ~(f.ts < old)
    BY <2>2
  <2> QED BY <2>1, <2>3 DEF Dispensable
<1>3. /\ D \in Nat
      /\ D = 0 \/ \E t \in ever : t.ext = "ts" /\ t.ts = D
      /\ \A t \in ever : t.ext = "ts" => t.ts <= D
  <2>1. Kind(ever, "ts") \subseteq File
    BY <1>1 DEF Kind
  <2> QED BY <2>1, TopIs DEF Kind
<1>4. /\ M \in Nat
      /\ M = 0 \/ \E m \in Marks(ever) : m.ts = M
      /\ \A m \in Marks(ever) : m.ts <= M
  <2>1. Marks(ever) \subseteq File
    BY <1>1 DEF Marks
  <2> QED BY <2>1, TopIs
<1>5. \A f \in ever : f.ts \in Nat /\ f.ts >= 1
  BY <1>1, FileType
<1>6. exts \subseteq files /\ exts \subseteq File /\ Marks(exts) \subseteq Marks(ever)
  <2>1. exts \subseteq files
    BY <1>1, CountingIs
  <2> QED BY <1>1, <2>1 DEF Marks
<1>7. /\ at \in Nat
      /\ at = 0 \/ \E m \in Marks(exts) : m.ts = at
      /\ \A m \in Marks(exts) : m.ts <= at
  <2>1. Marks(exts) \subseteq File
    BY <1>6 DEF Marks
  <2>2. at = Top(Marks(exts))
    BY DurableTimeIs
  <2> QED BY <2>1, <2>2, TopIs
<1>8. /\ info.data \subseteq set
      /\ set # {} => info.data # {}
      /\ info.data = {} => info.durable = {}
      /\ info.data # {} => info.durable = set /\ info.ts = {}
      /\ info.data = {} => \A f : f \in info.ts <=> /\ f \in exts /\ f.ext = "ts"
                                                    /\ ~(f.ts < at)
  <2>1. set \subseteq files /\ set \subseteq File /\ IsFiniteSet(set)
    <3>1. set \subseteq files
      BY <1>6 DEF DurableSet, At, Kind
    <3> QED BY <1>1, <3>1, FS_Subset
  <2>2. info.data = Choose(Candidates(files), set, NoIndex, NoPrefs)
    BY InfoIs DEF Live
  <2>3. info.data \subseteq set /\ (set # {} => info.data # {})
    BY <2>1, <2>2, ChooseIs
  <2>4. /\ info.data = {} => info.durable = {}
        /\ info.data # {} => info.durable = set /\ info.ts = {}
        /\ info.data = {} => \A f : f \in info.ts <=> /\ f \in exts /\ f.ext = "ts"
                                                      /\ ~(f.ts < at)
    BY InfoIs DEF Live
  <2> QED BY <2>3, <2>4
<1>9. \A f : f \in set <=> f \in exts /\ f.ext = "data" /\ f.ts = at
  BY DEF DurableSet, At, Kind
<1>10. Opened(info) = [at |-> Top(info.data \cup info.ts), frags |-> {f.frag : f \in info.durable}]
  BY DEF Opened, Top
<1>11. /\ M > D => Meaning(ever) = [at |-> M, frags |-> {f.frag : f \in At(Kind(ever, "data"), M)}]
       /\ ~(M > D) => Meaning(ever) = [at |-> D, frags |-> {}]
  BY DEF Meaning, Top, Marks
<1> HIDE DEF D, M, exts, at, info, set
<1>12. CASE M > D
  <2>1. ASSUME NEW f \in ever, f.ts = M, f.ext # "meta", f.ext # "ts"
        PROVE  ~\E t \in ever : Deletes(t, f)
    BY <1>3, <1>4, <1>5, <1>12, <2>1 DEF Deletes
  <2>2. ASSUME NEW f \in ever, f.ts = M, f.ext = "durable" \/ f.durable
        PROVE  f \in exts
    <3>1. f \in File /\ f.ext # "ts" /\ f.ext # "meta"
      BY <1>1, <2>2, MarkIsNoTombstone
    <3>2. f.ext # "data" \/ f.durable
      BY <2>2
    <3>3. ~\E t \in ever : Deletes(t, f)
      BY <2>1, <2>2, <3>1
    <3>4. ~\E m \in Marks(ever) : f.ts < m.ts
      BY <1>4, <1>5, <2>2 DEF Marks
    <3>5. ~Beaten(f)
      BY <3>2, <3>3, <3>4 DEF Beaten
    <3>6. f \in files
      BY <1>2, <3>1, <3>5
    <3> QED BY <1>1, <3>1, <3>3, <3>6, CountingIs DEF exts
  <2>3. PICK m \in ever : m.ts = M /\ (m.ext = "durable" \/ m.durable)
    BY <1>3, <1>4, <1>12 DEF Marks
  <2>4. at = M
    <3>1. m \in Marks(exts)
      BY <2>2, <2>3 DEF Marks
    <3>2. at <= M
      BY <1>4, <1>6, <1>7
    <3> QED BY <1>4, <1>7, <2>3, <3>1, <3>2
  <2>5. PICK d \in ever : d.ext = "data" /\ d.ts = M
    <3>1. CASE m.ext = "durable"
      BY <2>3, <3>1 DEF LegacyHasData
    <3>2. CASE m.ext # "durable"
      <4>1. m \in File /\ m.durable
        BY <1>1, <2>3, <3>2
      <4>2. m.ext = "data"
        BY <4>1, FileType, Zenon
      <4> QED BY <2>3, <4>2
    <3> QED BY <3>1, <3>2
  <2>6. ASSUME NEW f \in ever, f.ext = "data", f.ts = M
        PROVE  \E g \in set : g.frag = f.frag
    <3>1. f \in File
      BY <1>1
    <3>2. /\ Durable(f).ext = "data" /\ Durable(f).ts = M
          /\ Durable(f).frag = f.frag /\ Durable(f).durable
      BY <2>6, <3>1, DurableIsFile, Zenon
    <3>3. CASE Durable(f) \in ever
      <4>1. Durable(f) \in exts
        BY <2>2, <3>2, <3>3
      <4> QED BY <1>9, <2>4, <3>2, <4>1
    <3>4. CASE Durable(f) \notin ever
      <4>1. ~\E t \in ever : Deletes(t, f)
        BY <2>1, <2>6
      <4>2. ~\E n \in Marks(ever) : f.ts < n.ts
        BY <1>4, <1>5, <2>6 DEF Marks
      <4>3. ~Beaten(f)
        BY <3>4, <4>1, <4>2 DEF Beaten
      <4>4. f \in files
        BY <1>2, <2>6, <4>3
      <4>5. f \in exts
        BY <1>1, <2>6, <4>1, <4>4, CountingIs DEF exts
      <4> QED BY <1>9, <2>4, <2>6, <4>5
    <3> QED BY <3>3, <3>4
  <2>7. info.data # {} /\ info.durable = set /\ info.ts = {}
    BY <1>8, <2>5, <2>6
  <2>8. {f.frag : f \in set} = {f.frag : f \in At(Kind(ever, "data"), M)}
    <3>1. \A f \in set : f \in At(Kind(ever, "data"), M)
      BY <1>1, <1>6, <1>9, <2>4 DEF At, Kind
    <3>2. \A f \in At(Kind(ever, "data"), M) : \E g \in set : g.frag = f.frag
      BY <2>6 DEF At, Kind
    <3> QED BY <3>1, <3>2
  <2>9. Top(info.data \cup info.ts) = M
    <3>1. info.data \cup info.ts = info.data /\ info.data \subseteq File
      BY <1>1, <1>6, <1>8, <1>9, <2>7
    <3>2. \A f \in info.data : f.ts = M
      BY <1>8, <1>9, <2>4
    <3>3. /\ Top(info.data) \in Nat
          /\ Top(info.data) = 0 \/ \E f \in info.data : f.ts = Top(info.data)
          /\ \A f \in info.data : f.ts <= Top(info.data)
      BY <3>1, TopIs
    <3> QED BY <1>3, <1>4, <1>12, <2>7, <3>1, <3>2, <3>3
  <2>10. Opened(info) = [at |-> M, frags |-> {f.frag : f \in At(Kind(ever, "data"), M)}]
    BY <1>10, <2>7, <2>8, <2>9
  <2> QED BY <1>11, <1>12, <2>10 DEF info
<1>13. CASE ~(M > D)
  <2>1. ASSUME NEW t \in ever, t.ext = "ts", t.ts = D
        PROVE  t \in exts
    <3>1. ~\E u \in ever : Deletes(u, t)
      BY <1>3, <1>5, <2>1 DEF Deletes
    <3>2. ~\E m \in Marks(ever) : t.ts < m.ts
      <4> SUFFICES ASSUME NEW m \in Marks(ever), t.ts < m.ts PROVE FALSE
        OBVIOUS
      <4>1. m.ts \in Nat /\ m.ts <= M
        BY <1>4, <1>5 DEF Marks
      <4> QED BY <1>3, <1>4, <1>13, <2>1, <4>1
    <3>3. ~Beaten(t)
      BY <2>1, <3>1, <3>2 DEF Beaten
    <3>4. t \in files
      BY <1>2, <2>1, <3>3
    <3> QED BY <1>1, <2>1, <3>1, <3>4, CountingIs DEF exts
  <2>2. Marks(exts) = {}
    <3> SUFFICES ASSUME NEW m \in Marks(exts) PROVE FALSE
      OBVIOUS
    <3>1. m \in Marks(ever) /\ m \in exts /\ m \in ever /\ m.ts <= M /\ m.ts \in Nat /\ 1 <= m.ts
      BY <1>1, <1>4, <1>5, <1>6 DEF Marks
    <3>2. m.ext # "ts" /\ m.ext # "meta"
      <4>1. m \in File /\ (m.ext = "durable" \/ m.durable)
        BY <1>1, <3>1 DEF Marks
      <4> QED BY <4>1, MarkIsNoTombstone
    <3>3. D # 0 /\ m.ts <= D
      BY <1>3, <1>4, <1>13, <3>1
    <3>4. PICK t \in ever : t.ext = "ts" /\ t.ts = D
      BY <1>3, <3>3
    <3>5. t \in files
      BY <1>6, <2>1, <3>4
    <3>6. Deletes(t, m)
      BY <3>1, <3>2, <3>3, <3>4, <1>3 DEF Deletes
    <3> QED BY <1>1, <3>1, <3>5, <3>6, CountingIs DEF exts
  <2>3. at = 0
    BY <1>7, <2>2
  <2>4. set = {}
    BY <1>1, <1>5, <1>6, <1>9, <2>3
  <2>5. info.data = {} /\ info.durable = {}
        /\ \A f : f \in info.ts <=> f \in exts /\ f.ext = "ts" /\ ~(f.ts < at)
    BY <1>8, <2>4
  <2>6. \A f : f \in info.ts <=> f \in exts /\ f.ext = "ts"
    BY <1>1, <1>5, <1>6, <2>3, <2>5
  <2>7. Top(info.data \cup info.ts) = D
    <3>1. info.data \cup info.ts = info.ts /\ info.ts \subseteq File
      BY <1>6, <2>5, <2>6
    <3>2. /\ Top(info.ts) \in Nat
          /\ Top(info.ts) = 0 \/ \E f \in info.ts : f.ts = Top(info.ts)
          /\ \A f \in info.ts : f.ts <= Top(info.ts)
      BY <3>1, TopIs
    <3>3. \A f \in info.ts : f.ts <= D
      BY <1>1, <1>3, <1>6, <2>6
    <3>4. D = 0 \/ \E t \in info.ts : t.ts = D
      BY <1>3, <2>1, <2>6
    <3>5. D = 0 => Top(info.ts) = D
      BY <3>1, <3>2, <3>3, <3>4
    <3>6. D # 0 => Top(info.ts) = D
      <4> SUFFICES ASSUME D # 0 PROVE Top(info.ts) = D
        OBVIOUS
      <4>1. D <= Top(info.ts)
        BY <3>2, <3>4
      <4>2. Top(info.ts) <= D
        BY <1>3, <3>2, <3>3
      <4> QED BY <1>3, <3>2, <4>1, <4>2
    <3> QED BY <3>1, <3>5, <3>6
  <2>8. Opened(info) = [at |-> D, frags |-> {}]
    BY <1>10, <2>5, <2>7
  <2> QED BY <1>11, <1>13, <2>8 DEF info
<1> QED BY <1>12, <1>13

\* What a writer is doing.
Doing == [at : {"idle", "commit", "clean", "remove", "purge"},
          file : SUBSET File, reclaim : SUBSET File, removing : SUBSET File]

\* Of the writers only w moves, and to this.
Becomes(w, x) == /\ writer' \in [Writers -> Doing]
                 /\ writer'[w] = x
                 /\ \A v \in Writers \ {w} : writer'[v] = writer[v]

LEMMA BecomesIs ==
  ASSUME TypeOK, NEW w \in Writers, NEW x \in Doing, writer' = [writer EXCEPT ![w] = x]
  PROVE  Becomes(w, x)
BY DEF TypeOK, Doing, Becomes

LEMMA RestingIs ==
  /\ Resting \in Doing
  /\ Resting.at = "idle" /\ Resting.file = {} /\ Resting.reclaim = {} /\ Resting.removing = {}
BY DEF Resting, Doing

LEMMA WriterIs ==
  ASSUME TypeOK, NEW w \in Writers
  PROVE  /\ writer[w] \in Doing
         /\ writer[w].at \in {"idle", "commit", "clean", "remove", "purge"}
         /\ writer[w].file \subseteq File
         /\ writer[w].reclaim \subseteq File /\ writer[w].removing \subseteq File
BY DEF TypeOK, Doing

-----------------------------------------------------------------------------
\* What a step leaves alone.
Keeps == /\ ever \subseteq ever' /\ purged \subseteq purged'
         /\ late \subseteq late' /\ old <= old'

\* What was durable stays so, and what could be dispensed with can be still.
LEMMA MarksStay ==
  ASSUME ever \subseteq ever'
  PROVE  Marks(ever) \subseteq Marks(ever)'
BY DEF Marks

LEMMA DispensableStays ==
  ASSUME TypeOK, Keeps, old' \in Nat, NEW f \in File, Dispensable(f)
  PROVE  Dispensable(f)'
<1>1. Beaten(f) => Beaten(f)'
  BY MarksStay DEF Beaten, Keeps
<1>2. f.ts < old => f.ts < old'
  <2>1. f.ts \in Nat
    BY FileType
  <2>2. old \in Nat
    BY ECAssumption DEF TypeOK
  <2> QED BY <2>1, <2>2 DEF Keeps
<1> QED BY <1>1, <1>2 DEF Dispensable, Keeps

\* The directory never means something older than before.
LEMMA MeaningGrows ==
  ASSUME NEW fs, NEW gs, fs \subseteq gs, gs \subseteq File
  PROVE  /\ Meaning(fs).at \in Nat /\ Meaning(gs).at \in Nat
         /\ Meaning(fs).at <= Meaning(gs).at
<1>1. /\ Kind(fs, "ts") \subseteq Kind(gs, "ts") /\ Kind(gs, "ts") \subseteq File
      /\ Marks(fs) \subseteq Marks(gs) /\ Marks(gs) \subseteq File
  BY DEF Kind, Marks
<1>2. ASSUME NEW S, NEW T, S \subseteq T, T \subseteq File
      PROVE  Top(S) \in Nat /\ Top(T) \in Nat /\ Top(S) <= Top(T)
  <2>1. /\ Top(S) \in Nat
        /\ Top(S) = 0 \/ \E f \in S : f.ts = Top(S)
    BY <1>2, TopIs
  <2>2. Top(T) \in Nat /\ \A f \in T : f.ts <= Top(T)
    BY <1>2, TopIs
  <2> QED BY <1>2, <2>1, <2>2
<1>3. /\ Top(Kind(fs, "ts")) \in Nat /\ Top(Kind(gs, "ts")) \in Nat
      /\ Top(Kind(fs, "ts")) <= Top(Kind(gs, "ts"))
  BY <1>1, <1>2
<1>4. /\ Top(Marks(fs)) \in Nat /\ Top(Marks(gs)) \in Nat
      /\ Top(Marks(fs)) <= Top(Marks(gs))
  BY <1>1, <1>2
<1>5. \A S : Meaning(S).at = IF Top(Marks(S)) > Top(Kind(S, "ts"))
                             THEN Top(Marks(S)) ELSE Top(Kind(S, "ts"))
  BY DEF Meaning, Top, Marks
<1> QED BY <1>3, <1>4, <1>5

\* What is durable, or deleted, is what was written means at least.
LEMMA MeaningIsNoOlder ==
  ASSUME NEW fs, fs \subseteq File, NEW f \in fs,
         f.ext = "ts" \/ f.ext = "durable" \/ f.durable
  PROVE  Meaning(fs).at \in Nat /\ f.ts <= Meaning(fs).at
<1>1. Meaning(fs).at = IF Top(Marks(fs)) > Top(Kind(fs, "ts"))
                       THEN Top(Marks(fs)) ELSE Top(Kind(fs, "ts"))
  BY DEF Meaning, Top, Marks
<1>2. f \in Marks(fs) \/ f \in Kind(fs, "ts")
  BY DEF Marks, Kind
<1>3. Marks(fs) \subseteq File /\ Kind(fs, "ts") \subseteq File
  BY DEF Marks, Kind
<1>4. Top(Marks(fs)) \in Nat /\ \A g \in Marks(fs) : g.ts <= Top(Marks(fs))
  BY <1>3, TopIs
<1>5. Top(Kind(fs, "ts")) \in Nat /\ \A g \in Kind(fs, "ts") : g.ts <= Top(Kind(fs, "ts"))
  BY <1>3, TopIs
<1>6. f.ts \in Nat
  BY FileType
<1> QED BY <1>1, <1>2, <1>4, <1>5, <1>6

\* A step of w that is sound: it takes away, and means to take away, only what
\* can be dispensed with.
Sound(w, x) ==
  /\ Keeps
  /\ files' \subseteq ever' /\ ever' \subseteq File /\ IsFiniteSet(ever')
  /\ late' \subseteq ever' /\ acked' \subseteq ever' /\ purged' \subseteq ever'
  /\ old' \in 1 .. MaxOld
  /\ \A f \in ever' \ ever : f \in files' /\ f.ext # "durable"
  /\ \A f \in files \ files' : f.ext = "meta" \/ Dispensable(f)'
  /\ \A f \in x.removing \cup x.reclaim :
       \/ f \in Doomed(w)
       \/ f \in ever /\ (f.ext = "meta" \/ Dispensable(f)')
  /\ x.at = "commit" => \A f \in x.file : f \in ever' /\ f.ext = "data" /\ ~f.durable
  /\ \A f \in acked' : f \in acked \/ Meaning(ever').at >= f.ts

\* A sound step keeps each part of the invariant.
LEMMA SoundTypes ==
  ASSUME FilesInv, NEW w \in Writers, NEW x \in Doing, Becomes(w, x), Sound(w, x)
  PROVE  TypeOK'
<1>1. acked' \cup purged' \subseteq ever'
  BY DEF Sound
<1> QED BY <1>1 DEF TypeOK, Sound, Becomes, Doing

LEMMA SoundDoomed ==
  ASSUME FilesInv, NEW w \in Writers, NEW x \in Doing, Becomes(w, x), Sound(w, x)
  PROVE  /\ \A v \in Writers : Doomed(v)' \subseteq ever
         /\ \A f \in ever, v \in Writers :
              f \in Doomed(v)' => f \in Doomed(v) \/ f.ext = "meta" \/ Dispensable(f)'
<1>1. ASSUME NEW v \in Writers, v # w
      PROVE  Doomed(v)' = Doomed(v)
  BY <1>1 DEF Becomes, Doomed
<1>2. Doomed(w)' = x.removing \cup x.reclaim
  BY DEF Becomes, Doomed
<1>3. \A v \in Writers : Doomed(v) \subseteq ever
  BY DEF FilesInv, Known
<1>4. \A f \in x.removing \cup x.reclaim :
        \/ f \in Doomed(w)
        \/ f \in ever /\ (f.ext = "meta" \/ Dispensable(f)')
  BY DEF Sound
<1> QED BY <1>1, <1>2, <1>3, <1>4

LEMMA SoundGoesOn ==
  ASSUME FilesInv, NEW w \in Writers, NEW x \in Doing, Becomes(w, x), Sound(w, x)
  PROVE  NothingElseGoes'
<1>1. Keeps /\ old' \in Nat
  BY ECAssumption DEF Sound
<1>2. TypeOK /\ NothingElseGoes /\ ever \subseteq File
  BY DEF FilesInv, TypeOK
<1>3. ASSUME NEW f \in ever', f.ext # "meta",
             f \notin files' \/ \E v \in Writers : f \in Doomed(v)'
      PROVE  Dispensable(f)'
  <2>1. f \in ever
    <3>1. f \notin ever => f \in files'
      BY DEF Sound
    <3> QED BY <1>3, <3>1, SoundDoomed
  <2>2. CASE f \in files /\ \A v \in Writers : f \notin Doomed(v)
    <3>1. CASE f \notin files'
      BY <1>3, <2>2, <3>1 DEF Sound
    <3>2. CASE \E v \in Writers : f \in Doomed(v)'
      BY <1>3, <2>1, <2>2, <3>2, SoundDoomed
    <3> QED BY <1>3, <3>1, <3>2
  <2>3. CASE ~(f \in files /\ \A v \in Writers : f \notin Doomed(v))
    <3>1. Dispensable(f)
      BY <1>2, <1>3, <2>1, <2>3 DEF NothingElseGoes
    <3> QED BY <1>1, <1>2, <2>1, <3>1, DispensableStays
  <2> QED BY <2>2, <2>3
<1> QED BY <1>3 DEF NothingElseGoes

LEMMA SoundAcked ==
  ASSUME FilesInv, NEW w, NEW x, Sound(w, x)
  PROVE  AckedStands'
<1> SUFFICES ASSUME NEW f \in acked, ~(Meaning(ever').at >= f.ts) PROVE FALSE
  BY DEF AckedStands, Sound
<1>1. f \in File
  BY DEF FilesInv, TypeOK
<1>2. Meaning(ever).at >= f.ts /\ f.ts \in Nat
  BY <1>1, FileType DEF FilesInv, AckedStands
<1>3. /\ Meaning(ever).at \in Nat /\ Meaning(ever').at \in Nat
      /\ Meaning(ever).at <= Meaning(ever').at
  BY MeaningGrows DEF Sound, Keeps
<1> QED BY <1>2, <1>3

LEMMA SoundStep ==
  ASSUME FilesInv, NEW w \in Writers, NEW x \in Doing, Becomes(w, x), Sound(w, x)
  PROVE  FilesInv'
<1>1. TypeOK' /\ NothingElseGoes' /\ AckedStands'
  BY SoundTypes, SoundGoesOn, SoundAcked
<1>2. IsFiniteSet(ever)'
  BY DEF Sound
<1>3. Known'
  <2>1. ever \subseteq ever'
    BY DEF Sound, Keeps
  <2> QED BY <2>1, SoundDoomed DEF Known
<1>4. LegacyHasData'
  <2>1. ever \subseteq ever' /\ \A f \in ever' \ ever : f.ext # "durable"
    BY DEF Sound, Keeps
  <2> QED BY <2>1 DEF FilesInv, LegacyHasData
<1>5. CommitsOwn'
  <2>1. ASSUME NEW v \in Writers, writer'[v].at = "commit", NEW f \in writer'[v].file
        PROVE  f \in ever' /\ f.ext = "data" /\ ~f.durable
    <3>1. CASE v = w
      BY <2>1, <3>1 DEF Becomes, Sound
    <3>2. CASE v # w
      <4>1. writer[v].at = "commit" /\ f \in writer[v].file
        BY <2>1, <3>2 DEF Becomes
      <4>2. f \in ever /\ f.ext = "data" /\ ~f.durable
        BY <4>1 DEF FilesInv, CommitsOwn
      <4> QED BY <4>2 DEF Sound, Keeps
    <3> QED BY <3>1, <3>2
  <2> QED BY <2>1 DEF CommitsOwn
<1> QED BY <1>1, <1>2, <1>3, <1>4, <1>5 DEF FilesInv

\* What each step below needs of the invariant.
LEMMA Facts ==
  ASSUME FilesInv
  PROVE  /\ files \subseteq ever /\ ever \subseteq File /\ late \subseteq ever
         /\ acked \subseteq ever /\ purged \subseteq ever
         /\ IsFiniteSet(ever) /\ old \in 1 .. MaxOld /\ old \in Nat
         /\ \A w \in Writers : Doomed(w) \subseteq ever
<1>1. old \in 1 .. MaxOld
  BY DEF FilesInv, TypeOK
<1>2. old \in Nat
  BY <1>1, ECAssumption
<1>3. /\ files \subseteq ever /\ ever \subseteq File /\ late \subseteq ever
      /\ acked \subseteq ever /\ purged \subseteq ever
  BY DEF FilesInv, TypeOK
<1> QED BY <1>1, <1>2, <1>3 DEF FilesInv, Known

\* A file is added and the rest stays, but for the writer.
LEMMA AppearsSound ==
  ASSUME FilesInv, NEW w \in Writers, NEW x \in Doing, NEW f \in File,
         Appears(f), f.ext # "durable", UNCHANGED <<old, late, acked, purged>>,
         x.removing = {}, x.reclaim = {},
         x.at = "commit" => x.file = {f} /\ f.ext = "data" /\ ~f.durable
  PROVE  Sound(w, x)
<1>1. files' = files \cup {f} /\ ever' = ever \cup {f}
  BY DEF Appears
<1>2. IsFiniteSet(ever')
  BY <1>1, Facts, FS_AddElement
<1>3. Keeps
  BY <1>1, Facts DEF Keeps
<1> QED BY <1>1, <1>2, <1>3, Facts DEF Sound

\* The steps of Next, one by one.
LEMMA PutStep ==
  ASSUME FilesInv, NEW w \in Writers, NEW t \in Time, NEW fi \in Frags, Put(w, t, fi)
  PROVE  FilesInv'
<1> DEFINE f == DataFile(t, fi, FALSE)
           x == [writer[w] EXCEPT !.at = "commit", !.file = {f}]
<1>1. /\ f \in File /\ f.ext = "data" /\ ~f.durable
  <2>1. FALSE \in BOOLEAN
    OBVIOUS
  <2> QED BY <2>1, DataFileIs, Zenon
<1>2. /\ writer[w] = Resting /\ Appears(f) /\ UNCHANGED <<old, late, acked, purged>>
      /\ writer' = [writer EXCEPT ![w] = x]
  BY DEF Put
<1>3. /\ x \in Doing /\ x.at = "commit" /\ x.file = {f} /\ x.removing = {} /\ x.reclaim = {}
  BY <1>1, <1>2, RestingIs DEF Doing
<1> HIDE DEF f, x
<1>4. Becomes(w, x)
  BY <1>2, <1>3, BecomesIs DEF FilesInv
<1>5. Sound(w, x)
  BY <1>1, <1>2, <1>3, AppearsSound
<1> QED BY <1>3, <1>4, <1>5, SoundStep

LEMMA PutOtherStep ==
  ASSUME FilesInv, NEW w \in Writers, NEW f \in File, PutOther(w, f)
  PROVE  FilesInv'
<1> DEFINE x == [writer[w] EXCEPT !.at = "clean"]
<1>1. /\ writer[w] = Resting /\ f.ext \in {"ts", "meta"} /\ Appears(f)
      /\ UNCHANGED <<old, late, acked, purged>>
      /\ writer' = [writer EXCEPT ![w] = x]
  BY DEF PutOther
<1>2. x \in Doing /\ x.at = "clean" /\ x.removing = {} /\ x.reclaim = {}
  BY <1>1, RestingIs DEF Doing
<1> HIDE DEF x
<1>3. Becomes(w, x)
  BY <1>1, <1>2, BecomesIs DEF FilesInv
<1>4. Sound(w, x)
  BY <1>1, <1>2, AppearsSound
<1> QED BY <1>2, <1>3, <1>4, SoundStep

\* A fragment is renamed to its durable name.
LEMMA RenameSound ==
  ASSUME FilesInv, NEW w \in Writers, NEW x \in Doing, NEW f \in ever,
         f.ext = "data", ~f.durable,
         files' = (files \ {f}) \cup {Durable(f)}, ever' = ever \cup {Durable(f)},
         acked' \subseteq acked \cup {f}, UNCHANGED <<old, late, purged>>,
         x.removing = {}, x.reclaim = {}, x.at # "commit"
  PROVE  Sound(w, x)
<1>1. f \in File
  BY Facts
<1>2. /\ Durable(f) \in File /\ Durable(f).ext = "data" /\ Durable(f).ts = f.ts
      /\ Durable(f).durable
  BY <1>1, DurableIsFile, Zenon
<1>3. Keeps /\ ever' \subseteq File
  BY <1>2, Facts DEF Keeps
<1>4. IsFiniteSet(ever')
  BY Facts, FS_AddElement
<1>5. Dispensable(f)'
  BY DEF Dispensable, Beaten
<1>6. Meaning(ever').at \in Nat /\ Durable(f).ts <= Meaning(ever').at
  BY <1>2, <1>3, MeaningIsNoOlder
<1>7. Meaning(ever').at >= f.ts
  BY <1>1, <1>2, <1>6, FileType
<1>8. /\ files' \subseteq ever' /\ late' \subseteq ever' /\ acked' \subseteq ever'
      /\ purged' \subseteq ever' /\ old' \in 1 .. MaxOld
  BY Facts
<1>9. \A g \in ever' \ ever : g \in files' /\ g.ext # "durable"
  BY <1>2
<1>10. \A g \in files \ files' : g.ext = "meta" \/ Dispensable(g)'
  BY <1>5
<1> QED BY <1>3, <1>4, <1>7, <1>8, <1>9, <1>10 DEF Sound

LEMMA CommitStep ==
  ASSUME FilesInv, NEW w \in Writers, Commit(w)
  PROVE  FilesInv'
<1> DEFINE x == [Resting EXCEPT !.at = "clean"]
<1>1. PICK f \in writer[w].file :
        /\ writer[w].at = "commit"
        /\ files' = (files \ {f}) \cup {Durable(f)} /\ ever' = ever \cup {Durable(f)}
        /\ acked' = acked \cup {f} /\ writer' = [writer EXCEPT ![w] = x]
        /\ UNCHANGED <<old, late, purged>>
  BY DEF Commit
<1>2. f \in ever /\ f.ext = "data" /\ ~f.durable
  BY <1>1 DEF FilesInv, CommitsOwn
<1>3. x \in Doing /\ x.at = "clean" /\ x.removing = {} /\ x.reclaim = {}
  BY RestingIs DEF Doing
<1> HIDE DEF x
<1>4. Becomes(w, x)
  BY <1>1, <1>3, BecomesIs DEF FilesInv
<1>5. Sound(w, x)
  BY <1>1, <1>2, <1>3, RenameSound
<1> QED BY <1>3, <1>4, <1>5, SoundStep

\* Only the writer moves, and it means to take nothing away that it did not
\* mean to before.
LEMMA QuietSound ==
  ASSUME FilesInv, NEW w \in Writers, NEW x \in Doing,
         UNCHANGED <<files, ever, old, late, purged>>,
         x.removing \cup x.reclaim \subseteq Doomed(w), x.at # "commit",
         \A f \in acked' : f \in acked \/ (f \in ever /\ Meaning(ever).at >= f.ts)
  PROVE  Sound(w, x)
<1>1. Keeps
  BY Facts DEF Keeps
<1> QED BY <1>1, Facts DEF Sound

LEMMA CommitMissingStep ==
  ASSUME FilesInv, NEW w \in Writers, CommitMissing(w)
  PROVE  FilesInv'
<1>1. PICK f \in writer[w].file :
        LET info == get_ondisk_files(files, f.frag, NoPrefs)
            cleaned == \/ \E t \in info.ts : t.ts > f.ts
                       \/ \E d \in info.durable : d.ts >= f.ts
        IN /\ writer[w].at = "commit" /\ f \notin files
           /\ acked' = IF cleaned THEN acked \cup {f} ELSE acked
           /\ writer' = [writer EXCEPT ![w] = Resting]
           /\ UNCHANGED <<files, ever, old, late, purged>>
  BY DEF CommitMissing
<1> DEFINE info == get_ondisk_files(files, f.frag, NoPrefs)
           exts == Counting(files)
<1>2. f \in ever /\ f.ext = "data" /\ ~f.durable
  BY <1>1 DEF FilesInv, CommitsOwn
<1>3. files \subseteq ever /\ ever \subseteq File /\ exts \subseteq ever /\ files \subseteq File
  BY Facts, CountingIs
<1>4. f.ts \in Nat
  BY <1>2, <1>3, FileType
<1>5. ASSUME NEW t \in info.ts, t.ts > f.ts
      PROVE  Meaning(ever).at >= f.ts
  <2>1. t \in exts /\ t.ext = "ts"
    <3>1. info.data # {} => info.ts = {}
      BY InfoIs
    <3>2. info.data = {} => \A g : g \in info.ts => g \in exts /\ g.ext = "ts"
      BY InfoIs
    <3> HIDE DEF info, exts
    <3> QED BY <1>5, <3>1, <3>2
  <2>2. Meaning(ever).at \in Nat /\ t.ts <= Meaning(ever).at /\ t.ts \in Nat
    BY <1>3, <2>1, MeaningIsNoOlder, FileType
  <2> QED BY <1>4, <1>5, <2>2
<1>6. ASSUME NEW d \in info.durable, d.ts >= f.ts
      PROVE  Meaning(ever).at >= f.ts
  <2>1. d \in DurableSet(files)
    <3>1. info.data # {} => info.durable = DurableSet(files)
      BY InfoIs
    <3>2. info.data = {} => info.durable = {}
      BY InfoIs
    <3> HIDE DEF info
    <3> QED BY <1>6, <3>1, <3>2
  <2>2. d \in exts /\ d.ts = DurableTime(exts)
    BY <2>1 DEF DurableSet, At, Kind
  <2>3. Marks(exts) \subseteq File
    BY <1>3 DEF Marks
  <2>4. /\ d.ts \in Nat /\ 1 <= d.ts
        /\ d.ts = 0 \/ \E m \in Marks(exts) : m.ts = d.ts
    BY <1>3, <2>2, <2>3, TopIs, DurableTimeIs, FileType
  <2>5. PICK m \in Marks(exts) : m.ts = d.ts
    BY <2>4
  <2>6. m \in ever /\ (m.ext = "durable" \/ m.durable)
    BY <1>3, <2>5 DEF Marks
  <2>7. Meaning(ever).at \in Nat /\ m.ts <= Meaning(ever).at
    BY <1>3, <2>6, MeaningIsNoOlder
  <2> QED BY <1>4, <1>6, <2>4, <2>5, <2>7
<1>7. \A g \in acked' : g \in acked \/ (g \in ever /\ Meaning(ever).at >= g.ts)
  <2> HIDE DEF info, exts
  <2>1. acked' = acked \/ (acked' = acked \cup {f} /\ Meaning(ever).at >= f.ts)
    BY <1>1, <1>5, <1>6 DEF info
  <2> QED BY <1>2, <2>1
<1>8. Sound(w, Resting)
  BY <1>1, <1>7, RestingIs, QuietSound
<1>9. Becomes(w, Resting)
  BY <1>1, RestingIs, BecomesIs DEF FilesInv
<1> QED BY <1>8, <1>9, RestingIs, SoundStep

LEMMA CommitFailsStep ==
  ASSUME FilesInv, NEW w \in Writers, CommitFails(w)
  PROVE  FilesInv'
<1>1. PICK f \in writer[w].file :
        /\ writer[w].at = "commit" /\ f \in files
        /\ \/ UNCHANGED <<files, ever>>
           \/ /\ files' = (files \ {f}) \cup {Durable(f)}
              /\ ever' = ever \cup {Durable(f)}
        /\ writer' = [writer EXCEPT ![w] = Resting]
        /\ UNCHANGED <<old, late, acked, purged>>
  BY DEF CommitFails
<1>2. f \in ever /\ f.ext = "data" /\ ~f.durable
  BY <1>1 DEF FilesInv, CommitsOwn
<1>3. Becomes(w, Resting)
  BY <1>1, RestingIs, BecomesIs DEF FilesInv
<1>4. Sound(w, Resting)
  <2>1. CASE UNCHANGED <<files, ever>>
    BY <1>1, <2>1, RestingIs, QuietSound
  <2>2. CASE files' = (files \ {f}) \cup {Durable(f)} /\ ever' = ever \cup {Durable(f)}
    BY <1>1, <1>2, <2>2, RestingIs, RenameSound
  <2> QED BY <1>1, <2>1, <2>2
<1> QED BY <1>3, <1>4, RestingIs, SoundStep

LEMMA DiesStep ==
  ASSUME FilesInv, NEW w \in Writers, Dies(w) \/ CleanupEnds(w)
  PROVE  FilesInv'
<1>1. /\ UNCHANGED <<files, ever, old, late, acked, purged>>
      /\ writer' = [writer EXCEPT ![w] = Resting]
  BY DEF Dies, CleanupEnds
<1>2. Sound(w, Resting)
  BY <1>1, RestingIs, QuietSound
<1>3. Becomes(w, Resting)
  BY <1>1, RestingIs, BecomesIs DEF FilesInv
<1> QED BY <1>2, <1>3, RestingIs, SoundStep

LEMMA ListStep ==
  ASSUME FilesInv, NEW w \in Writers, ListForCleanup(w)
  PROVE  FilesInv'
<1> DEFINE info == get_ondisk_files(files, NoIndex, NoPrefs)
           strays == {f \in Reclaimable(info.possible_reclaim) :
                        f.ext # "data" \/ f.durable \/ f \in late}
           x == [at |-> "remove", file |-> {}, reclaim |-> Reclaimable(info.ts),
                 removing |-> info.obsolete \cup strays]
           exts == Counting(files)
<1>1. /\ writer' = [writer EXCEPT ![w] = x]
      /\ UNCHANGED <<files, ever, old, late, acked, purged>>
  BY DEF ListForCleanup
<1>2. files \subseteq ever /\ ever \subseteq File /\ files \subseteq File /\ exts \subseteq files
  BY Facts, CountingIs
<1>3. TypeOK /\ NothingElseGoes /\ LegacyHasData
  BY DEF FilesInv
<1>4. \A f \in info.obsolete : f \in ever /\ (f.ext = "meta" \/ Dispensable(f))
  <2>1. \A f \in info.obsolete : f \in Superseded(files) \/ f \in exts
    BY InfoIs
  <2>2. Superseded(files) \subseteq files
    BY <1>2, SupersededIs
  <2> HIDE DEF exts
  <2> QED BY <1>2, <1>3, <2>1, <2>2, ObsoleteIsDispensable
<1>5. \A f \in strays : f \in ever /\ Dispensable(f)
  <2>1. info.possible_reclaim \subseteq exts
    BY InfoIs
  <2> HIDE DEF info, exts
  <2> QED BY <1>2, <2>1 DEF Reclaimable, Dispensable
<1>6. \A f \in Reclaimable(info.ts) : f \in ever /\ Dispensable(f)
  <2>1. \A f \in info.ts : f \in exts /\ f.ext = "ts"
    <3>1. info.data # {} => info.ts = {}
      BY InfoIs
    <3>2. info.data = {} => \A g : g \in info.ts => g \in exts /\ g.ext = "ts"
      BY InfoIs
    <3> HIDE DEF info, exts
    <3> QED BY <3>1, <3>2
  <2> HIDE DEF info, exts
  <2> QED BY <1>2, <2>1 DEF Reclaimable, Dispensable
<1> HIDE DEF info, strays, exts
<1>7. x \in Doing
  <2>1. info.obsolete \cup strays \subseteq File /\ Reclaimable(info.ts) \subseteq File
    BY <1>2, <1>4, <1>5, <1>6
  <2> QED BY <2>1 DEF Doing
<1>8. Becomes(w, x)
  BY <1>1, <1>3, <1>7, BecomesIs
<1>9. Keeps
  BY <1>1, Facts DEF Keeps
<1>10. \A f \in ever : Dispensable(f) => Dispensable(f)'
  BY <1>1, <1>2, <1>3, <1>9, Facts, DispensableStays
<1>11. \A f \in x.removing \cup x.reclaim : f \in ever /\ (f.ext = "meta" \/ Dispensable(f)')
  BY <1>4, <1>5, <1>6, <1>10
<1>12. x.at # "commit"
  OBVIOUS
<1> HIDE DEF x
<1>13. Sound(w, x)
  BY <1>1, <1>9, <1>11, <1>12, Facts DEF Sound
<1> QED BY <1>7, <1>8, <1>13, SoundStep

\* A cleanup unlinks one file.
LEMMA UnlinkSound ==
  ASSUME FilesInv, NEW w \in Writers, NEW x \in Doing, NEW f \in Doomed(w),
         files' = files \ {f}, UNCHANGED <<ever, old, late, acked, purged>>,
         x.removing \cup x.reclaim \subseteq Doomed(w), x.at # "commit"
  PROVE  Sound(w, x)
<1>1. Keeps
  BY Facts DEF Keeps
<1>2. f \in ever /\ f \in File
  BY Facts
<1>3. f.ext = "meta" \/ Dispensable(f)
  BY <1>2 DEF FilesInv, NothingElseGoes
<1>4. f.ext = "meta" \/ Dispensable(f)'
  BY <1>1, <1>2, <1>3, Facts, DispensableStays DEF FilesInv
<1> QED BY <1>1, <1>4, Facts DEF Sound

LEMMA RemoveStep ==
  ASSUME FilesInv, NEW w \in Writers, Reclaim(w) \/ Remove(w)
  PROVE  FilesInv'
<1>1. writer[w] \in Doing
  BY WriterIs DEF FilesInv
<1>2. PICK f \in Doomed(w), x \in Doing :
        /\ files' = files \ {f} /\ UNCHANGED <<ever, old, late, acked, purged>>
        /\ x.removing \cup x.reclaim \subseteq Doomed(w) /\ x.at # "commit"
        /\ writer' = [writer EXCEPT ![w] = x]
  <2>1. CASE Reclaim(w)
    <3> DEFINE x == [writer[w] EXCEPT !.reclaim = {}]
    <3>1. PICK f \in writer[w].reclaim :
            /\ files' = files \ {f} /\ UNCHANGED <<ever, old, late, acked, purged>>
            /\ writer[w].at = "remove" /\ writer' = [writer EXCEPT ![w] = x]
      BY <2>1 DEF Reclaim
    <3>2. x \in Doing /\ x.at = writer[w].at /\ x.reclaim = {} /\ x.removing = writer[w].removing
      BY <1>1 DEF Doing
    <3> HIDE DEF x
    <3> QED BY <3>1, <3>2 DEF Doomed
  <2>2. CASE Remove(w)
    <3>1. PICK f \in writer[w].removing :
            /\ files' = files \ {f} /\ UNCHANGED <<ever, old, late, acked, purged>>
            /\ writer[w].at = "remove"
            /\ writer' = [writer EXCEPT ![w].removing = @ \ {f}]
      BY <2>2 DEF Remove
    <3> DEFINE x == [writer[w] EXCEPT !.removing = @ \ {f}]
    <3>2. /\ x \in Doing /\ x.at = writer[w].at /\ x.reclaim = writer[w].reclaim
          /\ x.removing = writer[w].removing \ {f}
      BY <1>1 DEF Doing
    <3>3. writer' = [writer EXCEPT ![w] = x]
      BY <3>1
    <3> HIDE DEF x
    <3> QED BY <3>1, <3>2, <3>3 DEF Doomed
  <2> QED BY <2>1, <2>2
<1>3. Becomes(w, x)
  BY <1>2, BecomesIs DEF FilesInv
<1>4. Sound(w, x)
  BY <1>2, UnlinkSound
<1> QED BY <1>3, <1>4, SoundStep

\* A purge takes some files away and remembers which.
LEMMA PurgeSound ==
  ASSUME FilesInv, NEW w \in Writers, NEW x \in Doing, NEW gone, gone \subseteq files,
         files' = files \ gone, purged' = purged \cup gone,
         UNCHANGED <<ever, old, late, acked>>,
         x.removing = {}, x.reclaim = {}, x.at # "commit"
  PROVE  Sound(w, x)
<1>1. Keeps
  BY Facts DEF Keeps
<1>2. \A f \in files \ files' : Dispensable(f)'
  BY DEF Dispensable
<1> QED BY <1>1, <1>2, Facts DEF Sound

LEMMA PurgeStep ==
  ASSUME FilesInv, NEW w \in Writers, NEW t \in Time, NEW fi \in Frags, Purge(w, t, fi)
  PROVE  FilesInv'
<1> DEFINE f == DataFile(t, fi, FALSE)
           x == [writer[w] EXCEPT !.at = "purge", !.file = {Durable(f)}]
<1>1. PICK gone \in SUBSET files :
        /\ writer[w] = Resting
        /\ files' = files \ gone /\ purged' = purged \cup gone
        /\ writer' = [writer EXCEPT ![w] = x]
        /\ UNCHANGED <<ever, old, late, acked>>
  <2>1. PICK meta \in {{}} \cup {{m} : m \in Kind(files, "meta")} :
          LET gone == files \cap (meta \cup {OtherFile("ts", t)} \cup (late \cap {f}))
          IN files' = files \ gone /\ purged' = purged \cup gone
    BY DEF Purge
  <2>2. /\ writer[w] = Resting /\ writer' = [writer EXCEPT ![w] = x]
        /\ UNCHANGED <<ever, old, late, acked>>
    BY DEF Purge
  <2> HIDE DEF f, x
  <2> QED BY <2>1, <2>2
<1>2. Durable(f) \in File
  <2>1. FALSE \in BOOLEAN
    OBVIOUS
  <2>2. f \in File /\ f.ext = "data"
    BY <2>1, DataFileIs, Zenon
  <2> QED BY <2>2, DurableIsFile
<1>3. x \in Doing /\ x.at = "purge" /\ x.removing = {} /\ x.reclaim = {}
  BY <1>1, <1>2, RestingIs DEF Doing
<1> HIDE DEF f, x
<1>4. Becomes(w, x)
  BY <1>1, <1>3, BecomesIs DEF FilesInv
<1>5. Sound(w, x)
  BY <1>1, <1>3, PurgeSound
<1> QED BY <1>3, <1>4, <1>5, SoundStep

LEMMA PurgeDurableStep ==
  ASSUME FilesInv, NEW w \in Writers, PurgeDurable(w)
  PROVE  FilesInv'
<1>1. PICK f \in writer[w].file :
        /\ files' = files \ {f} /\ purged' = purged \cup ({f} \cap files)
        /\ writer' = [writer EXCEPT ![w] = Resting]
        /\ UNCHANGED <<ever, old, late, acked>>
  BY DEF PurgeDurable
<1>2. files' = files \ ({f} \cap files) /\ {f} \cap files \subseteq files
  BY <1>1
<1>3. Sound(w, Resting)
  BY <1>1, <1>2, RestingIs, PurgeSound
<1>4. Becomes(w, Resting)
  BY <1>1, RestingIs, BecomesIs DEF FilesInv
<1> QED BY <1>3, <1>4, RestingIs, SoundStep

\* Time passes: nobody writes.
LEMMA TimeStep ==
  ASSUME FilesInv, UNCHANGED <<files, ever, writer, acked, purged>>,
         late \subseteq late', late' \subseteq ever, old' \in 1 .. MaxOld, old <= old'
  PROVE  FilesInv'
<1>1. Keeps
  BY Facts DEF Keeps
<1>2. TypeOK'
  BY DEF FilesInv, TypeOK
<1>3. NothingElseGoes'
  <2>1. old' \in Nat /\ TypeOK /\ NothingElseGoes /\ ever \subseteq File
    BY ECAssumption DEF FilesInv, TypeOK
  <2>2. \A f \in ever : Dispensable(f) => Dispensable(f)'
    BY <1>1, <2>1, DispensableStays
  <2>3. \A w \in Writers : Doomed(w)' = Doomed(w)
    BY DEF Doomed
  <2> QED BY <2>1, <2>2, <2>3 DEF NothingElseGoes
<1>4. IsFiniteSet(ever)' /\ Known' /\ LegacyHasData' /\ CommitsOwn' /\ AckedStands'
  BY DEF FilesInv, Known, Doomed, LegacyHasData, CommitsOwn, AckedStands
<1> QED BY <1>2, <1>3, <1>4 DEF FilesInv

LEMMA WriteStep ==
  ASSUME FilesInv, NEW w \in Writers, Write(w)
  PROVE  FilesInv'
<1>1. CASE \E t \in Time, fi \in Frags : Put(w, t, fi)
  BY <1>1, PutStep
<1>2. CASE \E t \in Time, fi \in Frags : Purge(w, t, fi)
  BY <1>2, PurgeStep
<1>3. CASE \E f \in File : PutOther(w, f)
  BY <1>3, PutOtherStep
<1>4. CASE Commit(w) \/ CommitMissing(w) \/ CommitFails(w)
  BY <1>4, CommitStep, CommitMissingStep, CommitFailsStep
<1>5. CASE Dies(w) \/ CleanupEnds(w)
  BY <1>5, DiesStep
<1>6. CASE ListForCleanup(w)
  BY <1>6, ListStep
<1>7. CASE Reclaim(w) \/ Remove(w)
  BY <1>7, RemoveStep
<1>8. CASE PurgeDurable(w)
  BY <1>8, PurgeDurableStep
<1> QED BY <1>1, <1>2, <1>3, <1>4, <1>5, <1>6, <1>7, <1>8 DEF Write

LEMMA FilesStep ==
  ASSUME FilesInv, [Next]_vars
  PROVE  FilesInv'
<1>1. CASE \E w \in Writers : Write(w)
  BY <1>1, WriteStep
<1>2. CASE WindowPasses
  <2>1. PICK f \in files \ late :
          late' = late \cup {f} /\ UNCHANGED <<files, ever, old, writer, acked, purged>>
    BY <1>2 DEF WindowPasses
  <2> QED BY <2>1, Facts, TimeStep
<1>3. CASE Ages
  <2>1. /\ old < MaxOld /\ old' = old + 1
        /\ UNCHANGED <<files, ever, late, writer, acked, purged>>
    BY <1>3 DEF Ages
  <2>2. old' \in 1 .. MaxOld /\ old <= old'
    BY <2>1, Facts, ECAssumption
  <2> QED BY <2>1, <2>2, Facts, TimeStep
<1>4. CASE UNCHANGED vars
  <2>1. UNCHANGED <<files, ever, old, late, writer, acked, purged>>
    BY <1>4 DEF vars
  <2> QED BY <2>1, Facts, TimeStep
<1> QED BY <1>1, <1>2, <1>3, <1>4 DEF Next

LEMMA FilesInit == Init => FilesInv
<1> SUFFICES ASSUME Init PROVE FilesInv
  OBVIOUS
<1>1. /\ ever = files /\ old = 1 /\ late = files /\ acked = {} /\ purged = {}
      /\ writer = [w \in Writers |-> Resting]
      /\ files = {} \/ \E fi \in Frags : files = LegacyPair(fi)
  BY DEF Init
<1>2. /\ files \subseteq File /\ IsFiniteSet(files)
      /\ \A g \in files : g.ext = "durable" => \E f \in files : f.ext = "data" /\ f.ts = g.ts
  <2>1. CASE files = {}
    BY <2>1, FS_EmptySet
  <2>2. CASE \E fi \in Frags : files = LegacyPair(fi)
    <3>1. PICK fi \in Frags : files = LegacyPair(fi)
      BY <2>2
    <3> DEFINE d == DataFile(1, fi, FALSE)  m == OtherFile("durable", 1)
    <3>2. files = {d, m}
      BY <3>1 DEF LegacyPair
    <3>3. 1 \in Time /\ FALSE \in BOOLEAN
      BY ECAssumption DEF Time
    <3>4. d \in File /\ d.ext = "data" /\ d.ts = 1
      BY <3>3, DataFileIs, Zenon
    <3>5. m \in File /\ m.ext = "durable" /\ m.ts = 1
      BY <3>3, OtherFileIs
    <3> HIDE DEF d, m
    <3>6. IsFiniteSet({d} \cup {m})
      BY FS_Singleton, FS_Union
    <3>7. files = {d} \cup {m}
      BY <3>2
    <3> QED BY <3>2, <3>4, <3>5, <3>6, <3>7
  <2> QED BY <1>1, <2>1, <2>2
<1>3. TypeOK
  BY <1>1, <1>2, RestingIs, ECAssumption DEF TypeOK, Doing
<1>4. \A w \in Writers : Doomed(w) = {} /\ writer[w].at = "idle"
  BY <1>1, RestingIs DEF Doomed
<1> QED BY <1>1, <1>2, <1>3, <1>4
        DEF FilesInv, NothingElseGoes, Known, LegacyHasData, CommitsOwn, AckedStands

LEMMA FilesAlways == Spec => []FilesInv
<1>1. FilesInv /\ [Next]_vars => FilesInv'
  BY FilesStep
<1> QED BY <1>1, FilesInit, PTL DEF Spec

\* The invariant says what the properties say.
LEMMA KeptAlways == FilesInv => ECInv
<1> SUFFICES ASSUME FilesInv PROVE ECInv
  OBVIOUS
<1>1. ASSUME old = 1, purged = {}
      PROVE  Opened(Live(files)) = Meaning(ever)
  BY <1>1, KeptMeaning DEF FilesInv
<1> QED BY <1>1 DEF FilesInv, ECInv, ServedIsKept, AckedStands

LEMMA AwaitedIsKept == FilesInv => AwaitsItsCommit
<1> SUFFICES ASSUME FilesInv, NEW w \in Writers, writer[w].at = "commit",
                    NEW f \in writer[w].file \ files
             PROVE  \/ Meaning(ever).at >= f.ts
                    \/ f \in purged
                    \/ f.ts < old /\ f \in late
  BY DEF AwaitsItsCommit
<1>1. f \in ever /\ f.ext = "data" /\ ~f.durable
  BY DEF FilesInv, CommitsOwn
<1>2. ever \subseteq File /\ f \in File
  BY <1>1, Facts
<1>3. Dispensable(f)
  BY <1>1 DEF FilesInv, NothingElseGoes
<1>4. f.ts \in Nat
  BY <1>2, FileType
<1>5. CASE \E t \in ever : Deletes(t, f)
  <2>1. PICK t \in ever : Deletes(t, f)
    BY <1>5
  <2>2. t.ext = "ts" /\ f.ts <= t.ts /\ t.ts \in Nat
    <3>1. t \in File
      BY <1>2
    <3>2. t.ts \in Nat
      BY <3>1, FileType
    <3> QED BY <1>4, <2>1, <3>2 DEF Deletes
  <2>3. Meaning(ever).at \in Nat /\ t.ts <= Meaning(ever).at
    BY <1>2, <2>2, MeaningIsNoOlder
  <2> QED BY <1>4, <2>2, <2>3
<1>6. CASE \E m \in Marks(ever) : f.ts < m.ts
  <2>1. PICK m \in Marks(ever) : f.ts < m.ts
    BY <1>6
  <2>2. m \in ever /\ (m.ext = "durable" \/ m.durable) /\ m.ts \in Nat
    BY <1>2, FileType DEF Marks
  <2>3. Meaning(ever).at \in Nat /\ m.ts <= Meaning(ever).at
    BY <1>2, <2>2, MeaningIsNoOlder
  <2> QED BY <1>4, <2>1, <2>2, <2>3
<1>7. CASE Durable(f) \in ever
  <2>1. Durable(f).durable /\ Durable(f).ts = f.ts
    BY <1>1, <1>2, DurableIsFile, Zenon
  <2>2. Meaning(ever).at \in Nat /\ Durable(f).ts <= Meaning(ever).at
    BY <1>2, <1>7, <2>1, MeaningIsNoOlder
  <2> QED BY <1>4, <2>1, <2>2
<1> QED BY <1>1, <1>3, <1>5, <1>6, <1>7 DEF Dispensable, Beaten

LEMMA PrefsAreKept == FilesInv => PrefsAreHonoured
<1> SUFFICES ASSUME FilesInv, NEW order \in Prefs
             PROVE
    LET info == get_ondisk_files(files, NoIndex, [given |-> TRUE, order |-> order])
        alive == {f \in Kind(files, "data") :
                    f.ts > Largest({0} \cup {g.ts : g \in Kind(files, "ts")})
                    /\ f.ts >= DurableTime(files)}
        unwanted == {f \in alive : \E i \in DOMAIN order :
                       order[i].ts = f.ts /\ f.frag \in order[i].exclude}
    IN /\ info.data \cap unwanted = {}
       /\ info.data = {} => alive \subseteq unwanted
  BY DEF PrefsAreHonoured
<1> DEFINE prefs == [given |-> TRUE, order |-> order]
           info == get_ondisk_files(files, NoIndex, prefs)
           alive == {f \in Kind(files, "data") :
                    f.ts > Largest({0} \cup {g.ts : g \in Kind(files, "ts")})
                    /\ f.ts >= DurableTime(files)}
           unwanted == {f \in alive : \E i \in DOMAIN order :
                       order[i].ts = f.ts /\ f.frag \in order[i].exclude}
           frags == Candidates(files)
           good == {i \in DOMAIN order : Acceptable(frags, order[i]) # {}}
           first == CHOOSE i \in good : \A j \in good : i <= j
           uncited == {f \in frags : \A i \in DOMAIN order : order[i].ts # f.ts}
           set == IF good # {} THEN Acceptable(frags, order[first])
                  ELSE At(uncited, Largest({0} \cup {f.ts : f \in uncited}))
           wanted == Largest({NoIndex} \cup {f.frag : f \in set})
<1>1. files \subseteq File /\ IsFiniteSet(files) /\ Counting(files) \subseteq files
  BY Facts, FS_Subset, CountingIs
<1>2. frags \subseteq Counting(files) /\ frags \subseteq File
  BY <1>1 DEF Candidates, Kind
<1>3. info.data = {f \in set : f.frag = wanted}
  <2>1. info.data = Choose(frags, DurableSet(files), NoIndex, prefs)
    BY InfoIs
  <2>2. prefs.given /\ prefs.order = order
    OBVIOUS
  <2> HIDE DEF prefs, info, frags
  <2> QED BY <2>1, <2>2 DEF Choose
\* There is one preference at most.
<1>4. DOMAIN order = {} \/ DOMAIN order = {1}
  BY DEF Prefs
<1>5. good # {} => first = 1 /\ 1 \in DOMAIN order
  BY <1>4
<1>6. set \subseteq frags
  BY DEF At, Acceptable
<1>7. info.data \cap unwanted = {}
  <2>1. ASSUME NEW f \in set, NEW i \in DOMAIN order, order[i].ts = f.ts
        PROVE  f.frag \notin order[i].exclude
    <3>1. CASE good # {}
      BY <1>4, <1>5, <2>1, <3>1 DEF Acceptable
    <3>2. CASE good = {}
      BY <2>1, <3>2 DEF At
    <3> QED BY <3>1, <3>2
  <2> HIDE DEF set, wanted, info, alive
  <2> QED BY <1>3, <2>1
<1>8. ASSUME info.data = {}
      PROVE  alive \subseteq unwanted
  <2>1. IsFiniteSet(set) /\ set \subseteq File
    <3> HIDE DEF set
    <3>1. set \subseteq files
      BY <1>1, <1>2, <1>6
    <3> QED BY <1>1, <3>1, FS_Subset
  <2>2. set = {}
    <3> HIDE DEF set
    <3> QED BY <1>3, <1>8, <2>1, TopFragment
  <2>3. good = {}
    <3> SUFFICES ASSUME good # {} PROVE FALSE
      OBVIOUS
    <3>1. first \in good
      <4>1. good = {1}
        BY <1>4
      <4> HIDE DEF good
      <4> QED BY <4>1
    <3> QED BY <2>2, <3>1
  <2>4. uncited = {}
    <3>1. uncited \subseteq File
      BY <1>2
    <3>2. At(uncited, Top(uncited)) = {}
      BY <2>2, <2>3 DEF Top
    <3> HIDE DEF uncited
    <3>3. Top(uncited) = 0 \/ \E f \in uncited : f.ts = Top(uncited)
      BY <3>1, TopIs
    <3>4. Top(uncited) = 0
      BY <3>2, <3>3 DEF At
    <3>5. \A f \in uncited : f.ts <= 0 /\ 1 <= f.ts /\ f.ts \in Nat
      BY <3>1, <3>4, TopIs, FileType
    <3> QED BY <3>5
  \* What is alive counts, and is a candidate.
  <2>5. ASSUME NEW f \in alive
        PROVE  f \in frags
    <3>1. f \in files /\ f.ext = "data" /\ f \in File /\ f.ts \in Nat
      BY <1>1, <2>5, FileType DEF Kind
    <3>2. f.ts > Top(Kind(files, "ts")) /\ f.ts >= Top(Marks(files))
      <4>1. f.ts > Largest({0} \cup {g.ts : g \in Kind(files, "ts")}) /\ f.ts >= DurableTime(files)
        BY <2>5
      <4> QED BY <4>1, DurableTimeIs DEF Top
    <3>3. \A t \in files : ~Deletes(t, f)
      <4> SUFFICES ASSUME NEW t \in files, Deletes(t, f) PROVE FALSE
        OBVIOUS
      <4>1. t \in Kind(files, "ts") /\ Kind(files, "ts") \subseteq File
        BY <1>1 DEF Kind, Deletes
      <4>2. t.ts <= Top(Kind(files, "ts")) /\ t.ts \in Nat /\ Top(Kind(files, "ts")) \in Nat
        BY <4>1, TopIs, FileType
      <4> QED BY <3>1, <3>2, <4>2 DEF Deletes
    <3>4. f \in Kind(Counting(files), "data")
      BY <1>1, <3>1, <3>3, CountingIs DEF Kind
    <3>5. f.ts >= DurableTime(Counting(files))
      <4>1. Marks(Counting(files)) \subseteq Marks(files) /\ Marks(files) \subseteq File
        BY <1>1 DEF Marks
      <4>2. /\ Top(Marks(Counting(files))) \in Nat /\ Top(Marks(files)) \in Nat
            /\ \/ Top(Marks(Counting(files))) = 0
               \/ \E m \in Marks(Counting(files)) : m.ts = Top(Marks(Counting(files)))
            /\ \A m \in Marks(files) : m.ts <= Top(Marks(files))
        BY <4>1, TopIs
      <4>3. Top(Marks(Counting(files))) <= Top(Marks(files))
        BY <4>1, <4>2
      <4> QED BY <3>1, <3>2, <4>2, <4>3, DurableTimeIs
    <3> QED BY <3>4, <3>5 DEF Candidates
  <2>6. ASSUME NEW f \in alive
        PROVE  \E i \in DOMAIN order : order[i].ts = f.ts /\ f.frag \in order[i].exclude
    <3>1. f \in frags /\ f \notin uncited
      BY <2>4, <2>5, <2>6
    <3>2. PICK i \in DOMAIN order : order[i].ts = f.ts
      BY <3>1
    <3>3. Acceptable(frags, order[i]) = {}
      BY <2>3, <3>2
    <3> QED BY <3>1, <3>2, <3>3 DEF Acceptable, At
  <2> QED BY <2>6
<1> QED BY <1>7, <1>8

(* Whatever the order of puts, commits, deletes, cleanups and purges and   *)
(* wherever one stops, the directory serves what was written.              *)
THEOREM ECInvAlways == Spec => []ECInv
BY FilesAlways, KeptAlways, PTL

(* Between put and commit a fragment survives every cleanup, however old its*)
(* listing, until something newer is durable, it is deleted or purged, or both*)
(* the reclaim age and the commit window have passed (bs_diskfile.py,      *)
(* _process_ondisk_files and cleanup_ondisk_files).                        *)
THEOREM AwaitsItsCommitAlways == Spec => []AwaitsItsCommit
BY FilesAlways, AwaitedIsKept, PTL

(* An open that names the fragments its caller has already is given none of*)
(* them, and is given nothing only if the directory holds nothing else     *)
(* (bs_diskfile.py, _process_ondisk_files with frag_prefs).                *)
THEOREM PrefsAreHonouredAlways == Spec => []PrefsAreHonoured
BY FilesAlways, PrefsAreKept, PTL
=============================================================================
