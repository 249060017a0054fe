---------------------------- MODULE DeviceProofs ----------------------------
(***************************************************************************)
(* Device resolves the name to what was decided last, the newest request   *)
(* wins, and what is answered is durable, for any number of requests: its  *)
(* inductive invariant, and the steps that matter one by one.              *)
(*                                                                         *)
(* What is said of the log takes it as a parameter, so that the same can   *)
(* be said of the log a step leaves.                                       *)
(***************************************************************************)
EXTENDS Device, FiniteSetTheorems, SequenceTheorems, TLAPS

\* i is the last of the first k decisions of l about o, 0 if there is none.
IsLatest(l, o, k, i) ==
    /\ i \in 0 .. k
    /\ i > 0 => l[i].obj = o
    /\ \A j \in 1 .. k : j > i => l[j].obj # o

\* The POSTs that rewrote o.
Rewrites(l, o) == {i \in 2 .. Len(l) : l[i].obj = o /\ l[i - 1].obj = o}

Logged(l) == {l[i].obj : i \in 1 .. Len(l)}

\* What request x asked for, or something newer, is decided with decision d.
Served(x, d) == \/ d.data >= x.ts
                \/ x.kind \notin {"PUT", "DELETE"} /\ d.post >= x.ts

ServedAt(l, x, k) == k \in 1 .. Len(l) /\ Served(x, l[k])

Reads == {"sync", "synced", "chunk", "read", "changed"}
Settles == {"settle", "settled"}

\* A read of metadata that no POST has overtaken.
Unmoved(l, x) == x.ver = Cardinality(Rewrites(l, x.cur))

\* What a request has is of the Object's last decision, which is durable.
Current(l, dur, x) ==
    \E i \in 1 .. dur :
        /\ IsLatest(l, x.cur, Len(l), i)
        /\ \A n \in 1 .. Len(x.got) : x.got[n] = l[i].post

\* What is true of request x, where l is the log and dur of it are durable.
Honest(l, dur, x) ==
    /\ x.target <= Len(l) /\ Len(x.got) <= MetaChunks
    /\ x.pc \in Reads \cup Settles => x.cur \in Logged(l)
    /\ x.pc \in Reads => x.ver <= Cardinality(Rewrites(l, x.cur))
    /\ x.pc \in {"sync", "synced"} => Len(x.got) < 1
    /\ x.pc = "chunk" => Len(x.got) < MetaChunks
    /\ x.pc = "synced" /\ Unmoved(l, x) => IsLatest(l, x.cur, Len(l), x.target)
    /\ x.pc \in {"chunk", "read"} /\ Unmoved(l, x) => Current(l, dur, x)
    /\ x.opened /\ x.kind = "POST" => Len(l) > 0
    /\ x.pc = "body" => x.kind = "GET"
    /\ x.pc = "settle" => \E i \in 1 .. Len(l) : l[i].obj = x.cur /\ Served(x, l[i])
    /\ x.pc = "settled" => ServedAt(l, x, x.target) /\ l[x.target].obj = x.cur
    /\ x.how \in {"ok", "lost"} /\ x.kind # "GET" => ServedAt(l, x, dur)

\* The decisions: each prefix has a last one about each Object, those about
\* the Object that has the name are together at the end.
LogTrue(l) ==
    /\ l \in Seq(Decision)
    /\ \A o \in Objects, k \in 0 .. Len(l) : \E i \in 0 .. k : IsLatest(l, o, k, i)
    /\ \A i, j \in 1 .. Len(l) : i <= j /\ l[i].obj = l[Len(l)].obj => l[j].obj = l[i].obj
    /\ \A j \in 1 .. Len(l) : \A i \in 1 .. j - 1 :
        /\ l[j].data >= l[i].data
        /\ l[i].post > 0 => l[j].post >= l[i].post \/ l[j].data >= l[i].post

\* While the name has not reached BlueStore, who took it waits for it, and is
\* in the map: no search begins.
Announced ==
    LET h == Now.obj IN
    /\ h \in Requests /\ map = h
    /\ req[h].cur = h /\ req[h].pc \in Settles
    /\ req[h].pc = "settled" => req[h].target > applied

MapTrue ==
    /\ map \in {Nobody, "search", Now.obj}
    /\ map = "search" <=> search.pc # "none"
    /\ search.pc = "loaded" => search.found = Now.obj
    /\ At(applied).obj # Now.obj => Announced
    /\ halfway => At(applied).obj # Now.obj

Records ==
    [kind : Kinds, ts : Stamps,
     pc : {"open", "waiting", "raising", "body", "done"} \cup Reads \cup Settles,
     opened : BOOLEAN, file : Objects \cup {Nobody}, cur : Objects \cup {Nobody},
     ver : Nat, got : Seq(Stamps \cup {0}), tries : 0 .. Attempts,
     at : {"ordinary", "temporary"}, target : Nat,
     how : {"none", "ok", "lost", "failed", "missing"}]

Types ==
    /\ req \in [Requests -> Records]
    /\ map \in Objects \cup {Nobody, "search"}
    /\ search \in [pc : {"none", "loading", "loaded", "failed"},
                   found : Objects \cup {Nobody}]
    /\ applied \in Nat /\ durable \in Nat /\ halfway \in BOOLEAN
    /\ durable <= applied /\ applied <= Len(log)

\* An Object is decided about once its request is on its way out.
Taken == \A r \in Requests : r \in Logged(log) => req[r].pc \in Settles \cup {"done"}

DeviceInv ==
    /\ Types /\ LogTrue(log) /\ MapTrue /\ Taken
    /\ \A r \in Requests : Honest(log, durable, req[r])

-----------------------------------------------------------------------------
(* The log.                                                                *)

LEMMA StampsAre ==
  /\ Stamps \subseteq Nat /\ Stamps \cup {0} \subseteq Nat /\ Stamps \cup {1} \subseteq Nat
  /\ \A t \in Stamps : t > 1
BY DeviceAssumption

LEMMA LatestUnique ==
  ASSUME NEW l, NEW o, NEW k \in Nat, NEW i, NEW j,
         IsLatest(l, o, k, i), IsLatest(l, o, k, j)
  PROVE  i = j
BY DEF IsLatest

\* LatestOf finds the last decision, for there is one.
LEMMA LatestIs ==
  ASSUME LogTrue(log), NEW o \in Objects, NEW k \in 0 .. Len(log)
  PROVE  /\ LatestOf(o, k) \in 0 .. k
         /\ IsLatest(log, o, k, LatestOf(o, k))
<1>1. PICK i \in 0 .. k : IsLatest(log, o, k, i)
  BY DEF LogTrue
<1>2. k \in Nat
  BY DEF LogTrue
<1>3. \A x \in 0 .. k : (\A j \in x + 1 .. k : log[j].obj # o)
                           <=> (\A j \in 1 .. k : j > x => log[j].obj # o)
  BY <1>2
<1>4. /\ i > 0 => log[i].obj = o
      /\ \A j \in i + 1 .. k : log[j].obj # o
  BY <1>1, <1>3 DEF IsLatest
<1> DEFINE P(x) == /\ x > 0 => log[x].obj = o
                   /\ \A j \in x + 1 .. k : log[j].obj # o
<1>5. LatestOf(o, k) = CHOOSE x \in 0 .. k : P(x)
  BY DEF LatestOf
<1>6. \E x \in 0 .. k : P(x)
  BY <1>1, <1>4
<1>7. LatestOf(o, k) \in 0 .. k /\ P(LatestOf(o, k))
  <2> HIDE DEF P
  <2> QED
    BY <1>5, <1>6
<1> QED
  BY <1>2, <1>3, <1>7 DEF IsLatest

\* Who has the name: the last decision.
LEMMA NowFacts ==
  ASSUME LogTrue(log)
  PROVE  /\ Len(log) \in Nat
         /\ Len(log) = 0 => Now = None /\ Now.obj = Missing
         /\ Len(log) > 0 => /\ Now = log[Len(log)] /\ Now \in Decision
                            /\ Now.obj \in Requests \cup {First}
                            /\ IsLatest(log, Now.obj, Len(log), Len(log))
         /\ Now.obj \in Objects
         /\ \A k \in 0 .. Len(log) : /\ At(k).obj \in Objects
                                     /\ At(k).post \in Stamps \cup {0}
                                     /\ k > 0 => At(k) = log[k] /\ At(k) \in Decision
         /\ Logged(log) \subseteq Requests \cup {First}
<1>1. Len(log) \in Nat /\ \A i \in 1 .. Len(log) : log[i] \in Decision
  BY DEF LogTrue
<1>2. \A d \in Decision : d.obj \in Requests \cup {First} /\ d.post \in Stamps \cup {0}
  BY DEF Decision
<1>3. Logged(log) \subseteq Requests \cup {First}
  BY <1>1, <1>2 DEF Logged
<1>4. \A k \in 0 .. Len(log) : /\ At(k).obj \in Objects
                               /\ At(k).post \in Stamps \cup {0}
                               /\ k > 0 => At(k) = log[k] /\ At(k) \in Decision
  BY <1>1, <1>2 DEF At, None, Objects
<1>5. Len(log) = 0 => Now = None /\ Now.obj = Missing
  BY DEF Now, At, None
<1>6. Len(log) > 0 => /\ Now = log[Len(log)] /\ Now \in Decision
                      /\ Now.obj \in Requests \cup {First}
                      /\ IsLatest(log, Now.obj, Len(log), Len(log))
  BY <1>1, <1>2 DEF Now, At, IsLatest
<1> QED
  BY <1>1, <1>3, <1>4, <1>5, <1>6 DEF Now, Objects

\* What is decided later does for whatever was decided earlier.
LEMMA ServedLater ==
  ASSUME NEW l, LogTrue(l), NEW x \in Records, NEW i \in 1 .. Len(l), NEW j \in 1 .. Len(l),
         i <= j, Served(x, l[i])
  PROVE  Served(x, l[j])
<1>1. /\ x.ts \in Nat \ {0} /\ Len(l) \in Nat
      /\ \A n \in 1 .. Len(l) : l[n].data \in Nat /\ l[n].post \in Nat
  <2>1. x.ts \in Nat \ {0}
    BY DeviceAssumption DEF Records
  <2>2. \A d \in Decision : d.data \in Nat /\ d.post \in Nat
    BY StampsAre DEF Decision
  <2>3. Len(l) \in Nat /\ \A n \in 1 .. Len(l) : l[n] \in Decision
    BY DEF LogTrue
  <2> QED
    BY <2>1, <2>2, <2>3
<1>2. CASE i = j
  BY <1>2
<1>3. CASE i # j
  <2>1. /\ l[j].data >= l[i].data
        /\ l[i].post > 0 => l[j].post >= l[i].post \/ l[j].data >= l[i].post
    BY <1>1, <1>3 DEF LogTrue
  <2> QED
    BY <1>1, <2>1 DEF Served
<1> QED
  BY <1>2, <1>3

\* A decision is added.
LEMMA Appended ==
  ASSUME LogTrue(log), NEW d \in Decision, log' = Append(log, d)
  PROVE  /\ Len(log') = Len(log) + 1 /\ Len(log) \in Nat
         /\ \A i \in 1 .. Len(log) : log'[i] = log[i]
         /\ log'[Len(log')] = d
         /\ log' \in Seq(Decision)
         /\ Logged(log') = Logged(log) \cup {d.obj}
<1>1. /\ Len(log') = Len(log) + 1 /\ Len(log) \in Nat
      /\ \A i \in 1 .. Len(log) : log'[i] = log[i]
      /\ log'[Len(log')] = d
      /\ log' \in Seq(Decision)
  BY AppendProperties DEF LogTrue
<1> QED
  BY <1>1 DEF Logged

\* ... about another Object: o's last one is the same, and no POST rewrote it.
LEMMA AppendedOther ==
  ASSUME LogTrue(log), NEW d \in Decision, log' = Append(log, d),
         NEW o, d.obj # o
  PROVE  /\ \A i : IsLatest(log, o, Len(log), i) => IsLatest(log', o, Len(log'), i)
         /\ Rewrites(log', o) = Rewrites(log, o)
<1>1. /\ Len(log') = Len(log) + 1 /\ Len(log) \in Nat
      /\ \A i \in 1 .. Len(log) : log'[i] = log[i]
      /\ log'[Len(log) + 1] = d
  BY Appended
<1>2. ASSUME NEW i, IsLatest(log, o, Len(log), i) PROVE IsLatest(log', o, Len(log'), i)
  <2>1. i \in 0 .. Len(log) + 1 /\ (i > 0 => log'[i].obj = o)
    BY <1>1, <1>2 DEF IsLatest
  <2>2. ASSUME NEW j \in 1 .. Len(log) + 1, j > i PROVE log'[j].obj # o
    <3>1. CASE j = Len(log) + 1
      BY <1>1, <3>1
    <3>2. CASE j # Len(log) + 1
      <4>1. j \in 1 .. Len(log)
        BY <1>1, <3>2
      <4> QED
        BY <1>1, <1>2, <2>2, <4>1 DEF IsLatest
    <3> QED
      BY <3>1, <3>2
  <2> QED
    BY <1>1, <2>1, <2>2 DEF IsLatest
<1>3. Rewrites(log', o) = Rewrites(log, o)
  <2>1. \A i \in 2 .. Len(log) + 1 : i # Len(log) + 1 =>
           i \in 1 .. Len(log) /\ i - 1 \in 1 .. Len(log)
    BY <1>1
  <2>2. 2 .. Len(log) \subseteq 2 .. Len(log) + 1
    BY <1>1
  <2> QED
    BY <1>1, <2>1, <2>2 DEF Rewrites
<1> QED
  BY <1>2, <1>3

\* Versions count up.
LEMMA RewritesFinite ==
  ASSUME NEW l, Len(l) \in Nat, NEW o
  PROVE  IsFiniteSet(Rewrites(l, o)) /\ Cardinality(Rewrites(l, o)) \in Nat
<1>1. IsFiniteSet(2 .. Len(l))
  BY FS_Interval
<1>2. Rewrites(l, o) \in SUBSET (2 .. Len(l))
  BY DEF Rewrites
<1> QED
  BY <1>1, <1>2, FS_Subset, FS_CardinalityType

\* A POST of the Object that has the name raises its version.
LEMMA AppendedSame ==
  ASSUME LogTrue(log), NEW d \in Decision, log' = Append(log, d),
         Len(log) > 0, d.obj = Now.obj
  PROVE  Cardinality(Rewrites(log', d.obj)) = Cardinality(Rewrites(log, d.obj)) + 1
<1>1. /\ Len(log') = Len(log) + 1 /\ Len(log) \in Nat
      /\ \A i \in 1 .. Len(log) : log'[i] = log[i]
      /\ log'[Len(log) + 1] = d
      /\ log[Len(log)].obj = d.obj
  BY Appended, NowFacts
<1>2. Rewrites(log', d.obj) = Rewrites(log, d.obj) \cup {Len(log) + 1}
  <2>1. \A i : i \in 2 .. Len(log) + 1 <=> i \in 2 .. Len(log) \/ i = Len(log) + 1
    BY <1>1
  <2>2. \A i \in 2 .. Len(log) : i \in 1 .. Len(log) /\ i - 1 \in 1 .. Len(log)
    BY <1>1
  <2>3. log'[Len(log) + 1].obj = d.obj /\ log'[(Len(log) + 1) - 1].obj = d.obj
    BY <1>1
  <2>4. \A i \in 2 .. Len(log) : log'[i] = log[i] /\ log'[i - 1] = log[i - 1]
    BY <1>1, <2>2
  <2>5. \A i : i \in Rewrites(log', d.obj)
                  <=> i \in Rewrites(log, d.obj) \/ i = Len(log) + 1
    BY <1>1, <2>1, <2>3, <2>4 DEF Rewrites
  <2> QED
    BY <2>5
<1>3. Len(log) + 1 \notin Rewrites(log, d.obj)
  BY <1>1 DEF Rewrites
<1>4. IsFiniteSet(Rewrites(log, d.obj))
  BY <1>1, RewritesFinite
<1> QED
  BY <1>2, <1>3, <1>4, FS_AddElement

\* What a request may add to the log: a decision about the Object that has the
\* name, or about one of which there is none yet, that is newer.
Follows(d) ==
    /\ d \in Decision
    /\ \/ Len(log) > 0 /\ d.obj = Now.obj
       \/ d.obj \notin Logged(log)
    /\ Len(log) > 0 =>
          /\ d.data >= Now.data
          /\ Now.post > 0 => d.post >= Now.post \/ d.data >= Now.post

LEMMA LogStep ==
  ASSUME LogTrue(log), NEW d, Follows(d), log' = Append(log, d)
  PROVE  LogTrue(log')
<1>0. d \in Decision
  BY DEF Follows
<1>1. /\ Len(log') = Len(log) + 1 /\ Len(log) \in Nat
      /\ \A i \in 1 .. Len(log) : log'[i] = log[i]
      /\ log'[Len(log) + 1] = d
      /\ log' \in Seq(Decision)
  BY <1>0, Appended
<1>2. \A n \in 1 .. Len(log) : /\ log[n] \in Decision
                               /\ log[n].data \in Nat /\ log[n].post \in Nat
  <2>1. \A e \in Decision : e.data \in Nat /\ e.post \in Nat
    BY StampsAre DEF Decision
  <2> QED
    BY <2>1 DEF LogTrue
<1>3. d.data \in Nat /\ d.post \in Nat
  BY <1>0, StampsAre DEF Decision
<1>4. ASSUME NEW o \in Objects, NEW k \in 0 .. Len(log')
      PROVE  \E i \in 0 .. k : IsLatest(log', o, k, i)
  <2>1. CASE k <= Len(log)
    <3>1. PICK i \in 0 .. k : IsLatest(log, o, k, i)
      BY <1>1, <2>1 DEF LogTrue
    <3>2. \A j \in 1 .. k : log'[j] = log[j]
      BY <1>1, <2>1
    <3>3. IsLatest(log', o, k, i)
      BY <1>1, <3>1, <3>2 DEF IsLatest
    <3> QED
      BY <3>3
  <2>2. CASE k = Len(log) + 1 /\ d.obj = o
    <3>1. IsLatest(log', o, k, k)
      BY <1>1, <2>2 DEF IsLatest
    <3> QED
      BY <1>1, <2>2, <3>1
  <2>3. CASE k = Len(log) + 1 /\ d.obj # o
    <3>1. PICK i \in 0 .. Len(log) : IsLatest(log, o, Len(log), i)
      BY <1>1 DEF LogTrue
    <3>2. IsLatest(log', o, k, i)
      BY <1>0, <1>1, <2>3, <3>1, AppendedOther
    <3> QED
      BY <1>1, <2>3, <3>1, <3>2
  <2> QED
    BY <1>1, <2>1, <2>2, <2>3
<1>5. ASSUME NEW i \in 1 .. Len(log'), NEW j \in 1 .. Len(log'), i <= j,
             log'[i].obj = log'[Len(log')].obj
      PROVE  log'[j].obj = log'[i].obj
  <2>1. CASE j = Len(log) + 1
    BY <1>1, <1>5, <2>1
  <2>2. CASE j # Len(log) + 1
    <3>1. i \in 1 .. Len(log) /\ j \in 1 .. Len(log) /\ log'[i] = log[i] /\ log'[j] = log[j]
      BY <1>1, <1>5, <2>2
    <3>2. log[i].obj = d.obj
      BY <1>1, <1>5, <3>1
    <3>3. log[i].obj \in Logged(log)
      BY <3>1 DEF Logged
    <3>4. d.obj = log[Len(log)].obj
      BY <3>1, <3>2, <3>3, NowFacts DEF Follows
    <3> QED
      BY <1>5, <3>1, <3>2, <3>4 DEF LogTrue
  <2> QED
    BY <2>1, <2>2
<1>6. ASSUME NEW j \in 1 .. Len(log'), NEW i \in 1 .. j - 1
      PROVE  /\ log'[j].data >= log'[i].data
             /\ log'[i].post > 0 => \/ log'[j].post >= log'[i].post
                                    \/ log'[j].data >= log'[i].post
  <2>1. i \in 1 .. Len(log) /\ log'[i] = log[i]
    BY <1>1
  <2>2. CASE j = Len(log) + 1
    <3>1. /\ d.data >= log[Len(log)].data
          /\ LET p == log[Len(log)].post IN p > 0 => d.post >= p \/ d.data >= p
      BY <1>1, <2>1, NowFacts DEF Follows
    <3>2. CASE i = Len(log)
      BY <1>1, <2>1, <2>2, <3>1, <3>2
    <3>3. CASE i # Len(log)
      <4>1. Len(log) \in 1 .. Len(log) /\ i \in 1 .. Len(log) - 1
        BY <1>1, <2>1, <3>3
      <4>2. /\ log[Len(log)].data >= log[i].data
            /\ log[i].post > 0 => \/ log[Len(log)].post >= log[i].post
                                  \/ log[Len(log)].data >= log[i].post
        BY <4>1 DEF LogTrue
      <4> QED
        BY <1>1, <1>2, <1>3, <2>1, <2>2, <3>1, <4>1, <4>2
    <3> QED
      BY <3>2, <3>3
  <2>3. CASE j # Len(log) + 1
    <3>1. j \in 1 .. Len(log) /\ log'[j] = log[j]
      BY <1>1, <2>3
    <3> QED
      BY <2>1, <3>1 DEF LogTrue
  <2> QED
    BY <2>2, <2>3
<1> QED
  BY <1>1, <1>4, <1>5, <1>6 DEF LogTrue

-----------------------------------------------------------------------------
(* What a step of the others leaves true of a request.                     *)

\* Another request decides: if it is a POST of the Object a request reads, the
\* version tells.
LEMMA HonestDecided ==
  ASSUME LogTrue(log), NEW d, Follows(d), log' = Append(log, d),
         NEW x \in Records, Honest(log, durable, x), durable \in Nat, durable <= Len(log)
  PROVE  Honest(log', durable, x)
<1>0. d \in Decision
  BY DEF Follows
<1>1. /\ Len(log') = Len(log) + 1 /\ Len(log) \in Nat
      /\ \A i \in 1 .. Len(log) : log'[i] = log[i]
      /\ Logged(log') = Logged(log) \cup {d.obj}
  BY <1>0, Appended
<1>2. \A k : ServedAt(log, x, k) => ServedAt(log', x, k) /\ log'[k] = log[k]
  BY <1>1 DEF ServedAt
<1>3. x.ver \in Nat /\ x.target \in Nat /\ Cardinality(Rewrites(log, x.cur)) \in Nat
  BY <1>1, RewritesFinite DEF Records
<1>4. CASE x.pc \in Reads
  <2>1. x.cur \in Logged(log) /\ x.ver <= Cardinality(Rewrites(log, x.cur))
    BY <1>4 DEF Honest
  <2>2. CASE d.obj = x.cur
    <3>1. Cardinality(Rewrites(log', x.cur)) = Cardinality(Rewrites(log, x.cur)) + 1
      BY <1>0, <2>1, <2>2, AppendedSame DEF Follows
    <3>2. ~Unmoved(log', x) /\ x.ver <= Cardinality(Rewrites(log', x.cur))
      BY <1>3, <2>1, <3>1 DEF Unmoved
    <3> QED
      BY <1>1, <1>2, <1>3, <1>4, <3>2 DEF Honest, Reads
  <2>3. CASE d.obj # x.cur
    <3>1. /\ \A i : IsLatest(log, x.cur, Len(log), i) => IsLatest(log', x.cur, Len(log'), i)
          /\ Rewrites(log', x.cur) = Rewrites(log, x.cur)
      BY <1>0, <2>3, AppendedOther
    <3>2. Current(log, durable, x) => Current(log', durable, x)
      BY <1>1, <3>1 DEF Current
    <3> QED
      BY <1>1, <1>2, <1>3, <1>4, <3>1, <3>2 DEF Honest, Unmoved, Reads
  <2> QED
    BY <2>2, <2>3
<1>5. CASE x.pc \notin Reads
  <2>1. x.pc = "settle" => \E i \in 1 .. Len(log') : log'[i].obj = x.cur /\ Served(x, log'[i])
    BY <1>1 DEF Honest
  <2>2. x.pc = "settled" => ServedAt(log', x, x.target) /\ log'[x.target].obj = x.cur
    BY <1>2 DEF Honest
  <2>3. x.pc \notin {"sync", "synced", "chunk", "read"}
    BY <1>5 DEF Reads
  <2>4. /\ x.target <= Len(log') /\ Len(x.got) <= MetaChunks
        /\ x.pc \in Reads \cup Settles => x.cur \in Logged(log')
        /\ x.opened /\ x.kind = "POST" => Len(log') > 0
        /\ x.pc = "body" => x.kind = "GET"
        /\ x.how \in {"ok", "lost"} /\ x.kind # "GET" => ServedAt(log', x, durable)
    BY <1>1, <1>2, <1>3 DEF Honest
  <2> QED
    BY <1>5, <2>1, <2>2, <2>3, <2>4 DEF Honest
<1> QED
  BY <1>4, <1>5

\* More is durable.
LEMMA HonestDurable ==
  ASSUME NEW l, LogTrue(l), NEW x \in Records, NEW dur \in Nat, Honest(l, dur, x),
         dur + 1 <= Len(l)
  PROVE  Honest(l, dur + 1, x)
<1>1. Len(l) \in Nat
  BY DEF LogTrue
<1>2. ServedAt(l, x, dur) => ServedAt(l, x, dur + 1)
  BY <1>1, ServedLater DEF ServedAt
<1>3. Current(l, dur, x) => Current(l, dur + 1, x)
  BY <1>1 DEF Current
<1> QED
  BY <1>2, <1>3 DEF Honest

-----------------------------------------------------------------------------
LEMMA NewIs ==
  ASSUME NEW k \in Kinds, NEW t \in Stamps
  PROVE  /\ New(k, t) \in Records
         /\ New(k, t).kind = k /\ New(k, t).ts = t /\ New(k, t).pc = "open"
         /\ ~New(k, t).opened /\ Len(New(k, t).got) < 1
         /\ New(k, t).target = 0 /\ New(k, t).how = "none"
<1>1. Nobody \in Objects \cup {Nobody} /\ <<>> \in Seq(Stamps \cup {0}) /\ 0 \in 0 .. Attempts
  BY DeviceAssumption
<1> QED
  BY <1>1 DEF New, Records, Reads, Settles

\* A request that is in no call of the Device's has little to keep true.
LEMMA Plain ==
  ASSUME LogTrue(log), NEW x \in Records,
         x.pc \in {"open", "waiting", "raising", "done"},
         Len(x.got) <= MetaChunks, x.target <= Len(log),
         x.opened /\ x.kind = "POST" => Len(log) > 0,
         x.how \in {"ok", "lost"} /\ x.kind # "GET" => ServedAt(log, x, durable)
  PROVE  Honest(log, durable, x)
BY DEF Honest, Reads, Settles

LEMMA InitInv == Init => DeviceInv
<1> SUFFICES ASSUME Init PROVE DeviceInv
  OBVIOUS
<1> DEFINE first == [obj |-> First, data |-> 1, post |-> 0]
<1>1. first \in Decision /\ first.obj = First
  BY DEF Decision
<1>2. /\ log \in Seq(Decision) /\ Len(log) < 2
      /\ Len(log) > 0 => log[1].obj = First
  <2>1. log = <<>> \/ log = <<first>>
    BY DEF Init
  <2> HIDE DEF first
  <2>2. CASE log = <<>>
    BY <2>2
  <2>3. CASE log = <<first>>
    BY <1>1, <2>3
  <2> QED
    BY <2>1, <2>2, <2>3
<1>7. Len(log) \in Nat /\ Len(log) < 2
  BY <1>2
<1>3. LogTrue(log)
  <2>1. ASSUME NEW o \in Objects, NEW k \in 0 .. Len(log)
        PROVE  \E i \in 0 .. k : IsLatest(log, o, k, i)
    <3>1. CASE k = 0
      BY <3>1 DEF IsLatest
    <3>0. k \in Nat /\ (k = 0 \/ (k = 1 /\ Len(log) > 0))
      BY <1>7
    <3>2. CASE k = 1 /\ o = First
      <4>1. IsLatest(log, o, k, 1)
        BY <1>2, <3>0, <3>2 DEF IsLatest
      <4> QED
        BY <3>2, <4>1
    <3>3. CASE k = 1 /\ o # First
      <4>1. IsLatest(log, o, k, 0)
        BY <1>2, <3>0, <3>3 DEF IsLatest
      <4> QED
        BY <3>3, <4>1
    <3> QED
      BY <3>0, <3>1, <3>2, <3>3
  <2>2. \A i \in 1 .. Len(log) : i \in Nat /\ i = 1
    BY <1>7
  <2>3. \A j \in 1 .. Len(log) : 1 .. j - 1 = {}
    BY <2>2, SMT
  <2> QED
    BY <1>2, <2>1, <2>2, <2>3 DEF LogTrue
<1>4. ASSUME NEW r \in Requests
      PROVE  /\ req[r] \in Records /\ req[r].pc = "open" /\ r \notin Logged(log)
             /\ Honest(log, durable, req[r])
  <2>1. PICK kind \in Kinds, ts \in Stamps : req[r] = New(kind, ts)
    BY DEF Init
  <2>2. Len(log) \in Nat /\ MetaChunks \in Nat
    BY <1>2, DeviceAssumption
  <2> DEFINE x == req[r]
  <2>6. /\ x \in Records /\ x.pc = "open" /\ ~x.opened /\ Len(x.got) < 1
        /\ x.target = 0 /\ x.how = "none"
    BY <2>1, NewIs
  <2> HIDE DEF x
  <2>7. Honest(log, durable, x)
    BY <1>3, <2>2, <2>6, Plain
  <2>3. Honest(log, durable, req[r])
    BY <2>7 DEF x
  <2>4. \A i \in 1 .. Len(log) : i \in Nat /\ i = 1 /\ Len(log) > 0
    BY <1>7
  <2>5. r \notin Logged(log)
    BY <1>2, <2>4, DeviceAssumption DEF Logged
  <2> QED
    BY <2>1, <2>3, <2>5, NewIs
<1>5. Types
  <2>1. req \in [Requests -> Records]
    BY <1>4 DEF Init
  <2>2. /\ applied = Len(log) /\ durable = Len(log) /\ halfway = FALSE /\ map = Nobody
        /\ search = [pc |-> "none", found |-> Nobody]
    BY DEF Init
  <2> QED
    <3>1. applied \in Nat /\ durable \in Nat /\ durable <= applied /\ applied <= Len(log)
      BY <1>7, <2>2
    <3> QED
      BY <2>1, <2>2, <3>1 DEF Types
<1>6. MapTrue
  <2>1. Now = At(applied) /\ ~halfway
    BY DEF Init, Now
  <2> QED
    BY <2>1, DeviceAssumption DEF Init, MapTrue
<1> QED
  BY <1>3, <1>4, <1>5, <1>6 DEF DeviceInv, Taken

-----------------------------------------------------------------------------
(* Steps of the hub that decide nothing.                                   *)

\* Some requests go on, none of which has anything decided and to wait for.
LEMMA QuietStep ==
  ASSUME DeviceInv, req' \in [Requests -> Records],
         \A q \in Requests :
            \/ req'[q] = req[q]
            \/ req[q].pc \notin Settles \cup {"done"} /\ Honest(log, durable, req'[q]),
         UNCHANGED engine,
         map' \in {Nobody, "search", Now.obj},
         search' \in [pc : {"none", "loading", "loaded", "failed"},
                      found : Objects \cup {Nobody}],
         map' = "search" <=> search'.pc # "none",
         search'.pc = "loaded" => search'.found = Now.obj,
         At(applied).obj # Now.obj => map' = map
  PROVE  DeviceInv'
<1>1. UNCHANGED <<log, applied, halfway, durable>>
  BY DEF engine
<1>2. Now' = Now /\ At(applied)' = At(applied) /\ Now.obj \in Objects
  BY <1>1, NowFacts DEF Now, At, DeviceInv
<1>3. Types'
  BY <1>1, <1>2 DEF DeviceInv, Types
<1>4. MapTrue'
  <2>1. At(applied).obj # Now.obj => Announced'
    BY <1>1, <1>2 DEF DeviceInv, MapTrue, Announced
  <2> QED
    BY <1>1, <1>2, <2>1 DEF DeviceInv, MapTrue
<1>5. Taken'
  BY <1>1 DEF DeviceInv, Taken
<1>6. \A q \in Requests : Honest(log, durable, req[q])'
  BY <1>1 DEF DeviceInv
<1>7. LogTrue(log)'
  BY <1>1 DEF DeviceInv
<1> QED
  BY <1>3, <1>4, <1>5, <1>6, <1>7 DEF DeviceInv

\* One request goes on.
LEMMA HubStep ==
  ASSUME DeviceInv, NEW r \in Requests, req[r].pc \notin Settles \cup {"done"},
         NEW x \in Records, Honest(log, durable, x), Becomes(r, x),
         UNCHANGED <<map, search, engine>>
  PROVE  DeviceInv'
<1>1. req' = [req EXCEPT ![r] = x] /\ req \in [Requests -> Records]
  BY DEF Becomes, DeviceInv, Types
<1>2. /\ req' \in [Requests -> Records] /\ req'[r] = x
      /\ \A q \in Requests : q # r => req'[q] = req[q]
  BY <1>1
<1> QED
  BY <1>2, QuietStep DEF DeviceInv, Types, MapTrue

\* A request that ends without having been served.
LEMMA EndsUnserved ==
  ASSUME DeviceInv, NEW r \in Requests, NEW how \in {"failed", "missing"}
  PROVE  Ended(r, how) \in Records /\ Honest(log, durable, Ended(r, how))
<1>1. PICK k \in Kinds, t \in Stamps : k = req[r].kind /\ t = req[r].ts
  BY DEF DeviceInv, Types, Records
<1> DEFINE n == New(k, t)
           x == Ended(r, how)
<1>2. n \in Records /\ ~n.opened /\ Len(n.got) < 1 /\ n.target = 0
  BY <1>1, NewIs
<1>3. /\ x \in Records /\ x.pc = "done" /\ x.how = how
      /\ ~x.opened /\ Len(x.got) < 1 /\ x.target = 0
  <2>1. x = [n EXCEPT !.pc = "done", !.how = how]
    BY <1>1 DEF Ended
  <2> HIDE DEF n, x
  <2> QED
    BY <1>1, <1>2, <2>1 DEF Records
<1>4. Len(log) \in Nat /\ MetaChunks \in Nat /\ LogTrue(log)
  BY DeviceAssumption DEF DeviceInv, LogTrue
<1>5. Len(x.got) <= MetaChunks /\ x.target <= Len(log)
  BY <1>3, <1>4
<1> HIDE DEF x
<1>6. Honest(log, durable, x)
  BY <1>3, <1>4, <1>5, Plain
<1> QED
  BY <1>3, <1>6 DEF x

\* A request that has been.
LEMMA EndsServed ==
  ASSUME DeviceInv, NEW r \in Requests, NEW how \in {"ok", "lost"},
         req[r].kind # "GET" => ServedAt(log, req[r], durable)
  PROVE  Ended(r, how) \in Records /\ Honest(log, durable, Ended(r, how))
<1>1. PICK k \in Kinds, t \in Stamps : k = req[r].kind /\ t = req[r].ts
  BY DEF DeviceInv, Types, Records
<1> DEFINE n == New(k, t)
           x == Ended(r, how)
<1>2. /\ n \in Records /\ ~n.opened /\ Len(n.got) < 1 /\ n.target = 0
      /\ n.kind = k /\ n.ts = t
  BY <1>1, NewIs
<1>3. /\ x \in Records /\ x.pc = "done" /\ x.how = how
      /\ ~x.opened /\ Len(x.got) < 1 /\ x.target = 0
      /\ x.kind = req[r].kind /\ x.ts = req[r].ts
  <2>1. x = [n EXCEPT !.pc = "done", !.how = how]
    BY <1>1 DEF Ended
  <2> HIDE DEF n, x
  <2> QED
    BY <1>1, <1>2, <2>1 DEF Records
<1>4. Len(log) \in Nat /\ MetaChunks \in Nat /\ LogTrue(log)
  BY DeviceAssumption DEF DeviceInv, LogTrue
<1>5. Len(x.got) <= MetaChunks /\ x.target <= Len(log)
  BY <1>3, <1>4
<1>6. x.kind # "GET" => ServedAt(log, x, durable)
  BY <1>3 DEF ServedAt, Served
<1> HIDE DEF x
<1>7. Honest(log, durable, x)
  BY <1>3, <1>4, <1>5, <1>6, Plain
<1> QED
  BY <1>3, <1>7 DEF x

\* A read of an Object's metadata begins, at its present version.
LEMMA SyncHonest ==
  ASSUME DeviceInv, NEW r \in Requests, NEW x \in Records,
         x.pc = "sync", x.cur \in Logged(log), x.ver = VersionOf(x.cur), Len(x.got) < 1,
         x.target = req[r].target, x.opened = req[r].opened, x.kind = req[r].kind,
         x.how = req[r].how, x.ts = req[r].ts
  PROVE  Honest(log, durable, x)
<1>1. /\ Len(log) \in Nat /\ MetaChunks \in Nat /\ LogTrue(log)
      /\ Honest(log, durable, req[r])
  BY DeviceAssumption DEF DeviceInv, LogTrue
<1>2. x.ver = Cardinality(Rewrites(log, x.cur)) /\ x.ver \in Nat
  <2>1. VersionOf(x.cur) = Cardinality(Rewrites(log, x.cur))
    BY DEF VersionOf, Rewrites
  <2> QED
    BY <1>1, <2>1, RewritesFinite
<1>3. ServedAt(log, req[r], durable) => ServedAt(log, x, durable)
  BY DEF ServedAt, Served
<1> QED
  BY <1>1, <1>2, <1>3 DEF Honest

\* What the name resolves to is what has it.
LEMMA ResolvedIs ==
  ASSUME DeviceInv
  PROVE  /\ Resolved \in {Nobody, "search", Now.obj}
         /\ Resolved = "search" => map = "search"
         /\ Resolved \notin {Nobody, "search"} =>
              /\ map = Resolved /\ Resolved = Now.obj /\ Resolved \in Objects
              /\ search.pc = "none"
              /\ Resolved # Missing => Len(log) > 0 /\ Resolved \in Logged(log)
              /\ Resolved = Missing => ~(Len(log) > 0)
<1>1. map \in {Nobody, "search", Now.obj} /\ (map = "search" <=> search.pc # "none")
  BY DEF DeviceInv, MapTrue
<1>2. Resolved = map \/ Resolved = Nobody
  BY DEF Resolved
<1>3. LogTrue(log)
  BY DEF DeviceInv
<1>4. Len(log) > 0 => Now.obj # Missing /\ Now.obj \in Logged(log)
  <2>1. Len(log) > 0 => Now.obj = log[Len(log)].obj /\ Now.obj \in Requests \cup {First}
    BY <1>3, NowFacts
  <2> QED
    BY <1>3, <2>1, NowFacts, DeviceAssumption DEF Logged
<1>5. ~(Len(log) > 0) => Now.obj = Missing
  BY <1>3, NowFacts
<1>6. Now.obj \in Objects
  BY <1>3, NowFacts
<1>7. CASE Resolved \in {Nobody, "search"}
  BY <1>1, <1>2, <1>7, DeviceAssumption
<1>8. CASE Resolved \notin {Nobody, "search"}
  BY <1>1, <1>2, <1>4, <1>5, <1>6, <1>8
<1> QED
  BY <1>7, <1>8

\* A request that has nothing decided moves to a place where it does nothing
\* of the Device's.
LEMMA Moves ==
  ASSUME DeviceInv, NEW r \in Requests, NEW x \in Records,
         x.pc \in {"open", "waiting", "raising"},
         x.got = req[r].got, x.target = req[r].target, x.how = req[r].how,
         x.kind = req[r].kind, x.ts = req[r].ts,
         x.opened => req[r].opened \/ Len(log) > 0 \/ x.kind # "POST"
  PROVE  Honest(log, durable, x)
<1>1. Honest(log, durable, req[r]) /\ LogTrue(log)
  BY DEF DeviceInv
<1>2. ServedAt(log, req[r], durable) => ServedAt(log, x, durable)
  BY DEF ServedAt, Served
<1> QED
  BY <1>1, <1>2 DEF Honest, Reads, Settles

LEMMA SearchStep ==
  ASSUME DeviceInv, NEW r \in Requests, Search(r)
  PROVE  DeviceInv'
<1> DEFINE x == [req[r] EXCEPT !.pc = "waiting", !.cur = Nobody]
<1>1. /\ req \in [Requests -> Records] /\ req[r] \in Records
      /\ req[r].pc = "open" /\ Resolved = Nobody
      /\ map' = "search" /\ search' = [pc |-> "loading", found |-> Nobody]
      /\ req' = [req EXCEPT ![r] = x] /\ UNCHANGED engine
  BY DEF Search, Becomes, DeviceInv, Types
<1>2. /\ x \in Records /\ x.pc = "waiting" /\ x.got = req[r].got /\ x.target = req[r].target
      /\ x.how = req[r].how /\ x.kind = req[r].kind /\ x.ts = req[r].ts
      /\ x.opened = req[r].opened
  BY <1>1 DEF Records
<1> HIDE DEF x
<1>3. Honest(log, durable, x)
  BY <1>2, Moves
<1>4. /\ req' \in [Requests -> Records] /\ req'[r] = x
      /\ \A q \in Requests : q # r => req'[q] = req[q]
  BY <1>1, <1>2
<1>5. At(applied).obj = Now.obj
  <2>1. ASSUME At(applied).obj # Now.obj PROVE FALSE
    <3>1. Announced
      BY <2>1 DEF DeviceInv, MapTrue
    <3>2. Now.obj \in Requests /\ map = Now.obj /\ req[Now.obj].cur = Now.obj
      BY <3>1 DEF Announced
    <3>3. Now.obj \in Holders(Now.obj) /\ Now.obj \notin {Nobody, "search"}
      BY <3>2, DeviceAssumption DEF Holders
    <3> QED
      BY <1>1, <3>2, <3>3 DEF Resolved
  <2> QED
    BY <2>1
<1>6. /\ search' \in [pc : {"none", "loading", "loaded", "failed"},
                      found : Objects \cup {Nobody}]
      /\ search'.pc = "loading"
  BY <1>1
<1>7. req[r].pc \notin Settles \cup {"done"}
  BY <1>1 DEF Settles
<1> QED
  BY <1>1, <1>3, <1>4, <1>5, <1>6, <1>7, QuietStep

LEMMA JoinStep ==
  ASSUME DeviceInv, NEW r \in Requests, Join(r)
  PROVE  DeviceInv'
<1> DEFINE x == [req[r] EXCEPT !.pc = "waiting", !.cur = Nobody]
<1>1. /\ req[r] \in Records /\ req[r].pc = "open"
      /\ Becomes(r, IF search.pc = "failed" THEN Ended(r, "failed") ELSE x)
      /\ UNCHANGED <<map, search, engine>>
  BY DEF Join, DeviceInv, Types
<1>2. /\ x \in Records /\ x.pc = "waiting" /\ x.got = req[r].got /\ x.target = req[r].target
      /\ x.how = req[r].how /\ x.kind = req[r].kind /\ x.ts = req[r].ts
      /\ x.opened = req[r].opened
  BY <1>1 DEF Records
<1> HIDE DEF x
<1>3. Honest(log, durable, x)
  BY <1>2, Moves
<1>4. req[r].pc \notin Settles \cup {"done"}
  BY <1>1 DEF Settles
<1>5. CASE search.pc = "failed"
  BY <1>1, <1>4, <1>5, EndsUnserved, HubStep
<1>6. CASE search.pc # "failed"
  BY <1>1, <1>2, <1>3, <1>4, <1>6, HubStep
<1> QED
  BY <1>5, <1>6

LEMMA RaiseStep ==
  ASSUME DeviceInv, NEW r \in Requests, Raise(r)
  PROVE  DeviceInv'
<1>1. req[r].pc \notin Settles \cup {"done"}
  BY DEF Raise, Settles
<1> QED
  BY <1>1, EndsUnserved, HubStep DEF Raise

\* The name is looked up when nothing about who has it is on its way.
LEMMA LoadStep == DeviceInv /\ Load => DeviceInv'
<1> SUFFICES ASSUME DeviceInv, Load PROVE DeviceInv'
  OBVIOUS
<1>1. /\ search.pc = "loading" /\ map = "search"
      /\ search' = [pc |-> "loaded", found |-> IF halfway THEN Missing ELSE At(applied).obj]
      /\ UNCHANGED <<req, map, engine>>
  BY DEF Load, DeviceInv, MapTrue
<1>2. At(applied).obj = Now.obj
  BY <1>1, DeviceAssumption DEF DeviceInv, MapTrue, Announced
<1>3. ~halfway
  BY <1>2 DEF DeviceInv, MapTrue
<1>4. Now.obj \in Objects
  BY NowFacts DEF DeviceInv
<1>5. search'.pc = "loaded" /\ search'.found = Now.obj
  BY <1>1, <1>2, <1>3
<1>6. search' \in [pc : {"none", "loading", "loaded", "failed"},
                   found : Objects \cup {Nobody}]
  BY <1>1, <1>2, <1>3, <1>4
<1> QED
  BY <1>1, <1>2, <1>5, <1>6, QuietStep DEF DeviceInv, Types

LEMMA FindEndsStep == DeviceInv /\ FindEnds => DeviceInv'
<1> SUFFICES ASSUME DeviceInv, FindEnds PROVE DeviceInv'
  OBVIOUS
<1>1. /\ map' = Now.obj /\ search.found = Now.obj /\ Now.obj \in Objects /\ map = "search"
      /\ search' = [pc |-> "none", found |-> Nobody] /\ UNCHANGED engine
  BY NowFacts DEF FindEnds, DeviceInv, MapTrue
<1>2. ASSUME NEW q \in Requests
      PROVE  /\ req'[q] \in Records
             /\ \/ req'[q] = req[q]
                \/ req[q].pc \notin Settles \cup {"done"} /\ Honest(log, durable, req'[q])
  <2> DEFINE x == [req[q] EXCEPT !.pc = "open", !.cur = search.found]
  <2>1. req[q] \in Records
    BY DEF DeviceInv, Types
  <2>2. CASE q \in In("waiting")
    <3>1. req'[q] = x
      BY <2>2 DEF FindEnds
    <3>2. /\ x \in Records /\ x.pc = "open" /\ x.got = req[q].got /\ x.target = req[q].target
          /\ x.how = req[q].how /\ x.kind = req[q].kind /\ x.ts = req[q].ts
          /\ x.opened = req[q].opened
      BY <1>1, <2>1 DEF Records
    <3> HIDE DEF x
    <3>3. Honest(log, durable, x)
      BY <3>2, Moves
    <3> QED
      BY <2>2, <3>1, <3>2, <3>3 DEF In, Settles
  <2>3. CASE q \notin In("waiting")
    BY <2>1, <2>3 DEF FindEnds
  <2> QED
    BY <2>2, <2>3
<1>3. req' \in [Requests -> Records]
  BY <1>2 DEF FindEnds
<1>4. At(applied).obj = Now.obj
  BY <1>1, DeviceAssumption DEF DeviceInv, MapTrue, Announced
<1>5. map' # "search" /\ search'.pc = "none"
  BY <1>1, DeviceAssumption DEF Objects
<1>6. search' \in [pc : {"none", "loading", "loaded", "failed"},
                   found : Objects \cup {Nobody}]
  BY <1>1
<1> QED
  BY <1>1, <1>2, <1>3, <1>4, <1>5, <1>6, QuietStep

LEMMA FindFailsStep == DeviceInv /\ FindFails => DeviceInv'
<1> SUFFICES ASSUME DeviceInv, FindFails PROVE DeviceInv'
  OBVIOUS
<1>1. /\ search.pc = "loading" /\ search' = [pc |-> "failed", found |-> Nobody]
      /\ UNCHANGED <<map, engine>> /\ map = "search"
  BY DEF FindFails, DeviceInv, MapTrue
<1>2. ASSUME NEW q \in Requests
      PROVE  /\ req'[q] \in Records
             /\ \/ req'[q] = req[q]
                \/ req[q].pc \notin Settles \cup {"done"} /\ Honest(log, durable, req'[q])
  <2> DEFINE x == [req[q] EXCEPT !.pc = "raising"]
  <2>1. req[q] \in Records
    BY DEF DeviceInv, Types
  <2>2. CASE q \in In("waiting")
    <3>1. req'[q] = x
      BY <2>2 DEF FindFails
    <3>2. /\ x \in Records /\ x.pc = "raising" /\ x.got = req[q].got /\ x.target = req[q].target
          /\ x.how = req[q].how /\ x.kind = req[q].kind /\ x.ts = req[q].ts
          /\ x.opened = req[q].opened
      BY <1>1, <2>1 DEF Records
    <3> HIDE DEF x
    <3>3. Honest(log, durable, x)
      BY <3>2, Moves
    <3> QED
      BY <2>2, <3>1, <3>2, <3>3 DEF In, Settles
  <2>3. CASE q \notin In("waiting")
    BY <2>1, <2>3 DEF FindFails
  <2> QED
    BY <2>2, <2>3
<1>3. req' \in [Requests -> Records]
  BY <1>2 DEF FindFails
<1>4. /\ search' \in [pc : {"none", "loading", "loaded", "failed"},
                      found : Objects \cup {Nobody}]
      /\ search'.pc = "failed"
  BY <1>1
<1> QED
  BY <1>1, <1>2, <1>3, <1>4, QuietStep

-----------------------------------------------------------------------------
(* Reading metadata.                                                       *)

LEMMA ReqIs ==
  ASSUME DeviceInv, NEW r \in Requests
  PROVE  /\ req[r] \in Records /\ Honest(log, durable, req[r])
         /\ req[r].target \in Nat /\ req[r].ver \in Nat /\ req[r].tries \in 0 .. Attempts
         /\ req[r].got \in Seq(Stamps \cup {0}) /\ req[r].cur \in Objects \cup {Nobody}
         /\ Len(log) \in Nat /\ applied \in Nat /\ durable \in Nat
         /\ durable <= applied /\ applied <= Len(log) /\ LogTrue(log)
         /\ Logged(log) \subseteq Objects
BY NowFacts DEF DeviceInv, Types, Records, LogTrue, Objects

LEMMA ReadingIs ==
  ASSUME DeviceInv, NEW r \in Requests, NEW o \in Objects
  PROVE  LET x == Reading(r, o) IN
         /\ x \in Records /\ x.pc = "sync" /\ x.cur = o /\ x.ver = VersionOf(o)
         /\ Len(x.got) < 1 /\ x.tries = req[r].tries
         /\ x.target = req[r].target /\ x.opened = req[r].opened
         /\ x.kind = req[r].kind /\ x.how = req[r].how /\ x.ts = req[r].ts
<1>1. VersionOf(o) \in Nat
  <2>1. VersionOf(o) = Cardinality(Rewrites(log, o))
    BY DEF VersionOf, Rewrites
  <2> QED
    BY <2>1, ReqIs, RewritesFinite
<1>2. <<>> \in Seq(Stamps \cup {0}) /\ Len(<<>>) < 1
  OBVIOUS
<1>3. req[r] \in Records
  BY ReqIs
<1> QED
  BY <1>1, <1>2, <1>3 DEF Reading, Records, Reads

LEMMA OpensStep ==
  ASSUME DeviceInv, NEW r \in Requests, Opens(r)
  PROVE  DeviceInv'
<1> DEFINE o == Resolved
           y == Reading(r, o)
           x == IF req[r].opened THEN [y EXCEPT !.tries = 1]
                ELSE [y EXCEPT !.file = o, !.tries = 1]
           w == [req[r] EXCEPT !.file = o, !.cur = o, !.opened = TRUE]
<1>1. /\ req[r] \in Records /\ req[r].pc = "open" /\ o \notin {Nobody, "search"}
      /\ (o # Missing \/ ~req[r].opened)
      /\ UNCHANGED <<map, search, engine>>
      /\ \/ ~req[r].opened /\ Writes(r) /\ Becomes(r, w)
         \/ o = Missing /\ Becomes(r, Ended(r, "missing"))
         \/ o # Missing /\ Becomes(r, x)
  BY ReqIs DEF Opens
<1>2. o \in Objects /\ (o # Missing => o \in Logged(log))
  BY <1>1, ResolvedIs
<1>3. req[r].pc \notin Settles \cup {"done"}
  BY <1>1 DEF Settles
<1>4. CASE ~req[r].opened /\ Writes(r) /\ Becomes(r, w)
  <2>1. /\ w \in Records /\ w.pc = "open" /\ w.got = req[r].got /\ w.target = req[r].target
        /\ w.how = req[r].how /\ w.kind = req[r].kind /\ w.ts = req[r].ts
    BY <1>1, <1>2 DEF Records
  <2>2. w.kind # "POST"
    BY <1>4, <2>1 DEF Writes
  <2> HIDE DEF w
  <2>3. Honest(log, durable, w)
    BY <2>1, <2>2, Moves
  <2> QED
    BY <1>1, <1>3, <1>4, <2>1, <2>3, HubStep
<1>5. CASE o = Missing /\ Becomes(r, Ended(r, "missing"))
  BY <1>1, <1>3, <1>5, EndsUnserved, HubStep
<1>6. CASE o # Missing /\ Becomes(r, x)
  <2>1. /\ y \in Records /\ y.pc = "sync" /\ y.cur = o /\ y.ver = VersionOf(o)
        /\ Len(y.got) < 1
        /\ y.target = req[r].target /\ y.opened = req[r].opened
        /\ y.kind = req[r].kind /\ y.how = req[r].how /\ y.ts = req[r].ts
    BY <1>2, ReadingIs
  <2>2. 1 \in 0 .. Attempts
    BY DeviceAssumption
  <2> HIDE DEF y
  <2>3. /\ x \in Records /\ x.pc = "sync" /\ x.cur = o /\ x.ver = VersionOf(o)
        /\ Len(x.got) < 1
        /\ x.target = req[r].target /\ x.opened = req[r].opened
        /\ x.kind = req[r].kind /\ x.how = req[r].how /\ x.ts = req[r].ts
    BY <1>2, <2>1, <2>2 DEF Records
  <2> HIDE DEF x
  <2>4. Honest(log, durable, x)
    BY <1>2, <1>6, <2>3, SyncHonest
  <2> QED
    BY <1>1, <1>3, <1>6, <2>3, <2>4, HubStep
<1> QED
  BY <1>1, <1>4, <1>5, <1>6

LEMMA RetryStep ==
  ASSUME DeviceInv, NEW r \in Requests, Retry(r)
  PROVE  DeviceInv'
<1> DEFINE o == req[r].cur
           y == Reading(r, o)
           x == [y EXCEPT !.tries = @ + 1]
<1>1. /\ req[r] \in Records /\ req[r].pc = "changed"
      /\ o \in Logged(log) /\ o \in Objects
      /\ UNCHANGED <<map, search, engine>>
      /\ \/ req[r].tries < Attempts /\ Becomes(r, x)
         \/ Becomes(r, Ended(r, "failed"))
  BY ReqIs DEF Retry, Honest, Reads
<1>2. req[r].pc \notin Settles \cup {"done"}
  BY <1>1 DEF Settles
<1>3. CASE req[r].tries < Attempts /\ Becomes(r, x)
  <2>1. /\ y \in Records /\ y.pc = "sync" /\ y.cur = o /\ y.ver = VersionOf(o)
        /\ Len(y.got) < 1 /\ y.tries = req[r].tries
        /\ y.target = req[r].target /\ y.opened = req[r].opened
        /\ y.kind = req[r].kind /\ y.how = req[r].how /\ y.ts = req[r].ts
    BY <1>1, ReadingIs
  <2>2. req[r].tries + 1 \in 0 .. Attempts
    BY <1>3, ReqIs, DeviceAssumption
  <2> HIDE DEF y
  <2>3. /\ x \in Records /\ x.pc = "sync" /\ x.cur = o /\ x.ver = VersionOf(o)
        /\ Len(x.got) < 1
        /\ x.target = req[r].target /\ x.opened = req[r].opened
        /\ x.kind = req[r].kind /\ x.how = req[r].how /\ x.ts = req[r].ts
    BY <2>1, <2>2 DEF Records
  <2> HIDE DEF x
  <2>4. Honest(log, durable, x)
    BY <1>1, <2>3, SyncHonest
  <2> QED
    BY <1>1, <1>2, <1>3, <2>3, <2>4, HubStep
<1>4. CASE Becomes(r, Ended(r, "failed"))
  BY <1>1, <1>2, <1>4, EndsUnserved, HubStep
<1> QED
  BY <1>1, <1>3, <1>4

\* Which decision a read waits for: its Object's last.
LEMMA SyncReadsStep ==
  ASSUME DeviceInv, NEW r \in Requests, SyncReads(r), req[r].pc = "sync"
  PROVE  DeviceInv'
<1> DEFINE t == LatestOf(req[r].cur, Len(log))
           x == [req[r] EXCEPT !.pc = "synced", !.target = t]
<1>1. /\ req[r].cur \in Logged(log) /\ req[r].cur \in Objects
      /\ Becomes(r, x) /\ UNCHANGED <<map, search, engine>>
  BY ReqIs DEF SyncReads, Honest, Reads
<1>2. t \in 0 .. Len(log) /\ IsLatest(log, req[r].cur, Len(log), t)
  BY <1>1, ReqIs, LatestIs
<1> HIDE DEF t
<1>3. /\ x \in Records /\ x.pc = "synced" /\ x.target = t /\ x.cur = req[r].cur
      /\ x.got = req[r].got /\ x.ver = req[r].ver
      /\ x.opened = req[r].opened /\ x.kind = req[r].kind /\ x.how = req[r].how
      /\ x.ts = req[r].ts
  <2>1. t \in Nat /\ req[r] \in Records
    BY <1>2, ReqIs
  <2> QED
    BY <2>1 DEF Records, Reads
<1> HIDE DEF x
<1>4. Honest(log, durable, x)
  <2>1. ServedAt(log, req[r], durable) => ServedAt(log, x, durable)
    BY <1>3 DEF ServedAt, Served
  <2>2. Honest(log, durable, req[r]) /\ t <= Len(log)
    BY <1>2, ReqIs
  <2> QED
    BY <1>1, <1>2, <1>3, <2>1, <2>2 DEF Honest, Reads
<1>5. req[r].pc \notin Settles \cup {"done"}
  BY DEF Settles
<1> QED
  BY <1>1, <1>3, <1>4, <1>5, HubStep

\* The read begins once that is durable.
LEMMA SyncEndsStep ==
  ASSUME DeviceInv, NEW r \in Requests, SyncEnds(r)
  PROVE  DeviceInv'
<1> DEFINE at == Address(req[r].cur)
           x == [req[r] EXCEPT !.pc = "chunk", !.at = at]
<1>1. /\ req[r].pc = "synced" /\ durable >= req[r].target
      /\ Becomes(r, x) /\ UNCHANGED <<map, search, engine>>
  BY DEF SyncEnds, ReadsNext
<1>2. at \in {"ordinary", "temporary"}
  BY DEF Address
<1> HIDE DEF at
<1>3. /\ x \in Records /\ x.pc = "chunk" /\ x.target = req[r].target /\ x.cur = req[r].cur
      /\ x.got = req[r].got /\ x.ver = req[r].ver
      /\ x.opened = req[r].opened /\ x.kind = req[r].kind /\ x.how = req[r].how
      /\ x.ts = req[r].ts
  BY <1>2, ReqIs DEF Records, Reads
<1> HIDE DEF x
<1>4. Honest(log, durable, x)
  <2>1. ServedAt(log, req[r], durable) => ServedAt(log, x, durable)
    BY <1>3 DEF ServedAt, Served
  <2>2. Honest(log, durable, req[r]) /\ MetaChunks \in Nat /\ MetaChunks > 0
    BY ReqIs, DeviceAssumption
  <2>3. Len(req[r].got) < 1 /\ Len(req[r].got) \in Nat
    BY <1>1, <2>2, ReqIs DEF Honest
  <2>4. req[r].cur \in Logged(log)
    BY <1>1, <2>2 DEF Honest, Reads
  <2>5. ASSUME Unmoved(log, x) PROVE Current(log, durable, x)
    <3>1. IsLatest(log, req[r].cur, Len(log), req[r].target)
      BY <1>1, <1>3, <2>2, <2>5 DEF Honest, Unmoved
    <3>2. req[r].target > 0
      <4>1. PICK i \in 1 .. Len(log) : log[i].obj = req[r].cur
        BY <2>4 DEF Logged
      <4> QED
        BY <3>1, <4>1, ReqIs DEF IsLatest
    <3>3. req[r].target \in 1 .. durable
      BY <1>1, <3>2, ReqIs
    <3>4. \A n \in 1 .. Len(x.got) : FALSE
      BY <1>3, <2>3
    <3> QED
      BY <1>3, <3>1, <3>3, <3>4 DEF Current
  <2> QED
    BY <1>1, <1>3, <2>1, <2>2, <2>3, <2>4, <2>5 DEF Honest, Reads
<1>5. req[r].pc \notin Settles \cup {"done"}
  BY <1>1 DEF Settles
<1> QED
  BY <1>1, <1>3, <1>4, <1>5, HubStep

\* A read that goes on, or fails.
LEMMA ReadsOn ==
  ASSUME DeviceInv, NEW r \in Requests, NEW x \in Records,
         req[r].pc \in Reads, x.pc \in {"chunk", "read", "changed"},
         x.cur = req[r].cur, x.ver = req[r].ver, x.target = req[r].target,
         x.opened = req[r].opened, x.kind = req[r].kind, x.how = req[r].how,
         x.ts = req[r].ts, Len(x.got) <= MetaChunks,
         x.pc = "chunk" => Len(x.got) < MetaChunks,
         x.pc \in {"chunk", "read"} /\ Unmoved(log, x) => Current(log, durable, x)
  PROVE  Honest(log, durable, x)
<1>1. Honest(log, durable, req[r])
  BY ReqIs
<1>2. ServedAt(log, req[r], durable) => ServedAt(log, x, durable)
  BY DEF ServedAt, Served
<1> QED
  BY <1>1, <1>2 DEF Honest, Reads

\* A chunk is of what can be read, and nothing that is durable is read late.
LEMMA ReadChunkStep ==
  ASSUME DeviceInv, NEW r \in Requests, ReadChunk(r)
  PROVE  DeviceInv'
<1> DEFINE o == req[r].cur
           m == MetaOf(o, applied)
           g == Append(req[r].got, m)
           x == [req[r] EXCEPT !.pc = "read", !.got = g]
           y == [req[r] EXCEPT !.pc = "changed"]
<1>1. /\ req[r].pc = "chunk" /\ req[r] \in Records
      /\ Becomes(r, x) \/ Becomes(r, y)
      /\ UNCHANGED <<map, search, engine>>
  BY ReqIs DEF ReadChunk
<1>2. /\ o \in Logged(log) /\ o \in Objects /\ Len(req[r].got) < MetaChunks
      /\ Unmoved(log, req[r]) => Current(log, durable, req[r])
  BY <1>1, ReqIs DEF Honest, Reads
<1>3. applied \in 0 .. Len(log)
  BY ReqIs
<1>4. /\ LatestOf(o, applied) \in 0 .. applied
      /\ IsLatest(log, o, applied, LatestOf(o, applied))
  BY <1>2, <1>3, ReqIs, LatestIs
<1>5. m \in Stamps \cup {0}
  <2>1. LatestOf(o, applied) \in 0 .. Len(log)
    BY <1>3, <1>4, ReqIs
  <2> QED
    BY <2>1, ReqIs, NowFacts DEF MetaOf
<1>6. /\ g \in Seq(Stamps \cup {0}) /\ Len(g) = Len(req[r].got) + 1
      /\ Len(req[r].got) \in Nat
      /\ \A n \in 1 .. Len(req[r].got) : g[n] = req[r].got[n]
      /\ g[Len(req[r].got) + 1] = m
  <2> HIDE DEF m
  <2> QED
    BY <1>5, ReqIs, AppendProperties
<1>7. ASSUME Unmoved(log, req[r])
      PROVE  \E i \in 1 .. durable : /\ IsLatest(log, o, Len(log), i)
                                     /\ \A n \in 1 .. Len(g) : g[n] = log[i].post
  <2>1. PICK i \in 1 .. durable :
             /\ IsLatest(log, o, Len(log), i)
             /\ \A n \in 1 .. Len(req[r].got) : req[r].got[n] = log[i].post
    BY <1>2, <1>7 DEF Current
  <2>2. i \in 1 .. applied /\ i > 0
    BY <2>1, ReqIs
  <2>3. IsLatest(log, o, applied, i)
    BY <1>3, <2>1, <2>2, ReqIs DEF IsLatest
  <2>4. LatestOf(o, applied) = i
    BY <1>3, <1>4, <2>3, LatestUnique
  <2>5. m = log[i].post
    BY <2>2, <2>4 DEF MetaOf, At
  <2>6. ASSUME NEW n \in 1 .. Len(g) PROVE g[n] = log[i].post
    <3> HIDE DEF g, m
    <3>1. n \in 1 .. Len(req[r].got) \/ n = Len(req[r].got) + 1
      BY <1>6
    <3> QED
      BY <1>6, <2>1, <2>5, <3>1
  <2> QED
    BY <2>1, <2>6
<1>8. req[r].pc \notin Settles \cup {"done"} /\ req[r].pc \in Reads
  BY <1>1 DEF Settles, Reads
<1> HIDE DEF g, m
<1>9. CASE Becomes(r, x)
  <2>1. /\ x \in Records /\ x.pc = "read" /\ x.got = g
        /\ x.cur = req[r].cur /\ x.ver = req[r].ver /\ x.target = req[r].target
        /\ x.opened = req[r].opened /\ x.kind = req[r].kind /\ x.how = req[r].how
        /\ x.ts = req[r].ts
    BY <1>1, <1>6 DEF Records, Reads
  <2> HIDE DEF x
  <2>2. Unmoved(log, x) => Current(log, durable, x)
    BY <1>7, <2>1 DEF Unmoved, Current
  <2>3. Len(x.got) <= MetaChunks
    BY <1>2, <1>6, <2>1, DeviceAssumption
  <2>4. Honest(log, durable, x)
    BY <1>8, <2>1, <2>2, <2>3, ReadsOn
  <2> QED
    BY <1>1, <1>8, <1>9, <2>1, <2>4, HubStep
<1>10. CASE Becomes(r, y)
  <2>1. /\ y \in Records /\ y.pc = "changed" /\ y.got = req[r].got
        /\ y.cur = req[r].cur /\ y.ver = req[r].ver /\ y.target = req[r].target
        /\ y.opened = req[r].opened /\ y.kind = req[r].kind /\ y.how = req[r].how
        /\ y.ts = req[r].ts
    BY <1>1 DEF Records, Reads
  <2> HIDE DEF y
  <2>2. Len(y.got) <= MetaChunks
    BY <2>1, ReqIs DEF Honest
  <2>3. Honest(log, durable, y)
    BY <1>8, <2>1, <2>2, ReadsOn
  <2> QED
    BY <1>1, <1>8, <1>10, <2>1, <2>3, HubStep
<1> QED
  BY <1>1, <1>9, <1>10

LEMMA MovedIs ==
  ASSUME NEW r \in Requests
  PROVE  Moved(r) <=> ~Unmoved(log, req[r])
BY DEF Moved, Unmoved, VersionOf, Rewrites

LEMMA ContinueStep ==
  ASSUME DeviceInv, NEW r \in Requests, Continue(r)
  PROVE  DeviceInv'
<1> DEFINE o == req[r].cur
           at == Address(o)
           y == Reading(r, o)
           x == [req[r] EXCEPT !.pc = "chunk", !.at = at]
<1>1. /\ req[r].pc = "read" /\ req[r] \in Records
      /\ \/ Moved(r) /\ Becomes(r, y)
         \/ ~Moved(r) /\ Len(req[r].got) # MetaChunks /\ Becomes(r, x)
      /\ UNCHANGED <<map, search, engine>>
  BY ReqIs DEF Continue, ReadsNext, Whole
<1>2. /\ o \in Logged(log) /\ o \in Objects /\ Len(req[r].got) <= MetaChunks
      /\ Unmoved(log, req[r]) => Current(log, durable, req[r])
  BY <1>1, ReqIs DEF Honest, Reads
<1>3. req[r].pc \notin Settles \cup {"done"} /\ req[r].pc \in Reads
  BY <1>1 DEF Settles, Reads
<1>4. at \in {"ordinary", "temporary"}
  BY DEF Address
<1> HIDE DEF at
<1>5. CASE Moved(r) /\ Becomes(r, y)
  <2>1. /\ y \in Records /\ y.pc = "sync" /\ y.cur = o /\ y.ver = VersionOf(o)
        /\ Len(y.got) < 1
        /\ y.target = req[r].target /\ y.opened = req[r].opened
        /\ y.kind = req[r].kind /\ y.how = req[r].how /\ y.ts = req[r].ts
    BY <1>2, ReadingIs
  <2> HIDE DEF y
  <2>2. Honest(log, durable, y)
    BY <1>2, <2>1, SyncHonest
  <2> QED
    BY <1>1, <1>3, <1>5, <2>1, <2>2, HubStep
<1>6. CASE ~Moved(r) /\ Len(req[r].got) # MetaChunks /\ Becomes(r, x)
  <2>1. /\ x \in Records /\ x.pc = "chunk" /\ x.got = req[r].got
        /\ x.cur = req[r].cur /\ x.ver = req[r].ver /\ x.target = req[r].target
        /\ x.opened = req[r].opened /\ x.kind = req[r].kind /\ x.how = req[r].how
        /\ x.ts = req[r].ts
    BY <1>1, <1>4 DEF Records, Reads
  <2> HIDE DEF x
  <2>2. Len(req[r].got) \in Nat /\ MetaChunks \in Nat
    BY ReqIs, DeviceAssumption
  <2>3. Len(x.got) < MetaChunks
    BY <1>2, <1>6, <2>1, <2>2
  <2>4. Current(log, durable, x)
    BY <1>2, <1>6, <2>1, MovedIs DEF Current
  <2>5. Honest(log, durable, x)
    BY <1>2, <1>3, <2>1, <2>3, <2>4, ReadsOn
  <2> QED
    BY <1>1, <1>3, <1>6, <2>1, <2>5, HubStep
<1> QED
  BY <1>1, <1>5, <1>6

-----------------------------------------------------------------------------
(* A DiskFile is open; a call is answered.                                 *)

LEMMA FileOpenedStep ==
  ASSUME DeviceInv, NEW r \in Requests, FileOpened(r)
  PROVE  DeviceInv'
<1> DEFINE at == IF req[r].kind = "GET" THEN "body" ELSE "open"
           x == [req[r] EXCEPT !.opened = TRUE, !.pc = at]
<1>1. /\ req[r].pc = "read" /\ req[r] \in Records
      /\ Becomes(r, Ended(r, "missing")) \/ Becomes(r, x)
      /\ UNCHANGED <<map, search, engine>>
  BY ReqIs DEF FileOpened, Whole
<1>2. req[r].pc \notin Settles \cup {"done"}
  BY <1>1 DEF Settles
<1>3. CASE Becomes(r, Ended(r, "missing"))
  BY <1>1, <1>2, <1>3, EndsUnserved, HubStep
<1>4. CASE Becomes(r, x)
  <2>1. /\ x \in Records /\ x.pc = at /\ x.got = req[r].got
        /\ x.cur = req[r].cur /\ x.ver = req[r].ver /\ x.target = req[r].target
        /\ x.kind = req[r].kind /\ x.how = req[r].how /\ x.ts = req[r].ts
    BY <1>1 DEF Records
  <2> HIDE DEF x
  <2>2. Len(log) > 0
    <3>1. req[r].cur \in Logged(log)
      BY <1>1, ReqIs DEF Honest, Reads
    <3> QED
      BY <3>1, ReqIs DEF Logged
  <2>3. ServedAt(log, req[r], durable) => ServedAt(log, x, durable)
    BY <2>1 DEF ServedAt, Served
  <2>4. Honest(log, durable, x)
    BY <2>1, <2>2, <2>3, ReqIs DEF Honest, Reads, Settles
  <2> QED
    BY <1>1, <1>2, <1>4, <2>1, <2>4, HubStep
<1> QED
  BY <1>1, <1>3, <1>4

LEMMA BodyEndsStep ==
  ASSUME DeviceInv, NEW r \in Requests, BodyEnds(r)
  PROVE  DeviceInv'
<1>1. req[r].pc \notin Settles \cup {"done"}
  BY DEF BodyEnds, Settles
<1>2. req[r].kind = "GET"
  BY ReqIs DEF BodyEnds, Honest
<1> QED
  BY <1>1, <1>2, EndsServed, HubStep DEF BodyEnds

LEMMA AgainStep ==
  ASSUME DeviceInv, NEW r \in Requests, Again(r)
  PROVE  DeviceInv'
<1> DEFINE x == [req[r] EXCEPT !.pc = "open"]
<1>1. /\ req[r] \in Records /\ req[r].pc = "read" /\ Becomes(r, x)
      /\ UNCHANGED <<map, search, engine>>
  BY ReqIs DEF Again, Whole
<1>2. /\ x \in Records /\ x.pc = "open" /\ x.got = req[r].got /\ x.target = req[r].target
      /\ x.how = req[r].how /\ x.kind = req[r].kind /\ x.ts = req[r].ts
      /\ x.opened = req[r].opened
  BY <1>1 DEF Records
<1> HIDE DEF x
<1>3. Honest(log, durable, x)
  BY <1>2, Moves
<1>4. req[r].pc \notin Settles \cup {"done"}
  BY <1>1 DEF Settles
<1> QED
  BY <1>1, <1>2, <1>3, <1>4, HubStep

\* One request goes on that has something decided and to wait for.
LEMMA SettlingStep ==
  ASSUME DeviceInv, NEW r \in Requests, NEW x \in Records,
         x.pc \in Settles \cup {"done"}, Honest(log, durable, x), Becomes(r, x),
         UNCHANGED <<map, search, engine>>,
         At(applied).obj # Now.obj /\ Now.obj = r =>
            /\ x.pc \in Settles /\ x.cur = req[r].cur
            /\ x.pc = "settled" => x.target > applied
  PROVE  DeviceInv'
<1>1. /\ req' \in [Requests -> Records] /\ req'[r] = x
      /\ \A q \in Requests : q # r => req'[q] = req[q]
      /\ UNCHANGED <<log, applied, halfway, durable, map, search>>
  BY DEF Becomes, DeviceInv, Types, engine
<1>2. Now' = Now /\ At(applied)' = At(applied)
  BY <1>1 DEF Now, At
<1>3. Types'
  BY <1>1 DEF DeviceInv, Types
<1>4. MapTrue'
  <2>1. ASSUME At(applied).obj # Now.obj PROVE Announced'
    <3>1. Announced
      BY <2>1 DEF DeviceInv, MapTrue
    <3>2. CASE Now.obj = r
      BY <1>1, <1>2, <2>1, <3>1, <3>2 DEF Announced
    <3>3. CASE Now.obj # r
      BY <1>1, <1>2, <3>1, <3>3 DEF Announced
    <3> QED
      BY <3>2, <3>3
  <2> QED
    BY <1>1, <1>2, <2>1 DEF DeviceInv, MapTrue
<1>5. Taken'
  BY <1>1 DEF DeviceInv, Taken
<1>6. \A q \in Requests : Honest(log, durable, req[q])'
  BY <1>1 DEF DeviceInv
<1>7. LogTrue(log)'
  BY <1>1 DEF DeviceInv
<1> QED
  BY <1>3, <1>4, <1>5, <1>6, <1>7 DEF DeviceInv

\* What a put, a delete or a POST waits for: no less than its own decision.
LEMMA SyncSettlesStep ==
  ASSUME DeviceInv, NEW r \in Requests, SyncReads(r), req[r].pc = "settle"
  PROVE  DeviceInv'
<1> DEFINE o == req[r].cur
           t == LatestOf(o, Len(log))
           x == [req[r] EXCEPT !.pc = "settled", !.target = t]
<1>1. /\ o \in Logged(log) /\ o \in Objects
      /\ Becomes(r, x) /\ UNCHANGED <<map, search, engine>>
  BY ReqIs DEF SyncReads, Honest, Settles
<1>2. t \in 0 .. Len(log) /\ IsLatest(log, o, Len(log), t)
  BY <1>1, ReqIs, LatestIs
<1>3. PICK i \in 1 .. Len(log) : log[i].obj = o /\ Served(req[r], log[i])
  BY ReqIs DEF Honest
<1>4. i <= t /\ t \in 1 .. Len(log) /\ log[t].obj = o
  BY <1>2, <1>3, ReqIs DEF IsLatest
<1>5. Served(req[r], log[t])
  BY <1>3, <1>4, ReqIs, ServedLater
<1> HIDE DEF t
<1>6. /\ x \in Records /\ x.pc = "settled" /\ x.target = t /\ x.cur = req[r].cur
      /\ x.got = req[r].got /\ x.ver = req[r].ver
      /\ x.opened = req[r].opened /\ x.kind = req[r].kind /\ x.how = req[r].how
      /\ x.ts = req[r].ts
  <2>1. t \in Nat /\ req[r] \in Records
    BY <1>2, ReqIs
  <2> QED
    BY <2>1 DEF Records, Settles
<1> HIDE DEF x
<1>7. Honest(log, durable, x)
  <2>1. /\ ServedAt(log, req[r], durable) => ServedAt(log, x, durable)
        /\ ServedAt(log, x, t)
    BY <1>4, <1>5, <1>6 DEF ServedAt, Served
  <2>2. Honest(log, durable, req[r]) /\ t <= Len(log)
    BY <1>2, ReqIs
  <2> QED
    BY <1>1, <1>4, <1>6, <2>1, <2>2 DEF Honest, Reads, Settles
<1>8. ASSUME At(applied).obj # Now.obj, Now.obj = r PROVE x.target > applied
  <2>1. o = r /\ r # Missing
    <3>1. req[r].cur = r /\ r \in Requests
      BY <1>8 DEF DeviceInv, MapTrue, Announced
    <3> QED
      BY <3>1, DeviceAssumption
  <2>2. Len(log) > 0
    BY <1>4, ReqIs
  <2>3. IsLatest(log, o, Len(log), Len(log))
    BY <1>8, <2>1, <2>2, ReqIs, NowFacts
  <2>4. t = Len(log)
    BY <1>2, <2>3, ReqIs, LatestUnique
  <2>5. applied # Len(log)
    BY <1>8 DEF Now
  <2> QED
    BY <1>6, <2>4, <2>5, ReqIs
<1> QED
  BY <1>1, <1>6, <1>7, <1>8, SettlingStep DEF Settles

\* It is answered once that is durable.
LEMMA AcknowledgeStep ==
  ASSUME DeviceInv, NEW r \in Requests, Acknowledge(r)
  PROVE  DeviceInv'
<1> DEFINE x == Ended(r, "ok")
<1>1. /\ req[r].pc = "settled" /\ durable >= req[r].target /\ Becomes(r, x)
      /\ UNCHANGED <<map, search, engine>>
  BY DEF Acknowledge
<1>2. ServedAt(log, req[r], req[r].target)
  BY <1>1, ReqIs DEF Honest
<1>3. req[r].target \in 1 .. Len(log) /\ durable \in 1 .. Len(log) /\ req[r].target <= durable
  BY <1>1, <1>2, ReqIs DEF ServedAt
<1>4. ServedAt(log, req[r], durable)
  BY <1>2, <1>3, ReqIs, ServedLater DEF ServedAt
<1>5. x \in Records /\ Honest(log, durable, x)
  BY <1>4, EndsServed
<1>6. x.pc = "done"
  BY DEF Ended, New
<1>7. ~(At(applied).obj # Now.obj /\ Now.obj = r)
  BY <1>1, ReqIs DEF DeviceInv, MapTrue, Announced
<1> HIDE DEF x
<1> QED
  BY <1>1, <1>5, <1>6, <1>7, SettlingStep

-----------------------------------------------------------------------------
(* A put, a delete or a POST is decided.                                   *)

\* The request that decides waits for what it has decided.
LEMMA SettleHonest ==
  ASSUME DeviceInv, NEW r \in Requests, NEW d \in Decision, log' = Append(log, d),
         NEW x \in Records, x.pc = "settle", x.cur = d.obj, Served(x, d),
         x.target = req[r].target, x.got = req[r].got, x.kind = req[r].kind,
         x.ts = req[r].ts, x.how = req[r].how
  PROVE  Honest(log', durable, x)
<1>1. /\ Len(log') = Len(log) + 1 /\ Len(log) \in Nat
      /\ \A i \in 1 .. Len(log) : log'[i] = log[i]
      /\ log'[Len(log')] = d
      /\ Logged(log') = Logged(log) \cup {d.obj}
  BY ReqIs, Appended
<1>2. Honest(log, durable, req[r]) /\ x.target \in Nat
  BY ReqIs
<1>3. ServedAt(log, req[r], durable) => ServedAt(log', x, durable)
  BY <1>1 DEF ServedAt, Served
<1>4. Len(log') \in 1 .. Len(log') /\ Len(log') > 0
  BY <1>1
<1>5. x.target <= Len(log')
  BY <1>1, <1>2 DEF Honest
<1>6. \E i \in 1 .. Len(log') : log'[i].obj = x.cur /\ Served(x, log'[i])
  BY <1>1, <1>4
<1>7. Len(x.got) <= MetaChunks
  BY <1>2 DEF Honest
<1>8. x.how \in {"ok", "lost"} /\ x.kind # "GET" => ServedAt(log', x, durable)
  BY <1>2, <1>3 DEF Honest
<1> QED
  BY <1>1, <1>4, <1>5, <1>6, <1>7, <1>8 DEF Honest, Reads

\* The name goes to the request's Object, or the one that has it is rewritten.
LEMMA DecidedStep ==
  ASSUME DeviceInv, NEW r \in Requests, req[r].pc \notin Settles \cup {"done"},
         NEW d, Follows(d), log' = Append(log, d),
         NEW x \in Records, x.pc = "settle", x.cur = d.obj, Honest(log', durable, x),
         Becomes(r, x), UNCHANGED <<search, applied, halfway, durable>>,
         \/ d.obj = r /\ r \notin Logged(log) /\ map' = r /\ search.pc = "none"
         \/ d.obj = Now.obj /\ Len(log) > 0 /\ map' = map
  PROVE  DeviceInv'
<1>0. d \in Decision
  BY DEF Follows
<1>1. /\ Len(log') = Len(log) + 1 /\ Len(log) \in Nat
      /\ \A i \in 1 .. Len(log) : log'[i] = log[i]
      /\ log'[Len(log')] = d
      /\ Logged(log') = Logged(log) \cup {d.obj}
  BY <1>0, ReqIs, Appended
<1>2. /\ req' \in [Requests -> Records] /\ req'[r] = x
      /\ \A q \in Requests : q # r => req'[q] = req[q]
  BY DEF Becomes, DeviceInv, Types
<1>3. /\ applied \in 0 .. Len(log) /\ durable \in Nat /\ durable <= Len(log)
      /\ LogTrue(log)
  BY <1>1, ReqIs
<1>4. Now' = d
  BY <1>1 DEF Now, At
<1>5. At(applied)' = At(applied)
  <2>1. CASE applied = 0
    BY <2>1 DEF At
  <2>2. CASE applied # 0
    <3>1. applied \in 1 .. Len(log)
      BY <1>1, <1>3, <2>2
    <3> QED
      BY <1>1, <2>2, <3>1 DEF At
  <2> QED
    BY <2>1, <2>2
<1>6. LogTrue(log)'
  BY <1>3, LogStep
<1>7. Types'
  <2>1. applied <= Len(log')
    BY <1>1, <1>3
  <2>2. map' \in Objects \cup {Nobody, "search"}
    BY DEF DeviceInv, Types, Objects
  <2> QED
    BY <1>2, <2>1, <2>2 DEF DeviceInv, Types
<1>8. Taken'
  <2>1. ASSUME NEW q \in Requests, q \in Logged(log') PROVE req'[q].pc \in Settles \cup {"done"}
    <3>1. CASE q = r
      BY <1>2, <3>1 DEF Settles
    <3>2. CASE q # r
      <4>1. q \in Logged(log)
        <5>1. CASE q = d.obj
          BY <3>2, <5>1, <1>3, NowFacts DEF Logged
        <5>2. CASE q # d.obj
          BY <1>1, <2>1, <5>2
        <5> QED
          BY <5>1, <5>2
      <4> QED
        BY <1>2, <3>2, <4>1 DEF DeviceInv, Taken
    <3> QED
      BY <3>1, <3>2
  <2> QED
    BY <2>1 DEF Taken
<1>9. MapTrue'
  <2>1. CASE d.obj = r /\ r \notin Logged(log) /\ map' = r /\ search.pc = "none"
    <3>1. At(applied).obj # r
      <4>1. CASE applied = 0
        BY <4>1, DeviceAssumption DEF At, None
      <4>2. CASE applied # 0
        <5>1. applied \in 1 .. Len(log)
          BY <1>1, <1>3, <4>2
        <5> QED
          BY <2>1, <4>2, <5>1 DEF At, Logged
      <4> QED
        BY <4>1, <4>2
    <3>2. Announced'
      BY <1>2, <1>4, <2>1 DEF Announced, Settles
    <3>3. map' # "search" /\ search'.pc = "none"
      BY <2>1, DeviceAssumption
    <3> QED
      BY <1>4, <1>5, <2>1, <3>1, <3>2, <3>3 DEF MapTrue
  <2>2. CASE d.obj = Now.obj /\ Len(log) > 0 /\ map' = map
    <3>1. ASSUME At(applied).obj # Now.obj PROVE Announced'
      <4>1. Announced
        BY <3>1 DEF DeviceInv, MapTrue
      <4>2. Now.obj # r
        BY <4>1 DEF Announced
      <4> QED
        BY <1>2, <1>4, <2>2, <4>1, <4>2 DEF Announced
    <3> QED
      BY <1>4, <1>5, <2>2, <3>1 DEF DeviceInv, MapTrue
  <2> QED
    BY <2>1, <2>2
<1>10. \A q \in Requests : Honest(log, durable, req[q])'
  <2>1. ASSUME NEW q \in Requests PROVE Honest(log', durable, req'[q])
    <3>1. CASE q = r
      BY <1>2, <3>1
    <3>2. CASE q # r
      BY <1>2, <1>3, <3>2, ReqIs, HonestDecided
    <3> QED
      BY <3>1, <3>2
  <2> QED
    BY <2>1
<1> QED
  BY <1>6, <1>7, <1>8, <1>9, <1>10 DEF DeviceInv

\* A put or a delete that is newer takes the name.
LEMMA TakesStep ==
  ASSUME DeviceInv, NEW r \in Requests, req[r].pc \in {"open", "read"},
         search.pc = "none", NEW post \in Stamps \cup {0},
         Len(log) > 0 => post = Now.post /\ req[r].ts > Now.data,
         Decide(r, req[r].ts, IF post > req[r].ts THEN post ELSE 0), map' = r,
         Becomes(r, [req[r] EXCEPT !.pc = "settle", !.cur = r]),
         UNCHANGED <<search, applied, halfway, durable>>
  PROVE  DeviceInv'
<1> DEFINE ts == req[r].ts
           p == IF post > ts THEN post ELSE 0
           d == [obj |-> r, data |-> ts, post |-> p]
           x == [req[r] EXCEPT !.pc = "settle", !.cur = r]
<1>1. /\ req[r] \in Records /\ ts \in Stamps /\ ts \in Nat /\ post \in Nat
      /\ req[r].pc \notin Settles \cup {"done"} /\ r \notin Logged(log)
  BY ReqIs, StampsAre DEF Records, Settles, DeviceInv, Taken
<1>2. p \in Stamps \cup {0} /\ (post > 0 => p >= post \/ ts >= post)
  BY <1>1
<1> HIDE DEF p
<1>3. /\ d \in Decision /\ d.obj = r /\ d.data = ts /\ d.post = p
      /\ log' = Append(log, d)
  BY <1>1, <1>2 DEF Decision, Decide, p
<1>4. /\ x \in Records /\ x.pc = "settle" /\ x.cur = r /\ x.target = req[r].target
      /\ x.got = req[r].got /\ x.kind = req[r].kind /\ x.ts = ts /\ x.how = req[r].how
      /\ Becomes(r, x)
  BY <1>1 DEF Records, Settles, Objects
<1> HIDE DEF d, x
<1>5. Follows(d)
  <2>1. Len(log) > 0 => Now.data \in Nat
    <3>1. Len(log) > 0 => Now \in Decision
      BY ReqIs, NowFacts
    <3> QED
      BY <3>1, StampsAre DEF Decision
  <2> QED
    BY <1>1, <1>2, <1>3, <2>1 DEF Follows
<1>6. Served(x, d)
  BY <1>1, <1>3, <1>4 DEF Served
<1>7. Honest(log', durable, x)
  BY <1>3, <1>4, <1>6, SettleHonest
<1> QED
  BY <1>1, <1>3, <1>4, <1>5, <1>7, DecidedStep

\* A POST that is newer rewrites the Object that has the name.
LEMMA RewritesStep ==
  ASSUME DeviceInv, NEW r \in Requests, req[r].pc = "read", ~Writes(r),
         Len(log) > 0, req[r].ts > Now.data, req[r].ts > Now.post,
         Decide(Now.obj, Now.data, req[r].ts), map' = map,
         Becomes(r, [req[r] EXCEPT !.pc = "settle", !.cur = Now.obj]),
         UNCHANGED <<search, applied, halfway, durable>>
  PROVE  DeviceInv'
<1> DEFINE ts == req[r].ts
           o == Now.obj
           d == [obj |-> o, data |-> Now.data, post |-> ts]
           x == [req[r] EXCEPT !.pc = "settle", !.cur = o]
<1>1. /\ req[r] \in Records /\ ts \in Stamps /\ ts \in Nat
      /\ req[r].pc \notin Settles \cup {"done"}
  BY ReqIs, StampsAre DEF Records, Settles
<1>2. /\ o \in Requests \cup {First} /\ Now.data \in Stamps \cup {1}
      /\ Now.data \in Nat /\ Now.post \in Nat
  <2>1. Now \in Decision
    BY ReqIs, NowFacts
  <2> QED
    BY <2>1, StampsAre DEF Decision
<1>3. /\ d \in Decision /\ d.obj = o /\ d.data = Now.data /\ d.post = ts
      /\ log' = Append(log, d)
  BY <1>1, <1>2 DEF Decision, Decide
<1>4. /\ x \in Records /\ x.pc = "settle" /\ x.cur = o /\ x.target = req[r].target
      /\ x.got = req[r].got /\ x.kind = req[r].kind /\ x.ts = ts /\ x.how = req[r].how
      /\ Becomes(r, x)
  BY <1>1, <1>2 DEF Records, Settles, Objects
<1> HIDE DEF d, x
<1>5. Follows(d)
  BY <1>1, <1>2, <1>3 DEF Follows
<1>6. Served(x, d)
  BY <1>1, <1>3, <1>4 DEF Served, Writes
<1>7. Honest(log', durable, x)
  BY <1>3, <1>4, <1>6, SettleHonest
<1> QED
  BY <1>1, <1>3, <1>4, <1>5, <1>7, DecidedStep

LEMMA DecideMissingStep ==
  ASSUME DeviceInv, NEW r \in Requests, DecideMissing(r)
  PROVE  DeviceInv'
<1>1. /\ req[r].pc = "open" /\ req[r].opened /\ Resolved = Missing
      /\ req[r].ts \in Nat \ {0}
      /\ UNCHANGED <<search, applied, halfway, durable>>
  BY ReqIs, DeviceAssumption DEF DecideMissing, Acts, Records
<1>2. search.pc = "none" /\ ~(Len(log) > 0)
  BY <1>1, ResolvedIs, DeviceAssumption
<1>3. At(LatestOf(Missing, Len(log))).data = 0
  <2>1. Len(log) \in Nat /\ LatestOf(Missing, Len(log)) \in 0 .. Len(log)
    <3>1. LogTrue(log) /\ Len(log) \in 0 .. Len(log) /\ Missing \in Objects
      BY ReqIs DEF Objects
    <3> QED
      BY <3>1, ReqIs, LatestIs
  <2>2. LatestOf(Missing, Len(log)) = 0
    BY <1>2, <2>1
  <2> QED
    BY <2>2 DEF At, None
<1>4. CASE Writes(r)
  <2>1. /\ Decide(r, req[r].ts, IF 0 > req[r].ts THEN 0 ELSE 0) /\ map' = r
        /\ Becomes(r, [req[r] EXCEPT !.pc = "settle", !.cur = r])
    BY <1>1, <1>3, <1>4 DEF DecideMissing, Acts, Put
  <2> QED
    BY <1>1, <1>2, <2>1, TakesStep
<1>5. CASE ~Writes(r)
  <2>1. Becomes(r, Ended(r, "lost")) /\ UNCHANGED <<log, map>>
    BY <1>5 DEF DecideMissing, Acts, Post
  <2>2. req[r].kind = "GET"
    <3>1. req[r].kind # "POST"
      BY <1>1, <1>2, ReqIs DEF Honest
    <3> QED
      BY <1>5, <3>1, ReqIs, DeviceAssumption DEF Records, Writes
  <2>3. UNCHANGED <<map, search, engine>>
    BY <1>1, <2>1 DEF engine
  <2>4. req[r].pc \notin Settles \cup {"done"}
    BY <1>1 DEF Settles
  <2> QED
    BY <2>1, <2>2, <2>3, <2>4, EndsServed, HubStep
<1> QED
  BY <1>4, <1>5

\* What the request has read is of the Object that has the name, it is all of
\* it, and it is durable.
LEMMA WholeIs ==
  ASSUME DeviceInv, NEW r \in Requests, Whole(r)
  PROVE  LET i == LatestOf(req[r].cur, Len(log)) IN
         /\ i \in 1 .. durable /\ IsLatest(log, req[r].cur, Len(log), i)
         /\ Len(req[r].got) = MetaChunks
         /\ \A n \in 1 .. MetaChunks : req[r].got[n] = At(i).post
         /\ req[r].cur \in Logged(log) /\ req[r].cur \in Objects
<1>1. req[r].cur \in Logged(log) /\ req[r].cur \in Objects /\ Len(req[r].got) = MetaChunks
  BY ReqIs DEF Whole, Honest, Reads
<1>2. Current(log, durable, req[r])
  BY ReqIs, MovedIs DEF Whole, Honest
<1>3. PICK i \in 1 .. durable :
           /\ IsLatest(log, req[r].cur, Len(log), i)
           /\ \A n \in 1 .. Len(req[r].got) : req[r].got[n] = log[i].post
  BY <1>2 DEF Current
<1>4. LatestOf(req[r].cur, Len(log)) = i
  BY <1>1, <1>3, ReqIs, LatestIs, LatestUnique
<1>5. At(i) = log[i]
  BY <1>3, ReqIs DEF At
<1> QED
  BY <1>1, <1>3, <1>4, <1>5

LEMMA DecideReadStep ==
  ASSUME DeviceInv, NEW r \in Requests, DecideRead(r)
  PROVE  DeviceInv'
<1> DEFINE o == req[r].cur
           i == LatestOf(o, Len(log))
           post == Last(req[r].got)
<1>1. /\ Whole(r) /\ req[r].pc = "read" /\ Resolved = o
      /\ req[r].ts \in Nat \ {0}
      /\ UNCHANGED <<search, applied, halfway, durable>>
  BY ReqIs, DeviceAssumption DEF DecideRead, Acts, Records, Whole
<1>2. /\ i \in 1 .. durable /\ IsLatest(log, o, Len(log), i)
      /\ Len(req[r].got) = MetaChunks
      /\ \A n \in 1 .. MetaChunks : req[r].got[n] = At(i).post
      /\ o \in Logged(log)
  BY <1>1, WholeIs
<1>3. o # Missing /\ o \notin {Nobody, "search"}
  BY <1>2, ReqIs, NowFacts, DeviceAssumption
<1>4. o = Now.obj /\ search.pc = "none" /\ Len(log) > 0
  BY <1>1, <1>3, ResolvedIs
<1>5. i = Len(log) /\ durable = Len(log)
  <2>1. IsLatest(log, o, Len(log), Len(log))
    BY <1>4, ReqIs, NowFacts
  <2>2. i = Len(log)
    BY <1>2, <2>1, ReqIs, LatestUnique
  <2> QED
    BY <1>2, <2>2, ReqIs
<1>6. At(i) = Now /\ post = Now.post
  <2>1. MetaChunks \in 1 .. MetaChunks
    BY DeviceAssumption
  <2> QED
    BY <1>2, <1>5, <2>1 DEF Now, Last
<1>7. /\ Now = log[Len(log)] /\ Now.data \in Nat /\ Now.post \in Nat
      /\ Now.post \in Stamps \cup {0}
  <2>1. Now \in Decision /\ Now = log[Len(log)]
    BY <1>4, ReqIs, NowFacts
  <2> QED
    BY <2>1, StampsAre DEF Decision
<1>8. IF Writes(r) THEN Put(r, o, post) ELSE Post(r, o, post)
  BY DEF DecideRead, Acts
<1> HIDE DEF i, post
<1>9. ASSUME Becomes(r, Ended(r, "lost")), UNCHANGED <<log, map>>, Served(req[r], Now)
      PROVE  DeviceInv'
  <2>1. ServedAt(log, req[r], durable)
    BY <1>4, <1>5, <1>7, <1>9, ReqIs DEF ServedAt
  <2>2. UNCHANGED <<map, search, engine>>
    BY <1>1, <1>9 DEF engine
  <2>3. req[r].pc \notin Settles \cup {"done"}
    BY <1>1 DEF Settles
  <2> QED
    BY <1>9, <2>1, <2>2, <2>3, EndsServed, HubStep
<1>10. CASE Writes(r)
  <2>1. CASE req[r].ts > Now.data
    <3>1. /\ Decide(r, req[r].ts, IF post > req[r].ts THEN post ELSE 0) /\ map' = r
          /\ Becomes(r, [req[r] EXCEPT !.pc = "settle", !.cur = r])
      BY <1>6, <1>8, <1>10, <2>1 DEF Put, i
    <3> QED
      BY <1>1, <1>4, <1>6, <1>7, <2>1, <3>1, TakesStep
  <2>2. CASE ~(req[r].ts > Now.data)
    <3>1. Becomes(r, Ended(r, "lost")) /\ UNCHANGED <<log, map>>
      BY <1>6, <1>8, <1>10, <2>2 DEF Put, i
    <3>2. Served(req[r], Now)
      BY <1>1, <1>7, <2>2 DEF Served
    <3> QED
      BY <1>9, <3>1, <3>2
  <2> QED
    BY <2>1, <2>2
<1>11. CASE ~Writes(r)
  <2>1. CASE req[r].ts > Now.data /\ req[r].ts > Now.post
    <3>1. /\ Decide(Now.obj, Now.data, req[r].ts) /\ map' = map
          /\ Becomes(r, [req[r] EXCEPT !.pc = "settle", !.cur = Now.obj])
      BY <1>3, <1>4, <1>6, <1>8, <1>11, <2>1 DEF Post, i
    <3> QED
      BY <1>1, <1>4, <1>11, <2>1, <3>1, RewritesStep
  <2>2. CASE ~(req[r].ts > Now.data /\ req[r].ts > Now.post)
    <3>1. Becomes(r, Ended(r, "lost")) /\ UNCHANGED <<log, map>>
      BY <1>6, <1>8, <1>11, <2>2 DEF Post, i
    <3>2. Served(req[r], Now)
      BY <1>1, <1>7, <1>11, <2>2 DEF Served, Writes
    <3> QED
      BY <1>9, <3>1, <3>2
  <2> QED
    BY <2>1, <2>2
<1> QED
  BY <1>10, <1>11

-----------------------------------------------------------------------------
(* BlueStore makes what was decided readable, and durable.                 *)

\* While the last decision that can be read is not about the Object that has
\* the name, neither is any before it.
LEMMA HalfStep == DeviceInv /\ ApplyHalf => DeviceInv'
<1> SUFFICES ASSUME DeviceInv, ApplyHalf PROVE DeviceInv'
  OBVIOUS
<1>1. /\ applied < Len(log) /\ Renames(applied + 1) /\ halfway' = TRUE
      /\ UNCHANGED <<req, map, search, log, applied, durable>>
  BY DEF ApplyHalf
<1>2. Now' = Now /\ At(applied)' = At(applied)
  BY <1>1 DEF Now, At
<1>3. /\ applied \in 1 .. Len(log) /\ applied + 1 \in 1 .. Len(log)
      /\ (applied + 1) - 1 = applied /\ applied + 1 # 0 /\ applied # 0
  BY <1>1, ReqIs DEF DeviceInv, Types, Renames, LogTrue
<1>4. log[applied + 1].obj # log[applied].obj
  BY <1>1, <1>3 DEF Renames, At
<1>5. At(applied).obj # Now.obj
  <2>1. ASSUME At(applied).obj = Now.obj PROVE FALSE
    <3>1. log[applied].obj = log[Len(log)].obj
      BY <1>3, <2>1 DEF Now, At
    <3> QED
      BY <1>3, <1>4, <3>1 DEF DeviceInv, LogTrue
  <2> QED
    BY <2>1
<1>6. Types'
  BY <1>1 DEF DeviceInv, Types
<1>7. MapTrue'
  <2>1. Announced'
    BY <1>1, <1>2, <1>5 DEF DeviceInv, MapTrue, Announced
  <2> QED
    BY <1>1, <1>2, <1>5, <2>1 DEF DeviceInv, MapTrue
<1> QED
  BY <1>1, <1>6, <1>7 DEF DeviceInv, Taken

LEMMA ApplyStep == DeviceInv /\ Apply => DeviceInv'
<1> SUFFICES ASSUME DeviceInv, Apply PROVE DeviceInv'
  OBVIOUS
<1>1. /\ applied < Len(log) /\ applied' = applied + 1 /\ ~halfway'
      /\ halfway' \in BOOLEAN
      /\ UNCHANGED <<req, map, search, log, durable>>
  BY DEF Apply
<1>2. applied \in Nat /\ Len(log) \in Nat /\ applied + 1 \in 1 .. Len(log)
  BY <1>1 DEF DeviceInv, Types, LogTrue
<1>3. Now' = Now /\ At(applied)' = log[applied + 1]
  BY <1>1, <1>2 DEF Now, At
<1>4. Types'
  BY <1>1, <1>2 DEF DeviceInv, Types
<1>5. ASSUME log[applied + 1].obj # Now.obj PROVE Announced'
  <2>1. At(applied).obj # Now.obj
    <3>1. ASSUME At(applied).obj = Now.obj PROVE FALSE
      <4>1. Now = log[Len(log)] /\ Now.obj # Missing
        BY <1>2, NowFacts, DeviceAssumption DEF DeviceInv
      <4>2. applied # 0
        BY <3>1, <4>1 DEF At, None
      <4>3. applied \in 1 .. Len(log) /\ log[applied].obj = log[Len(log)].obj
        BY <1>2, <3>1, <4>1, <4>2 DEF At
      <4>4. log[applied + 1].obj = log[applied].obj
        BY <1>2, <4>3 DEF DeviceInv, LogTrue
      <4> QED
        BY <1>5, <4>1, <4>3, <4>4
    <3> QED
      BY <3>1
  <2>2. Announced
    BY <2>1 DEF DeviceInv, MapTrue
  <2>3. ASSUME req[Now.obj].pc = "settled" PROVE req[Now.obj].target > applied + 1
    <3>1. Now.obj \in Requests /\ req[Now.obj].target > applied /\ req[Now.obj].cur = Now.obj
      BY <2>2, <2>3 DEF Announced
    <3>2. log[req[Now.obj].target].obj = Now.obj /\ req[Now.obj].target \in Nat
      BY <2>3, <3>1, ReqIs DEF Honest
    <3>3. req[Now.obj].target # applied + 1
      BY <1>5, <3>2
    <3> QED
      BY <1>2, <3>1, <3>2, <3>3
  <2> QED
    BY <1>1, <1>3, <2>2, <2>3 DEF Announced
<1>6. MapTrue'
  BY <1>1, <1>3, <1>5 DEF DeviceInv, MapTrue
<1> QED
  BY <1>1, <1>4, <1>6 DEF DeviceInv, Taken

LEMMA CommitStep == DeviceInv /\ Commit => DeviceInv'
<1> SUFFICES ASSUME DeviceInv, Commit PROVE DeviceInv'
  OBVIOUS
<1>1. /\ durable < applied /\ durable' = durable + 1
      /\ UNCHANGED <<req, map, search, log, applied, halfway>>
  BY DEF Commit
<1>2. /\ durable \in Nat /\ applied \in Nat /\ Len(log) \in Nat
      /\ durable + 1 <= applied /\ durable + 1 <= Len(log)
  BY <1>1 DEF DeviceInv, Types, LogTrue
<1>3. Types'
  BY <1>1, <1>2 DEF DeviceInv, Types
<1>4. Now' = Now /\ At(applied)' = At(applied)
  BY <1>1 DEF Now, At
<1>5. MapTrue'
  <2>1. Announced => Announced'
    BY <1>1, <1>4 DEF Announced
  <2> QED
    BY <1>1, <1>4, <2>1 DEF DeviceInv, MapTrue
<1>6. \A r \in Requests : Honest(log, durable + 1, req[r])
  BY <1>2, ReqIs, HonestDurable
<1> QED
  BY <1>1, <1>3, <1>5, <1>6 DEF DeviceInv, Taken

-----------------------------------------------------------------------------
LEMMA NextInv == DeviceInv /\ [Next]_vars => DeviceInv'
<1> SUFFICES ASSUME DeviceInv, [Next]_vars PROVE DeviceInv'
  OBVIOUS
<1>1. ASSUME NEW r \in Requests, Hub(r) PROVE DeviceInv'
  <2>1. CASE SyncReads(r)
    BY <2>1, SyncReadsStep, SyncSettlesStep DEF SyncReads
  <2>2. CASE ~SyncReads(r)
    BY <1>1, <2>2, SearchStep, JoinStep, RaiseStep, OpensStep, SyncEndsStep,
       ReadChunkStep, RetryStep, ContinueStep, FileOpenedStep, BodyEndsStep,
       AgainStep, DecideMissingStep, DecideReadStep, AcknowledgeStep DEF Hub
  <2> QED
    BY <2>1, <2>2
<1>2. CASE Find \/ FindFails
  BY <1>2, LoadStep, FindEndsStep, FindFailsStep DEF Find
<1>3. CASE ApplyHalf \/ Apply \/ Commit
  BY <1>3, HalfStep, ApplyStep, CommitStep
<1>4. CASE UNCHANGED vars
  <2>1. Now' = Now /\ At(applied)' = At(applied)
    BY <1>4 DEF vars, Now, At
  <2>2. Types' /\ Taken'
    BY <1>4 DEF vars, DeviceInv, Types, Taken
  <2>3. MapTrue'
    BY <1>4, <2>1 DEF vars, DeviceInv, MapTrue, Announced
  <2> QED
    BY <1>4, <2>2, <2>3 DEF vars, DeviceInv
<1> QED
  BY <1>1, <1>2, <1>3, <1>4 DEF Next

(* However requests, searches and the engine's threads interleave, the map *)
(* and the log stay true to each other, and every read and every wait      *)
(* knows what it needs to (device.py).                                     *)
THEOREM DeviceInvariant == Spec => []DeviceInv
<1>1. Init => DeviceInv
  BY InitInv
<1>2. DeviceInv /\ [Next]_vars => DeviceInv'
  BY NextInv
<1> QED
  BY <1>1, <1>2, PTL DEF Spec

-----------------------------------------------------------------------------
LEMMA InvTypeOK == DeviceInv => TypeOK
<1> SUFFICES ASSUME DeviceInv PROVE TypeOK
  OBVIOUS
<1>1. ASSUME NEW r \in Requests
      PROVE  LET x == req[r] IN
             /\ x.kind \in Kinds /\ x.ts \in Stamps /\ x.opened \in BOOLEAN
             /\ x.file \in Objects \cup {Nobody} /\ x.cur \in Objects \cup {Nobody}
             /\ x.got \in Seq(Stamps \cup {0}) /\ Len(x.got) <= MetaChunks
             /\ x.tries \in 0 .. Attempts /\ x.target \in 0 .. Len(log)
  <2>1. req[r] \in Records
    BY ReqIs
  <2>2. Len(req[r].got) <= MetaChunks /\ req[r].target <= Len(log)
    BY ReqIs DEF Honest
  <2>3. req[r].target \in 0 .. Len(log)
    BY <2>2, ReqIs
  <2> QED
    BY <2>1, <2>2, <2>3 DEF Records
<1>2. halfway => applied < Len(log)
  <2>1. ASSUME halfway PROVE applied # Len(log)
    BY <2>1 DEF DeviceInv, MapTrue, Now
  <2>2. applied \in Nat /\ Len(log) \in Nat /\ applied <= Len(log)
    BY DEF DeviceInv, Types, LogTrue
  <2> QED
    BY <2>1, <2>2
<1>3. /\ map \in Objects \cup {Nobody, "search"}
      /\ map = "search" <=> search.pc # "none"
      /\ log \in Seq(Decision)
      /\ durable <= applied /\ applied <= Len(log)
  BY DEF DeviceInv, Types, MapTrue, LogTrue
<1> QED
  BY <1>1, <1>2, <1>3 DEF TypeOK

(* What the name resolves to, from the map or from a search, is what was   *)
(* decided last: no request works on an Object that has lost the name      *)
(* without the call that took it being in the map (device.py open()).      *)
THEOREM NameIsWhoHasIt == Spec => []ResolvesToHolder
<1>1. DeviceInv => ResolvesToHolder
  BY InvTypeOK, ResolvedIs DEF DeviceInv, MapTrue, ResolvesToHolder
<1> QED
  BY <1>1, DeviceInvariant, PTL

(* Timestamps decide, not the order of arrival: an older PUT, DELETE or    *)
(* POST never undoes a newer one (device.py put(), write_metadata()).      *)
THEOREM TheNewestWins == Spec => []NewestWins
<1>1. DeviceInv => NewestWins
  BY DEF DeviceInv, LogTrue, NewestWins
<1> QED
  BY <1>1, DeviceInvariant, PTL

(* Metadata is read whole, as the Object's newest POST left it, and        *)
(* durable, whatever runs between its chunks (device.py read_metadata()).  *)
THEOREM ReadsAreWhole == Spec => []ReadsWholeAndCurrent
<1>1. DeviceInv => ReadsWholeAndCurrent
  <2> SUFFICES ASSUME DeviceInv, NEW r \in Requests, Whole(r)
               PROVE  LET latest == LatestOf(req[r].cur, Len(log)) IN
                      /\ \A i \in 1 .. MetaChunks : req[r].got[i] = At(latest).post
                      /\ durable >= latest
    BY DEF ReadsWholeAndCurrent
  <2> QED
    BY WholeIs, ReqIs
<1> QED
  BY <1>1, DeviceInvariant, PTL

(* Nothing is answered before it is durable, or something newer is that    *)
(* makes it void (device.py put(), delete(), write_metadata()).            *)
THEOREM AnsweredDurable == Spec => []AnsweredIsDurable
<1>1. DeviceInv => AnsweredIsDurable
  <2> SUFFICES ASSUME DeviceInv, NEW r \in Requests, req[r].how \in {"ok", "lost"}
               PROVE  /\ Writes(r) => At(durable).data >= req[r].ts
                      /\ req[r].kind = "POST" => \/ At(durable).post >= req[r].ts
                                                 \/ At(durable).data >= req[r].ts
    BY DEF AnsweredIsDurable
  <2>1. CASE req[r].kind # "GET"
    <3>1. durable \in 1 .. Len(log) /\ Served(req[r], log[durable])
      BY <2>1, ReqIs DEF Honest, ServedAt
    <3>2. At(durable) = log[durable]
      BY <3>1, ReqIs DEF At
    <3> QED
      BY <3>1, <3>2 DEF Served, Writes
  <2>2. CASE req[r].kind = "GET"
    BY <2>2 DEF Writes
  <2> QED
    BY <2>1, <2>2
<1> QED
  BY <1>1, DeviceInvariant, PTL
=============================================================================
