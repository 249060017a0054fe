---------------------------- MODULE HashesProofs ----------------------------
(***************************************************************************)
(* Hashes loses no invalidation and answers no digest older than it was    *)
(* told of, for any number of suffixes, callers and requests: its          *)
(* inductive invariant, action by action.                                  *)
(***************************************************************************)
EXTENDS Hashes, TLAPS

\* What is recorded for a suffix does for its last invalidation, unless that
\* one is in hashes.invalid and nobody is about to empty it.
Kept(s, entry) == (s \in invalid /\ lock = NoOne) \/ Covers(entry, told[s])

\* What a call works on that nobody has overtaken.
Current(r) == call[r].orig = pkl

\* Between the two writes of consolidate_hashes.
ClearTrue(r) ==
  call[r].at = "clear" =>
    /\ lock = r
    /\ pkl.valid => \A s \in Suffixes : Covers(pkl.of[s], told[s])

\* The copy it has read.
CopyTrue(r) ==
  call[r].at \in {"clear", "adopt"} /\ call[r].orig.valid =>
    \A s \in Suffixes :
      /\ Covers(call[r].orig.of[s], call[r].since[s])
      /\ call[r].at = "adopt" /\ Current(r) => Kept(s, call[r].orig.of[s])

\* What it makes of it: an absent key is looked up in the listing, after which
\* every entry will do.
WorkTrue(r) ==
  call[r].at \in {"list", "hash"} =>
    \A s \in Suffixes :
      \/ call[r].at = "list" /\ call[r].work[s].kind = "none"
      \/ /\ Covers(call[r].work[s], call[r].since[s])
         /\ Current(r) => Kept(s, call[r].work[s])

\* The digest it is taking.
DigestTrue(r) ==
  /\ call[r].hashing # {} => call[r].at = "hash"
  /\ \A h \in call[r].hashing :
       /\ h[2] >= call[r].since[h[1]]
       /\ Current(r) => \/ h[1] \in invalid /\ lock = NoOne
                        \/ h[2] >= told[h[1]]

AnswerTrue(r) ==
  call[r].at = "done" =>
    \A s \in Suffixes : Covers(call[r].work[s], call[r].since[s])

CallTrue(r) ==
  /\ call[r].orig.updated <= pkl.updated
  /\ \A s \in Suffixes : call[r].since[s] <= told[s]
  /\ ClearTrue(r) /\ CopyTrue(r) /\ WorkTrue(r) /\ DigestTrue(r) /\ AnswerTrue(r)

HashesIInv ==
  /\ TypeOK
  /\ InvalidationKept
  /\ \A s \in Suffixes : told[s] <= ver[s]
  /\ \A r \in Rehashers : CallTrue(r)

Calls ==
  [at : {"idle", "consolidate", "clear", "adopt", "list", "hash", "done"},
   orig : Pkl, work : [Suffixes -> Entry], recalculate : SUBSET Suffixes,
   listdir : BOOLEAN, todo : SUBSET Suffixes, modified : BOOLEAN,
   hashing : SUBSET (Suffixes \X Nat), since : [Suffixes -> Nat]]

-----------------------------------------------------------------------------
(* The records the model is built from.                                    *)

LEMMA Records ==
  /\ Dirty \in Entry /\ Dirty.kind = "dirty"
  /\ \A v \in Nat : /\ Absent(v) \in Entry /\ Absent(v).kind = "none" /\ Absent(v).ver = v
                    /\ Sum(v) \in Entry /\ Sum(v).ver = v
  /\ Unreadable \in Pkl /\ Unreadable.updated = 0 /\ ~Unreadable.valid
  /\ \A s \in Suffixes : Unreadable.of[s].kind = "none"
  /\ Idle \in Calls /\ Idle.at = "idle" /\ Idle.orig = Unreadable
  /\ Idle.hashing = {} /\ Idle.since = [s \in Suffixes |-> 0]
BY DEF Dirty, Absent, Sum, Unreadable, Entry, Pkl, Idle, Calls

\* A newer digest does for whatever an older one did for.
LEMMA CoversLess ==
  ASSUME NEW e \in Entry, NEW v \in Nat, NEW w \in Nat, w <= v, Covers(e, v)
  PROVE  Covers(e, w)
BY DEF Covers, Entry

LEMMA InitInv == Init => HashesIInv
<1> SUFFICES ASSUME Init PROVE HashesIInv
  OBVIOUS
<1>1. TypeOK
  <2>1. Resting \in [op : {"none", "put", "quarantine", "purge"}, on : SUBSET Suffixes]
    BY DEF Resting
  <2> QED
    BY <2>1, Records DEF Init, TypeOK, Calls
<1>2. InvalidationKept /\ \A s \in Suffixes : told[s] <= ver[s]
  BY Records DEF Init, InvalidationKept
<1>3. ASSUME NEW r \in Rehashers PROVE CallTrue(r)
  <2>1. call[r] = Idle /\ pkl = Unreadable
    BY DEF Init
  <2> QED
    BY <2>1, Records DEF Init, CallTrue, ClearTrue, CopyTrue, WorkTrue, DigestTrue, AnswerTrue
<1> QED
  BY <1>1, <1>2, <1>3 DEF HashesIInv

-----------------------------------------------------------------------------
(* Types.                                                                  *)

\* What the steps do to the state of a call leaves it one.
LEMMA CallEdits ==
  ASSUME NEW c \in Calls
  PROVE
    /\ \A at \in {"clear", "adopt"}, orig \in Pkl :
         [c EXCEPT !.at = at, !.orig = orig] \in Calls
    /\ [c EXCEPT !.at = "adopt"] \in Calls
    /\ \A orig \in Pkl, listdir \in BOOLEAN, work \in [Suffixes -> Entry],
         at \in {"list", "hash"}, todo \in SUBSET Suffixes :
         [c EXCEPT !.orig = orig, !.listdir = listdir, !.modified = listdir,
                   !.work = work, !.at = at, !.todo = todo] \in Calls
    /\ \A work \in [Suffixes -> Entry], todo \in SUBSET Suffixes :
         [c EXCEPT !.at = "hash", !.work = work, !.todo = todo] \in Calls
    /\ \A s \in Suffixes, e \in Entry :
         [c EXCEPT !.work = [c.work EXCEPT ![s] = e], !.todo = @ \ {s},
                   !.modified = TRUE, !.hashing = {}] \in Calls
    /\ \A s \in Suffixes, v \in Nat : [c EXCEPT !.hashing = {<<s, v>>}] \in Calls
<1>1. ASSUME NEW at \in {"clear", "adopt"}, NEW orig \in Pkl
      PROVE  [c EXCEPT !.at = at, !.orig = orig] \in Calls
  BY DEF Calls
<1>2. [c EXCEPT !.at = "adopt"] \in Calls
  BY DEF Calls
<1>3. ASSUME NEW orig \in Pkl, NEW listdir \in BOOLEAN, NEW work \in [Suffixes -> Entry],
             NEW at \in {"list", "hash"}, NEW todo \in SUBSET Suffixes
      PROVE  [c EXCEPT !.orig = orig, !.listdir = listdir, !.modified = listdir,
                       !.work = work, !.at = at, !.todo = todo] \in Calls
  BY DEF Calls
<1>4. ASSUME NEW work \in [Suffixes -> Entry], NEW todo \in SUBSET Suffixes
      PROVE  [c EXCEPT !.at = "hash", !.work = work, !.todo = todo] \in Calls
  BY DEF Calls
<1>5. ASSUME NEW s \in Suffixes, NEW e \in Entry
      PROVE  [c EXCEPT !.work = [c.work EXCEPT ![s] = e], !.todo = @ \ {s},
                       !.modified = TRUE, !.hashing = {}] \in Calls
  <2>1. [c.work EXCEPT ![s] = e] \in [Suffixes -> Entry] /\ c.todo \ {s} \in SUBSET Suffixes
    BY DEF Calls
  <2> QED
    BY <2>1 DEF Calls
<1>6. ASSUME NEW s \in Suffixes, NEW v \in Nat
      PROVE  [c EXCEPT !.hashing = {<<s, v>>}] \in Calls
  <2>1. {<<s, v>>} \in SUBSET (Suffixes \X Nat)
    OBVIOUS
  <2> QED
    BY <2>1 DEF Calls
<1> QED
  BY <1>1, <1>2, <1>3, <1>4, <1>5, <1>6

LEMMA TypeStep == TypeOK /\ [Next]_vars => TypeOK'
<1> SUFFICES ASSUME TypeOK, [Next]_vars PROVE TypeOK'
  OBVIOUS
<1> USE Records
<1>0. call \in [Rehashers -> Calls] /\ \A r \in Rehashers : call[r] \in Calls
  BY DEF TypeOK, Calls
<1>1. ASSUME NEW m \in Mutators, Mutate(m) PROVE TypeOK'
  <2>0. doing[m].on \subseteq Suffixes
    BY DEF TypeOK
  <2>1. Resting \in [op : {"none", "put", "quarantine", "purge"}, on : SUBSET Suffixes]
    BY DEF Resting
  <2>2. ASSUME NEW s \in Suffixes, NEW op \in {"put", "quarantine"}, Announce(m, s, op)
        PROVE  TypeOK'
    <3>1. [op |-> op, on |-> {s}] \in [op : {"none", "put", "quarantine", "purge"},
                                       on : SUBSET Suffixes]
      OBVIOUS
    <3> QED
      BY <2>2, <3>1 DEF Announce, invalidate_hash, TypeOK
  <2>3. CASE FinalizePut(m)
    BY <2>0, <2>1, <2>3 DEF FinalizePut, Change, TypeOK
  <2>4. CASE Quarantine(m)
    <3>1. /\ doing' = [doing EXCEPT ![m] = Resting]
          /\ UNCHANGED <<pkl, invalid, lock, call, told>>
          /\ dir' \in [Suffixes -> {"absent", "empty", "full"}] /\ ver' \in [Suffixes -> Nat]
      <4>1. PICK s \in Suffixes :
              /\ IF dir[s] = "full" THEN Change(s, "empty") ELSE UNCHANGED <<dir, ver>>
              /\ doing' = [doing EXCEPT ![m] = Resting]
              /\ UNCHANGED <<pkl, invalid, lock, call, told>>
        BY <2>0, <2>4 DEF Quarantine
      <4>2. CASE dir[s] = "full"
        <5>1. /\ ver' = [ver EXCEPT ![s] = ver[s] + 1]
              /\ dir' = [dir EXCEPT ![s] = "empty"]
          BY <4>1, <4>2 DEF Change
        <5> QED
          BY <4>1, <5>1 DEF TypeOK
      <4>3. CASE dir[s] # "full"
        BY <4>1, <4>3 DEF TypeOK
      <4> QED
        BY <4>2, <4>3
    <3> QED
      BY <2>1, <3>1 DEF TypeOK
  <2>5. CASE PurgeInvalidates(m)
    BY <2>0, <2>1, <2>5 DEF PurgeInvalidates, invalidate_hash, TypeOK
  <2>6. ASSUME NEW s \in Suffixes, Purge(m, s) PROVE TypeOK'
    BY <2>6 DEF Purge, Change, TypeOK
  <2>7. CASE MutatorDies(m)
    BY <2>1, <2>7 DEF MutatorDies, TypeOK
  <2> QED
    BY <1>1, <2>2, <2>3, <2>4, <2>5, <2>6, <2>7 DEF Mutate
<1>2. ASSUME NEW s \in Suffixes, MarkOnly(s) PROVE TypeOK'
  BY <1>2 DEF MarkOnly, invalidate_hash, TypeOK
<1>3. ASSUME NEW r \in Rehashers, NEW c \in Calls, call' = [call EXCEPT ![r] = c],
             dir' \in [Suffixes -> {"absent", "empty", "full"}],
             pkl' \in Pkl, lock' \in Rehashers \cup {NoOne}, invalid' \subseteq Suffixes,
             UNCHANGED <<ver, doing, told>>
      PROVE  TypeOK'
  <2>1. call' \in [Rehashers -> Calls]
    BY <1>0, <1>3
  <2> QED
    BY <1>3, <2>1 DEF TypeOK, Calls
<1>4. ASSUME NEW entries \in [Suffixes -> Entry], NEW valid \in BOOLEAN,
             write_hashes(entries, valid)
      PROVE  pkl' \in Pkl
  BY <1>4 DEF write_hashes, TypeOK, Pkl
<1>5. ASSUME NEW r \in Rehashers, NEW suffixes \in SUBSET Suffixes, Get(r, suffixes)
      PROVE  TypeOK'
  <2> DEFINE c == [Idle EXCEPT !.at = "consolidate", !.recalculate = suffixes,
                               !.since = told]
  <2>1. c \in Calls
    BY DEF Calls, TypeOK
  <2>2. call' = [call EXCEPT ![r] = c]
    BY <1>5 DEF Get
  <2> QED
    BY <1>3, <1>5, <2>1, <2>2 DEF Get, TypeOK
<1>6. ASSUME NEW r \in Rehashers, ConsolidateMarks(r) PROVE TypeOK'
  <2> DEFINE marked == [s \in Suffixes |-> IF s \in invalid THEN Dirty ELSE pkl.of[s]]
  <2>1. marked \in [Suffixes -> Entry] /\ pkl \in Pkl /\ pkl.valid \in BOOLEAN
    BY DEF TypeOK, Pkl
  <2>2. pkl' \in Pkl
    BY <1>4, <1>6, <2>1 DEF ConsolidateMarks
  <2>3. PICK at \in {"clear", "adopt"}, orig \in Pkl :
          call' = [call EXCEPT ![r] = [call[r] EXCEPT !.at = at, !.orig = orig]]
    <3>1. CASE invalid = {}
      <4>1. call' = [call EXCEPT ![r] = [call[r] EXCEPT !.at = "adopt", !.orig = pkl]]
        BY <1>0, <1>6, <3>1 DEF ConsolidateMarks
      <4> QED
        BY <2>1, <4>1
    <3>2. CASE invalid # {}
      <4>1. call' = [call EXCEPT ![r] = [call[r] EXCEPT !.at = "clear", !.orig = pkl']]
        BY <1>0, <1>6, <3>2 DEF ConsolidateMarks
      <4> QED
        BY <2>2, <4>1
    <3> QED
      BY <3>1, <3>2
  <2>4. [call[r] EXCEPT !.at = at, !.orig = orig] \in Calls
    BY <1>0, CallEdits
  <2> QED
    <3>1. lock' \in Rehashers \cup {NoOne} /\ UNCHANGED <<dir, ver, invalid, doing, told>>
      BY <1>6 DEF ConsolidateMarks, TypeOK
    <3>2. /\ dir' \in [Suffixes -> {"absent", "empty", "full"}]
          /\ invalid' \subseteq Suffixes
      BY <3>1 DEF TypeOK
    <3> QED
      BY <1>3, <2>2, <2>3, <2>4, <3>1, <3>2
<1>7. ASSUME NEW r \in Rehashers, ConsolidateClears(r) PROVE TypeOK'
  <2>1. call' = [call EXCEPT ![r] = [call[r] EXCEPT !.at = "adopt"]]
    BY <1>0, <1>7 DEF ConsolidateClears
  <2>2. [call[r] EXCEPT !.at = "adopt"] \in Calls
    BY <1>0, CallEdits
  <2> QED
    BY <1>3, <1>7, <2>1, <2>2 DEF ConsolidateClears, TypeOK
<1>8. ASSUME NEW r \in Rehashers, ConsolidateFails(r) PROVE TypeOK'
  <2>1. call' = [call EXCEPT ![r] = [call[r] EXCEPT !.at = "adopt", !.orig = Unreadable]]
    BY <1>0, <1>8 DEF ConsolidateFails
  <2>2. [call[r] EXCEPT !.at = "adopt", !.orig = Unreadable] \in Calls
    BY <1>0, CallEdits
  <2> QED
    BY <1>3, <1>8, <2>1, <2>2 DEF ConsolidateFails, TypeOK
<1>9. ASSUME NEW r \in Rehashers, Adopt(r) PROVE TypeOK'
  <2>2. /\ call[r].orig \in Pkl /\ call[r].listdir \in BOOLEAN /\ pkl \in Pkl
        /\ call[r].orig.valid \in BOOLEAN
        /\ Unreadable.of \in [Suffixes -> Entry]
        /\ \A p \in Pkl : p.of \in [Suffixes -> Entry]
    BY <1>0 DEF Calls, Pkl, TypeOK
  <2>3. PICK orig \in Pkl, listdir \in BOOLEAN, work \in [Suffixes -> Entry],
             at \in {"list", "hash"}, todo \in SUBSET Suffixes :
          call' = [call EXCEPT ![r] =
            [call[r] EXCEPT !.orig = orig, !.listdir = listdir, !.modified = listdir,
                            !.work = work, !.at = at, !.todo = todo]]
    <3> DEFINE fresh == ~call[r].orig.valid
               orig == IF fresh THEN pkl ELSE call[r].orig
               work == IF fresh THEN Unreadable.of ELSE orig.of
               listdir == fresh \/ call[r].listdir
               dirty(w) == [s \in Suffixes |-> IF s \in call[r].recalculate THEN Dirty
                                               ELSE w[s]]
    <3>1. orig \in Pkl /\ work \in [Suffixes -> Entry] /\ listdir \in BOOLEAN
      BY <2>2
    <3>2. dirty(work) \in [Suffixes -> Entry]
      BY <3>1
    <3>3. call' = [call EXCEPT ![r] =
          [call[r] EXCEPT !.orig = orig, !.listdir = listdir, !.modified = listdir,
                    !.work = IF listdir THEN work ELSE dirty(work),
                    !.at = IF listdir THEN "list" ELSE "hash",
                    !.todo = IF listdir THEN {} ELSE
                      {s \in Suffixes : dirty(work)[s].kind = "dirty"}]]
      BY <1>9 DEF Adopt
    <3>4. /\ (IF listdir THEN work ELSE dirty(work)) \in [Suffixes -> Entry]
          /\ (IF listdir THEN "list" ELSE "hash") \in {"list", "hash"}
          /\ (IF listdir THEN {} ELSE {s \in Suffixes : dirty(work)[s].kind = "dirty"})
               \in SUBSET Suffixes
      BY <3>1, <3>2
    <3> HIDE DEF orig, work, listdir, dirty
    <3> QED
      BY <3>1, <3>3, <3>4
  <2>4. [call[r] EXCEPT !.orig = orig, !.listdir = listdir, !.modified = listdir,
                        !.work = work, !.at = at, !.todo = todo] \in Calls
    BY <1>0, CallEdits
  <2>5. UNCHANGED <<dir, ver, pkl, invalid, lock, doing, told>>
    BY <1>9 DEF Adopt
  <2> QED
    BY <1>3, <2>3, <2>4, <2>5 DEF TypeOK
<1>10. ASSUME NEW r \in Rehashers, List(r) PROVE TypeOK'
  <2>2. PICK work \in [Suffixes -> Entry], todo \in SUBSET Suffixes :
          call' = [call EXCEPT ![r] =
                     [call[r] EXCEPT !.at = "hash", !.work = work, !.todo = todo]]
    <3> DEFINE listed == [s \in Suffixes |->
                   IF s \in call[r].recalculate THEN Dirty
                   ELSE IF call[r].work[s].kind # "none" THEN call[r].work[s]
                   ELSE IF dir[s] = "absent" THEN Absent(ver[s])
                   ELSE Dirty]
               todo == {s \in Suffixes : listed[s].kind = "dirty"}
    <3>1. call[r].work \in [Suffixes -> Entry] /\ \A s \in Suffixes : ver[s] \in Nat
      BY <1>0 DEF Calls, TypeOK
    <3>2. listed \in [Suffixes -> Entry]
      BY <3>1
    <3>3. call' = [call EXCEPT ![r] =
                     [call[r] EXCEPT !.at = "hash", !.work = listed, !.todo = todo]]
      BY <1>10 DEF List
    <3>4. todo \in SUBSET Suffixes
      OBVIOUS
    <3> HIDE DEF listed, todo
    <3> QED
      BY <3>2, <3>3, <3>4
  <2>3. [call[r] EXCEPT !.at = "hash", !.work = work, !.todo = todo] \in Calls
    BY <1>0, CallEdits
  <2>4. UNCHANGED <<dir, ver, pkl, invalid, lock, doing, told>>
    BY <1>10 DEF List
  <2> QED
    BY <1>3, <2>2, <2>3, <2>4 DEF TypeOK
<1>11. ASSUME NEW r \in Rehashers, NEW s \in Suffixes, NEW e \in Entry, Settle(r, s, e),
              dir' \in [Suffixes -> {"absent", "empty", "full"}],
              UNCHANGED <<ver, pkl, invalid, lock, doing, told>>
       PROVE  TypeOK'
  <2> DEFINE c == [call[r] EXCEPT !.work = [call[r].work EXCEPT ![s] = e],
                                  !.todo = @ \ {s}, !.modified = TRUE, !.hashing = {}]
  <2>2. c \in Calls
    BY <1>0, CallEdits
  <2>3. call' = [call EXCEPT ![r] = c]
    BY <1>0, <1>11 DEF Settle
  <2> QED
    BY <1>3, <1>11, <2>2, <2>3 DEF TypeOK
<1>12. ASSUME NEW r \in Rehashers, NEW s \in Suffixes, HashReads(r, s) PROVE TypeOK'
  <2>1. ver[s] \in Nat /\ UNCHANGED <<dir, ver, pkl, invalid, lock, doing, told>>
    BY <1>12 DEF HashReads, TypeOK
  <2>2. CASE dir[s] = "absent"
    <3>1. Settle(r, s, Absent(ver[s])) /\ dir' \in [Suffixes -> {"absent", "empty", "full"}]
      BY <1>12, <2>1, <2>2 DEF HashReads, TypeOK
    <3> QED
      BY <1>11, <2>1, <3>1
  <2>3. CASE dir[s] # "absent"
    <3>1. call' = [call EXCEPT ![r] = [call[r] EXCEPT !.hashing = {<<s, ver[s]>>}]]
      BY <1>0, <1>12, <2>3 DEF HashReads
    <3>2. [call[r] EXCEPT !.hashing = {<<s, ver[s]>>}] \in Calls
      BY <1>0, <2>1, CallEdits
    <3> QED
      BY <1>3, <2>1, <3>1, <3>2 DEF TypeOK
  <2> QED
    BY <2>2, <2>3
<1>13. ASSUME NEW r \in Rehashers, HashEnds(r) \/ HashFails(r) PROVE TypeOK'
  <2>1. PICK h \in call[r].hashing :
          /\ \E e \in {Sum(h[2]), Absent(ver[h[1]]), Dirty} : Settle(r, h[1], e)
          /\ dir' = dir \/ dir' = [dir EXCEPT ![h[1]] = "absent"]
          /\ UNCHANGED <<ver, pkl, invalid, lock, doing, told>>
    BY <1>13 DEF HashEnds, HashFails
  <2>2. h[1] \in Suffixes /\ h[2] \in Nat /\ ver[h[1]] \in Nat
    BY <1>0 DEF Calls, TypeOK
  <2>3. PICK e \in Entry : Settle(r, h[1], e)
    BY <2>1, <2>2
  <2>4. dir' \in [Suffixes -> {"absent", "empty", "full"}]
    BY <2>1 DEF TypeOK
  <2> QED
    BY <1>11, <2>1, <2>2, <2>3, <2>4
<1>14. ASSUME NEW r \in Rehashers, WriteBack(r) PROVE TypeOK'
  <2>1. Answer(call[r]) \in Calls
    BY <1>0 DEF Answer, Calls
  <2>2. [Idle EXCEPT !.at = "consolidate", !.recalculate = call[r].recalculate,
                     !.listdir = call[r].listdir, !.since = call[r].since] \in Calls
    BY <1>0 DEF Calls
  <2>3. PICK c \in Calls : call' = [call EXCEPT ![r] = c]
    BY <1>14, <2>1, <2>2 DEF WriteBack
  <2>4. pkl' \in Pkl
    <3>1. call[r].work \in [Suffixes -> Entry] /\ pkl \in Pkl
      BY <1>0 DEF Calls, TypeOK
    <3> QED
      BY <1>4, <1>14, <3>1 DEF WriteBack
  <2> QED
    BY <1>3, <1>14, <2>3, <2>4 DEF WriteBack, TypeOK
<1>15. ASSUME NEW r \in Rehashers, Return(r) \/ RehasherDies(r) PROVE TypeOK'
  <2>1. call' = [call EXCEPT ![r] = Idle]
    BY <1>15 DEF Return, RehasherDies
  <2>2. lock' \in Rehashers \cup {NoOne}
    BY <1>15 DEF Return, RehasherDies, TypeOK
  <2>3. UNCHANGED <<dir, ver, pkl, invalid, doing, told>> /\ Idle \in Calls
    BY <1>15 DEF Return, RehasherDies
  <2> QED
    BY <1>3, <2>1, <2>2, <2>3 DEF TypeOK
<1>16. CASE UNCHANGED vars
  BY <1>16 DEF vars, TypeOK
<1> QED
  BY <1>1, <1>2, <1>5, <1>6, <1>7, <1>8, <1>9, <1>10, <1>12, <1>13, <1>14,
     <1>15, <1>16 DEF Next, Rehash
-----------------------------------------------------------------------------
(* What a step of one call leaves true of another's.                       *)

\* Nothing it is about changed.
LEMMA SameCall ==
  ASSUME NEW q \in Rehashers, CallTrue(q), call'[q] = call[q],
         UNCHANGED <<pkl, invalid, lock, told>>
  PROVE  CallTrue(q)'
BY DEF CallTrue, ClearTrue, CopyTrue, WorkTrue, DigestTrue, AnswerTrue, Current, Kept

\* hashes.pkl was written: what q works on is out of date, and q will see it.
LEMMA Overtaken ==
  ASSUME NEW q \in Rehashers, TypeOK, TypeOK', CallTrue(q), call'[q] = call[q],
         told' = told, pkl'.updated > pkl.updated, call[q].at # "clear"
  PROVE  CallTrue(q)'
<1>1. /\ call[q] \in Calls /\ call[q].orig \in Pkl
      /\ call[q].orig.updated \in Nat /\ pkl.updated \in Nat /\ pkl'.updated \in Nat
  BY DEF TypeOK, Pkl, Calls
<1>2. call[q].orig.updated <= pkl'.updated /\ ~Current(q)'
  BY <1>1 DEF CallTrue, Current
<1> QED
  BY <1>2 DEF CallTrue, ClearTrue, CopyTrue, WorkTrue, DigestTrue, AnswerTrue

\* Somebody else held the lock: q counted on no line of hashes.invalid.
LEMMA Held ==
  ASSUME NEW q \in Rehashers, CallTrue(q), call'[q] = call[q],
         UNCHANGED <<pkl, told>>, lock # NoOne, lock # q
  PROVE  CallTrue(q)'
<1>1. call[q].at # "clear"
  BY DEF CallTrue, ClearTrue
<1>2. \A s \in Suffixes : \A e : Kept(s, e) => Kept(s, e)'
  BY DEF Kept, Covers
<1>3. CopyTrue(q)' /\ WorkTrue(q)' /\ AnswerTrue(q)' /\ ClearTrue(q)'
  BY <1>1 DEF CallTrue, ClearTrue, CopyTrue, WorkTrue, AnswerTrue, Current, Kept
<1>4. DigestTrue(q)'
  BY DEF CallTrue, DigestTrue, Current
<1> QED
  BY <1>3, <1>4 DEF CallTrue

LEMMA SameKept ==
  ASSUME InvalidationKept, UNCHANGED <<pkl, invalid, told>>
  PROVE  InvalidationKept'
BY DEF InvalidationKept

\* Only one call changed.
LEMMA Alone ==
  ASSUME HashesIInv, TypeOK', NEW r \in Rehashers, CallTrue(r)',
         \A q \in Rehashers \ {r} : call'[q] = call[q],
         UNCHANGED <<ver, pkl, invalid, lock, told>>
  PROVE  HashesIInv'
<1>1. \A q \in Rehashers : CallTrue(q)'
  BY SameCall DEF HashesIInv
<1>2. InvalidationKept' /\ \A s \in Suffixes : (told[s] <= ver[s])'
  BY SameKept DEF HashesIInv
<1> QED
  BY <1>1, <1>2 DEF HashesIInv

-----------------------------------------------------------------------------
(* Changes of the directories.                                             *)

\* A directory changes: versions grow and nothing else moves.
LEMMA DirectoryStep ==
  ASSUME HashesIInv, TypeOK', \A s \in Suffixes : ver'[s] >= ver[s],
         UNCHANGED <<pkl, invalid, lock, call, told>>
  PROVE  HashesIInv'
<1>1. \A q \in Rehashers : CallTrue(q)'
  BY SameCall DEF HashesIInv
<1>2. InvalidationKept'
  BY SameKept DEF HashesIInv
<1>3. \A s \in Suffixes : told'[s] <= ver'[s]
  BY DEF HashesIInv, TypeOK
<1> QED
  BY <1>1, <1>2, <1>3 DEF HashesIInv

\* A line is appended: nobody is between the two writes of consolidate_hashes,
\* for the lock is free.
LEMMA ToldStep ==
  ASSUME HashesIInv, TypeOK', NEW s0 \in Suffixes, invalidate_hash(s0),
         UNCHANGED <<dir, ver, pkl, lock, call>>
  PROVE  HashesIInv'
<1>1. /\ lock = NoOne /\ lock' = NoOne /\ invalid' = invalid \cup {s0}
      /\ \A s \in Suffixes : /\ told'[s] \in Nat /\ told[s] \in Nat /\ ver[s] \in Nat
                             /\ told'[s] = IF s = s0 THEN ver[s] ELSE told[s]
                             /\ told[s] <= ver[s]
  BY DEF invalidate_hash, HashesIInv, TypeOK
<1>2. \A s \in Suffixes : told[s] <= told'[s] /\ told'[s] <= ver'[s]
  BY <1>1
<1>3. InvalidationKept'
  BY <1>1 DEF HashesIInv, InvalidationKept
<1>4. \A s \in Suffixes : \A e : Kept(s, e) => Kept(s, e)'
  BY <1>1 DEF Kept, Covers
<1>5. ASSUME NEW q \in Rehashers PROVE CallTrue(q)'
  <2>1. CallTrue(q) /\ call[q] \in Calls
    BY DEF HashesIInv, TypeOK, Calls
  <2>2. call[q].at # "clear"
    BY <1>1, <2>1, HashesAssumption DEF CallTrue, ClearTrue
  <2>3. \A s \in Suffixes : call'[q].since[s] <= told'[s]
    <3>1. \A s \in Suffixes : call[q].since[s] \in Nat
      BY <2>1 DEF Calls
    <3> QED
      BY <1>1, <1>2, <2>1, <3>1 DEF CallTrue
  <2>4. \A h \in call[q].hashing : h[1] \in Suffixes
    BY <2>1 DEF Calls
  <2>5. DigestTrue(q)'
    BY <1>1, <2>1, <2>4 DEF CallTrue, DigestTrue, Current
  <2>6. CopyTrue(q)'
    BY <1>4, <2>1, <2>2 DEF CallTrue, CopyTrue, Current
  <2>7. WorkTrue(q)'
    BY <1>4, <2>1 DEF CallTrue, WorkTrue, Current
  <2> QED
    BY <2>1, <2>2, <2>3, <2>5, <2>6, <2>7 DEF CallTrue, ClearTrue, AnswerTrue
<1> QED
  BY <1>2, <1>3, <1>5 DEF HashesIInv

LEMMA MutateStep ==
  ASSUME HashesIInv, TypeOK', NEW m \in Mutators, Mutate(m)
  PROVE  HashesIInv'
<1>0. doing[m].on \subseteq Suffixes /\ \A s \in Suffixes : ver[s] \in Nat
  BY DEF HashesIInv, TypeOK
<1>1. ASSUME NEW s \in Suffixes, NEW op \in {"put", "quarantine"}, Announce(m, s, op)
      PROVE  HashesIInv'
  BY <1>1, ToldStep DEF Announce
<1>2. ASSUME NEW s \in Suffixes, NEW state, Change(s, state)
      PROVE  \A x \in Suffixes : ver'[x] >= ver[x]
  BY <1>0, <1>2 DEF Change, HashesIInv, TypeOK
<1>3. CASE FinalizePut(m)
  BY <1>0, <1>2, <1>3, DirectoryStep DEF FinalizePut
<1>4. CASE Quarantine(m)
  <2>1. \A x \in Suffixes : ver'[x] >= ver[x]
    BY <1>0, <1>2, <1>4 DEF Quarantine
  <2> QED
    BY <1>4, <2>1, DirectoryStep DEF Quarantine
<1>5. CASE PurgeInvalidates(m)
  BY <1>0, <1>5, ToldStep DEF PurgeInvalidates
<1>6. ASSUME NEW s \in Suffixes, Purge(m, s) PROVE HashesIInv'
  BY <1>2, <1>6, DirectoryStep DEF Purge
<1>7. CASE MutatorDies(m)
  BY <1>0, <1>7, DirectoryStep DEF MutatorDies
<1> QED
  BY <1>1, <1>3, <1>4, <1>5, <1>6, <1>7 DEF Mutate

-----------------------------------------------------------------------------
(* get_hashes.                                                             *)

\* A call at rest, or about to read the two files, has nothing to keep true.
LEMMA Fresh ==
  ASSUME HashesIInv, TypeOK', NEW r \in Rehashers, pkl'.updated >= pkl.updated,
         call'[r].orig = Unreadable, call'[r].at \in {"idle", "consolidate"},
         call'[r].hashing = {},
         \A s \in Suffixes : call'[r].since[s] <= told'[s]
  PROVE  CallTrue(r)'
<1>1. Unreadable.updated <= pkl'.updated
  <2>1. pkl'.updated \in Nat /\ Unreadable.updated = 0
    BY Records DEF TypeOK, Pkl
  <2> QED
    BY <2>1
<1> QED
  BY <1>1 DEF CallTrue, ClearTrue, CopyTrue, WorkTrue, DigestTrue, AnswerTrue

LEMMA GetStep ==
  ASSUME HashesIInv, TypeOK', NEW r \in Rehashers, NEW suffixes \in SUBSET Suffixes,
         Get(r, suffixes)
  PROVE  HashesIInv'
<1>1. /\ call \in [Rehashers -> Calls] /\ pkl'.updated \in Nat /\ pkl' = pkl
      /\ \A s \in Suffixes : told[s] \in Nat
      /\ UNCHANGED <<ver, pkl, invalid, lock, told>>
  BY DEF HashesIInv, TypeOK, Calls, Pkl, Get
<1>2. /\ call'[r].orig = Unreadable /\ call'[r].at = "consolidate"
      /\ call'[r].hashing = {} /\ call'[r].since = told
      /\ \A q \in Rehashers \ {r} : call'[q] = call[q]
  BY <1>1, Records DEF Get, Calls
<1> QED
  BY <1>1, <1>2, Fresh, Alone

LEMMA ReturnStep ==
  ASSUME HashesIInv, TypeOK', NEW r \in Rehashers, Return(r) \/ RehasherDies(r)
  PROVE  HashesIInv'
<1>1. /\ call' = [call EXCEPT ![r] = Idle] /\ call \in [Rehashers -> Calls]
      /\ UNCHANGED <<dir, ver, pkl, invalid, told>>
      /\ (lock' = lock \/ lock = r)
  BY DEF Return, RehasherDies, HashesIInv, TypeOK, Calls
<1>2. CallTrue(r)'
  <2>1. /\ pkl'.updated = pkl.updated /\ pkl.updated \in Nat
        /\ \A s \in Suffixes : told'[s] \in Nat /\ call'[r] = Idle
    BY <1>1 DEF HashesIInv, TypeOK, Pkl
  <2>2. \A s \in Suffixes : call'[r].since[s] <= told'[s]
    BY <2>1, Records
  <2>3. /\ pkl'.updated >= pkl.updated /\ call'[r].orig = Unreadable
        /\ call'[r].at = "idle" /\ call'[r].hashing = {}
    <3>1. call'[r] = Idle
      BY <1>1
    <3> QED
      BY <2>1, <3>1, Records
  <2> QED
    BY <2>2, <2>3, Fresh
<1>3. ASSUME NEW q \in Rehashers \ {r} PROVE CallTrue(q)'
  <2>1. call'[q] = call[q] /\ CallTrue(q)
    BY <1>1 DEF HashesIInv
  <2>2. CASE lock' = lock
    BY <1>1, <2>1, <2>2, SameCall
  <2>3. CASE lock = r
    BY <1>1, <2>1, <2>3, Held, HashesAssumption
  <2> QED
    BY <1>1, <2>2, <2>3
<1>4. InvalidationKept' /\ \A s \in Suffixes : told'[s] <= ver'[s]
  BY <1>1, SameKept DEF HashesIInv
<1> QED
  BY <1>2, <1>3, <1>4 DEF HashesIInv

\* Under the lock the two files are read as they are: what is not on a line of
\* hashes.invalid does for its last invalidation.
LEMMA MarksStep ==
  ASSUME HashesIInv, TypeOK', NEW r \in Rehashers, ConsolidateMarks(r)
  PROVE  HashesIInv'
<1>1. /\ TypeOK /\ InvalidationKept /\ CallTrue(r)
      /\ call \in [Rehashers -> Calls] /\ call[r] \in Calls
      /\ pkl \in Pkl /\ pkl' \in Pkl /\ pkl.updated \in Nat
      /\ lock = NoOne /\ call[r].at = "consolidate" /\ call[r].hashing = {}
      /\ \A s \in Suffixes : /\ call[r].since[s] <= told[s]
                             /\ call[r].since[s] \in Nat /\ told[s] \in Nat
                             /\ pkl.of[s] \in Entry
      /\ UNCHANGED <<dir, ver, invalid, doing, told>>
  BY DEF HashesIInv, TypeOK, Calls, Pkl, ConsolidateMarks, At, CallTrue, DigestTrue
<1>2. CASE invalid = {}
  <2>1. /\ call' = [call EXCEPT ![r] = [call[r] EXCEPT !.at = "adopt", !.orig = pkl]]
        /\ UNCHANGED <<pkl, lock>>
    BY <1>1, <1>2 DEF ConsolidateMarks
  <2>2. /\ call'[r].at = "adopt" /\ call'[r].orig = pkl /\ call'[r].hashing = {}
        /\ call'[r].since = call[r].since
        /\ \A q \in Rehashers \ {r} : call'[q] = call[q]
    BY <1>1, <2>1 DEF Calls
  <2>3. pkl.valid => \A s \in Suffixes : /\ Covers(pkl.of[s], told[s])
                                         /\ Covers(pkl.of[s], call[r].since[s])
    BY <1>1, <1>2, CoversLess DEF InvalidationKept
  <2>4. CopyTrue(r)'
    BY <2>1, <2>2, <2>3, <1>1 DEF CopyTrue, Kept, Covers
  <2>5. CallTrue(r)'
    BY <1>1, <2>1, <2>2, <2>4
       DEF CallTrue, ClearTrue, WorkTrue, DigestTrue, AnswerTrue
  <2> QED
    BY <1>1, <2>1, <2>2, <2>5, Alone
<1>3. CASE invalid # {}
  <2> DEFINE marked == [s \in Suffixes |-> IF s \in invalid THEN Dirty ELSE pkl.of[s]]
  <2>1. /\ pkl' = [valid |-> pkl.valid, updated |-> pkl.updated + 1, of |-> marked]
        /\ lock' = r
        /\ call' = [call EXCEPT ![r] = [call[r] EXCEPT !.at = "clear", !.orig = pkl']]
    BY <1>1, <1>3 DEF ConsolidateMarks, write_hashes
  <2>2. /\ call'[r].at = "clear" /\ call'[r].orig = pkl' /\ call'[r].hashing = {}
        /\ call'[r].since = call[r].since
        /\ \A q \in Rehashers \ {r} : call'[q] = call[q]
        /\ pkl'.updated = pkl.updated + 1 /\ pkl'.valid = pkl.valid /\ pkl'.of = marked
    BY <1>1, <2>1 DEF Calls
  <2>3. pkl'.valid => \A s \in Suffixes : /\ Covers(pkl'.of[s], told[s])
                                          /\ Covers(pkl'.of[s], call[r].since[s])
    <3>1. ASSUME NEW s \in Suffixes, pkl.valid PROVE Covers(marked[s], told[s])
      <4>1. CASE s \in invalid
        BY <4>1, Records DEF Covers
      <4>2. CASE s \notin invalid
        BY <1>1, <3>1, <4>2 DEF InvalidationKept
      <4> QED
        BY <4>1, <4>2
    <3>2. \A s \in Suffixes : marked[s] \in Entry
      BY <1>1, Records
    <3> HIDE DEF marked
    <3> QED
      BY <1>1, <2>2, <3>1, <3>2, CoversLess
  <2>4. ClearTrue(r)' /\ CopyTrue(r)'
    BY <1>1, <2>1, <2>2, <2>3 DEF ClearTrue, CopyTrue, Covers
  <2>5. CallTrue(r)'
    <3>1. pkl'.updated \in Nat
      BY <1>1 DEF Pkl
    <3> QED
      BY <1>1, <2>2, <2>4, <3>1 DEF CallTrue, WorkTrue, DigestTrue, AnswerTrue
  <2>6. ASSUME NEW q \in Rehashers \ {r} PROVE CallTrue(q)'
    <3>1. CallTrue(q) /\ call'[q] = call[q] /\ call[q].at # "clear"
      BY <1>1, <2>2, HashesAssumption DEF HashesIInv, CallTrue, ClearTrue
    <3>2. pkl'.updated > pkl.updated
      BY <1>1, <2>2
    <3> QED
      BY <1>1, <3>1, <3>2, Overtaken
  <2>7. InvalidationKept'
    BY <1>1, <2>3 DEF InvalidationKept, Covers
  <2> QED
    BY <1>1, <2>5, <2>6, <2>7 DEF HashesIInv
<1> QED
  BY <1>2, <1>3

\* The second write: the marks of the first are in hashes.pkl.
LEMMA ClearsStep ==
  ASSUME HashesIInv, TypeOK', NEW r \in Rehashers, ConsolidateClears(r)
  PROVE  HashesIInv'
<1>1. /\ CallTrue(r) /\ call \in [Rehashers -> Calls] /\ call[r] \in Calls
      /\ call[r].at = "clear" /\ lock = r /\ lock # NoOne /\ call[r].hashing = {}
      /\ pkl.valid => \A s \in Suffixes : Covers(pkl.of[s], told[s])
      /\ UNCHANGED <<dir, ver, pkl, doing, told>>
      /\ call' = [call EXCEPT ![r] = [call[r] EXCEPT !.at = "adopt"]]
  BY HashesAssumption
     DEF HashesIInv, TypeOK, Calls, ConsolidateClears, At, CallTrue, ClearTrue, DigestTrue
<1>2. /\ call'[r].at = "adopt" /\ call'[r].orig = call[r].orig /\ call'[r].hashing = {}
      /\ call'[r].since = call[r].since
      /\ \A q \in Rehashers \ {r} : call'[q] = call[q]
  BY <1>1 DEF Calls
<1>3. CopyTrue(r)'
  BY <1>1, <1>2 DEF CallTrue, CopyTrue, Current, Kept, Covers
<1>4. CallTrue(r)'
  BY <1>1, <1>2, <1>3 DEF CallTrue, ClearTrue, WorkTrue, DigestTrue, AnswerTrue
<1>5. ASSUME NEW q \in Rehashers \ {r} PROVE CallTrue(q)'
  BY <1>1, <1>2, Held DEF HashesIInv
<1>6. InvalidationKept' /\ \A s \in Suffixes : told'[s] <= ver'[s]
  BY <1>1 DEF HashesIInv, InvalidationKept, Covers
<1> QED
  BY <1>4, <1>5, <1>6 DEF HashesIInv

LEMMA FailsStep ==
  ASSUME HashesIInv, TypeOK', NEW r \in Rehashers, ConsolidateFails(r)
  PROVE  HashesIInv'
<1>0. CallTrue(r) /\ call \in [Rehashers -> Calls] /\ call[r] \in Calls /\ pkl.updated \in Nat
  BY DEF HashesIInv, TypeOK, Calls, Pkl
<1>1. /\ CallTrue(r) /\ call \in [Rehashers -> Calls] /\ call[r] \in Calls
      /\ call[r].hashing = {} /\ (lock' = lock \/ lock = r)
      /\ pkl.updated \in Nat
      /\ UNCHANGED <<dir, ver, pkl, invalid, doing, told>>
      /\ call' = [call EXCEPT ![r] = [call[r] EXCEPT !.at = "adopt", !.orig = Unreadable]]
  BY <1>0 DEF ConsolidateFails, At, CallTrue, DigestTrue
<1>2. /\ call'[r].at = "adopt" /\ call'[r].orig = Unreadable /\ call'[r].hashing = {}
      /\ call'[r].since = call[r].since
      /\ \A q \in Rehashers \ {r} : call'[q] = call[q]
  BY <1>1 DEF Calls
<1>3. CallTrue(r)'
  <2>1. Unreadable.updated <= pkl'.updated /\ ~call'[r].orig.valid
    BY <1>1, <1>2, Records
  <2> QED
    BY <1>1, <1>2, <2>1 DEF CallTrue, ClearTrue, CopyTrue, WorkTrue, DigestTrue, AnswerTrue
<1>4. ASSUME NEW q \in Rehashers \ {r} PROVE CallTrue(q)'
  <2>1. call'[q] = call[q] /\ CallTrue(q)
    BY <1>2 DEF HashesIInv
  <2>2. CASE lock' = lock
    BY <1>1, <2>1, <2>2, SameCall
  <2>3. CASE lock = r
    BY <1>1, <2>1, <2>3, Held, HashesAssumption
  <2> QED
    BY <1>1, <2>2, <2>3
<1>5. InvalidationKept' /\ \A s \in Suffixes : told'[s] <= ver'[s]
  BY <1>1, SameKept DEF HashesIInv
<1> QED
  BY <1>3, <1>4, <1>5 DEF HashesIInv

\* An unreadable copy is read again and listed; a readable one is as good as
\* it was.
LEMMA AdoptStep ==
  ASSUME HashesIInv, TypeOK', NEW r \in Rehashers, Adopt(r)
  PROVE  HashesIInv'
<1> DEFINE c == call[r]
           fresh == ~c.orig.valid
           orig == IF fresh THEN pkl ELSE c.orig
           work == IF fresh THEN Unreadable.of ELSE orig.of
           listdir == fresh \/ c.listdir
           dirty(w) == [s \in Suffixes |-> IF s \in c.recalculate THEN Dirty ELSE w[s]]
           next == IF listdir THEN work ELSE dirty(work)
           at == IF listdir THEN "list" ELSE "hash"
<1>1. /\ CallTrue(r) /\ call \in [Rehashers -> Calls] /\ c \in Calls
      /\ c.at = "adopt" /\ c.hashing = {} /\ pkl.updated \in Nat
      /\ UNCHANGED <<dir, ver, pkl, invalid, lock, doing, told>>
  BY DEF HashesIInv, TypeOK, Calls, Pkl, Adopt, At, CallTrue, DigestTrue
<1>2. call' = [call EXCEPT ![r] =
          [c EXCEPT !.orig = orig, !.listdir = listdir, !.modified = listdir,
                    !.work = next, !.at = at,
                    !.todo = IF listdir THEN {} ELSE
                      {s \in Suffixes : dirty(work)[s].kind = "dirty"}]]
  BY DEF Adopt
<1>3. /\ call'[r].at = at /\ call'[r].orig = orig /\ call'[r].work = next
      /\ call'[r].hashing = {} /\ call'[r].since = c.since
      /\ \A q \in Rehashers \ {r} : call'[q] = call[q]
  <2> HIDE DEF orig, listdir, next, at, dirty
  <2> QED
    BY <1>1, <1>2 DEF Calls
<1>4. WorkTrue(r)'
  <2>1. CASE fresh
    BY <1>3, <2>1, Records DEF WorkTrue
  <2>2. CASE ~fresh
    <3>1. \A s \in Suffixes : /\ Covers(c.orig.of[s], c.since[s])
                              /\ c.orig = pkl => Kept(s, c.orig.of[s])
      BY <1>1, <2>2 DEF CallTrue, CopyTrue, Current
    <3>2. ASSUME NEW s \in Suffixes
          PROVE  Covers(next[s], c.since[s]) /\ (c.orig = pkl => Kept(s, next[s]))
      <4>1. CASE next[s] = Dirty
        BY <4>1, Records DEF Covers, Kept
      <4>2. CASE next[s] # Dirty
        BY <2>2, <3>1, <4>2
      <4> QED
        BY <4>1, <4>2
    <3>3. call'[r].orig = c.orig
      BY <1>3, <2>2
    <3> HIDE DEF next, at
    <3> QED
      BY <1>1, <1>3, <3>2, <3>3 DEF WorkTrue, Current, Kept, Covers
  <2> QED
    BY <2>1, <2>2
<1>5. CallTrue(r)'
  <2>1. orig.updated <= pkl'.updated
    BY <1>1 DEF CallTrue
  <2>2. at \in {"list", "hash"}
    OBVIOUS
  <2> HIDE DEF orig, next, at
  <2> QED
    BY <1>1, <1>3, <1>4, <2>1, <2>2
       DEF CallTrue, ClearTrue, CopyTrue, DigestTrue, AnswerTrue
<1> QED
  BY <1>1, <1>3, <1>5, Alone

\* A key the copy lacks is made dirty, or its directory is missing now.
LEMMA ListStep ==
  ASSUME HashesIInv, TypeOK', NEW r \in Rehashers, List(r)
  PROVE  HashesIInv'
<1> DEFINE c == call[r]
           listed == [s \in Suffixes |->
                   IF s \in c.recalculate THEN Dirty
                   ELSE IF c.work[s].kind # "none" THEN c.work[s]
                   ELSE IF dir[s] = "absent" THEN Absent(ver[s])
                   ELSE Dirty]
           todo == {s \in Suffixes : listed[s].kind = "dirty"}
<1>1. /\ CallTrue(r) /\ call \in [Rehashers -> Calls] /\ c \in Calls
      /\ c.at = "list" /\ c.hashing = {}
      /\ UNCHANGED <<dir, ver, pkl, invalid, lock, doing, told>>
  BY DEF HashesIInv, TypeOK, Calls, Pkl, List, At, CallTrue, DigestTrue
<1>2. call' = [call EXCEPT ![r] = [c EXCEPT !.at = "hash", !.work = listed, !.todo = todo]]
  BY DEF List
<1>3. /\ call'[r].at = "hash" /\ call'[r].orig = c.orig /\ call'[r].work = listed
      /\ call'[r].hashing = {} /\ call'[r].since = c.since
      /\ \A q \in Rehashers \ {r} : call'[q] = call[q]
  <2> HIDE DEF listed, todo
  <2> QED
    BY <1>1, <1>2 DEF Calls
<1>4. ASSUME NEW s \in Suffixes
      PROVE  Covers(listed[s], c.since[s]) /\ (Current(r) => Kept(s, listed[s]))
  <2>1. /\ c.since[s] <= told[s] /\ told[s] <= ver[s]
        /\ c.since[s] \in Nat /\ told[s] \in Nat /\ ver[s] \in Nat
    BY <1>1 DEF HashesIInv, TypeOK, Calls, CallTrue
  <2>2. CASE listed[s] = Dirty
    BY <2>2, Records DEF Covers, Kept
  <2>3. CASE listed[s] = Absent(ver[s])
    BY <2>1, <2>3, Records DEF Covers, Kept
  <2>4. CASE c.work[s].kind # "none" /\ listed[s] = c.work[s]
    BY <1>1, <2>4 DEF CallTrue, WorkTrue
  <2> QED
    BY <2>2, <2>3, <2>4
<1>5. CallTrue(r)'
  <2> HIDE DEF listed
  <2> QED
    BY <1>1, <1>3, <1>4
       DEF CallTrue, ClearTrue, CopyTrue, WorkTrue, DigestTrue, AnswerTrue,
           Current, Kept, Covers
<1> QED
  BY <1>1, <1>3, <1>5, Alone

\* What a call records for a suffix must be as new as it was told.
LEMMA SettleStep ==
  ASSUME HashesIInv, TypeOK', NEW r \in Rehashers, NEW s \in Suffixes, NEW e \in Entry,
         call[r].at = "hash", Settle(r, s, e), Covers(e, call[r].since[s]),
         Current(r) => Kept(s, e),
         UNCHANGED <<ver, pkl, invalid, lock, told>>
  PROVE  HashesIInv'
<1> DEFINE work == [call[r].work EXCEPT ![s] = e]
<1>1. CallTrue(r) /\ call \in [Rehashers -> Calls] /\ call[r] \in Calls
  BY DEF HashesIInv, TypeOK, Calls
<1>2. call' = [call EXCEPT ![r] = [call[r] EXCEPT !.work = work, !.todo = @ \ {s},
                                                  !.modified = TRUE, !.hashing = {}]]
  BY <1>1 DEF Settle
<1>3. /\ call'[r].at = "hash" /\ call'[r].orig = call[r].orig /\ call'[r].work = work
      /\ call'[r].hashing = {} /\ call'[r].since = call[r].since
      /\ \A q \in Rehashers \ {r} : call'[q] = call[q]
  <2> HIDE DEF work
  <2> QED
    BY <1>1, <1>2 DEF Calls
<1>4. \A x \in Suffixes : work[x] = IF x = s THEN e ELSE call[r].work[x]
  BY <1>1 DEF Calls
<1>5. \A x \in Suffixes : /\ Covers(work[x], call[r].since[x])
                          /\ Current(r) => Kept(x, work[x])
  BY <1>1, <1>4 DEF CallTrue, WorkTrue
<1>6. CallTrue(r)'
  <2> HIDE DEF work
  <2> QED
    BY <1>1, <1>3, <1>5
       DEF CallTrue, ClearTrue, CopyTrue, WorkTrue, DigestTrue, AnswerTrue,
           Current, Kept, Covers
<1> QED
  BY <1>3, <1>6, Alone

LEMMA HashReadsStep ==
  ASSUME HashesIInv, TypeOK', NEW r \in Rehashers, NEW s \in Suffixes, HashReads(r, s)
  PROVE  HashesIInv'
<1>1. /\ CallTrue(r) /\ call \in [Rehashers -> Calls] /\ call[r] \in Calls
      /\ call[r].at = "hash"
      /\ UNCHANGED <<dir, ver, pkl, invalid, lock, doing, told>>
  BY DEF HashesIInv, TypeOK, Calls, HashReads, At
<1>2. /\ call[r].since[s] <= told[s] /\ told[s] <= ver[s]
      /\ call[r].since[s] \in Nat /\ told[s] \in Nat /\ ver[s] \in Nat
  BY <1>1 DEF HashesIInv, TypeOK, Calls, CallTrue
<1>3. CASE dir[s] = "absent"
  <2>1. Settle(r, s, Absent(ver[s]))
    BY <1>3 DEF HashReads
  <2>2. /\ Absent(ver[s]) \in Entry /\ Covers(Absent(ver[s]), call[r].since[s])
        /\ Covers(Absent(ver[s]), told[s])
    BY <1>2, Records DEF Covers
  <2>3. Kept(s, Absent(ver[s]))
    BY <2>2 DEF Kept
  <2> QED
    BY <1>1, <2>1, <2>2, <2>3, SettleStep
<1>4. CASE dir[s] # "absent"
  <2>1. call' = [call EXCEPT ![r] = [call[r] EXCEPT !.hashing = {<<s, ver[s]>>}]]
    BY <1>1, <1>4 DEF HashReads
  <2>2. /\ call'[r].at = "hash" /\ call'[r].orig = call[r].orig
        /\ call'[r].work = call[r].work
        /\ call'[r].hashing = {<<s, ver[s]>>} /\ call'[r].since = call[r].since
        /\ \A q \in Rehashers \ {r} : call'[q] = call[q]
    BY <1>1, <2>1 DEF Calls
  <2>3. DigestTrue(r)'
    <3>1. ver[s] >= call[r].since[s] /\ ver[s] >= told[s]
      BY <1>2
    <3> QED
      BY <1>1, <2>2, <3>1 DEF DigestTrue
  <2>4. CallTrue(r)'
    BY <1>1, <2>2, <2>3
       DEF CallTrue, ClearTrue, CopyTrue, WorkTrue, AnswerTrue, Current, Kept, Covers
  <2> QED
    BY <1>1, <2>2, <2>4, Alone
<1> QED
  BY <1>3, <1>4

LEMMA HashEndsStep ==
  ASSUME HashesIInv, TypeOK', NEW r \in Rehashers, HashEnds(r) \/ HashFails(r)
  PROVE  HashesIInv'
<1>1. PICK h \in call[r].hashing :
        /\ \/ Settle(r, h[1], Sum(h[2]))
           \/ Settle(r, h[1], Absent(ver[h[1]]))
           \/ Settle(r, h[1], Dirty)
        /\ UNCHANGED <<ver, pkl, invalid, lock, told>>
  BY DEF HashEnds, HashFails
<1>2. /\ CallTrue(r) /\ call[r] \in Calls /\ h[1] \in Suffixes /\ h[2] \in Nat
      /\ call[r].at = "hash"
  BY DEF HashesIInv, TypeOK, Calls, CallTrue, DigestTrue
<1>3. /\ call[r].since[h[1]] <= told[h[1]] /\ told[h[1]] <= ver[h[1]]
      /\ call[r].since[h[1]] \in Nat /\ told[h[1]] \in Nat /\ ver[h[1]] \in Nat
  BY <1>2 DEF HashesIInv, TypeOK, Calls, CallTrue
<1>4. CASE Settle(r, h[1], Sum(h[2]))
  <2>1. Sum(h[2]) \in Entry /\ Sum(h[2]).ver = h[2]
    BY <1>2, Records
  <2>2. Covers(Sum(h[2]), call[r].since[h[1]]) /\ (Current(r) => Kept(h[1], Sum(h[2])))
    BY <1>2, <2>1 DEF CallTrue, DigestTrue, Covers, Kept
  <2> QED
    BY <1>1, <1>2, <1>4, <2>1, <2>2, SettleStep
<1>5. CASE Settle(r, h[1], Absent(ver[h[1]]))
  <2>1. /\ Absent(ver[h[1]]) \in Entry /\ Covers(Absent(ver[h[1]]), call[r].since[h[1]])
        /\ Covers(Absent(ver[h[1]]), told[h[1]])
    BY <1>3, Records DEF Covers
  <2>2. Kept(h[1], Absent(ver[h[1]]))
    BY <2>1 DEF Kept
  <2> QED
    BY <1>1, <1>2, <1>5, <2>1, <2>2, SettleStep
<1>6. CASE Settle(r, h[1], Dirty)
  <2>1. Dirty \in Entry /\ Covers(Dirty, call[r].since[h[1]]) /\ Kept(h[1], Dirty)
    BY Records DEF Covers, Kept
  <2> QED
    BY <1>1, <1>2, <1>6, <2>1, SettleStep
<1> QED
  BY <1>1, <1>4, <1>5, <1>6

\* Nobody wrote hashes.pkl since it was read and the lock is free: what the
\* call worked on may be written.  Else it starts over.
LEMMA WriteBackStep ==
  ASSUME HashesIInv, TypeOK', NEW r \in Rehashers, WriteBack(r)
  PROVE  HashesIInv'
<1> DEFINE c == call[r]
<1>1. /\ TypeOK /\ CallTrue(r) /\ call \in [Rehashers -> Calls] /\ c \in Calls
      /\ c.at = "hash" /\ pkl \in Pkl /\ pkl.updated \in Nat
      /\ UNCHANGED <<dir, ver, invalid, lock, doing, told>>
      /\ \A s \in Suffixes : c.since[s] <= told[s]
  BY DEF HashesIInv, TypeOK, Calls, Pkl, WriteBack, At, CallTrue
<1>2. \A s \in Suffixes : /\ Covers(c.work[s], c.since[s])
                          /\ c.orig = pkl => Kept(s, c.work[s])
  BY <1>1 DEF CallTrue, WorkTrue, Current
<1>3. ASSUME call' = [call EXCEPT ![r] = Answer(c)]
      PROVE  /\ call'[r].at = "done" /\ call'[r].orig = Unreadable
             /\ call'[r].work = c.work /\ call'[r].hashing = {}
             /\ call'[r].since = c.since
             /\ \A q \in Rehashers \ {r} : call'[q] = call[q]
  <2>1. call'[r] = Answer(c) /\ \A q \in Rehashers \ {r} : call'[q] = call[q]
    BY <1>1, <1>3
  <2>2. /\ Answer(c).at = "done" /\ Answer(c).orig = Unreadable
        /\ Answer(c).work = c.work /\ Answer(c).hashing = {} /\ Answer(c).since = c.since
    BY Records DEF Answer, Calls
  <2> QED
    BY <2>1, <2>2
<1>4. ASSUME call' = [call EXCEPT ![r] = Answer(c)], pkl'.updated \in Nat
      PROVE  CallTrue(r)'
  <2>1. Unreadable.updated <= pkl'.updated
    BY <1>4, Records
  <2> QED
    BY <1>1, <1>2, <1>3, <1>4, <2>1
       DEF CallTrue, ClearTrue, CopyTrue, WorkTrue, DigestTrue, AnswerTrue, Covers
<1>5. CASE ~c.modified
  <2>1. call' = [call EXCEPT ![r] = Answer(c)] /\ pkl' = pkl
    BY <1>5 DEF WriteBack
  <2> QED
    BY <1>1, <1>3, <1>4, <2>1, Alone
<1>6. CASE c.modified /\ pkl = c.orig
  <2>1. /\ lock = NoOne /\ call' = [call EXCEPT ![r] = Answer(c)]
        /\ pkl' = [valid |-> TRUE, updated |-> pkl.updated + 1, of |-> c.work]
    BY <1>6 DEF WriteBack, write_hashes
  <2>2. pkl'.updated = pkl.updated + 1 /\ pkl'.updated \in Nat /\ pkl'.of = c.work
    BY <1>1, <2>1
  <2>3. CallTrue(r)'
    BY <1>4, <2>1, <2>2
  <2>4. ASSUME NEW q \in Rehashers \ {r} PROVE CallTrue(q)'
    <3>1. CallTrue(q) /\ call'[q] = call[q] /\ call[q].at # "clear"
      BY <1>3, <2>1, HashesAssumption DEF HashesIInv, CallTrue, ClearTrue
    <3>2. pkl'.updated > pkl.updated
      BY <1>1, <2>2
    <3> QED
      BY <1>1, <3>1, <3>2, Overtaken
  <2>5. InvalidationKept'
    BY <1>1, <1>2, <1>6, <2>2 DEF InvalidationKept, Kept, Covers
  <2> QED
    BY <1>1, <2>3, <2>4, <2>5 DEF HashesIInv
<1>7. CASE c.modified /\ pkl # c.orig
  <2> DEFINE again == [Idle EXCEPT !.at = "consolidate", !.recalculate = c.recalculate,
                                   !.listdir = c.listdir, !.since = c.since]
  <2>1. call' = [call EXCEPT ![r] = again] /\ pkl' = pkl
    BY <1>7 DEF WriteBack
  <2>2. /\ again.at = "consolidate" /\ again.orig = Unreadable /\ again.hashing = {}
        /\ again.since = c.since
    BY Records DEF Calls
  <2>3. call'[r] = again /\ \A q \in Rehashers \ {r} : call'[q] = call[q]
    BY <1>1, <2>1
  <2> HIDE DEF again
  <2>4. CallTrue(r)'
    BY <1>1, <2>1, <2>2, <2>3, Fresh
  <2> QED
    BY <1>1, <2>1, <2>3, <2>4, Alone
<1> QED
  BY <1>5, <1>6, <1>7

-----------------------------------------------------------------------------
LEMMA NextInv == HashesIInv /\ [Next]_vars => HashesIInv'
<1> SUFFICES ASSUME HashesIInv, [Next]_vars PROVE HashesIInv'
  OBVIOUS
<1>0. TypeOK'
  BY TypeStep DEF HashesIInv
<1>1. ASSUME NEW m \in Mutators, Mutate(m) PROVE HashesIInv'
  BY <1>0, <1>1, MutateStep
<1>2. ASSUME NEW s \in Suffixes, MarkOnly(s) PROVE HashesIInv'
  BY <1>0, <1>2, ToldStep DEF MarkOnly
<1>3. ASSUME NEW r \in Rehashers, NEW suffixes \in SUBSET Suffixes, Get(r, suffixes)
      PROVE  HashesIInv'
  BY <1>0, <1>3, GetStep
<1>4. ASSUME NEW r \in Rehashers,
             Rehash(r) \/ ConsolidateFails(r) \/ HashFails(r) \/ RehasherDies(r)
      PROVE  HashesIInv'
  <2>1. CASE ConsolidateMarks(r)
    BY <1>0, <2>1, MarksStep
  <2>2. CASE ConsolidateClears(r)
    BY <1>0, <2>2, ClearsStep
  <2>3. CASE Adopt(r)
    BY <1>0, <2>3, AdoptStep
  <2>4. CASE List(r)
    BY <1>0, <2>4, ListStep
  <2>5. ASSUME NEW s \in Suffixes, HashReads(r, s) PROVE HashesIInv'
    BY <1>0, <2>5, HashReadsStep
  <2>6. CASE HashEnds(r) \/ HashFails(r)
    BY <1>0, <2>6, HashEndsStep
  <2>7. CASE WriteBack(r)
    BY <1>0, <2>7, WriteBackStep
  <2>8. CASE Return(r) \/ RehasherDies(r)
    BY <1>0, <2>8, ReturnStep
  <2>9. CASE ConsolidateFails(r)
    BY <1>0, <2>9, FailsStep
  <2> QED
    BY <1>4, <2>1, <2>2, <2>3, <2>4, <2>5, <2>6, <2>7, <2>8, <2>9 DEF Rehash
<1>5. CASE UNCHANGED vars
  BY <1>5 DEF vars, HashesIInv, TypeOK, InvalidationKept, CallTrue, ClearTrue, CopyTrue,
          WorkTrue, DigestTrue, AnswerTrue, Current, Kept
<1> QED
  BY <1>1, <1>2, <1>3, <1>4, <1>5 DEF Next

\* Every reachable state satisfies the inductive invariant: what each call in
\* progress holds covers what it was told of and, while nobody overtook it,
\* what everybody was (get_hashes of bs_diskfile.py).
THEOREM HashesInvariant == Spec => []HashesIInv
<1>1. Init => HashesIInv
  BY InitInv
<1>2. HashesIInv /\ [Next]_vars => HashesIInv'
  BY NextInv
<1> QED
  BY <1>1, <1>2, PTL DEF Spec

\* However many callers of get_hashes and requests interleave or die, an
\* invalidation is on a line of hashes.invalid, or marked or made good in
\* hashes.pkl (consolidate_hashes and the race detection of get_hashes).
THEOREM InvalidationNotLost == Spec => []HashesInv
<1>1. HashesIInv => HashesInv
  BY DEF HashesIInv, HashesInv
<1> QED
  BY <1>1, HashesInvariant, PTL

\* What get_hashes answers is at least as new, for every suffix, as the last
\* invalidation made before it was called.
THEOREM AnswersAreCurrent == Spec => []AnswersWhatItWasTold
<1>1. HashesIInv => AnswersWhatItWasTold
  BY DEF HashesIInv, CallTrue, AnswerTrue, AnswersWhatItWasTold, At
<1> QED
  BY <1>1, HashesInvariant, PTL

=============================================================================
