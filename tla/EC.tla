---------------------------------- MODULE EC ----------------------------------
(***************************************************************************)
(* One object's directory under an erasure-coding policy,                  *)
(* swift_patches/obj/bs_diskfile.py.                                       *)
(*                                                                         *)
(* A PUT has two phases: put() leaves <timestamp>#<index>.data without     *)
(* cleaning up, and commit(), sent by the proxy once enough servers have   *)
(* put, renames it to <timestamp>#<index>#d.data and cleans up.  Between   *)
(* the two, any other request may write, clean or purge.  A directory may  *)
(* also hold the <timestamp>.durable files of older versions.              *)
(***************************************************************************)
EXTENDS DiskRules, Integers, Sequences

CONSTANTS Writers,    \* threads that put, commit, delete, post or purge
          Frags,      \* fragment indexes
          MaxTime,    \* timestamps are 1..MaxTime
          MaxOld,     \* bound: how far the reclaim age gets
          MaxWrites,  \* bound on the files ever renamed into the directory
          Legacy,     \* whether the directory may be one of an older version
          MayPurge,   \* whether the reconstructor purges reverted fragments
          MayFail     \* whether a commit fails, a writer dies or a PUT is
                      \* never committed

ASSUME ECAssumption == /\ Frags \subseteq Nat /\ Frags # {}
                       /\ MaxTime \in Nat \ {0} /\ MaxOld \in Nat \ {0}
                       /\ MaxWrites \in Nat
                       /\ {Legacy, MayPurge, MayFail} \subseteq BOOLEAN

Time == 1..MaxTime
NoIndex == -1             \* no fragment index

DataFile(t, fi, durable) == [ext |-> "data", ts |-> t, ctype |-> 0,
                             frag |-> fi, durable |-> durable]
OtherFile(ext, t) == [ext |-> ext, ts |-> t, ctype |-> 0,
                      frag |-> NoIndex, durable |-> FALSE]

File == {DataFile(t, fi, d) : t \in Time, fi \in Frags, d \in BOOLEAN}
          \cup {OtherFile(ext, t) : ext \in {"ts", "meta", "durable"}, t \in Time}

VARIABLES files,     \* what the directory holds
          ever,      \* history: every name there ever was
          old,       \* timestamps below this are past reclaim_age
          late,      \* files on disk for longer than commit_window
          writer,    \* writer -> what it is doing
          acked,     \* history: the fragments whose commit was answered well
          purged     \* history: the names a purge took away

vars == <<files, ever, old, late, writer, acked, purged>>

-----------------------------------------------------------------------------
(* Which files count.                                                      *)

At(fs, t) == {f \in fs : f.ts = t}

\* Mutant: the newest data counts, durable or not.
NewestTime(fs) == Largest({0} \cup {f.ts : f \in Kind(fs, "data")})

\* The newest timestamp a legacy .durable or a #d name makes durable.
DurableTime(fs) ==
  Largest({0} \cup {f.ts : f \in {g \in fs : g.ext = "durable" \/ g.durable}})

NoPrefs == [given |-> FALSE, order |-> <<>>]

Acceptable(frags, pref) ==
  {f \in At(frags, pref.ts) : f.frag \notin pref.exclude}

\* Mutant: the newest timestamp, cited or not.
ChooseNewest(frags, durableSet, index, prefs) ==
  LET good == {i \in DOMAIN prefs.order : Acceptable(frags, prefs.order[i]) # {}}
      set == IF ~prefs.given THEN durableSet
             ELSE IF good # {} THEN Acceptable(frags, prefs.order[Largest(good)])
             ELSE At(frags, Largest({0} \cup {f.ts : f \in frags}))
  IN {f \in set : f.frag = Largest({NoIndex} \cup {g.frag : g \in set})}

\* With preferences, the first that has an acceptable fragment chooses both
\* timestamp and index, else the newest timestamp they do not cite; without,
\* the durable set.  The index asked for, or the highest one, is taken.
Choose(frags, durableSet, index, prefs) ==
  LET good == {i \in DOMAIN prefs.order : Acceptable(frags, prefs.order[i]) # {}}
      first == CHOOSE i \in good : \A j \in good : i <= j
      uncited == {f \in frags : \A i \in DOMAIN prefs.order : prefs.order[i].ts # f.ts}
      set == IF ~prefs.given THEN durableSet
             ELSE IF good # {} THEN Acceptable(frags, prefs.order[first])
             ELSE At(uncited, Largest({0} \cup {f.ts : f \in uncited}))
      wanted == IF (prefs.given /\ good # {}) \/ index = NoIndex
                THEN Largest({NoIndex} \cup {f.frag : f \in set}) ELSE index
  IN {f \in set : f.frag = wanted}

\* The result has no durable set unless a fragment was chosen.
get_ondisk_files(fs, index, prefs) ==
  LET exts == fs \ Superseded(fs)
      durableAt == DurableTime(exts)
      durableSet == At(Kind(exts, "data"), durableAt)
      frags == IF durableSet = {} THEN Kind(exts, "data")
               ELSE {f \in Kind(exts, "data") : f.ts >= durableAt}
      data == Choose(frags, durableSet, index, prefs)
      at == Largest({0} \cup {f.ts : f \in data})
      hidden == {m \in Kind(exts, "meta") : at > durableAt /\ m.ts <= at}
      isolated == IF durableSet = {} THEN At(Kind(exts, "durable"), durableAt) ELSE {}
      older == {f \in exts \ hidden : f.ts < durableAt}
      metas == Kind(exts, "meta") \ (hidden \cup older)
  IN [data |-> data,
      durable |-> IF data = {} THEN {} ELSE durableSet,
      meta |-> IF data = {} THEN {} ELSE Latest(metas),
      ts |-> IF data = {} THEN Kind(exts, "ts") \ older ELSE {},
      possible_reclaim |-> (frags \ (durableSet \cup At(frags, at)))
                             \cup (IF durableSet = {} THEN metas ELSE {}),
      obsolete |-> Superseded(fs) \cup older \cup isolated]

Reclaimable(fs) == {f \in fs : f.ts < old}

-----------------------------------------------------------------------------
(* What a set of names means: the newest of tombstone and durable mark     *)
(* decides, and with it every fragment of its timestamp.                   *)

Meaning(fs) ==
  LET deleted == Largest({0} \cup {f.ts : f \in Kind(fs, "ts")})
      marks == {f \in fs : f.ext = "durable" \/ f.durable}
      at == Largest({0} \cup {f.ts : f \in marks})
  IN IF at > deleted
     THEN [at |-> at, frags |-> {f.frag : f \in At(Kind(fs, "data"), at)}]
     ELSE [at |-> deleted, frags |-> {}]

-----------------------------------------------------------------------------
Resting == [at |-> "idle", file |-> {}, reclaim |-> {}, removing |-> {}]

LegacyPair(fi) == {DataFile(1, fi, FALSE), OtherFile("durable", 1)}

Init == /\ files \in {{}} \cup (IF Legacy THEN {LegacyPair(fi) : fi \in Frags} ELSE {})
        /\ ever = files
        /\ old = 1
        /\ late = files
        /\ writer = [w \in Writers |-> Resting]
        /\ acked = {} /\ purged = {}

\* A new name appears, of any age: a fragment may be rebuilt long afterwards.
Appears(f) == /\ f \notin ever /\ Cardinality(ever) < MaxWrites
              /\ files' = files \cup {f}
              /\ ever' = ever \cup {f}

\* ECDiskFileWriter.put of a .data: no cleanup.
Put(w, t, fi) ==
  LET f == DataFile(t, fi, FALSE)
  IN /\ writer[w] = Resting
     /\ DataFile(t, fi, TRUE) \notin ever
     /\ Appears(f)
     /\ writer' = [writer EXCEPT ![w].at = "commit", ![w].file = {f}]
     /\ UNCHANGED <<old, late, acked, purged>>

\* A DELETE or a POST: its file, then a cleanup.
PutOther(w, f) ==
  /\ writer[w] = Resting
  /\ f.ext \in {"ts", "meta"}
  /\ Appears(f)
  /\ writer' = [writer EXCEPT ![w].at = "clean"]
  /\ UNCHANGED <<old, late, acked, purged>>

Durable(f) == [f EXCEPT !.durable = TRUE]

\* _finalize_durable: the rename.
Commit(w) ==
  \E f \in writer[w].file :
    /\ writer[w].at = "commit" /\ f \in files
    /\ files' = (files \ {f}) \cup {Durable(f)}
    /\ ever' = ever \cup {Durable(f)}
    /\ acked' = acked \cup {f}
    /\ writer' = [writer EXCEPT ![w] = [Resting EXCEPT !.at = "clean"]]
    /\ UNCHANGED <<old, late, purged>>

\* The data is gone: that is success if a newer tombstone or a durable set
\* as new says why, else DiskFileError.
CommitMissing(w) ==
  \E f \in writer[w].file :
    LET info == get_ondisk_files(files, f.frag, NoPrefs)
        cleaned == \/ \E t \in info.ts : t.ts > f.ts
                   \/ \E d \in info.durable : d.ts >= f.ts
    IN /\ writer[w].at = "commit" /\ f \notin files
       /\ acked' = IF cleaned THEN acked \cup {f} ELSE acked
       /\ writer' = [writer EXCEPT ![w] = Resting]
       /\ UNCHANGED <<files, ever, old, late, purged>>

\* No space for the rename, or the directory cannot be synced after it; no
\* cleanup follows.
CommitFails(w) ==
  \E f \in writer[w].file :
    /\ MayFail /\ writer[w].at = "commit" /\ f \in files
    /\ \/ UNCHANGED <<files, ever>>
       \/ /\ files' = (files \ {f}) \cup {Durable(f)}
          /\ ever' = ever \cup {Durable(f)}
    /\ writer' = [writer EXCEPT ![w] = Resting]
    /\ UNCHANGED <<old, late, acked, purged>>

\* The commit never comes, or the process dies.
Dies(w) == /\ MayFail /\ writer[w] # Resting
           /\ writer' = [writer EXCEPT ![w] = Resting]
           /\ UNCHANGED <<files, ever, old, late, acked, purged>>

-----------------------------------------------------------------------------
(* cleanup_ondisk_files.                                                   *)

\* Mutant: no commit window.
ListIgnoresWindow(w) ==
  LET info == get_ondisk_files(files, NoIndex, NoPrefs)
  IN /\ writer[w].at = "clean"
     /\ writer' = [writer EXCEPT ![w] =
          [at |-> "remove", file |-> {}, reclaim |-> Reclaimable(info.ts),
           removing |-> info.obsolete \cup Reclaimable(info.possible_reclaim)]]
     /\ UNCHANGED <<files, ever, old, late, acked, purged>>

ListForCleanup(w) ==
  LET info == get_ondisk_files(files, NoIndex, NoPrefs)
      strays == {f \in Reclaimable(info.possible_reclaim) :
                   f.ext # "data" \/ f.durable \/ f \in late}
  IN /\ writer[w].at = "clean"
     /\ writer' = [writer EXCEPT ![w] =
          [at |-> "remove", file |-> {}, reclaim |-> Reclaimable(info.ts),
           removing |-> info.obsolete \cup strays]]
     /\ UNCHANGED <<files, ever, old, late, acked, purged>>

Reclaim(w) ==
  \E f \in writer[w].reclaim :
    /\ writer[w].at = "remove"
    /\ files' = files \ {f}
    /\ writer' = [writer EXCEPT ![w].reclaim = {}]
    /\ UNCHANGED <<ever, old, late, acked, purged>>

Remove(w) ==
  \E f \in writer[w].removing :
    /\ writer[w].at = "remove" /\ writer[w].reclaim = {}
    /\ files' = files \ {f}
    /\ writer' = [writer EXCEPT ![w].removing = @ \ {f}]
    /\ UNCHANGED <<ever, old, late, acked, purged>>

CleanupEnds(w) ==
  /\ writer[w].at = "remove"
  /\ writer[w].reclaim = {} /\ writer[w].removing = {}
  /\ writer' = [writer EXCEPT ![w] = Resting]
  /\ UNCHANGED <<files, ever, old, late, acked, purged>>

\* ECDiskFile.purge of what was reverted to another node: the tombstone, a
\* .meta that went along and, if it is old enough, the plain name of the
\* fragment; then the durable name.
Purge(w, t, fi) ==
  LET f == DataFile(t, fi, FALSE)
  IN /\ MayPurge /\ writer[w] = Resting
     /\ At(files, t) # {}
     /\ \E meta \in {{}} \cup {{m} : m \in Kind(files, "meta")} :
          LET gone == files \cap (meta \cup {OtherFile("ts", t)} \cup (late \cap {f}))
          IN files' = files \ gone /\ purged' = purged \cup gone
     /\ writer' = [writer EXCEPT ![w].at = "purge", ![w].file = {Durable(f)}]
     /\ UNCHANGED <<ever, old, late, acked>>

PurgeDurable(w) ==
  \E f \in writer[w].file :
    /\ writer[w].at = "purge"
    /\ files' = files \ {f}
    /\ purged' = purged \cup ({f} \cap files)
    /\ writer' = [writer EXCEPT ![w] = Resting]
    /\ UNCHANGED <<ever, old, late, acked>>

WindowPasses == \E f \in files \ late :
                  /\ f.ext = "data" /\ ~f.durable /\ MaxOld > 1
                  /\ late' = late \cup {f}
                  /\ UNCHANGED <<files, ever, old, writer, acked, purged>>

Ages == /\ old < MaxOld
        /\ old' = old + 1
        /\ UNCHANGED <<files, ever, late, writer, acked, purged>>

Write(w) == \/ \E t \in Time, fi \in Frags : Put(w, t, fi) \/ Purge(w, t, fi)
            \/ \E f \in File : PutOther(w, f)
            \/ Commit(w) \/ CommitMissing(w) \/ CommitFails(w) \/ Dies(w)
            \/ ListForCleanup(w) \/ Reclaim(w) \/ Remove(w) \/ CleanupEnds(w)
            \/ PurgeDurable(w)

Next == (\E w \in Writers : Write(w)) \/ WindowPasses \/ Ages

Spec == Init /\ [][Next]_vars

-----------------------------------------------------------------------------
TypeOK ==
  /\ files \subseteq ever /\ ever \subseteq File /\ late \subseteq ever
  /\ old \in 1..MaxOld
  /\ writer \in [Writers -> [at : {"idle", "commit", "clean", "remove", "purge"},
                             file : SUBSET File, reclaim : SUBSET File,
                             removing : SUBSET File]]
  /\ acked \cup purged \subseteq ever

Live(fs) == get_ondisk_files(fs, NoIndex, NoPrefs)

Opened(info) ==
  [at |-> Largest({0} \cup {f.ts : f \in info.data \cup info.ts}),
   frags |-> {f.frag : f \in info.durable}]

\* Whatever the order of puts, commits, deletes and cleanups and wherever one
\* stops, the directory serves what the names ever written say: the newest
\* durable timestamp with every fragment of it, or the newest tombstone.  A
\* commit is answered well only for a fragment that is durable or outdated.
ServedIsKept ==
  /\ old = 1 /\ purged = {} => Opened(Live(files)) = Meaning(ever)
  /\ \A f \in acked : Meaning(ever).at >= f.ts

\* It is checked with the types it relies on.
ECInv == TypeOK /\ ServedIsKept

\* Between put and commit a fragment survives every cleanup until something
\* newer is durable, it is deleted, it is purged, or both the reclaim age and
\* the commit window have passed.
AwaitsItsCommit ==
  \A w \in Writers : writer[w].at = "commit" =>
    \A f \in writer[w].file \ files :
      \/ Meaning(ever).at >= f.ts
      \/ f \in purged
      \/ f.ts < old /\ f \in late

\* A reader that names the fragments it already has is never given one of
\* them from a timestamp it names, and is given nothing only if the directory
\* holds nothing else.
Prefs == {<<>>} \cup {<<[ts |-> t, exclude |-> x]>> : t \in Time, x \in SUBSET Frags}

PrefsAreHonoured ==
  (\A w \in Writers : writer[w] = Resting) => \A order \in Prefs :
    LET info == get_ondisk_files(files, NoIndex, [given |-> TRUE, order |-> order])
        alive == {f \in Kind(files, "data") :
                    f.ts > Largest({0} \cup {g.ts : g \in Kind(files, "ts")})
                    /\ f.ts >= DurableTime(files)}
        unwanted == {f \in alive : \E i \in DOMAIN order :
                       order[i].ts = f.ts /\ f.frag \in order[i].exclude}
    IN /\ info.data \cap unwanted = {}
       /\ info.data = {} => alive \subseteq unwanted
=============================================================================
