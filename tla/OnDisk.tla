------------------------------- MODULE OnDisk -------------------------------
(***************************************************************************)
(* One object's directory under a replication policy,                      *)
(* swift_patches/obj/bs_diskfile.py.                                       *)
(*                                                                         *)
(* A PUT leaves <timestamp>.data, a DELETE <timestamp>.ts and a POST       *)
(* <timestamp>.meta, each by a rename into the directory.  Nothing locks   *)
(* the directory: every writer then lists it, decides which files are      *)
(* obsolete and unlinks them one by one, while others write, clean and     *)
(* open the object.                                                        *)
(*                                                                         *)
(* A file is the timestamps and the extension its name encodes; its        *)
(* metadata is identified by that name, since a file never changes.        *)
(***************************************************************************)
EXTENDS DiskRules

CONSTANTS Writers,    \* threads that write, clean or both
          Readers,    \* threads that open the object
          MaxTime,    \* timestamps are 1..MaxTime
          MaxOld,     \* bound: how far the reclaim age gets
          MaxWrites   \* bound on the files ever written

ASSUME OnDiskAssumption == /\ MaxTime \in Nat \ {0}
                           /\ MaxOld \in Nat \ {0} /\ MaxWrites \in Nat

Time == 1..MaxTime

\* What make_on_disk_filename encodes and parse_on_disk_filename reads back.
\* The content type of a .meta is never newer than the .meta; 0 is none.
File == [ext : {"data", "ts"}, ts : Time, ctype : {0}]
          \cup {f \in [ext : {"meta"}, ts : Time, ctype : 0..MaxTime] :
                  f.ctype <= f.ts}

VARIABLES files,    \* what the directory holds
          ever,     \* history: every file renamed into it
          old,      \* timestamps below this are past reclaim_age
          late,     \* history: times of .data that came when past that age
          writer,   \* writer -> what it is doing
          reader,   \* reader -> what it is doing
          died      \* history: a writer died before it had cleaned up

vars == <<files, ever, old, late, writer, reader, died>>

-----------------------------------------------------------------------------
(* Which files count.                                                      *)

\* The newest .data outdates the rest.  Two .meta that are retained differ in
\* their timestamps; lead is the one that came first.
get_ondisk_files(lead, fs) ==
  LET live == fs \ SupersededAfter(lead, fs)
      data == Latest(Kind(live, "data"))
      byData == Outdated(live, data)
      meta == Kind(live, "meta") \ byData
  IN [data |-> data,
      meta |-> IF data = {} THEN {} ELSE Latest(meta),
      ctype |-> {m \in NewestType(meta) : \E d \in data : m.ctype > d.ts},
      ts |-> IF data = {} THEN Kind(live, "ts") ELSE {},
      possible_reclaim |-> IF data = {} THEN meta ELSE {},
      obsolete |-> SupersededAfter(lead, fs) \cup byData]

Reclaimable(fs) == {f \in fs : f.ts < old}

-----------------------------------------------------------------------------
(* What a set of files means, said without the algorithm: the newest .data *)
(* or .ts decides, a .ts wins a tie; metadata and content type are the     *)
(* newest ones written after the data.                                     *)

Meaning(fs) ==
  LET marks == Kind(fs, "data") \cup Kind(fs, "ts")
      at == Largest({0} \cup {f.ts : f \in marks})
      after == {m \in Kind(fs, "meta") : m.ts > at}
  IN IF \E f \in Kind(marks, "data") : f.ts = at /\ [f EXCEPT !.ext = "ts"] \notin fs
     THEN [found |-> TRUE, data |-> at,
           meta |-> Largest({0} \cup {m.ts : m \in after}),
           ctype |-> Largest({at} \cup {m.ctype : m \in after})]
     ELSE [found |-> FALSE, data |-> at, meta |-> 0, ctype |-> 0]

\* What an open that loses no race makes of the directory.
Opened(info) ==
  IF info.data # {}
  THEN LET data == Largest({f.ts : f \in info.data})
       IN [found |-> TRUE, data |-> data,
           meta |-> Largest({0} \cup {f.ts : f \in info.meta}),
           ctype |-> Largest({data} \cup {f.ctype : f \in info.meta \cup info.ctype})]
  ELSE [found |-> FALSE, data |-> Largest({0} \cup {f.ts : f \in info.ts}),
        meta |-> 0, ctype |-> 0]

-----------------------------------------------------------------------------
(* Writers.                                                                *)

Resting == [at |-> "idle", reclaim |-> {}, removing |-> {}]
Nothing == [found |-> FALSE, data |-> 0, meta |-> 0, ctype |-> 0]
Waiting == [at |-> "idle", want |-> {}, got |-> Nothing, began |-> Nothing]

Init == /\ files = {} /\ ever = {}
        /\ old = 1 /\ late = {}
        /\ writer = [w \in Writers |-> Resting]
        /\ reader = [r \in Readers |-> Waiting]
        /\ died = FALSE

\* Mutant: no cleanup follows.
FinalizeOnly(w, f) ==
  /\ writer[w] = Resting
  /\ f \notin ever /\ Cardinality(ever) < MaxWrites
  /\ files' = files \cup {f}
  /\ ever' = ever \cup {f}
  /\ late' = IF f.ext = "data" /\ f.ts < old THEN late \cup {f.ts} ELSE late
  /\ UNCHANGED <<old, writer, reader, died>>

\* _finalize_put: the finished temporary file, its metadata written and
\* synced, is renamed into the directory; a cleanup follows.  Replication
\* brings files of any age.
FinalizePut(w, f) ==
  /\ writer[w] = Resting
  /\ f \notin ever /\ Cardinality(ever) < MaxWrites
  /\ files' = files \cup {f}
  /\ ever' = ever \cup {f}
  /\ late' = IF f.ext = "data" /\ f.ts < old THEN late \cup {f.ts} ELSE late
  /\ writer' = [writer EXCEPT ![w].at = "clean"]
  /\ UNCHANGED <<old, reader, died>>

\* Replication, the auditor and the hashing of a suffix clean up too.
StartCleanup(w) ==
  /\ writer[w] = Resting /\ files # {}
  /\ writer' = [writer EXCEPT ![w].at = "clean"]
  /\ UNCHANGED <<files, ever, old, late, reader, died>>

\* cleanup_ondisk_files lists the directory and decides.
ListForCleanup(w) ==
  \E lead \in SortedLeads(files) :
    LET info == get_ondisk_files(lead, files)
    IN /\ writer[w].at = "clean"
       /\ writer' = [writer EXCEPT ![w] =
            [at |-> "remove", reclaim |-> Reclaimable(info.ts),
             removing |-> info.obsolete \cup Reclaimable(info.possible_reclaim)]]
       /\ UNCHANGED <<files, ever, old, late, reader, died>>

\* It unlinks a reclaimable tombstone, then the rest one by one; a file that
\* is gone already is no error.
Reclaim(w) ==
  /\ writer[w].at = "remove"
  /\ \E f \in writer[w].reclaim :
       /\ files' = files \ {f}
       /\ writer' = [writer EXCEPT ![w].reclaim = {}]
  /\ UNCHANGED <<ever, old, late, reader, died>>

Remove(w) ==
  /\ writer[w].at = "remove" /\ writer[w].reclaim = {}
  /\ \E f \in writer[w].removing :
       /\ files' = files \ {f}
       /\ writer' = [writer EXCEPT ![w].removing = @ \ {f}]
  /\ UNCHANGED <<ever, old, late, reader, died>>

CleanupEnds(w) ==
  /\ writer[w].at = "remove"
  /\ writer[w].reclaim = {} /\ writer[w].removing = {}
  /\ writer' = [writer EXCEPT ![w] = Resting]
  /\ UNCHANGED <<files, ever, old, late, reader, died>>

Dies(w) == /\ writer[w] # Resting
           /\ writer' = [writer EXCEPT ![w] = Resting]
           /\ died' = TRUE
           /\ UNCHANGED <<files, ever, old, late, reader>>

Ages == /\ old < MaxOld
        /\ old' = old + 1
        /\ UNCHANGED <<files, ever, late, writer, reader, died>>

-----------------------------------------------------------------------------
(* DiskFile.open.                                                          *)

\* It lists the directory and chooses the files that count.
Open(r) ==
  \E lead \in Leads(files) :
    LET info == get_ondisk_files(lead, files)
        found == info.data # {}
    IN /\ reader[r].at = "idle" /\ files # {}
       /\ reader' = [reader EXCEPT ![r] =
            [at |-> IF found THEN "data" ELSE "done",
             want |-> info.data \cup info.meta \cup info.ctype,
             got |-> IF found THEN Nothing ELSE Opened(info),
             began |-> Opened(info)]]
       /\ UNCHANGED <<files, ever, old, late, writer, died>>

\* Either file may be gone by the time it is opened: "does not exist".
Missing(r) == reader' = [reader EXCEPT ![r].at = "done", ![r].want = {},
                                       ![r].got = Nothing]

\* _construct_from_data_file opens the .data and reads its metadata ...
OpenData(r) ==
  /\ reader[r].at = "data"
  /\ \E d \in Kind(reader[r].want, "data") :
       IF d \in files
       THEN reader' = [reader EXCEPT ![r].at = "meta", ![r].want = @ \ {d},
               ![r].got = [found |-> TRUE, data |-> d.ts, meta |-> 0, ctype |-> d.ts]]
       ELSE Missing(r)
  /\ UNCHANGED <<files, ever, old, late, writer, died>>

\* Mutant: a .meta that is gone is skipped.
ReadMetaSkips(r) ==
  /\ reader[r].at = "meta" /\ reader[r].want # {}
  /\ \E m \in Latest(reader[r].want) :
       reader' = [reader EXCEPT ![r].want = @ \ {m},
         ![r].got.meta = IF @ = 0 /\ m \in files THEN m.ts ELSE @,
         ![r].got.ctype = IF m.ctype > @ /\ m \in files THEN m.ctype ELSE @]
  /\ UNCHANGED <<files, ever, old, late, writer, died>>

\* ... then each .meta, the newest one first; the content type of the second
\* is merged only if it is newer than the first's and than the data's.
ReadMeta(r) ==
  /\ reader[r].at = "meta" /\ reader[r].want # {}
  /\ \E m \in Latest(reader[r].want) :
       IF m \in files
       THEN reader' = [reader EXCEPT ![r].want = @ \ {m},
               ![r].got.meta = IF @ = 0 THEN m.ts ELSE @,
               ![r].got.ctype = IF m.ctype > @ THEN m.ctype ELSE @]
       ELSE Missing(r)
  /\ UNCHANGED <<files, ever, old, late, writer, died>>

OpenEnds(r) ==
  /\ reader[r].at = "meta" /\ reader[r].want = {}
  /\ reader' = [reader EXCEPT ![r].at = "done"]
  /\ UNCHANGED <<files, ever, old, late, writer, died>>

Close(r) == /\ reader[r].at = "done"
            /\ reader' = [reader EXCEPT ![r] = Waiting]
            /\ UNCHANGED <<files, ever, old, late, writer, died>>

Write(w) == \/ \E f \in File : FinalizePut(w, f)
            \/ StartCleanup(w) \/ ListForCleanup(w)
            \/ Reclaim(w) \/ Remove(w) \/ CleanupEnds(w) \/ Dies(w)

Read(r) == Open(r) \/ OpenData(r) \/ ReadMeta(r) \/ OpenEnds(r) \/ Close(r)

Next == \/ \E w \in Writers : Write(w)
        \/ \E r \in Readers : Read(r)
        \/ Ages

Spec == Init /\ [][Next]_vars

-----------------------------------------------------------------------------
Outcome == [found : BOOLEAN, data : 0..MaxTime, meta : 0..MaxTime, ctype : 0..MaxTime]

TypeOK ==
  /\ files \subseteq ever /\ ever \subseteq File
  /\ old \in 1..MaxOld /\ late \subseteq Time
  /\ writer \in [Writers -> [at : {"idle", "clean", "remove"},
                         reclaim : SUBSET File, removing : SUBSET File]]
  /\ reader \in [Readers -> [at : {"idle", "data", "meta", "done"},
                             want : SUBSET File, got : Outcome, began : Outcome]]
  /\ died \in BOOLEAN

\* Two .meta of one timestamp and an older one whose content type is newer
\* than both of theirs.
Clash(fs) ==
  \E a, b, c \in Kind(fs, "meta") :
    /\ a # b /\ a.ts = b.ts /\ c.ts < a.ts
    /\ c.ctype > a.ctype /\ c.ctype > b.ctype

\* However writers race, in whatever order timestamps arrive and wherever a
\* cleanup stops, an object that was written stays what the files ever
\* written say: its newest data, newest metadata and newest content type.
\* So does a deleted one while nothing is old enough to be reclaimed.  Not so
\* the metadata of data that comes when it is past the reclaim age, since a
\* .meta without data may have been reclaimed; nor where .meta files clash,
\* since a cleanup that saw all three keeps one of the two and one that saw
\* only these two keeps the other.
FoundIsKept ==
  LET meant == Meaning(ever)
  IN meant.found \/ old = 1 =>
       \A lead \in Leads(files) :
         LET seen == Opened(get_ondisk_files(lead, files))
         IN /\ seen.found = meant.found /\ seen.data = meant.data
            /\ meant.data \in late \/ Clash(ever) \/ seen = meant

\* It is checked with the types it relies on.
OnDiskInv == TypeOK /\ FoundIsKept

\* An open that finds the object returns one state the directory really had,
\* the one at its listing, never the data of one write with the metadata of
\* another, whatever is unlinked while it opens file after file.
OpensOneState ==
  \A r \in Readers : reader[r].at = "done" /\ reader[r].got.found
                     => reader[r].got = reader[r].began

\* The last of several racing cleanups sees every file the others left:
\* when all are done and none died, nothing obsolete is on disk, in whatever
\* order it is listed.
QuietIsClean ==
  (\A w \in Writers : writer[w] = Resting) /\ ~died
    => \A lead \in Leads(files) : get_ondisk_files(lead, files).obsolete = {}
=============================================================================
