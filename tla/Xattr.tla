-------------------------------- MODULE Xattr --------------------------------
(***************************************************************************)
(* The metadata of an object's files: read_metadata and write_metadata of  *)
(* swift_patches/obj/bs_diskfile.py, and the tool bs_xattr they call.      *)
(*                                                                         *)
(* Metadata is kept in chunks under numbered keys, its checksum last.      *)
(* With USE_BS_XATTR every get and set is a process of its own, which      *)
(* opens the file's database for itself alone and finds it by the file's   *)
(* path; without it the keys are the kernel's extended attributes, which   *)
(* belong to the open file and follow a rename.                            *)
(*                                                                         *)
(* One object's directory: readers open a file that is there, and a PUT    *)
(* writes a new one.                                                       *)
(***************************************************************************)
EXTENDS Naturals, FiniteSets

CONSTANTS Readers,
          Chunks,       \* chunks the pickled metadata takes
          UseBsXattr,   \* USE_BS_XATTR
          MayFail,      \* a disk read may fail
          NoOne

Key == 0..Chunks - 1
Name == {"old", "tmp", "new"}   \* the temporary file of the PUT is tmp

VARIABLES store,    \* name -> the keys set for it and its checksum
          there,    \* names in the object's directory
          holder,   \* name -> who has its database open
          reader,   \* reader -> what it is doing
          writer,   \* what the PUT is doing
          accused,  \* history: files a directory was quarantined for
          broken    \* history: a disk read failed

vars == <<store, there, holder, reader, writer, accused, broken>>

Metadata(keys, sum) == [keys |-> keys, sum |-> sum]
Waiting == [at |-> "idle", file |-> "old", keys |-> {}, modernize |-> FALSE]

\* An object written before, perhaps before checksums were, or before
\* bs_xattr was, when its metadata is none that bs_xattr finds.
Init == /\ \E was \in {Metadata(Key, "true"), Metadata(Key, "none")}
                      \cup (IF UseBsXattr THEN {Metadata({}, "none")} ELSE {}) :
             store = [n \in Name |-> IF n = "old" THEN was ELSE Metadata({}, "none")]
        /\ there = {"old"}
        /\ holder = [n \in Name |-> NoOne]
        /\ reader = [r \in Readers |-> Waiting]
        /\ writer = "idle"
        /\ accused = {} /\ broken = FALSE

-----------------------------------------------------------------------------
(* A reader.                                                               *)

Reads(r, f, modernize) ==
  /\ reader[r].at = "idle" /\ f \in there
  /\ reader' = [reader EXCEPT ![r] =
       [at |-> "chunk", file |-> f, keys |-> {}, modernize |-> modernize]]
  /\ UNCHANGED <<store, there, holder, writer, accused, broken>>

Busy(r) == reader[r].at \in {"chunk", "sum", "add"}
Holds(r) == ~UseBsXattr \/ holder[reader[r].file] = r
Releases(r) == holder' = IF UseBsXattr THEN [holder EXCEPT ![reader[r].file] = NoOne]
                         ELSE holder

\* bs_xattr opens the database of the path it is given.
OpensDb(r) ==
  /\ UseBsXattr /\ Busy(r) /\ holder[reader[r].file] = NoOne
  /\ reader[r].file \in there
  /\ holder' = [holder EXCEPT ![reader[r].file] = r]
  /\ UNCHANGED <<store, there, reader, writer, accused, broken>>

Goes(r, at) == reader' = [reader EXCEPT ![r].at = at]

\* _failsafe_read_metadata: any exception it does not know quarantines the
\* directory of the file.
Quarantines(r) == /\ Goes(r, "quarantined")
                  /\ accused' = accused \cup {reader[r].file}
                  /\ there' = {}

\* The database is open in another process, or its directory has been moved
\* away: bs_xattr fails with 1, which is EIO.  A checksum that cannot be added
\* is only logged.
Collides(r) ==
  /\ UseBsXattr /\ Busy(r) /\ ~Holds(r)
  /\ holder[reader[r].file] # NoOne \/ reader[r].file \notin there
  /\ IF reader[r].at = "add" THEN Goes(r, "load") /\ UNCHANGED <<there, accused>>
     ELSE Quarantines(r)
  /\ UNCHANGED <<store, holder, writer, broken>>

\* Chunks are read until there is no next key.  With no metadata at all
\* bs_xattr's caller says that the object does not exist.
GetChunk(r) ==
  LET key == Cardinality(reader[r].keys)
      f == reader[r].file
  IN /\ reader[r].at = "chunk" /\ Holds(r)
     /\ reader' = IF key \in store[f].keys THEN [reader EXCEPT ![r].keys = @ \cup {key}]
                  ELSE [reader EXCEPT ![r].at = IF UseBsXattr /\ key = 0 THEN "absent" ELSE "sum"]
     /\ Releases(r)
     /\ UNCHANGED <<store, there, writer, accused, broken>>

\* A failing read is an error to bs_xattr's caller, but getxattr's caller
\* takes any error for the end of the metadata, or for no checksum.  Failing to
\* add a checksum is only logged.
GetFails(r) ==
  /\ MayFail /\ Busy(r) /\ Holds(r)
  /\ broken' = TRUE
  /\ Releases(r)
  /\ IF UseBsXattr /\ reader[r].at # "add" THEN Quarantines(r)
     ELSE /\ Goes(r, IF reader[r].at = "chunk" THEN "sum"
                     ELSE IF reader[r].at = "sum" /\ reader[r].modernize THEN "add" ELSE "load")
          /\ UNCHANGED <<there, accused>>
  /\ UNCHANGED <<store, writer>>

Whole(r) == reader[r].keys = Key

\* The checksum, if there is one, must be that of what was read; without one
\* whatever unpickles is taken.
GetSum(r) ==
  LET sum == store[reader[r].file].sum
  IN /\ reader[r].at = "sum" /\ Holds(r)
     /\ Releases(r)
     /\ IF sum = "none" /\ reader[r].modernize THEN Goes(r, "add") /\ UNCHANGED <<there, accused>>
        ELSE IF sum = "none" \/ (sum = "true" /\ Whole(r)) THEN Goes(r, "load") /\ UNCHANGED <<there, accused>>
        ELSE Quarantines(r)
     /\ UNCHANGED <<store, writer, broken>>

\* add_missing_checksum: the sum of what was read.
AddSum(r) ==
  LET f == reader[r].file
  IN /\ reader[r].at = "add" /\ Holds(r)
     /\ store' = [store EXCEPT ![f].sum = IF Whole(r) THEN "true" ELSE "false"]
     /\ Releases(r)
     /\ Goes(r, "load")
     /\ UNCHANGED <<there, writer, accused, broken>>

\* pickle.loads fails on anything but the whole.
Load(r) ==
  /\ reader[r].at = "load"
  /\ IF Whole(r) THEN Goes(r, "ok") /\ UNCHANGED <<there, accused>> ELSE Quarantines(r)
  /\ UNCHANGED <<store, holder, writer, broken>>

\* The file is closed.
Closes(r) == /\ reader[r].at \in {"ok", "absent", "quarantined"}
             /\ reader' = [reader EXCEPT ![r] = Waiting]
             /\ UNCHANGED <<store, there, holder, writer, accused, broken>>

-----------------------------------------------------------------------------
(* The PUT.                                                                *)

Puts == /\ writer = "idle" /\ writer' = "writing"
        /\ UNCHANGED <<store, there, holder, reader, accused, broken>>

\* _finalize_put hands write_metadata the descriptor, a number, which is no
\* argument a process can be started with: an exception that is no IOError.
HandsDescriptor ==
  /\ UseBsXattr /\ writer = "writing"
  /\ writer' = "500"
  /\ UNCHANGED <<store, there, holder, reader, accused, broken>>

\* setxattr of the next chunk; the sum after the last.
SetChunk ==
  LET key == Cardinality(store["tmp"].keys)
  IN /\ ~UseBsXattr /\ writer = "writing" /\ key < Chunks
     /\ store' = [store EXCEPT !["tmp"].keys = @ \cup {key}]
     /\ UNCHANGED <<there, holder, reader, writer, accused, broken>>

SetSum ==
  /\ ~UseBsXattr /\ writer = "writing" /\ store["tmp"].keys = Key
  /\ store' = [store EXCEPT !["tmp"].sum = "true"]
  /\ writer' = "written"
  /\ UNCHANGED <<there, holder, reader, accused, broken>>

\* ENOSPC or EDQUOT: 507, and the temporary file goes.  A process that dies
\* leaves it.
NoSpace ==
  /\ ~UseBsXattr /\ writer = "writing"
  /\ writer' = "507"
  /\ UNCHANGED <<store, there, holder, reader, accused, broken>>

\* Mutant: the file is renamed in before its metadata is written.
RenameEarly ==
  /\ writer = "writing"
  /\ there' = there \cup {"new"}
  /\ store' = [store EXCEPT !["new"] = store["tmp"]]
  /\ writer' = "201"
  /\ UNCHANGED <<holder, reader, accused, broken>>

\* After fsync; attributes follow the file.
Rename ==
  /\ writer = "written"
  /\ there' = there \cup {"new"}
  /\ store' = [store EXCEPT !["new"] = store["tmp"]]
  /\ writer' = "201"
  /\ UNCHANGED <<holder, reader, accused, broken>>

Dies == /\ writer \in {"writing", "written"} /\ writer' = "died"
        /\ UNCHANGED <<store, there, holder, reader, accused, broken>>

Read(r) == \/ \E f \in there, modernize \in BOOLEAN : Reads(r, f, modernize)
           \/ OpensDb(r) \/ Collides(r) \/ GetChunk(r) \/ GetFails(r) \/ GetSum(r)
           \/ AddSum(r) \/ Load(r) \/ Closes(r)

Write == \/ Puts \/ HandsDescriptor \/ SetChunk \/ SetSum \/ NoSpace \/ Rename \/ Dies

Next == (\E r \in Readers : Read(r)) \/ Write

Spec == Init /\ [][Next]_vars

-----------------------------------------------------------------------------
TypeOK ==
  /\ store \in [Name -> [keys : SUBSET Key, sum : {"none", "true", "false"}]]
  /\ there \subseteq {"old", "new"}
  /\ holder \in [Name -> Readers \cup {NoOne}]
  /\ reader \in [Readers -> [at : {"idle", "chunk", "sum", "add", "load", "ok", "absent",
                                   "quarantined"},
                             file : {"old", "new"}, keys : SUBSET Key, modernize : BOOLEAN]]
  /\ writer \in {"idle", "writing", "written", "201", "500", "507", "died"}
  /\ accused \subseteq Name /\ broken \in BOOLEAN

\* Whatever the PUT, the other readers and a death do, and with or without a
\* failing disk, a file in the directory has all its metadata, so that whoever
\* reads it to the end gets the whole.
VisibleIsWhole ==
  \A n \in there : store[n].keys = Key /\ (n = "new" => store[n].sum # "none")

\* read_metadata: two readers that both add the checksum of an old object,
\* and any that read it meanwhile, leave the true one, or the object would be
\* quarantined by the next.
SumIsTrue == \A n \in Name : store[n].sum # "false"

\* quarantine_renamer: "In the case that a file is corrupted, move it to a
\* quarantined area": no reader accuses a file whose metadata is whole while
\* the disk works.
AccusedIsCorrupt == ~broken => accused = {}
==============================================================================
