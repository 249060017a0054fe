------------------------------- MODULE Hashes -------------------------------
(***************************************************************************)
(* The suffix hashes of one partition, swift_patches/obj/bs_diskfile.py.   *)
(*                                                                         *)
(* A partition directory keeps hashes.pkl, a digest for each suffix        *)
(* directory, and hashes.invalid, the names of the suffixes that changed   *)
(* since.  Requests change suffix directories and append to hashes.invalid *)
(* (invalidate_hash); the replicator and the reconstructor call get_hashes,*)
(* which folds the invalidations into hashes.pkl (consolidate_hashes),     *)
(* digests the dirty suffixes WITHOUT the partition's lock, and writes     *)
(* hashes.pkl back if nobody wrote it meanwhile.  Only the two files are   *)
(* guarded by the lock; the directories are not.                           *)
(*                                                                         *)
(* A digest is the version of the directory it was taken from.  An entry   *)
(* of hashes.pkl is "dirty" (None in the code), a digest ("sum"), or the   *)
(* absence of the key ("none"); the version of an absent key is history,   *)
(* the version at which the directory was seen missing.                    *)
(***************************************************************************)
EXTENDS Naturals, FiniteSets

CONSTANTS Suffixes,     \* the suffix directories of the partition
          Rehashers,    \* callers of get_hashes
          Mutators,     \* requests that change a suffix directory
          NoOne,        \* the lock is free
          MayFail,      \* whether steps fail and processes die
          MaxVersion,   \* bound on the changes of one directory
          MaxUpdated    \* bound: nothing new starts or fails once hashes.pkl
                        \* was written this often; what runs may still write

ASSUME HashesAssumption == /\ NoOne \notin Rehashers \cup Mutators
                           /\ MayFail \in BOOLEAN
                           /\ MaxVersion \in Nat /\ MaxUpdated \in Nat

VARIABLES dir,      \* suffix -> "absent", "empty" or "full"
          ver,      \* suffix -> the version of what the directory holds
          pkl,      \* hashes.pkl
          invalid,  \* hashes.invalid, the suffixes on its lines
          lock,     \* holder of lock_path(partition_dir)
          call,     \* rehasher -> the state of its get_hashes
          doing,    \* mutator -> what it is in the middle of
          told      \* history: suffix -> version at its last invalidation

vars == <<dir, ver, pkl, invalid, lock, call, doing, told>>

Entry == [kind : {"dirty", "sum", "none"}, ver : Nat]
Dirty == [kind |-> "dirty", ver |-> 0]
Absent(v) == [kind |-> "none", ver |-> v]
Sum(v) == [kind |-> "sum", ver |-> v]

Pkl == [valid : BOOLEAN, updated : Nat, of : [Suffixes -> Entry]]

\* What read_hashes makes of a file it cannot read.
Unreadable == [valid |-> FALSE, updated |-> 0,
               of |-> [s \in Suffixes |-> Absent(0)]]

Idle == [at |-> "idle", orig |-> Unreadable, work |-> Unreadable.of,
         recalculate |-> {}, listdir |-> FALSE, todo |-> {}, modified |-> FALSE,
         hashing |-> {}, since |-> [s \in Suffixes |-> 0]]

Resting == [op |-> "none", on |-> {}]

Init == /\ dir \in [Suffixes -> {"absent", "full"}]
        /\ ver = [s \in Suffixes |-> 0]
        /\ pkl = Unreadable
        /\ invalid = {}
        /\ lock = NoOne
        /\ call = [r \in Rehashers |-> Idle]
        /\ doing = [m \in Mutators |-> Resting]
        /\ told = [s \in Suffixes |-> 0]

-----------------------------------------------------------------------------
(* Changes of the directories.                                             *)

\* invalidate_hash: one line appended under the partition's lock.
invalidate_hash(s) == /\ lock = NoOne
                      /\ invalid' = invalid \cup {s}
                      /\ told' = [told EXCEPT ![s] = ver[s]]

Change(s, state) == /\ ver[s] < MaxVersion
                    /\ ver' = [ver EXCEPT ![s] = @ + 1]
                    /\ dir' = [dir EXCEPT ![s] = state]

\* A PUT, a POST or a DELETE, and a quarantine, tell hashes.invalid first.
Announce(m, s, op) ==
  /\ doing[m] = Resting /\ pkl.updated < MaxUpdated
  /\ op = "quarantine" => dir[s] = "full"
  /\ invalidate_hash(s)
  /\ doing' = [doing EXCEPT ![m] = [op |-> op, on |-> {s}]]
  /\ UNCHANGED <<dir, ver, pkl, lock, call>>

\* The rename that makes the new file visible.
FinalizePut(m) ==
  \E s \in doing[m].on :
    /\ doing[m].op = "put"
    /\ Change(s, "full")
    /\ doing' = [doing EXCEPT ![m] = Resting]
    /\ UNCHANGED <<pkl, invalid, lock, call, told>>

\* The rename that takes the object's directory away.
Quarantine(m) ==
  \E s \in doing[m].on :
    /\ doing[m].op = "quarantine"
    /\ IF dir[s] = "full" THEN Change(s, "empty") ELSE UNCHANGED <<dir, ver>>
    /\ doing' = [doing EXCEPT ![m] = Resting]
    /\ UNCHANGED <<pkl, invalid, lock, call, told>>

\* The reconstructor's purge removes files, then tells hashes.invalid.
Purge(m, s) ==
  /\ doing[m] = Resting
  /\ dir[s] = "full"
  /\ \E left \in {"empty", "full"} : Change(s, left)
  /\ doing' = [doing EXCEPT ![m] = [op |-> "purge", on |-> {s}]]
  /\ UNCHANGED <<pkl, invalid, lock, call, told>>

PurgeInvalidates(m) ==
  \E s \in doing[m].on :
    /\ doing[m].op = "purge"
    /\ invalidate_hash(s)
    /\ doing' = [doing EXCEPT ![m] = Resting]
    /\ UNCHANGED <<dir, ver, pkl, lock, call>>

\* get_hashes(skip_rehash) and yield_hashes only mark.
MarkOnly(s) == /\ s \notin invalid \/ told[s] # ver[s]
               /\ pkl.updated < MaxUpdated
               /\ invalidate_hash(s)
               /\ UNCHANGED <<dir, ver, pkl, lock, call, doing>>

MutatorDies(m) == /\ MayFail /\ doing[m] # Resting
                  /\ doing' = [doing EXCEPT ![m] = Resting]
                  /\ UNCHANGED <<dir, ver, pkl, invalid, lock, call, told>>

-----------------------------------------------------------------------------
(* get_hashes.                                                             *)

At(r, place) == call[r].at = place

Get(r, suffixes) ==
  /\ At(r, "idle") /\ pkl.updated < MaxUpdated
  /\ call' = [call EXCEPT ![r] = [Idle EXCEPT !.at = "consolidate",
                                   !.recalculate = suffixes, !.since = told]]
  /\ UNCHANGED <<dir, ver, pkl, invalid, lock, doing, told>>

write_hashes(entries, valid) ==
  pkl' = [valid |-> valid, updated |-> pkl.updated + 1, of |-> entries]

\* Mutant: returns what it read, without the marks it wrote.
ConsolidateReturnsRead(r) ==
  /\ At(r, "consolidate") /\ lock = NoOne
  /\ call' = [call EXCEPT ![r].at = IF invalid = {} THEN "adopt" ELSE "clear",
                          ![r].orig = pkl]
  /\ IF invalid = {} THEN UNCHANGED <<pkl, lock>>
     ELSE /\ write_hashes([s \in Suffixes |-> IF s \in invalid THEN Dirty
                                              ELSE pkl.of[s]], pkl.valid)
          /\ lock' = r
  /\ UNCHANGED <<dir, ver, invalid, doing, told>>

\* consolidate_hashes takes the lock, reads both files and marks in
\* hashes.pkl what hashes.invalid names.
ConsolidateMarks(r) ==
  /\ At(r, "consolidate") /\ lock = NoOne
  /\ IF invalid = {}
     THEN /\ call' = [call EXCEPT ![r].at = "adopt", ![r].orig = pkl]
          /\ UNCHANGED <<pkl, lock>>
     ELSE /\ write_hashes([s \in Suffixes |-> IF s \in invalid THEN Dirty
                                              ELSE pkl.of[s]], pkl.valid)
          /\ lock' = r
          /\ call' = [call EXCEPT ![r].at = "clear", ![r].orig = pkl']
  /\ UNCHANGED <<dir, ver, invalid, doing, told>>

\* Mutant: keeps the lock.
ConsolidateKeepsLock(r) ==
  /\ At(r, "clear")
  /\ invalid' = {}
  /\ call' = [call EXCEPT ![r].at = "adopt"]
  /\ UNCHANGED <<dir, ver, pkl, lock, doing, told>>

\* ... then it empties hashes.invalid and gives the lock back.
ConsolidateClears(r) ==
  /\ At(r, "clear")
  /\ invalid' = {}
  /\ lock' = NoOne
  /\ call' = [call EXCEPT ![r].at = "adopt"]
  /\ UNCHANGED <<dir, ver, pkl, doing, told>>

\* Any exception out of consolidate_hashes is logged and means "not valid".
ConsolidateFails(r) ==
  /\ At(r, "consolidate") \/ At(r, "clear")
  /\ MayFail /\ pkl.updated < MaxUpdated
  /\ lock' = IF lock = r THEN NoOne ELSE lock
  /\ call' = [call EXCEPT ![r].at = "adopt", ![r].orig = Unreadable]
  /\ UNCHANGED <<dir, ver, pkl, invalid, doing, told>>

\* An invalid cache is read again, without the lock, and rebuilt from a
\* listing; a valid one is what the caller works on.
Adopt(r) ==
  LET c == call[r]
      fresh == ~c.orig.valid
      orig == IF fresh THEN pkl ELSE c.orig
      work == IF fresh THEN Unreadable.of ELSE orig.of
      listdir == fresh \/ c.listdir
      dirty(w) == [s \in Suffixes |-> IF s \in c.recalculate THEN Dirty
                                      ELSE w[s]]
  IN /\ At(r, "adopt")
     /\ call' = [call EXCEPT ![r] =
          [c EXCEPT !.orig = orig, !.listdir = listdir, !.modified = listdir,
                    !.work = IF listdir THEN work ELSE dirty(work),
                    !.at = IF listdir THEN "list" ELSE "hash",
                    !.todo = IF listdir THEN {} ELSE
                      {s \in Suffixes : dirty(work)[s].kind = "dirty"}]]
     /\ UNCHANGED <<dir, ver, pkl, invalid, lock, doing, told>>

\* The listing adds the suffixes the cache does not name.
List(r) ==
  LET c == call[r]
      listed == [s \in Suffixes |->
                   IF s \in c.recalculate THEN Dirty
                   ELSE IF c.work[s].kind # "none" THEN c.work[s]
                   ELSE IF dir[s] = "absent" THEN Absent(ver[s])
                   ELSE Dirty]
  IN /\ At(r, "list")
     /\ call' = [call EXCEPT ![r] =
          [c EXCEPT !.at = "hash", !.work = listed,
                    !.todo = {s \in Suffixes : listed[s].kind = "dirty"}]]
     /\ UNCHANGED <<dir, ver, pkl, invalid, lock, doing, told>>

Settle(r, s, entry) ==
  call' = [call EXCEPT ![r].work[s] = entry, ![r].todo = @ \ {s},
                       ![r].modified = TRUE, ![r].hashing = {}]

\* _hash_suffix_dir lists a suffix directory and digests its files: what it
\* saw is the version of this moment.
HashReads(r, s) ==
  /\ At(r, "hash") /\ call[r].hashing = {} /\ s \in call[r].todo
  /\ IF dir[s] = "absent"
     THEN Settle(r, s, Absent(ver[s]))
     ELSE call' = [call EXCEPT ![r].hashing = {<<s, ver[s]>>}]
  /\ UNCHANGED <<dir, ver, pkl, invalid, lock, doing, told>>

\* It then tries to remove the directory; one that is gone loses its key.
HashEnds(r) ==
  \E h \in call[r].hashing :
    LET s == h[1] IN
    /\ IF dir[s] = "full" THEN Settle(r, s, Sum(h[2])) /\ UNCHANGED dir
       ELSE /\ Settle(r, s, Absent(ver[s]))
            /\ dir' = [dir EXCEPT ![s] = "absent"]
    /\ UNCHANGED <<ver, pkl, invalid, lock, doing, told>>

\* An error while hashing is logged and leaves the suffix dirty.
HashFails(r) ==
  \E h \in call[r].hashing :
    /\ MayFail
    /\ Settle(r, h[1], Dirty)
    /\ UNCHANGED <<dir, ver, pkl, invalid, lock, doing, told>>

\* The answer is all the caller keeps.
Answer(c) == [Idle EXCEPT !.at = "done", !.work = c.work, !.since = c.since]

\* Mutant: no race detection.
WriteBackUnchecked(r) ==
  /\ At(r, "hash") /\ call[r].todo = {} /\ call[r].hashing = {}
  /\ call' = [call EXCEPT ![r] = Answer(call[r])]
  /\ IF ~call[r].modified THEN UNCHANGED pkl
     ELSE lock = NoOne /\ write_hashes(call[r].work, TRUE)
  /\ UNCHANGED <<dir, ver, invalid, lock, doing, told>>

\* Under the lock: write if hashes.pkl is still what was read, else start
\* over.
WriteBack(r) ==
  LET c == call[r] IN
  /\ At(r, "hash") /\ c.todo = {} /\ c.hashing = {}
  /\ IF ~c.modified
     THEN call' = [call EXCEPT ![r] = Answer(c)] /\ UNCHANGED pkl
     ELSE /\ lock = NoOne
          /\ IF pkl = c.orig
             THEN /\ write_hashes(c.work, TRUE)
                  /\ call' = [call EXCEPT ![r] = Answer(c)]
             ELSE /\ call' = [call EXCEPT ![r] =
                       [Idle EXCEPT !.at = "consolidate",
                          !.recalculate = c.recalculate,
                          !.listdir = c.listdir, !.since = c.since]]
                  /\ UNCHANGED pkl
  /\ UNCHANGED <<dir, ver, invalid, lock, doing, told>>

Return(r) == /\ At(r, "done")
             /\ call' = [call EXCEPT ![r] = Idle]
             /\ UNCHANGED <<dir, ver, pkl, invalid, lock, doing, told>>

\* The process dies, or the lock times out: its lock is released.
RehasherDies(r) ==
  /\ MayFail /\ ~At(r, "idle")
  /\ lock' = IF lock = r THEN NoOne ELSE lock
  /\ call' = [call EXCEPT ![r] = Idle]
  /\ UNCHANGED <<dir, ver, pkl, invalid, doing, told>>

Rehash(r) == \/ ConsolidateMarks(r) \/ ConsolidateClears(r)
             \/ Adopt(r) \/ List(r)
             \/ \E s \in Suffixes : HashReads(r, s)
             \/ HashEnds(r) \/ WriteBack(r) \/ Return(r)

Mutate(m) == \/ \E s \in Suffixes, op \in {"put", "quarantine"} : Announce(m, s, op)
             \/ FinalizePut(m) \/ Quarantine(m) \/ PurgeInvalidates(m)
             \/ \E s \in Suffixes : Purge(m, s)
             \/ MutatorDies(m)

Next == \/ \E m \in Mutators : Mutate(m)
        \/ \E s \in Suffixes : MarkOnly(s)
        \/ \E r \in Rehashers :
             \/ \E suffixes \in SUBSET Suffixes : Get(r, suffixes)
             \/ Rehash(r) \/ ConsolidateFails(r) \/ HashFails(r)
             \/ RehasherDies(r)

Spec == Init /\ [][Next]_vars

\* A thread of the pool keeps running: each rehash takes its steps.
FairSpec == Spec /\ \A r \in Rehashers : WF_vars(Rehash(r))

-----------------------------------------------------------------------------
TypeOK ==
  /\ dir \in [Suffixes -> {"absent", "empty", "full"}]
  /\ ver \in [Suffixes -> Nat]
  /\ pkl \in Pkl
  /\ invalid \subseteq Suffixes
  /\ lock \in Rehashers \cup {NoOne}
  /\ doing \in [Mutators -> [op : {"none", "put", "quarantine", "purge"},
                             on : SUBSET Suffixes]]
  /\ told \in [Suffixes -> Nat]
  /\ call \in [Rehashers ->
       [at : {"idle", "consolidate", "clear", "adopt", "list", "hash", "done"},
        orig : Pkl, work : [Suffixes -> Entry], recalculate : SUBSET Suffixes,
        listdir : BOOLEAN, todo : SUBSET Suffixes, modified : BOOLEAN,
        hashing : SUBSET (Suffixes \X Nat), since : [Suffixes -> Nat]]]

Covers(entry, v) == entry.kind = "dirty" \/ entry.ver >= v

\* However calls of get_hashes interleave with each other and with requests,
\* and wherever one of them dies, an invalidation is not lost: until a digest
\* at least as new as it is recorded, it is in hashes.invalid or its suffix
\* is marked dirty in hashes.pkl.
InvalidationKept ==
  \A s \in Suffixes : \/ s \in invalid
                      \/ ~pkl.valid
                      \/ Covers(pkl.of[s], told[s])

\* It is checked with the types it relies on.
HashesInv == TypeOK /\ InvalidationKept

\* What get_hashes answers is at least as new, for every suffix, as the last
\* invalidation made before the call: the race detection never lets a caller
\* return digests older than what it was told.
AnswersWhatItWasTold ==
  \A r \in Rehashers, s \in Suffixes :
    At(r, "done") => Covers(call[r].work[s], call[r].since[s])

\* Every get_hashes ends: starting over because somebody else wrote first
\* cannot go on once the others are done.
GetHashesEnds == \A r \in Rehashers : ~At(r, "idle") ~> At(r, "idle")
=============================================================================
