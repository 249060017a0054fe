------------------------------- MODULE PartPower -------------------------------
(***************************************************************************)
(* The two directories an object has while the partition power of the ring *)
(* is being increased, swift_patches/obj/bs_diskfile.py.                   *)
(*                                                                         *)
(* Until the increase the ring points at the old one, afterwards at the    *)
(* new one.  A writer that comes before it writes to the old directory,    *)
(* links its file into the new one and cleans up both; one that comes      *)
(* afterwards writes to the new one and cleans up both.  Swift's relinker, *)
(* which is external, links what was there before, and after the increase  *)
(* empties the old directory.  A writer keeps the directory it began with. *)
(*                                                                         *)
(* Which files count, and are cleaned up, is what OnDisk and EC say.       *)
(***************************************************************************)
EXTENDS DiskRules, Integers

CONSTANTS Writers,
          MaxTime,     \* timestamps are 1..MaxTime
          MaxFails     \* bound on the links and renames in the new directory
                       \* that fail, or that a writer dies before

\* The rules of EC for one fragment index, those of OnDisk without .meta.
E == INSTANCE EC WITH Writers <- {}, Frags <- {1}, MaxOld <- 1, MaxWrites <- 0,
       Legacy <- FALSE, MayPurge <- FALSE, MayFail <- FALSE, files <- {},
       ever <- {}, old <- 1, late <- {}, writer <- <<>>, acked <- {},
       purged <- {}

R == INSTANCE OnDisk WITH Writers <- {}, Readers <- {}, MaxOld <- 1,
       MaxWrites <- 0, files <- {}, ever <- {}, old <- 1, late <- {},
       writer <- <<>>, reader <- <<>>, died <- FALSE

VARIABLES coded,     \* whether the policy is erasure-coded
          dir,       \* the two directories
          ever,      \* history: every name there ever was
          raised,    \* whether the ring has the new partition power
          relinker,  \* where the relinker is, and the files it has to link
          writer,    \* writer -> what it is doing
          acked,     \* history: the files of writes answered well
          unlinked   \* history: files that were not linked or not renamed

vars == <<coded, dir, ever, raised, relinker, writer, acked, unlinked>>

Time == 1..MaxTime
Data(t) == E!DataFile(t, 1, FALSE)
Tombstone(t) == E!OtherFile("ts", t)
File == UNION {{Data(t), E!Durable(Data(t)), Tombstone(t)} : t \in Time}

Obsolete(fs) == IF coded THEN E!Live(fs).obsolete
                ELSE R!get_ondisk_files({}, fs).obsolete

\* What a reader of the directory finds: the timestamp of the data or the
\* tombstone that counts.
Shows(fs) ==
  LET info == E!Live(fs)
      plain == R!get_ondisk_files({}, fs)
  IN IF coded THEN Largest({0} \cup {f.ts : f \in info.data \cup info.ts})
     ELSE Largest({0} \cup {f.ts : f \in plain.data \cup plain.ts})

Ring == IF raised THEN "new" ELSE "old"
Other(d) == IF d = "old" THEN "new" ELSE "old"

Resting == [at |-> "idle", in |-> "old", file |-> {}, spoilt |-> FALSE]

First == IF coded THEN E!Durable(Data(1)) ELSE Data(1)

Init == /\ coded \in BOOLEAN
        /\ \E fs \in {{}, {First}} : /\ dir = [old |-> fs, new |-> {}]
                                   /\ ever = fs /\ acked = fs
        /\ raised = FALSE
        /\ relinker = [at |-> "start", todo |-> {}]
        /\ writer = [w \in Writers |-> Resting]
        /\ unlinked = {}

MayFail == Cardinality(unlinked) < MaxFails

-----------------------------------------------------------------------------
(* Writers.                                                                *)

\* The request's partition is the ring's.
Open(w) == /\ writer[w] = Resting
           /\ writer' = [writer EXCEPT ![w].at = "put", ![w].in = Ring]
           /\ UNCHANGED <<coded, dir, ever, raised, relinker, acked, unlinked>>

IsFragment(f) == coded /\ f.ext = "data"

\* A fragment awaits its commit, anything else is followed by a cleanup.
Then(w, f) == IF IsFragment(f) THEN "commit" ELSE "clean"

\* _finalize_put: the rename.
FinalizePut(w, f) ==
  /\ writer[w].at = "put"
  /\ \A g \in ever : g.ts # f.ts
  /\ dir' = [dir EXCEPT ![writer[w].in] = @ \cup {f}]
  /\ ever' = ever \cup {f}
  /\ writer' = [writer EXCEPT ![w].file = {f},
                  ![w].at = IF writer[w].in = "old" THEN "link" ELSE Then(w, f)]
  /\ UNCHANGED <<coded, raised, relinker, acked, unlinked>>

\* Mutant: the file is moved.
relink_moves(f) == IF f \in dir.old
                   THEN [old |-> dir.old \ {f}, new |-> dir.new \cup {f}] ELSE dir

\* relink_paths: a target that is gone is no error, nor a link that is there.
relink_paths(f) == IF f \in dir.old THEN [dir EXCEPT !.new = @ \cup {f}] ELSE dir

\* A link that fails is logged.
Link(w) ==
  \E f \in writer[w].file :
    /\ writer[w].at = "link"
    /\ \/ dir' = relink_paths(f) /\ UNCHANGED unlinked
       \/ MayFail /\ UNCHANGED dir /\ unlinked' = unlinked \cup {f}
    /\ writer' = [writer EXCEPT ![w].at = Then(w, f)]
    /\ UNCHANGED <<coded, ever, raised, relinker, acked>>

Renamed(fs, f) == (fs \ {f}) \cup {E!Durable(f)}

\* _finalize_durable: the rename in the writer's directory ...
Commit(w) ==
  \E f \in writer[w].file :
    LET in == writer[w].in
    IN /\ writer[w].at = "commit" /\ f \in dir[in]
       /\ dir' = [dir EXCEPT ![in] = Renamed(@, f)]
       /\ ever' = ever \cup {E!Durable(f)}
       /\ writer' = [writer EXCEPT ![w].at = IF in = "old" THEN "follow" ELSE "clean"]
       /\ UNCHANGED <<coded, raised, relinker, acked, unlinked>>

\* ... where the data may be gone ...
CommitMissing(w) ==
  \E f \in writer[w].file :
    LET info == E!get_ondisk_files(dir[writer[w].in], f.frag, E!NoPrefs)
        cleaned == \/ \E t \in info.ts : t.ts > f.ts
                   \/ \E d \in info.durable : d.ts >= f.ts
    IN /\ writer[w].at = "commit" /\ f \notin dir[writer[w].in]
       /\ acked' = IF cleaned THEN acked \cup {f} ELSE acked
       /\ writer' = [writer EXCEPT ![w] = Resting]
       /\ UNCHANGED <<coded, dir, ever, raised, relinker, unlinked>>

\* ... and, from the old directory, of the link in the new one.  If that
\* fails it is logged; but the except clause unbinds exc, and the test of it
\* at the end of _finalize_durable then raises.
Follow(w) ==
  \E f \in writer[w].file :
    LET fails == f \notin dir.new
    IN /\ writer[w].at = "follow"
       /\ \/ /\ ~fails
             /\ dir' = [dir EXCEPT !.new = Renamed(@, f)]
             /\ writer' = [writer EXCEPT ![w].at = "clean"]
             /\ UNCHANGED unlinked
          \/ /\ fails \/ MayFail
             /\ writer' = [writer EXCEPT ![w].at = "clean", ![w].spoilt = TRUE]
             /\ unlinked' = unlinked \cup {f}
             /\ UNCHANGED dir
       /\ UNCHANGED <<coded, ever, raised, relinker, acked>>

\* cleanup_ondisk_files of the writer's directory; OnDisk and EC take it
\* apart.
Clean(w) ==
  LET in == writer[w].in
  IN /\ writer[w].at = "clean"
     /\ dir' = [dir EXCEPT ![in] = @ \ Obsolete(@)]
     /\ writer' = [writer EXCEPT ![w].at = "cleanOther"]
     /\ UNCHANGED <<coded, ever, raised, relinker, acked, unlinked>>

\* _part_power_cleanup: the other one; then the write is answered.
CleanOther(w) ==
  /\ writer[w].at = "cleanOther"
  /\ dir' = [dir EXCEPT ![Other(writer[w].in)] = @ \ Obsolete(@)]
  /\ writer' = [writer EXCEPT ![w] = Resting]
  /\ acked' = IF writer[w].spoilt THEN acked ELSE acked \cup writer[w].file
  /\ UNCHANGED <<coded, ever, raised, relinker, unlinked>>

Dies(w) == /\ MayFail /\ writer[w] # Resting
           /\ writer' = [writer EXCEPT ![w] = Resting]
           /\ unlinked' = unlinked \cup writer[w].file
           /\ UNCHANGED <<coded, dir, ever, raised, relinker, acked>>

-----------------------------------------------------------------------------
(* The relinker and the ring.                                              *)

\* Each of its two passes lists the old directory.
RelinkerLists ==
  /\ relinker.at = IF raised THEN "linked" ELSE "start"
  /\ relinker' = [at |-> IF raised THEN "emptying" ELSE "linking", todo |-> dir.old]
  /\ UNCHANGED <<coded, dir, ever, raised, writer, acked, unlinked>>

\* It links each file; the second pass then removes it from the old one.
RelinkerLinks ==
  \E f \in relinker.todo :
    /\ relinker' = [relinker EXCEPT !.todo = @ \ {f}]
    /\ dir' = IF relinker.at = "emptying"
              THEN [relink_paths(f) EXCEPT !.old = @ \ {f}] ELSE relink_paths(f)
    /\ UNCHANGED <<coded, ever, raised, writer, acked, unlinked>>

\* A link that fails has its pass repeated.
RelinkerFails ==
  /\ MaxFails > 0 /\ relinker.todo # {}
  /\ relinker' = [at |-> IF raised THEN "linked" ELSE "start", todo |-> {}]
  /\ UNCHANGED <<coded, dir, ever, raised, writer, acked, unlinked>>

RelinkerEnds ==
  /\ relinker.at \in {"linking", "emptying"} /\ relinker.todo = {}
  /\ relinker' = [relinker EXCEPT !.at = IF raised THEN "emptied" ELSE "linked"]
  /\ UNCHANGED <<coded, dir, ever, raised, writer, acked, unlinked>>

\* The new ring is deployed once the first pass has ended.
Raise == /\ ~raised /\ relinker.at = "linked"
         /\ raised' = TRUE
         /\ UNCHANGED <<coded, dir, ever, relinker, writer, acked, unlinked>>

Relinker == RelinkerLists \/ RelinkerLinks \/ RelinkerFails \/ RelinkerEnds

Write(w) == \/ Open(w) \/ Link(w)
            \/ \E t \in Time : FinalizePut(w, Data(t)) \/ FinalizePut(w, Tombstone(t))
            \/ Commit(w) \/ CommitMissing(w) \/ Follow(w)
            \/ Clean(w) \/ CleanOther(w) \/ Dies(w)

Next == (\E w \in Writers : Write(w)) \/ Relinker \/ Raise

Spec == Init /\ [][Next]_vars

-----------------------------------------------------------------------------
Steps == {"idle", "put", "link", "commit", "follow", "clean", "cleanOther"}

TypeOK ==
  /\ coded \in BOOLEAN
  /\ ever \subseteq File
  /\ dir \in [{"old", "new"} -> SUBSET ever]
  /\ raised \in BOOLEAN
  /\ relinker \in [at : {"start", "linking", "linked", "emptying", "emptied"},
                   todo : SUBSET ever]
  /\ writer \in [Writers -> [at : Steps, in : {"old", "new"}, file : SUBSET ever,
                             spoilt : BOOLEAN]]
  /\ \A w \in Writers :
       /\ writer[w].in = "new" => raised /\ writer[w].at \notin {"link", "follow"}
       /\ writer[w].at \in {"commit", "follow"} \/ writer[w].spoilt => coded
  /\ acked \cup unlinked \subseteq ever

\* A write that was answered well is found, or what replaced it is, in the
\* directory the ring points at, before, while and after the increase, unless
\* a newer write is still under way; and in one of the two, whatever failed
\* and whoever died.
AckedIsFound ==
  \A f \in acked :
    /\ \/ f.ts <= Shows(dir[Ring])
       \/ unlinked # {}
       \/ \E w \in Writers : \E g \in writer[w].file : g.ts > f.ts
    /\ f.ts <= Shows(dir.old \cup dir.new)
=============================================================================
