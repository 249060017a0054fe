------------------------------- MODULE MCNode -------------------------------
(***************************************************************************)
(* For TLC: the machines of a storage node that share no variable with     *)
(* each other or with the rest, each with the bounds it is checked under.  *)
(* Since none can see another move, they are not interleaved: machine says *)
(* which one runs, and the others stay where they begin.                   *)
(***************************************************************************)
EXTENDS Naturals, FiniteSets, Sequences, TLC

CONSTANTS p1, p2, c1, c2, r1, r2, NoOne, w1, w2, d1, d2, d3, k1, k2, k3, file,
          db1, db2, db3

VARIABLES machine,
  block, made, label, collections, holder, proc, asks, starts,
  store, there, opener, reader, put, accused, broken,
  status, recent, unvisited, parts, sweep, left, deaths,
  coded, dir, ever, raised, relinker, writer, acked, unlinked,
  present, unreadable, rows, known, search, fetching, answer, changes

storeVars == <<block, made, label, collections, holder, proc, asks, starts>>
xattrVars == <<store, there, opener, reader, put, accused, broken>>
auditVars == <<status, recent, unvisited, parts, sweep, left, deaths>>
powerVars == <<coded, dir, ever, raised, relinker, writer, acked, unlinked>>
infoVars == <<present, unreadable, rows, known, search, fetching, answer, changes>>
vars == <<machine, storeVars, xattrVars, auditVars, powerVars, infoVars>>

\* One process after the other, as the documents ask, that make and grow a
\* store.
Alone == INSTANCE Store WITH
  Processes <- {p1, p2}, Capacities <- {0, 2, 3}, Default <- 1,
  Collections <- {c1, c2}, Requests <- {}, Together <- FALSE,
  There <- FALSE, MaxStarts <- 3

\* Two at a time that want one that is there and large enough.
Held == INSTANCE Store WITH
  Processes <- {p1, p2}, Capacities <- {0, 1}, Default <- 1,
  Collections <- {c1, c2}, Requests <- {r1, r2}, Together <- TRUE,
  There <- TRUE, MaxStarts <- 3

\* Metadata in the kernel's attributes on a disk that works, and behind
\* bs_xattr on one that may fail.
Kernel == INSTANCE Xattr WITH
  Readers <- {r1, r2}, Chunks <- 3, UseBsXattr <- FALSE, MayFail <- FALSE,
  holder <- opener, writer <- put
Tool == INSTANCE Xattr WITH
  Readers <- {r1, r2}, Chunks <- 2, UseBsXattr <- TRUE, MayFail <- TRUE,
  holder <- opener, writer <- put

\* Three devices, one of them away; the status file is in the listing of the
\* device it lies in.
Layout == (d1 :> <<k1, file, k2>>) @@ (d2 :> <<k2, k3>>) @@ (d3 :> <<k1>>)
Auditor == INSTANCE Audit WITH
  Devices <- {d1, d2, d3}, Away <- {d3}, Odd <- {file}, Bad <- {k3},
  MayFail <- TRUE, MaxDeaths <- 1

\* Two writers next to the relinker, and one whose links may fail.
Writers2 == INSTANCE PartPower WITH
  Writers <- {w1, w2}, MaxTime <- 2, MaxFails <- 0
Failing == INSTANCE PartPower WITH
  Writers <- {w1}, MaxTime <- 2, MaxFails <- 1

Agent == INSTANCE DbInfo WITH
  Dbs <- {db1, db2, db3}, Expiring <- {db3}, Sizes <- {3},
  Bounds <- <<1, 3>>, MayBreak <- TRUE, MaxChanges <- 2,
  there <- present, broken <- unreadable

\* What does not run begins in one state only.
Init ==
  /\ machine \in {"alone", "held", "kernel", "tool", "auditor", "writers",
                  "failing", "agent"}
  /\ IF machine = "held" THEN Held!Init ELSE Alone!Init
  /\ IF machine = "tool" THEN Tool!Init ELSE Kernel!Init
  /\ machine \in {"kernel", "tool"} \/ store["old"].sum = "true"
  /\ Auditor!Init
  /\ IF machine = "failing" THEN Failing!Init ELSE Writers2!Init
  /\ machine \in {"writers", "failing"} \/ (coded = FALSE /\ ever = {})
  /\ Agent!Init
  /\ machine = "agent" \/ present = {}

Next ==
  \/ /\ machine = "alone" /\ Alone!Next
     /\ UNCHANGED <<machine, xattrVars, auditVars, powerVars, infoVars>>
  \/ /\ machine = "held" /\ Held!Next
     /\ UNCHANGED <<machine, xattrVars, auditVars, powerVars, infoVars>>
  \/ /\ machine = "kernel" /\ Kernel!Next
     /\ UNCHANGED <<machine, storeVars, auditVars, powerVars, infoVars>>
  \/ /\ machine = "tool" /\ Tool!Next
     /\ UNCHANGED <<machine, storeVars, auditVars, powerVars, infoVars>>
  \/ /\ machine = "auditor" /\ Auditor!Next
     /\ UNCHANGED <<machine, storeVars, xattrVars, powerVars, infoVars>>
  \/ /\ machine = "writers" /\ Writers2!Next
     /\ UNCHANGED <<machine, storeVars, xattrVars, auditVars, infoVars>>
  \/ /\ machine = "failing" /\ Failing!Next
     /\ UNCHANGED <<machine, storeVars, xattrVars, auditVars, infoVars>>
  \/ /\ machine = "agent" /\ Agent!Next
     /\ UNCHANGED <<machine, storeVars, xattrVars, auditVars, powerVars>>

Spec == Init /\ [][Next]_vars

-----------------------------------------------------------------------------
\* Whatever processes before it were asked for and wherever they died, the
\* store a process comes to use is as large as it asked and whole, and what it
\* found did not kill it; and of two that come at once one has it and the
\* other fails (Backend's constructor, ARCHITECTURE.md "Capacity").
StoreIsUsable ==
  /\ machine = "alone" => Alone!TypeOK /\ Alone!Usable /\ Alone!NoneKilled
  /\ machine = "held" => Held!TypeOK /\ Held!Usable /\ Held!NoneKilled

\* However many read an object and add its missing checksum at once, and a
\* PUT renames in a new file among them: what can be found has all its
\* metadata, a checksum that was added is the true one, and nothing sound is
\* quarantined; behind bs_xattr, on a failing disk and with readers that
\* collide, no checksum is false (read_metadata, write_metadata).
MetadataIsWhole ==
  /\ machine = "kernel" => /\ Kernel!TypeOK /\ Kernel!VisibleIsWhole
                           /\ Kernel!SumIsTrue /\ Kernel!AccusedIsCorrupt
  /\ machine = "tool" => Tool!TypeOK /\ Tool!SumIsTrue

\* What an auditor that died resumes from names all it has yet to audit, and a
\* round that ends has audited everything that can be listed
\* (object_audit_location_generator).
NothingForgotten ==
  machine = "auditor" =>
    Auditor!TypeOK /\ Auditor!NothingForgotten /\ Auditor!RoundIsWhole

\* While the partition power is being increased, a write that was answered
\* well is found where the ring points, and is lost in no case (relink_paths,
\* _part_power_cleanup).
AckedIsFound ==
  /\ machine = "writers" => Writers2!TypeOK /\ Writers2!AckedIsFound
  /\ machine = "failing" => Failing!TypeOK /\ Failing!AckedIsFound

\* An instance number the daemon has learnt means the same database for good,
\* no database has two, and a row counts in the bucket of its size
\* (swiftdbinfo's __add_dbs, generate_named_bucket_query).
NumbersAreKept ==
  /\ [][machine = "agent" =>
           \A i \in DOMAIN known : i \in DOMAIN known' /\ known'[i] = known[i]]_vars
  /\ [](machine = "agent" =>
           Agent!TypeOK /\ Agent!OneNumberEach /\ Agent!BucketsAreTight)
=============================================================================
