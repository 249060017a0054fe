--------------------------------- MODULE Audit ---------------------------------
(***************************************************************************)
(* One type of auditor on one storage node: the generator of audit         *)
(* locations and the file that lets a restarted sweep resume,              *)
(* swift_patches/obj/bs_diskfile.py.                                       *)
(*                                                                         *)
(* A sweep visits the devices in random order and of each the partitions   *)
(* its directory lists, in the directory's order.  Before each partition   *)
(* it saves the partitions still to do, itself included, unless it saved   *)
(* less than a minute ago.  The caller, Swift's auditor, audits what the   *)
(* generator yields, removes the saved files once a sweep has ended, and   *)
(* starts another sweep after one that ended, raised or died.              *)
(***************************************************************************)
EXTENDS Naturals, Sequences, SequencesExt

CONSTANTS Devices,
          Layout,      \* device -> the names its directory lists, in order
          Away,        \* devices that fail check_drive
          Odd,         \* names that are no directory or have no data: skipped
          Bad,         \* names whose listing fails in any other way
          MayFail,     \* whether errors come and go: of a bad name, and of
                       \* reading or writing the status file
          MaxDeaths    \* bound on the deaths of the auditor

VARIABLES status,    \* device -> its auditor_status file
          recent,    \* devices whose status file is less than a minute old
          unvisited, \* devices the sweep has yet to visit
          parts,     \* partitions to do on the device it visits
          sweep,     \* where the sweep is: its step and its device
          left,      \* history: device -> what the round has not audited
          deaths

vars == <<status, recent, unvisited, parts, sweep, left, deaths>>

Names(d) == Range(Layout[d])
Sound(d) == Names(d) \ (Odd \cup Bad)

NoFile == [is |-> "none", partitions |-> <<>>]
Torn   == [is |-> "torn", partitions |-> <<>>]
Saved(ps) == [is |-> "list", partitions |-> ps]

AtRest == [at |-> "rest", on |-> {}]
In(step, d) == [at |-> step, on |-> {d}]

Init == /\ status = [d \in Devices |-> NoFile]
        /\ recent = {}
        /\ unvisited = {} /\ parts = <<>> /\ sweep = AtRest
        /\ left = [d \in Devices |-> Sound(d)]
        /\ deaths = 0

-----------------------------------------------------------------------------
(* The status file.                                                        *)

\* A file that is missing, unreadable or no JSON gives the whole directory.
get_auditor_status(d) ==
  {IF status[d].is = "list" THEN status[d].partitions ELSE Layout[d]}
    \cup (IF MayFail THEN {Layout[d]} ELSE {})

\* One write a minute, but the empty list always.  A write that fails leaves
\* the file as it was, or truncated.
update_auditor_status(d, ps) ==
  IF d \in recent /\ ps # <<>>
  THEN UNCHANGED <<status, recent>>
  ELSE \/ /\ status' = [status EXCEPT ![d] = Saved(ps)]
          /\ recent' = recent \cup {d}
       \/ MayFail /\ UNCHANGED <<status, recent>>
       \/ /\ MayFail
          /\ status' = [status EXCEPT ![d] = Torn]
          /\ recent' = recent \cup {d}

\* Every device's file is removed; a round begins.
clear_auditor_status == [d \in Devices |-> NoFile]

-----------------------------------------------------------------------------
(* object_audit_location_generator.                                        *)

Begin == /\ sweep = AtRest
         /\ sweep' = [AtRest EXCEPT !.at = "between"]
         /\ unvisited' = Devices
         /\ UNCHANGED <<status, recent, parts, left, deaths>>

\* A device that is not mounted is passed over.
PassOver(d) == /\ sweep.at = "between" /\ d \in unvisited \cap Away
               /\ unvisited' = unvisited \ {d}
               /\ UNCHANGED <<status, recent, parts, sweep, left, deaths>>

Visit(d) == /\ sweep.at = "between" /\ d \in unvisited \ Away
            /\ unvisited' = unvisited \ {d}
            /\ parts' \in get_auditor_status(d)
            /\ sweep' = In("partition", d)
            /\ UNCHANGED <<status, recent, left, deaths>>

\* Mutant: what is saved begins after the partition about to be read.
SaveTheRest(d) == /\ sweep = In("partition", d) /\ parts # <<>>
                  /\ update_auditor_status(d, Tail(parts))
                  /\ sweep' = In("list", d)
                  /\ UNCHANGED <<unvisited, parts, left, deaths>>

\* Before each partition, what is left from it on.
Save(d) == /\ sweep = In("partition", d) /\ parts # <<>>
           /\ update_auditor_status(d, parts)
           /\ sweep' = In("list", d)
           /\ UNCHANGED <<unvisited, parts, left, deaths>>

\* listdir of the partition and of its suffixes: on to what it holds, or to
\* the next one if there is nothing to list.
List(d) == /\ sweep = In("list", d)
           /\ Head(parts) \in Bad => MayFail
           /\ IF Head(parts) \in Odd
              THEN parts' = Tail(parts) /\ sweep' = In("partition", d)
              ELSE UNCHANGED parts /\ sweep' = In("yield", d)
           /\ UNCHANGED <<status, recent, unvisited, left, deaths>>

\* Any other error ends the generator, and with it the sweep.
Raise(d) == /\ sweep = In("list", d) /\ Head(parts) \in Bad
            /\ sweep' = AtRest
            /\ unvisited' = {} /\ parts' = <<>>
            /\ UNCHANGED <<status, recent, left, deaths>>

\* The caller has audited every location of the partition and asks for more.
Audited(d) == /\ sweep = In("yield", d)
              /\ left' = [left EXCEPT ![d] = @ \ {Head(parts)}]
              /\ parts' = Tail(parts)
              /\ sweep' = In("partition", d)
              /\ UNCHANGED <<status, recent, unvisited, deaths>>

\* The device is done.
Done(d) == /\ sweep = In("partition", d) /\ parts = <<>>
           /\ update_auditor_status(d, <<>>)
           /\ sweep' = [AtRest EXCEPT !.at = "between"]
           /\ UNCHANGED <<unvisited, parts, left, deaths>>

\* The caller has exhausted the generator.
End == /\ sweep.at = "between" /\ unvisited = {}
       /\ sweep' = AtRest
       /\ status' = clear_auditor_status
       /\ recent' = {}
       /\ left' = [d \in Devices |-> Sound(d)]
       /\ UNCHANGED <<unvisited, parts, deaths>>

\* The process may die anywhere, in the midst of a write too.
Die == /\ sweep # AtRest /\ deaths < MaxDeaths
       /\ deaths' = deaths + 1
       /\ sweep' = AtRest
       /\ unvisited' = {} /\ parts' = <<>>
       /\ \/ UNCHANGED <<status, recent>>
          \/ \E d \in sweep.on : /\ sweep.at = "partition"
                                 /\ d \notin recent \/ parts = <<>>
                                 /\ status' = [status EXCEPT ![d] = Torn]
                                 /\ recent' = recent \cup {d}
       /\ UNCHANGED left

MinutePasses == /\ recent # {}
                /\ recent' = {}
                /\ UNCHANGED <<status, unvisited, parts, sweep, left, deaths>>

Step == \/ Begin \/ End
        \/ \E d \in Devices : \/ PassOver(d) \/ Visit(d) \/ Save(d) \/ List(d)
                              \/ Raise(d) \/ Audited(d) \/ Done(d)

Next == Step \/ Die \/ MinutePasses

Spec == Init /\ [][Next]_vars

-----------------------------------------------------------------------------
Rest(d) == {SubSeq(Layout[d], i, Len(Layout[d])) : i \in 1..(Len(Layout[d]) + 1)}

TypeOK ==
  /\ \A d \in Devices : /\ status[d] \in {NoFile, Torn} \cup {Saved(ps) : ps \in Rest(d)}
                        /\ left[d] \subseteq Sound(d)
                        /\ sweep.on = {d} => parts \in Rest(d)
  /\ recent \subseteq Devices /\ unvisited \subseteq Devices
  /\ sweep \in {AtRest, [AtRest EXCEPT !.at = "between"]}
               \cup {In(step, d) : step \in {"partition", "list", "yield"}, d \in Devices}
  /\ sweep.on = {} => parts = <<>>
  /\ deaths \in 0..MaxDeaths

\* A status file that can be read names everything its round has yet to
\* audit, whatever was written, torn or read back in vain before.
NothingForgotten ==
  \A d \in Devices : status[d].is = "list" => left[d] \subseteq Range(status[d].partitions)

\* A round ends only when every partition that can be listed was audited to
\* its end in it, however often the auditor died and resumed.
RoundIsWhole ==
  sweep.at = "between" /\ unvisited = {} => \A d \in Devices \ Away : left[d] = {}
================================================================================
