-------------------------------- MODULE Store --------------------------------
(***************************************************************************)
(* The life of a store: how a process makes it, grows it and mounts it     *)
(* (Backend's constructor), how the requests of an object server wait for  *)
(* that (device.py), and how it is let go of.                              *)
(*                                                                         *)
(* A store is a directory with one block file, whose size is a number of   *)
(* units here; BlueStore keeps the size it knows of in its label.  At most *)
(* one process has it mounted.  The documents ask for one process per      *)
(* store; what several do to each other is what they promise is an error   *)
(* and nothing worse.                                                      *)
(***************************************************************************)
EXTENDS Naturals, FiniteSets

CONSTANTS
    Processes,
    Capacities,   \* capacities that are asked for; 0 is none
    Default,      \* DEFAULT_CAPACITY
    Collections,  \* the collections of a store
    Requests,     \* requests that reach an object server
    Together,     \* processes may run at the same time
    There,        \* the store is there to begin with
    MaxStarts,    \* BOUND: processes started in one behaviour
    NoOne

VARIABLES
    block,        \* size of the block file; 0 if there is none, or it is empty
    made,         \* mkfs has been done
    label,        \* the size BlueStore knows of
    collections,  \* those that exist
    holder,       \* who has the store mounted
    proc,         \* where each process is
    asks,         \* the process each request is at, and its answer
    starts

store == <<block, made, label, collections>>
vars == <<store, holder, proc, asks, starts>>

Gone == [at |-> "gone", asked |-> 0, target |-> 0, missing |-> {}, new |-> {}]

Init ==
    /\ made = There /\ collections = (IF There THEN Collections ELSE {})
    /\ block = (IF There THEN Default ELSE 0) /\ label = block
    /\ holder = NoOne /\ starts = 0
    /\ proc = [p \in Processes |-> Gone]
    /\ asks = [r \in Requests |-> [of |-> NoOne, answer |-> "none"]]

Goes(p, at) == proc' = [proc EXCEPT ![p].at = at]
Is(p, at) == proc[p].at = at

-----------------------------------------------------------------------------
(* The constructor.                                                        *)

Starts(p, capacity) ==
    /\ Is(p, "gone") /\ starts < MaxStarts
    /\ Together \/ \A q \in Processes : Is(q, "gone")
    /\ starts' = starts + 1
    /\ proc' = [proc EXCEPT ![p] = [Gone EXCEPT !.at = "look", !.asked = capacity]]
    /\ UNCHANGED <<store, holder, asks>>

\* No block file, or an empty one that a process left that died before the
\* next step.
Fresh == block = 0

Looks(p) ==
    /\ Is(p, "look")
    /\ proc' = [proc EXCEPT ![p] =
          IF Fresh THEN [@ EXCEPT !.at = "resize",
                            !.target = IF proc[p].asked = 0 THEN Default ELSE proc[p].asked]
          ELSE [@ EXCEPT !.at = "compare"]]
    /\ UNCHANGED <<store, holder, asks, starts>>

Compares(p) ==
    /\ Is(p, "compare")
    /\ proc' = [proc EXCEPT ![p] =
          IF block < proc[p].asked THEN [@ EXCEPT !.at = "resize", !.target = proc[p].asked]
          ELSE [@ EXCEPT !.at = "mkfs"]]
    /\ UNCHANGED <<store, holder, asks, starts>>

Resizes(p) ==
    /\ Is(p, "resize")
    /\ block' = proc[p].target
    /\ Goes(p, "mkfs")
    /\ UNCHANGED <<made, label, collections, holder, asks, starts>>

\* mkfs of a store that is made does nothing.
Makes(p) ==
    /\ Is(p, "mkfs")
    /\ IF made THEN UNCHANGED <<made, label>> ELSE made' = TRUE /\ label' = block
    /\ Goes(p, "label")
    /\ UNCHANGED <<block, collections, holder, asks, starts>>

\* Mutant: only who asked for more grows it.
ReadsLabelAsked(p) ==
    /\ Is(p, "label")
    /\ Goes(p, IF proc[p].target # 0 /\ label < block THEN "grow" ELSE "mount")
    /\ UNCHANGED <<store, holder, asks, starts>>

ReadsLabel(p) ==
    /\ Is(p, "label")
    /\ Goes(p, IF label < block THEN "grow" ELSE "mount")
    /\ UNCHANGED <<store, holder, asks, starts>>

\* Mounted, to find out whether somebody else has it, and unmounted.
GrowMounts(p) ==
    /\ Is(p, "grow")
    /\ IF holder = NoOne THEN holder' = p /\ Goes(p, "unmount")
       ELSE Goes(p, "failed") /\ UNCHANGED holder
    /\ UNCHANGED <<store, asks, starts>>

GrowUnmounts(p) ==
    /\ Is(p, "unmount")
    /\ holder' = NoOne
    /\ Goes(p, "expand")
    /\ UNCHANGED <<store, asks, starts>>

\* expand_devices of a store that another process has open kills ours.
Expands(p) ==
    /\ Is(p, "expand")
    /\ IF holder = NoOne THEN label' = block /\ Goes(p, "mount")
       ELSE Goes(p, "killed") /\ UNCHANGED label
    /\ UNCHANGED <<block, made, collections, holder, asks, starts>>

Mounts(p) ==
    /\ Is(p, "mount")
    /\ IF holder = NoOne THEN holder' = p /\ Goes(p, "collect")
       ELSE Goes(p, "failed") /\ UNCHANGED holder
    /\ UNCHANGED <<store, asks, starts>>

Missing == Collections \ collections

\* Those that are missing are prepared,
Collects(p) ==
    /\ Is(p, "collect")
    /\ proc' = [proc EXCEPT ![p].missing = Missing, ![p].at = "submit"]
    /\ UNCHANGED <<store, holder, asks, starts>>

\* and handed over.  To make a collection that exists kills the process.
Submits(p, c) ==
    /\ Is(p, "submit") /\ c \in proc[p].missing
    /\ IF c \in collections THEN Goes(p, "killed") /\ UNCHANGED collections
       ELSE /\ collections' = collections \cup {c}
            /\ proc' = [proc EXCEPT ![p].missing = @ \ {c}, ![p].new = @ \cup {c}]
    /\ UNCHANGED <<block, made, label, holder, asks, starts>>

\* The Device clears away what a crash left (module Engine), then it serves;
\* a command does its work.
Opens(p) ==
    /\ Is(p, "submit") /\ proc[p].missing = {}
    /\ Goes(p, "open")
    /\ UNCHANGED <<store, holder, asks, starts>>

\* What was handed over is durable some time later.
Settles(p) ==
    /\ proc[p].new # {}
    /\ proc' = [proc EXCEPT ![p].new = {}]
    /\ UNCHANGED <<store, holder, asks, starts>>

\* The engine is let go of, or the constructor threw.
Ends(p) ==
    /\ Is(p, "failed") \/ (Is(p, "open") /\ proc[p].new = {})
    /\ \A r \in Requests : asks[r].of = p => asks[r].answer # "waits"
    /\ proc' = [proc EXCEPT ![p] = Gone]
    /\ holder' = IF holder = p THEN NoOne ELSE holder
    /\ UNCHANGED <<store, asks, starts>>

\* A process dies at any point, or because it was killed.  What is not durable
\* may be gone, each collection on its own.
Dies(p) ==
    /\ ~Is(p, "gone")
    /\ proc' = [proc EXCEPT ![p] = Gone]
    /\ holder' = IF holder = p THEN NoOne ELSE holder
    /\ \E lost \in SUBSET proc[p].new : collections' = collections \ lost
    /\ asks' = [r \in Requests |-> IF asks[r].of = p /\ asks[r].answer = "waits"
                                   THEN [asks[r] EXCEPT !.answer = "lost"] ELSE asks[r]]
    /\ UNCHANGED <<block, made, label, starts>>

-----------------------------------------------------------------------------
(* An object server's requests: the first starts the mount, each waits for *)
(* it, those that come later as well; if it failed, all of them fail.      *)

Asks(r, p) ==
    /\ asks[r].answer = "none" /\ proc[p].at \notin {"gone", "killed"}
    /\ asks' = [asks EXCEPT ![r] = [of |-> p, answer |-> "waits"]]
    /\ UNCHANGED <<store, holder, proc, starts>>

Answers(r) ==
    /\ asks[r].answer = "waits"
    /\ proc[asks[r].of].at \in {"open", "failed"}
    /\ asks' = [asks EXCEPT ![r].answer =
                    IF Is(asks[r].of, "open") THEN "served" ELSE "refused"]
    /\ UNCHANGED <<store, holder, proc, starts>>

Constructs(p) ==
    \/ Looks(p) \/ Compares(p) \/ Resizes(p) \/ Makes(p) \/ ReadsLabel(p)
    \/ GrowMounts(p) \/ GrowUnmounts(p) \/ Expands(p) \/ Mounts(p) \/ Collects(p)
    \/ (\E c \in Collections : Submits(p, c)) \/ Opens(p)

Next ==
    \/ \E p \in Processes, capacity \in Capacities : Starts(p, capacity)
    \/ \E p \in Processes : Constructs(p) \/ Settles(p) \/ Ends(p) \/ Dies(p)
    \/ \E r \in Requests, p \in Processes : Asks(r, p)
    \/ \E r \in Requests : Answers(r)

Spec == Init /\ [][Next]_vars

-----------------------------------------------------------------------------
\* The types, and that whoever has come past its mount has the store.
TypeOK ==
    /\ block \in Capacities \cup {0, Default} /\ label \in Capacities \cup {0, Default}
    /\ made \in BOOLEAN /\ collections \subseteq Collections
    /\ holder \in Processes \cup {NoOne}
    /\ holder # NoOne => proc[holder].at \in {"unmount", "collect", "submit", "open", "killed"}
    /\ \A p \in Processes : proc[p].at \in {"collect", "submit", "open"} => holder = p
    /\ starts \in 0 .. MaxStarts

(* Whatever processes before it were asked for and wherever they died, the *)
(* store a process comes to use is as large as it asked, knows all of its  *)
(* block file but what another process has just added, and has all its     *)
(* collections.                                                            *)
Usable ==
    \A p \in Processes : Is(p, "open") =>
        /\ made /\ collections = Collections
        /\ label # 0 /\ label >= proc[p].asked
        /\ label <= block /\ (label < block => Together)

(* ARCHITECTURE.md "Capacity": a store somebody else holds fails "with an  *)
(* error rather than a crash"; no process dies of what another has done,   *)
(* nor of what one before it left.                                         *)
NoneKilled == \A p \in Processes : ~Is(p, "killed")
===============================================================================
