------------------------------- MODULE Device -------------------------------
(***************************************************************************)
(* The Device (device.py): requests for one name, as greenthreads of one   *)
(* hub.  A hub step runs from one wait to the next, and is one action; the *)
(* calls that wait run on threads of the pool meanwhile.                   *)
(*                                                                         *)
(* An Object is named by the request whose PUT or DELETE made its entry.   *)
(* What the engine does of itself is abstracted to the decisions made      *)
(* about the name, in order (module Submit), the part of them that can be  *)
(* read and the part that is durable (module Engine): log, applied and     *)
(* durable.                                                                *)
(***************************************************************************)
EXTENDS Naturals, Sequences, FiniteSets, SequencesExt

CONSTANTS
    Requests,
    First,       \* the Object that may hold the name before any request
    Missing,     \* what a search that finds nothing resolves to
    Nobody,
    Kinds,       \* what the requests may be: "GET", "PUT", "DELETE", "POST"
    Stamps,      \* the timestamps clients bring
    MetaChunks,  \* BOUND: chunks it takes to read an Object's metadata
    Attempts,    \* how often a read that raced a put is tried
    CanFail      \* whether a search may fail

ASSUME DeviceAssumption ==
    /\ Kinds \subseteq {"GET", "PUT", "DELETE", "POST"}
    /\ Stamps \subseteq Nat \ {0, 1}
    /\ MetaChunks \in Nat \ {0} /\ Attempts \in Nat \ {0}
    /\ CanFail \in BOOLEAN
    /\ {First, Missing, Nobody, "search"} \cap Requests = {}
    /\ First # Missing /\ Nobody \notin {First, Missing}
    /\ "search" \notin {First, Missing, Nobody}

VARIABLES
    req,         \* the requests
    map,         \* what the name maps to: Nobody, "search", or an Object
    search,      \* the search in progress, or the last one
    log,         \* the decisions about the name, in order
    applied,     \* how many of them can be read
    halfway,     \* the next one's first rename can be, its second cannot
    durable      \* how many of them are durable

vars == <<req, map, search, log, applied, halfway, durable>>
engine == <<log, applied, halfway, durable>>

-----------------------------------------------------------------------------
(* The name, as decided and as BlueStore has it.                           *)

\* data: when the Object took the name; post: when its newest POST was made.
Decision == [obj : Requests \cup {First}, data : Stamps \cup {1},
             post : Stamps \cup {0}]

None == [obj |-> Missing, data |-> 0, post |-> 0]
At(k) == IF k = 0 THEN None ELSE log[k]
Now == At(Len(log))

Holds(o) == Now.obj = o

\* The last of the first k decisions about o, 0 if there is none.
LatestOf(o, k) ==
    CHOOSE i \in 0 .. k :
        /\ i > 0 => log[i].obj = o
        /\ \A j \in i + 1 .. k : log[j].obj # o

MetaOf(o, k) == At(LatestOf(o, k)).post

\* The metadata version of o: how many POSTs have rewritten it.
VersionOf(o) == Cardinality({i \in 2 .. Len(log) : log[i].obj = o /\ log[i - 1].obj = o})

\* o's address as its state gives it, and whether its entry can be read there.
Address(o) == IF Holds(o) THEN "ordinary" ELSE "temporary"

Found(o, at) ==
    IF at = "ordinary" THEN At(applied).obj = o /\ ~halfway
    ELSE \/ At(applied).obj # o /\ LatestOf(o, applied) # 0
         \/ At(applied).obj = o /\ halfway

-----------------------------------------------------------------------------
(* The requests.                                                           *)

\* file: the Object of its DiskFile; cur: the one the call it is in works on;
\* opened: its DiskFile is open, and it is in the Device's own call; ver, got,
\* tries: of the metadata read in progress; at: the address a read began with;
\* target: the decision a sync waits for; how: the request's outcome.
New(kind, ts) ==
    [kind |-> kind, ts |-> ts, pc |-> "open", opened |-> FALSE,
     file |-> Nobody, cur |-> Nobody, ver |-> 0, got |-> <<>>, tries |-> 0,
     at |-> "ordinary", target |-> 0, how |-> "none"]

Init ==
    /\ req \in [Requests -> {New(k, ts) : k \in Kinds, ts \in Stamps}]
    /\ map = Nobody
    /\ search = [pc |-> "none", found |-> Nobody]
    /\ log \in {<<>>, <<[obj |-> First, data |-> 1, post |-> 0]>>}
    /\ applied = Len(log) /\ durable = Len(log) /\ halfway = FALSE

Deleted(o) == o \in Requests /\ req[o].kind = "DELETE"
Writes(r) == req[r].kind \in {"PUT", "DELETE"}

Becomes(r, x) == req' = [req EXCEPT ![r] = x]

\* A request that ends lets go of what it holds.
Ended(r, how) == [New(req[r].kind, req[r].ts) EXCEPT !.pc = "done", !.how = how]

Holders(o) == {r \in Requests : o \in {req[r].file, req[r].cur}}
In(pc) == {r \in Requests : req[r].pc = pc}

\* The map is weak: it remembers an Object while some request holds it, and a
\* search while it runs or somebody still has its failure to hear of.
Resolved ==
    IF map = "search"
    THEN IF search.pc # "failed" \/ In("raising") # {} THEN map ELSE Nobody
    ELSE IF map # Nobody /\ Holders(map) # {} THEN map ELSE Nobody

-----------------------------------------------------------------------------
(* open(): from the name to the Object everybody shares.                   *)

\* Nobody holds an Object: this request starts a search.
Search(r) ==
    /\ req[r].pc = "open" /\ Resolved = Nobody
    /\ map' = "search" /\ search' = [pc |-> "loading", found |-> Nobody]
    /\ Becomes(r, [req[r] EXCEPT !.pc = "waiting", !.cur = Nobody])
    /\ UNCHANGED engine

\* It joins the search in progress; one that has failed fails it too.
Join(r) ==
    /\ req[r].pc = "open" /\ Resolved = "search"
    /\ Becomes(r, IF search.pc = "failed" THEN Ended(r, "failed")
                  ELSE [req[r] EXCEPT !.pc = "waiting", !.cur = Nobody])
    /\ UNCHANGED <<map, search, engine>>

\* Object.open(), on a thread: it finds what can be read.
Load ==
    /\ search.pc = "loading"
    /\ search' = [pc |-> "loaded",
                  found |-> IF halfway THEN Missing ELSE At(applied).obj]
    /\ UNCHANGED <<req, map, engine>>

\* A mutant of FindEnds: those who waited are not woken.
FindEndsSilently ==
    /\ search.pc = "loaded"
    /\ map' = search.found /\ search' = [pc |-> "none", found |-> Nobody]
    /\ UNCHANGED <<req, engine>>

\* find() ends: the Object is in the map, and those who waited hold it.
FindEnds ==
    /\ search.pc = "loaded"
    /\ map' = search.found /\ search' = [pc |-> "none", found |-> Nobody]
    /\ req' = [r \in Requests |->
                  IF r \in In("waiting")
                  THEN [req[r] EXCEPT !.pc = "open", !.cur = search.found]
                  ELSE req[r]]
    /\ UNCHANGED engine

FindFails ==
    /\ CanFail /\ search.pc = "loading"
    /\ search' = [pc |-> "failed", found |-> Nobody]
    /\ req' = [r \in Requests |->
                  IF r \in In("waiting") THEN [req[r] EXCEPT !.pc = "raising"]
                  ELSE req[r]]
    /\ UNCHANGED <<map, engine>>

Raise(r) ==
    /\ req[r].pc = "raising"
    /\ Becomes(r, Ended(r, "failed"))
    /\ UNCHANGED <<map, search, engine>>

-----------------------------------------------------------------------------
(* read_metadata(): sync, then read in chunks, again from the start if a   *)
(* POST has moved the version meanwhile, or if a put has moved the Object. *)

Reading(r, o) ==
    [req[r] EXCEPT !.pc = "sync", !.cur = o, !.ver = VersionOf(o), !.got = <<>>]

\* What an Object's retrieval leads to, for a request that has it.
Opens(r) ==
    LET o == Resolved IN
    /\ req[r].pc = "open" /\ o \notin {Nobody, "search"}
    /\ o # Missing \/ ~req[r].opened
    /\ Becomes(r,
          IF req[r].opened THEN [Reading(r, o) EXCEPT !.tries = 1]
          ELSE IF Writes(r)
          THEN [req[r] EXCEPT !.file = o, !.cur = o, !.opened = TRUE]
          ELSE IF o = Missing THEN Ended(r, "missing")
          ELSE [Reading(r, o) EXCEPT !.file = o, !.tries = 1])
    /\ UNCHANGED <<map, search, engine>>

\* sync(), on a thread: which transaction is the Object's latest.
SyncReads(r) ==
    /\ req[r].pc \in {"sync", "settle"}
    /\ Becomes(r, [req[r] EXCEPT
          !.pc = IF @ = "sync" THEN "synced" ELSE "settled",
          !.target = LatestOf(req[r].cur, Len(log))])
    /\ UNCHANGED <<map, search, engine>>

ReadsNext(r) == [req[r] EXCEPT !.pc = "chunk", !.at = Address(req[r].cur)]

SyncEnds(r) ==
    /\ req[r].pc = "synced" /\ durable >= req[r].target
    /\ Becomes(r, ReadsNext(r))
    /\ UNCHANGED <<map, search, engine>>

\* The engine's read, on a thread, at the address the Object has when it
\* starts; it fails with ChangedError if the Object is not there.
ReadChunk(r) ==
    LET o == req[r].cur IN
    /\ req[r].pc = "chunk"
    /\ \E at \in {req[r].at, Address(o)} :
          Becomes(r, IF Found(o, at)
                     THEN [req[r] EXCEPT !.pc = "read",
                                         !.got = Append(@, MetaOf(o, applied))]
                     ELSE [req[r] EXCEPT !.pc = "changed"])
    /\ UNCHANGED <<map, search, engine>>

\* Back on the hub, with ChangedError, after the wait before a retry.
Retry(r) ==
    /\ req[r].pc = "changed"
    /\ Becomes(r, IF req[r].tries < Attempts
                  THEN [Reading(r, req[r].cur) EXCEPT !.tries = @ + 1]
                  ELSE Ended(r, "failed"))
    /\ UNCHANGED <<map, search, engine>>

\* A mutant of Moved: versions are not compared.
MovedUnnoticed(r) == FALSE

Moved(r) == VersionOf(req[r].cur) # req[r].ver
Whole(r) == req[r].pc = "read" /\ ~Moved(r) /\ Len(req[r].got) = MetaChunks

\* Back on the hub with a chunk, but not the last one.
Continue(r) ==
    /\ req[r].pc = "read" /\ ~Whole(r)
    /\ Becomes(r, IF Moved(r) THEN Reading(r, req[r].cur) ELSE ReadsNext(r))
    /\ UNCHANGED <<map, search, engine>>

-----------------------------------------------------------------------------
(* What a request does with the metadata it has read.                      *)

\* DiskFile.open() is over: a GET goes on to the bytes, a POST to the Device.
FileOpened(r) ==
    /\ Whole(r) /\ ~req[r].opened
    /\ Becomes(r, IF Deleted(req[r].cur) THEN Ended(r, "missing")
                  ELSE [req[r] EXCEPT !.opened = TRUE,
                           !.pc = IF req[r].kind = "GET" THEN "body" ELSE "open"])
    /\ UNCHANGED <<map, search, engine>>

BodyEnds(r) ==
    /\ req[r].pc = "body"
    /\ Becomes(r, Ended(r, "ok"))
    /\ UNCHANGED <<map, search, engine>>

\* open(with_metadata=True) looks again if the name has moved on meanwhile.
Again(r) ==
    /\ Whole(r) /\ req[r].opened /\ Resolved # req[r].cur
    /\ Becomes(r, [req[r] EXCEPT !.pc = "open"])
    /\ UNCHANGED <<map, search, engine>>

Decide(obj, data, post) ==
    log' = Append(log, [obj |-> obj, data |-> data, post |-> post])

\* A mutant of Put: it is answered as soon as the name is handed over.
PutUnsynced(r, o, post) ==
    LET ts == req[r].ts IN
    IF ts > At(LatestOf(o, Len(log))).data
    THEN /\ Decide(r, ts, IF post > ts THEN post ELSE 0)
         /\ map' = r
         /\ Becomes(r, Ended(r, "ok"))
    ELSE Becomes(r, Ended(r, "lost")) /\ UNCHANGED <<log, map>>

\* put() and delete(), given what the name resolves to and the POST it carries:
\* a POST newer than the PUT goes on with the name.  One that loses is dropped.
Put(r, o, post) ==
    LET ts == req[r].ts IN
    IF ts > At(LatestOf(o, Len(log))).data
    THEN /\ Decide(r, ts, IF post > ts THEN post ELSE 0)
         /\ map' = r
         /\ Becomes(r, [req[r] EXCEPT !.pc = "settle", !.cur = r])
    ELSE Becomes(r, Ended(r, "lost")) /\ UNCHANGED <<log, map>>

\* write_metadata(): a POST that is not newer than the PUT and the POST it
\* finds changes nothing.
Post(r, o, post) ==
    LET ts   == req[r].ts
        data == At(LatestOf(o, Len(log))).data
    IN
    IF o # Missing /\ ts > data /\ ts > post
    THEN /\ Decide(o, data, ts)
         /\ Becomes(r, [req[r] EXCEPT !.pc = "settle", !.cur = o])
         /\ UNCHANGED map
    ELSE Becomes(r, Ended(r, "lost")) /\ UNCHANGED <<log, map>>

Acts(r, o, post) ==
    /\ IF Writes(r) THEN Put(r, o, post) ELSE Post(r, o, post)
    /\ UNCHANGED <<search, applied, halfway, durable>>

\* The call decides in the step in which the search or the read came back.
DecideMissing(r) ==
    /\ req[r].pc = "open" /\ req[r].opened /\ Resolved = Missing
    /\ Acts(r, Missing, 0)

\* A mutant of DecideRead: the map is not looked at again after the read.
DecideReadStale(r) ==
    /\ Whole(r) /\ req[r].opened
    /\ Acts(r, req[r].cur, Last(req[r].got))

DecideRead(r) ==
    /\ Whole(r) /\ req[r].opened /\ Resolved = req[r].cur
    /\ Acts(r, req[r].cur, Last(req[r].got))

Acknowledge(r) ==
    /\ req[r].pc = "settled" /\ durable >= req[r].target
    /\ Becomes(r, Ended(r, "ok"))
    /\ UNCHANGED <<map, search, engine>>

-----------------------------------------------------------------------------
(* The engine: decisions can be read in their order, the two renames of a  *)
(* put one at a time, and become durable in it.                            *)

Renames(k) == At(k).obj # At(k - 1).obj /\ k > 1

ApplyHalf ==
    /\ applied < Len(log) /\ ~halfway /\ Renames(applied + 1)
    /\ halfway' = TRUE
    /\ UNCHANGED <<req, map, search, log, applied, durable>>

Apply ==
    /\ applied < Len(log) /\ (Renames(applied + 1) => halfway)
    /\ applied' = applied + 1 /\ halfway' = FALSE
    /\ UNCHANGED <<req, map, search, log, durable>>

Commit ==
    /\ durable < applied
    /\ durable' = durable + 1
    /\ UNCHANGED <<req, map, search, log, applied, halfway>>

-----------------------------------------------------------------------------
Hub(r) ==
    \/ Search(r) \/ Join(r) \/ Raise(r) \/ Opens(r)
    \/ SyncReads(r) \/ SyncEnds(r) \/ ReadChunk(r) \/ Retry(r) \/ Continue(r)
    \/ FileOpened(r) \/ BodyEnds(r) \/ Again(r)
    \/ DecideMissing(r) \/ DecideRead(r) \/ Acknowledge(r)

Find == Load \/ FindEnds

Next ==
    \/ \E r \in Requests : Hub(r)
    \/ Find \/ FindFails
    \/ ApplyHalf \/ Apply \/ Commit

Spec == Init /\ [][Next]_vars

-----------------------------------------------------------------------------
Objects == Requests \cup {First, Missing}

TypeOK ==
    /\ \A r \in Requests :
          LET x == req[r] IN
          /\ x.kind \in Kinds /\ x.ts \in Stamps /\ x.opened \in BOOLEAN
          /\ x.file \in Objects \cup {Nobody} /\ x.cur \in Objects \cup {Nobody}
          /\ x.got \in Seq(Stamps \cup {0}) /\ Len(x.got) <= MetaChunks
          /\ x.tries \in 0 .. Attempts /\ x.target \in 0 .. Len(log)
    /\ map \in Objects \cup {Nobody, "search"}
    /\ map = "search" <=> search.pc # "none"
    /\ log \in Seq(Decision)
    /\ durable <= applied /\ applied <= Len(log)
    /\ halfway => applied < Len(log)

(* Metadata that is read is whole and current, never parts of two, and all *)
(* of it is durable: when read_metadata() returns, each chunk is what the  *)
(* Object's newest POST left, though POSTs and puts run between any two of *)
(* its waits (ARCHITECTURE.md "The Device").                               *)
ReadsWholeAndCurrent ==
    \A r \in Requests : Whole(r) =>
        LET latest == LatestOf(req[r].cur, Len(log)) IN
        /\ \A i \in 1 .. MetaChunks : req[r].got[i] = At(latest).post
        /\ durable >= latest

(* What the name resolves to is what was decided last, whatever BlueStore  *)
(* has been handed: an Object in the map, if anybody holds it, and one     *)
(* that a search comes back with, though put's renames are read one at a   *)
(* time (ARCHITECTURE.md "The Device").  It is checked with the types it   *)
(* relies on.                                                              *)
ResolvesToHolder ==
    /\ TypeOK
    /\ Resolved \in {Nobody, "search", Now.obj}
    /\ search.pc = "loaded" => search.found = Now.obj

(* However requests interleave, the newest PUT or DELETE has the name, and *)
(* a POST that was made is there until something newer than it is.         *)
NewestWins ==
    \A j \in 1 .. Len(log) : \A i \in 1 .. j - 1 :
        /\ log[j].data >= log[i].data
        /\ log[i].post > 0 => \/ log[j].post >= log[i].post
                              \/ log[j].data >= log[i].post

(* A request that has been answered is durable, or something newer that    *)
(* made it void is: one that loses is answered only once the winner it     *)
(* lost to is on disk (device.py put(), delete(), write_metadata()).       *)
AnsweredIsDurable ==
    \A r \in Requests :
        /\ Writes(r) /\ req[r].how \in {"ok", "lost"} => At(durable).data >= req[r].ts
        /\ req[r].kind = "POST" /\ req[r].how \in {"ok", "lost"} =>
              At(durable).post >= req[r].ts \/ At(durable).data >= req[r].ts

(* Every request is answered: nobody waits for a search, a sync or another *)
(* request for ever (device.py open(), read_metadata()).  A read is started *)
(* again at most as often as there are Attempts and POSTs, so no behaviour *)
(* goes on for ever, and it is enough that none stops early.               *)
NobodyStuck == (\A r \in Requests : req[r].pc = "done") \/ ENABLED Next
=============================================================================
