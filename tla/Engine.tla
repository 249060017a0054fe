------------------------------- MODULE Engine -------------------------------
(***************************************************************************)
(* The engine's Objects over BlueStore: how an Object is written beside    *)
(* the one that holds the name, how put() hands the name over, what a      *)
(* reader sees meanwhile, what a crash leaves and how it is swept.         *)
(*                                                                         *)
(* Entries live at addresses.  Every change is a transaction, a sequence   *)
(* of operations, prepared in the step that decides it; transactions reach *)
(* BlueStore in that order (module Submit), their operations become        *)
(* visible one at a time, and a crash keeps whole transactions.            *)
(*                                                                         *)
(* The engine's caller is the Device.  What the engine asks of it          *)
(* (ARCHITECTURE.md "What the caller serialises" and "The Device") is in   *)
(* the guards that mention held: one Object at a time resolves a name, it  *)
(* is what a put replaces, and it is let go of only when it is durable.    *)
(***************************************************************************)
EXTENDS Naturals, Sequences, FiniteSets, SequencesExt

CONSTANTS
    Names,
    Collection(_),  \* the collection a name hashes to
    Objects,     \* Objects alive at one time (BOUND)
    NoObject,
    Stamps,      \* the timestamps clients bring
    Ticks,       \* the readings of the engine's clock, as estimates (BOUND)
    MaxChunks,   \* BOUND: writes per Object
    MaxMetas,    \* BOUND: metadata written per Object
    MaxReads,    \* BOUND: reads in progress at one time
    MaxQueue,    \* BOUND: transactions prepared and not handed over
    MaxHanded,   \* BOUND: transactions handed over and not durable
    MaxCrashes   \* BOUND: crashes in one behaviour

ASSUME EngineAssumption ==
    /\ Stamps \subseteq Nat \ {0} /\ Ticks \subseteq Nat \ {0}
    /\ NoObject \notin Objects
    /\ {MaxChunks, MaxMetas, MaxReads, MaxQueue, MaxHanded, MaxCrashes} \subseteq Nat

VARIABLES
    objs,        \* the Objects, as their Stat and what has been written
    held,        \* held[n]: the Object the caller resolves n to
    reads,       \* reads[o]: the read of o in progress
    last,        \* estimate()'s last reading
    queue,       \* transactions prepared, not yet handed over
    current,     \* the rest of the transaction being handed over
    handed,      \* transactions handed over and not yet durable
    store,       \* what BlueStore answers from
    disk,        \* what it would find after a crash
    phase,       \* "mounted", "sweeping" and then "serving" requests
    crashes,     \* how often the process has died
    aborted      \* BlueStore has met an operation it cannot do

engine == <<objs, held, reads, last>>
bluestore == <<queue, current, handed, store, disk>>
vars == <<engine, bluestore, phase, crashes, aborted>>

-----------------------------------------------------------------------------
(* BlueStore: entries, operations, transactions.                           *)

\* "id" stands for the bytes of one writer: the life of the process it was
\* created in and its estimate.
NoWriter == <<>>
NoEntry == [id |-> NoWriter, ts |-> 0, deleted |-> FALSE, old |-> FALSE,
            data |-> <<>>, meta |-> 0]

Touch(at, id)    == [op |-> "touch", at |-> at, id |-> id]
SetAttrs(at, ts, deleted, old) ==
    [op |-> "setattrs", at |-> at, ts |-> ts, deleted |-> deleted, old |-> old]
WriteAt(at, off, id) == [op |-> "write", at |-> at, off |-> off, id |-> id]
SetHeader(at, meta) == [op |-> "header", at |-> at, meta |-> meta]
Rename(from, to) == [op |-> "rename", at |-> from, to |-> to]
Unlink(at)       == [op |-> "remove", at |-> at]

\* The store: what there is at every address, the temporary ones by
\* generation and the ordinary one, which holds the name, at generation 0.
Addresses == [name : Names, temp : {TRUE}, gen : Ticks \cup Stamps]
             \cup [name : Names, temp : {FALSE}, gen : {0}]

Empty == [at \in Addresses |-> NoEntry]
Used(st) == {at \in Addresses : st[at] # NoEntry}

\* Moving an entry onto another, and giving attributes or a header to an
\* entry that is not there, kill the process.
Refused(op, st) ==
    \/ op.op = "rename" /\ st[op.at] # NoEntry /\ st[op.to] # NoEntry
    \/ op.op \in {"setattrs", "header"} /\ st[op.at] = NoEntry

\* A write puts its chunk at its offset: beyond what is there, or over it.
Overwrite(data, off, id) ==
    IF off < Len(data) THEN [data EXCEPT ![off + 1] = id] ELSE Append(data, id)

Apply(op, st) ==
    CASE op.op = "touch" ->
            [st EXCEPT ![op.at] = IF @ = NoEntry THEN [@ EXCEPT !.id = op.id] ELSE @]
      [] op.op = "setattrs" ->
            [st EXCEPT ![op.at] = [@ EXCEPT !.ts = op.ts, !.deleted = op.deleted,
                                            !.old = op.old]]
      [] op.op = "write" ->
            [st EXCEPT ![op.at].data = Overwrite(@, op.off, op.id)]
      [] op.op = "header" -> [st EXCEPT ![op.at].meta = op.meta]
      [] op.op = "rename" ->
            IF st[op.at] = NoEntry THEN st
            ELSE [st EXCEPT ![op.at] = NoEntry, ![op.to] = st[op.at]]
      [] op.op = "remove" -> [st EXCEPT ![op.at] = NoEntry]

ApplyAll(ops, st) ==
    LET after[i \in 0 .. Len(ops)] ==
            IF i = 0 THEN st ELSE Apply(ops[i], after[i - 1])
    IN  after[Len(ops)]

\* A transaction belongs to the collection of its name; "of" is the Object
\* whose done it settles.
Txn(n, o, ops) == [coll |-> Collection(n), of |-> o, ops |-> ops]

Prepare(txn) == Len(queue) < MaxQueue /\ queue' = Append(queue, txn)

-----------------------------------------------------------------------------
(* Objects and their addresses.                                            *)

Writing == {"PRE_WRITE", "IN_WRITE"}

Free == [name |-> NoObject, state |-> "NONE", ts |-> 0, deleted |-> FALSE,
         id |-> NoWriter, written |-> 0, metas |-> 0]

Ordinary(n) == [name |-> n, temp |-> FALSE, gen |-> 0]
Temporary(n, ts) == [name |-> n, temp |-> TRUE, gen |-> ts]

Address(x) ==
    IF x.state \in Writing \cup {"OLD"} THEN Temporary(x.name, x.ts)
                                        ELSE Ordinary(x.name)

Save(x) == SetAttrs(Address(x), x.ts, x.deleted, x.state = "OLD")

\* What load() makes of an entry: its state is derived from where it sits.
StateOf(at, e) == IF ~at.temp THEN "ACTIVE" ELSE IF e.old THEN "OLD" ELSE "IN_WRITE"

Loaded(at, e) ==
    [name |-> at.name, state |-> StateOf(at, e), ts |-> e.ts,
     deleted |-> e.deleted, id |-> e.id, written |-> Len(e.data),
     metas |-> e.meta]

NoRead == [at |-> "none"]
Idle(o) == reads[o] = NoRead

Init ==
    /\ objs = [o \in Objects |-> Free]
    /\ held = [n \in Names |-> NoObject]
    /\ reads = [o \in Objects |-> NoRead]
    /\ last = 0
    /\ queue = <<>> /\ current = <<>> /\ handed = <<>>
    /\ store = Empty /\ disk = Empty
    /\ phase = "mounted" /\ crashes = 0 /\ aborted = FALSE

\* A behaviour goes on while the process lives, and requests wait for the
\* mount, which sweeps the store.
Running == ~aborted /\ phase = "serving"

-----------------------------------------------------------------------------
(* Searching.                                                              *)

\* find() for a name nobody holds an Object of; others wait for this search.
Find(o, n) ==
    /\ Running /\ objs[o] = Free /\ held[n] = NoObject
    /\ objs' = [objs EXCEPT ![o] = [Free EXCEPT !.name = n, !.state = "PRE_SEARCH"]]
    /\ held' = [held EXCEPT ![n] = o]
    /\ UNCHANGED <<reads, last, bluestore, phase, crashes, aborted>>

Open(o) ==
    /\ Running /\ objs[o].state = "PRE_SEARCH"
    /\ LET at == Ordinary(objs[o].name) IN
       objs' = [objs EXCEPT ![o] =
                   IF store[at] # NoEntry THEN Loaded(at, store[at])
                   ELSE [@ EXCEPT !.state = "MISSING"]]
    /\ UNCHANGED <<held, reads, last, bluestore, phase, crashes, aborted>>

-----------------------------------------------------------------------------
(* Writing.                                                                *)

\* estimate(): the clock, but never the same reading twice.
Create(o, n, tick) ==
    /\ Running /\ objs[o] = Free /\ tick > last
    /\ last' = tick
    /\ objs' = [objs EXCEPT ![o] = [Free EXCEPT !.name = n, !.state = "PRE_WRITE",
                                                !.ts = tick,
                                                !.id = <<crashes, tick>>]]
    /\ UNCHANGED <<held, reads, bluestore, phase, crashes, aborted>>

Write(o) ==
    /\ Running /\ objs[o].state \in Writing /\ objs[o].written < MaxChunks
    /\ LET x  == [objs[o] EXCEPT !.state = "IN_WRITE"]
           at == Address(x)
           first == IF objs[o].state = "PRE_WRITE"
                    THEN <<Touch(at, x.id), Save(x)>> ELSE <<>>
       IN  /\ objs' = [objs EXCEPT ![o] = [x EXCEPT !.written = @ + 1]]
           /\ Prepare(Txn(x.name, o,
                          first \o <<WriteAt(at, x.written, x.id)>>))
    /\ UNCHANGED <<held, reads, last, current, handed, store, disk, phase,
                   crashes, aborted>>

\* write_metadata(), of an Object being written (a PUT), of the one that holds
\* the name (a POST), or, deleted, of a new one that is all metadata (a DELETE).
WriteMetadata(o, deleted) ==
    /\ Running /\ objs[o].metas < MaxMetas
    /\ \/ objs[o].state \in Writing
       \/ objs[o].state = "ACTIVE" /\ held[objs[o].name] = o
    /\ deleted => objs[o].state = "PRE_WRITE"
    /\ LET x  == [objs[o] EXCEPT !.state = IF @ = "ACTIVE" THEN @ ELSE "IN_WRITE",
                                 !.metas = @ + 1, !.deleted = @ \/ deleted]
           at == Address(x)
           first == IF objs[o].state = "PRE_WRITE"
                    THEN <<Touch(at, x.id)>> ELSE <<>>
       IN  /\ objs' = [objs EXCEPT ![o] = x]
           /\ Prepare(Txn(x.name, o, first \o <<SetHeader(at, x.metas), Save(x)>>))
    /\ UNCHANGED <<held, reads, last, current, handed, store, disk, phase,
                   crashes, aborted>>

\* Mutants of HandOver: the new holder moves in before the old one is out; the
\* old one is moved out without being marked retired.
HandOverSwapped(prev, next, ts) ==
    LET old == [prev EXCEPT !.state = "OLD"]
        new == [next EXCEPT !.state = "ACTIVE", !.ts = ts]
    IN  <<Rename(Address(next), Address(new)), Save(new)>>
        \o (IF prev.state = "ACTIVE"
            THEN <<Rename(Address(prev), Address(old)), Save(old)>> ELSE <<>>)

HandOverUnsaved(prev, next, ts) ==
    LET old == [prev EXCEPT !.state = "OLD"]
        new == [next EXCEPT !.state = "ACTIVE", !.ts = ts]
    IN  (IF prev.state = "ACTIVE"
         THEN <<Rename(Address(prev), Address(old))>> ELSE <<>>)
        \o <<Rename(Address(next), Address(new)), Save(new)>>

\* The operations of a put: the holder, if there is one, is renamed out and
\* marked old, then the new one takes the name.
HandOver(prev, next, ts) ==
    LET old == [prev EXCEPT !.state = "OLD"]
        new == [next EXCEPT !.state = "ACTIVE", !.ts = ts]
    IN  (IF prev.state = "ACTIVE"
         THEN <<Rename(Address(prev), Address(old)), Save(old)>> ELSE <<>>)
        \o <<Rename(Address(next), Address(new)), Save(new)>>

\* A mutant of Put: the two renames as two transactions.
PutInTwo(o, ts) ==
    LET n == objs[o].name
        p == held[n]
        ops == HandOver(objs[p], objs[o], ts)
    IN
    /\ Running /\ objs[o].state = "IN_WRITE"
    /\ p # NoObject /\ objs[p].state \in {"ACTIVE", "MISSING"}
    /\ ts > objs[p].ts
    /\ IF Len(ops) = 2 THEN Prepare(Txn(n, o, ops))
       ELSE queue' = queue \o <<Txn(n, p, SubSeq(ops, 1, 2)), Txn(n, o, SubSeq(ops, 3, 4))>>
    /\ objs' = [objs EXCEPT ![o].state = "ACTIVE", ![o].ts = ts,
                            ![p].state = IF @ = "ACTIVE" THEN "OLD" ELSE @]
    /\ held' = [held EXCEPT ![n] = o]
    /\ UNCHANGED <<reads, last, current, handed, store, disk, phase, crashes,
                   aborted>>

\* A put that is not newer throws ConflictError and changes nothing.
Put(o, ts) ==
    LET n == objs[o].name
        p == held[n]
    IN
    /\ Running /\ objs[o].state = "IN_WRITE"
    /\ p # NoObject /\ objs[p].state \in {"ACTIVE", "MISSING"}
    /\ ts > objs[p].ts
    /\ Prepare(Txn(n, o, HandOver(objs[p], objs[o], ts)))
    /\ objs' = [objs EXCEPT ![o].state = "ACTIVE", ![o].ts = ts,
                            ![p].state = IF @ = "ACTIVE" THEN "OLD" ELSE @]
    /\ held' = [held EXCEPT ![n] = o]
    /\ UNCHANGED <<reads, last, current, handed, store, disk, phase, crashes,
                   aborted>>

\* Transactions whose commit o.done may be waiting for.
Unsettled(o) ==
    \/ \E i \in 1 .. Len(queue) : queue[i].of = o
    \/ \E i \in 1 .. Len(handed) : handed[i].of = o

\* A mutant of Drop: only what was being written is removed.
DropLeavesOld(o) ==
    LET x == objs[o] IN
    /\ Running /\ x # Free /\ x.state # "PRE_SEARCH" /\ Idle(o)
    /\ x.state = "ACTIVE" => ~Unsettled(o)
    /\ objs' = [objs EXCEPT ![o] = Free]
    /\ held' = IF held[x.name] = o THEN [held EXCEPT ![x.name] = NoObject] ELSE held
    /\ IF x.state = "IN_WRITE"
       THEN Prepare(Txn(x.name, NoObject, <<Unlink(Address(x))>>))
       ELSE UNCHANGED queue
    /\ UNCHANGED <<reads, last, current, handed, store, disk, phase, crashes,
                   aborted>>

\* The last holder lets go.  What holds the name is let go of by whoever made
\* it so only after its sync; what was being written, or retired, is removed.
Drop(o) ==
    LET x == objs[o] IN
    /\ Running /\ x # Free /\ x.state # "PRE_SEARCH" /\ Idle(o)
    /\ x.state = "ACTIVE" => ~Unsettled(o)
    /\ objs' = [objs EXCEPT ![o] = Free]
    /\ held' = IF held[x.name] = o THEN [held EXCEPT ![x.name] = NoObject] ELSE held
    /\ IF x.state \in {"IN_WRITE", "OLD"}
       THEN Prepare(Txn(x.name, NoObject, <<Unlink(Address(x))>>))
       ELSE UNCHANGED queue
    /\ UNCHANGED <<reads, last, current, handed, store, disk, phase, crashes,
                   aborted>>

-----------------------------------------------------------------------------
(* Reading: on a thread of the pool, while the hub goes on deciding.  The  *)
(* address is taken once; the bytes are read there, then the attributes.   *)
(* Code that has to read what it may just have written syncs first         *)
(* (ARCHITECTURE.md "Prepared, submitted, synced"), as device.py's         *)
(* read_metadata(), the first thing any request does with an Object, does. *)

\* o's put is still on its way to the disk.
Taking(o) ==
    LET coming == handed \o queue IN
    \E i \in 1 .. Len(coming) :
        coming[i].of = o /\ \E j \in 1 .. Len(coming[i].ops) :
                               coming[i].ops[j].op = "rename"

ReadStart(o) ==
    /\ Running /\ objs[o].state \in {"ACTIVE", "OLD"} /\ Idle(o) /\ ~Taking(o)
    /\ Cardinality({r \in Objects : ~Idle(r)}) < MaxReads
    /\ reads' = [reads EXCEPT ![o] = [at |-> Address(objs[o]), got |-> "no"]]
    /\ UNCHANGED <<objs, held, last, bluestore, phase, crashes, aborted>>

\* Nothing at the address: the read fails with ChangedError.
ReadBytes(o) ==
    /\ Running /\ ~Idle(o) /\ reads[o].got = "no"
    /\ LET at == reads[o].at IN
       reads' = [reads EXCEPT ![o] =
                   IF store[at] # NoEntry
                   THEN [at |-> at, got |-> "bytes", data |-> store[at].data]
                   ELSE NoRead]
    /\ UNCHANGED <<objs, held, last, bluestore, phase, crashes, aborted>>

\* A mutant of Unchanged: that there is an entry is enough.
StillThere(o) == store[reads[o].at] # NoEntry

\* check(): the entry there now has to carry the Object's timestamp, or the
\* read fails with ChangedError.
Unchanged(o) ==
    store[reads[o].at] # NoEntry /\ store[reads[o].at].ts = objs[o].ts

Check(o) ==
    /\ Running /\ ~Idle(o) /\ reads[o].got = "bytes"
    /\ reads' = [reads EXCEPT ![o] = IF Unchanged(o) THEN [@ EXCEPT !.got = "ok"]
                                     ELSE NoRead]
    /\ UNCHANGED <<objs, held, last, bluestore, phase, crashes, aborted>>

\* The bytes go to the caller.
ReadEnd(o) ==
    /\ Running /\ ~Idle(o) /\ reads[o].got = "ok"
    /\ reads' = [reads EXCEPT ![o] = NoRead]
    /\ UNCHANGED <<objs, held, last, bluestore, phase, crashes, aborted>>

-----------------------------------------------------------------------------
(* BlueStore at work.                                                      *)

\* The next transaction is handed over (submit(), one at a time and in order).
HandNext ==
    /\ ~aborted /\ current = <<>> /\ queue # <<>> /\ Len(handed) < MaxHanded
    /\ current' = Head(queue).ops
    /\ handed' = Append(handed, Head(queue))
    /\ queue' = Tail(queue)
    /\ UNCHANGED <<engine, store, disk, phase, crashes, aborted>>

ApplyOne ==
    /\ ~aborted /\ current # <<>>
    /\ IF Refused(Head(current), store)
       THEN aborted' = TRUE /\ UNCHANGED <<current, store>>
       ELSE /\ store' = Apply(Head(current), store)
            /\ current' = Tail(current)
            /\ UNCHANGED aborted
    /\ UNCHANGED <<engine, queue, handed, disk, phase, crashes>>

\* A transaction commits after those of its collection handed over before it.
Commit(i) ==
    /\ ~aborted /\ i \in 1 .. Len(handed)
    /\ i = Len(handed) => current = <<>>
    /\ \A j \in 1 .. i - 1 : handed[j].coll # handed[i].coll
    /\ disk' = ApplyAll(handed[i].ops, disk)
    /\ handed' = RemoveAt(handed, i)
    /\ UNCHANGED <<engine, queue, current, store, phase, crashes, aborted>>

-----------------------------------------------------------------------------
(* Crash, mount and sweep.                                                 *)

Crash ==
    /\ ~aborted /\ crashes < MaxCrashes
    /\ crashes' = crashes + 1
    /\ objs' = [o \in Objects |-> Free]
    /\ held' = [n \in Names |-> NoObject]
    /\ reads' = [o \in Objects |-> NoRead]
    /\ queue' = <<>> /\ current' = <<>> /\ handed' = <<>>
    /\ store' = disk /\ phase' = "mounted"
    /\ last' = 0
    /\ UNCHANGED <<disk, aborted>>

\* The order a collection is listed in: the temporary space comes first.
Listing(c) ==
    LET here == {a \in Used(store) : Collection(a.name) = c}
    IN  SetToSeq({a \in here : a.temp}) \o SetToSeq({a \in here : ~a.temp})

\* A mutant of Leftovers: only what is marked retired is swept.
LeftoversRetired(c) ==
    {at \in Used(store) : Collection(at.name) = c /\ StateOf(at, store[at]) = "OLD"}

\* scan() up to the first entry that holds a name.
Leftovers(c) ==
    LET l == Listing(c)
        stop == {i \in 1 .. Len(l) : StateOf(l[i], store[l[i]]) = "ACTIVE"}
    IN  {l[i] : i \in {j \in 1 .. Len(l) : \A k \in stop : j < k}}

Sweep ==
    /\ ~aborted /\ phase = "mounted"
    /\ phase' = "sweeping"
    /\ LET gone == SetToSeq(UNION {Leftovers(Collection(n)) : n \in Names})
       IN  queue' = queue \o [i \in 1 .. Len(gone) |->
                       Txn(gone[i].name, NoObject, <<Unlink(gone[i])>>)]
    /\ UNCHANGED <<engine, current, handed, store, disk, crashes, aborted>>

\* The mount ends once the sweep has been submitted.
Serve ==
    /\ ~aborted /\ phase = "sweeping" /\ queue = <<>> /\ current = <<>>
    /\ phase' = "serving"
    /\ UNCHANGED <<engine, bluestore, crashes, aborted>>

Next ==
    \/ \E o \in Objects, n \in Names : Find(o, n)
    \/ \E o \in Objects, n \in Names, tick \in Ticks : Create(o, n, tick)
    \/ \E o \in Objects : Open(o) \/ Write(o) \/ Drop(o)
    \/ \E o \in Objects, deleted \in BOOLEAN : WriteMetadata(o, deleted)
    \/ \E o \in Objects, ts \in Stamps : Put(o, ts)
    \/ \E o \in Objects : ReadStart(o) \/ ReadBytes(o) \/ Check(o) \/ ReadEnd(o)
    \/ HandNext \/ ApplyOne \/ Crash \/ Sweep \/ Serve
    \/ \E i \in 1 .. Len(handed) : Commit(i)

Spec == Init /\ [][Next]_vars

-----------------------------------------------------------------------------
TypeOK ==
    /\ \A o \in Objects :
          /\ objs[o] = Free \/ objs[o].name \in Names
          /\ ~Idle(o) => objs[o].state \in {"ACTIVE", "OLD"}
          /\ objs[o].state \in {"ACTIVE", "MISSING", "PRE_SEARCH"}
                => held[objs[o].name] = o \/ objs[o].state = "MISSING"
    /\ \A n \in Names : held[n] # NoObject =>
          objs[held[n]].state \in {"PRE_SEARCH", "MISSING", "ACTIVE"}
    /\ last \in Ticks \cup {0}
    /\ phase \in {"mounted", "sweeping", "serving"}
    /\ aborted \in BOOLEAN

\* The store once everything prepared so far has reached it.
Settled == ApplyAll(current \o FlattenSeq([i \in 1 .. Len(queue) |-> queue[i].ops]),
                    store)

Alive(o) == objs[o].state \in {"IN_WRITE", "ACTIVE", "OLD"}

(* Whatever is prepared, in whatever order the steps of its callers fall,  *)
(* BlueStore can do: no rename lands on an entry, nothing is saved to an   *)
(* entry that is not there (ARCHITECTURE.md "What BlueStore offers").      *)
EngineInv == TypeOK /\ ~aborted

(* What an Object knows of itself is what the store will say of it: its    *)
(* entry is at the address its state and timestamp give, with its own      *)
(* bytes, all of them, and its own metadata.  A retired Object therefore   *)
(* stays readable to whoever holds it.                                     *)
ObjectsAreTrue ==
    ~aborted => \A o \in Objects : Alive(o) =>
        LET x == objs[o] IN
        Settled[Address(x)] =
              [id |-> x.id, ts |-> x.ts, deleted |-> x.deleted,
               old |-> x.state = "OLD",
               data |-> [i \in 1 .. x.written |-> x.id], meta |-> x.metas]

(* Everything in the temporary space has somebody who will remove it:      *)
(* what nobody holds any more is gone, after a crash as much as after the  *)
(* last holder lets go (ARCHITECTURE.md "What a crash leaves").            *)
NoLitter ==
    Running => \A at \in Used(Settled) : at.temp =>
        \E o \in Objects : Alive(o) /\ Address(objs[o]) = at

(* A read that succeeds returns the Object's own bytes and all of them,    *)
(* though it takes its address, its bytes and its check at three different *)
(* times (object.cpp:70-87).                                               *)
ReadsOwnBytes ==
    \A o \in Objects : ~Idle(o) /\ reads[o].got = "ok" =>
        reads[o].data = [i \in 1 .. objs[o].written |-> objs[o].id]

-----------------------------------------------------------------------------
(* What module NameStore promises, read off the disk and what is on its    *)
(* way there: the versions the name's address will hold, transaction by    *)
(* transaction.                                                            *)

VersionAt(n, st) ==
    LET e == st[Ordinary(n)] IN
    [id |-> e.id, ts |-> e.ts, meta |-> e.meta, size |-> Len(e.data)]

\* One transaction more: where it leads to, and the version it adds, if any.
Extended(n, told, ops) ==
    LET st == ApplyAll(ops, told.st)
    IN  [st |-> st, line |-> IF VersionAt(n, st) = VersionAt(n, told.st) THEN told.line
                             ELSE Append(told.line, VersionAt(n, st))]

Story(n, coming, st) ==
    LET told[i \in 0 .. Len(coming)] ==
            IF i = 0 THEN [st |-> st, line |-> <<VersionAt(n, st)>>]
            ELSE Extended(n, told[i - 1], coming[i].ops)
    IN  told[Len(coming)]

Line(n) == Story(n, handed \o queue, disk).line

EngineVersions ==
    [id : (0 .. MaxCrashes) \X Ticks, ts : Stamps, meta : 0 .. MaxMetas, size : 0 .. MaxChunks]

Promise == INSTANCE NameStore WITH
    Versions <- EngineVersions, line <- [n \in Names |-> Line(n)]

(* A crash lands on one side of a put or the other, a name is never held   *)
(* by nobody once it was held, and durable decisions stay.                 *)
KeepsPromise == Promise!Spec
=============================================================================
