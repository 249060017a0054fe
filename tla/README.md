# A verification development for swiftacular

swiftacular provisions an OpenStack Swift cluster and brings two storage
backends of its own: Swift objects kept directly in Ceph's BlueStore
(`bluestore/`), and a patched copy of Swift's file backend and object server
(`swift_patches/obj/`), whose metadata may be kept by a tool, `bs_xattr`. Nearly
everything else in the repository is provisioning. The programs with state,
threads and crashes are those two backends and a monitoring agent; this
directory models them in TLA+, checks them with TLC, and proves the parts that
prove for every size.

Paths below are relative to the repository. `bs_diskfile.py` and `bs_server.py`
are in `swift_patches/obj/`.

## The system

| part | source | state it keeps | operations |
|---|---|---|---|
| submission queue | `bluestore/src/injection/internal.cpp`, `object.cpp` | `queue`, `queue_lock`, `submit_lock`; for each Object `done` | `prepare`, `submit`, `Object::sync` |
| engine Objects | `injection/object.cpp`, `backend.cpp` | each Object's `state`, `ts`, `deleted`, `written`; the entries in BlueStore | `find`, `open`, `create`, `write`, `write_metadata`, `tombstone`, `put`, `read`, `read_metadata`, `~Object`, `scan`, `clean` |
| the Device | `bluestore/src/bluestore/device.py`, `diskfile.py`, `reader.py`, `writer.py` | the weak map of names to Objects, metadata versions | `open`, `read`, `read_metadata`, `write`, `write_metadata`, `put`, `delete` |
| metadata rules | `bluestore/src/bluestore/metadata.py` | none | `get`, `put`, `delete`, `post` |
| mount, capacity | `backend.cpp` constructor, `device.py`, `manager.py` | the block file, the mounted store, one Device per device and policy | make, grow, mount |
| command line tool | `extension/cli.cpp`, `args.cpp`, `options.cpp` | none between commands | `list`, `clean`, `get`, `head`, `put`, `post`, `delete` |
| binding | `extension/bind.cpp` | none | which calls give up the interpreter lock |
| files of an object | `bs_diskfile.py` | the `.data`, `.meta`, `.ts`, `.durable` files of one directory | `get_ondisk_files`, `cleanup_ondisk_files`, `_finalize_put`, `_finalize_durable`, `purge`, `open` |
| suffix hashes | `bs_diskfile.py` | `hashes.pkl`, `hashes.invalid` of a partition | `invalidate_hash`, `consolidate_hashes`, `write_hashes`, `get_hashes` |
| partition power | `bs_diskfile.py` | the two directories of an object while the ring grows | second link, second rename, second cleanup |
| the reader | `bs_diskfile.py` | what it has read and summed | `app_iter_range`, `app_iter_ranges`, `zero_copy_send`, `close`, quarantine |
| metadata of files | `bs_diskfile.py`, `ceph_patches/bs_xattr.cc` | metadata in chunks under numbered keys, a checksum | `read_metadata`, `write_metadata` |
| audit locations | `bs_diskfile.py` | `auditor_status` file of each device | `object_audit_location_generator`, `get_`/`update_`/`clear_auditor_status` |
| object server | `bs_server.py` | greenthreads of requests and of updates; container rows, saved updates, the expirer's tasks | `PUT`, `POST`, `DELETE`, `container_update`, `async_update`, `delete_at_update` |
| swiftdbinfo | `monitoring/pdmas/swiftdbinfo` | instance numbers of container databases | discover, fetch |
| glue | `hook.py`, `policy.py`, `controller.py` | registrations | at import |
| the rest | roles, playbooks, `kube_deploy`, dashboards, tests, benchmarks, slides | | |

How they interact. A request of Swift's object server is a greenthread; all of
them run on one operating system thread, the hub. It goes through a DiskFile to
the backend.

With BlueStore that is the Device. Calls that only decide and prepare (`put`,
`write`, `create`, `~Object`) stay on the hub; calls that wait (`open`, `read`,
`sync`, `submit`) run on a pool of threads without the interpreter lock, and the
hub runs other requests meanwhile. Each decision appends a transaction to the
engine's queue; a thread that submits hands the queue to BlueStore, and
BlueStore reports commits on threads of its own. Requests for one name share one
Object through the Device's map. A mount sweeps what the last process left. The
command line tool drives the same engine from a process per command.

With files it is the object's directory, which nobody locks: servers, the
replicator, the reconstructor and the auditor are processes of their own that
list it, rename into it and unlink from it. Only `hashes.pkl` and
`hashes.invalid` have a lock. The object server tells the container servers and
the expirer's queue of what it did by requests of its own, which it waits for
only so long, and saves those that fail for a daemon.

What is hard about it: threads that leave work to each other (`submit`), an
Object that is replaced while it is read, two renames that must look like one, a
crash between decisions, requests that decide on what they read before a wait,
listings that are old by the time they are acted on, digests taken without the
lock, updates that outlive their request, retries, a bounded pool, and
timestamps that come from two clocks.

What makes each part correct:

- queue: transactions are handed over once each and in the order they were
  decided; none is left behind; a sync that returns means durable; calls return.
- engine: BlueStore never meets an operation that kills it; an Object is where
  its state says; a read gives an Object's own bytes or fails; a crash lands on
  one side of a put; nothing temporary outlives its holders.
- Device: metadata is read whole and current; the name resolves to what was
  decided last; the newest write wins and no POST is lost; an answer means
  durable; every request is answered.
- command line tool: exit 0 means that the body is stored, and its own, and no
  command dies of what an earlier one left, unless that one had the same timestamp.
- store: whatever died before, the next mount finds or makes a whole store.
- files: what was written decides what is found, whoever cleans up meanwhile; an
  open returns one state; a fragment waits for its commit; nothing obsolete
  stays.
- hashes: no invalidation is lost and no digest older than it is answered.
- reader: what was asked for is sent, what is corrupt and only that accused.
- server: what was answered stands; the container and the expirer come to know.
- auditor, agent: nothing is forgotten by a restart; numbers keep their meaning.

`PROJECT.json` lists every component with its status and every hazard with its
line and the properties that watch over it.

## The modules

| module | models | extended or used by |
|---|---|---|
| `Submit` | the queue, the two locks, the pool, `done` | `SubmitProofs`, `MCSubmit` |
| `Engine` | Objects, entries, puts, reads, crashes, the sweep | `EngineInvariant`, `Cli`, `MCEngine` |
| `EngineInvariant` | no code: the inductive invariants of `Engine` and their terms | `EngineProofs` |
| `NameStore` | the promise: what a name durably resolves to | instantiated by `Engine` and `MetadataProofs` |
| `Cli` | commands as processes over `Engine` | `MCCli` |
| `Device` | requests for one name, the map, metadata reads, PUT, DELETE, POST | `DeviceProofs`, `MCDevice` |
| `Metadata` | what a name's metadata comes to, by timestamps | `MetadataProofs`, `MCMetadata` |
| `Store` | making, growing and mounting a store | `MCNode` |
| `DiskRules` | which files of a directory count, for every policy | `OnDisk`, `EC`, `ObjectServer`, `PartPower` |
| `OnDisk` | one directory under replication: writers, cleanups, readers | `OnDiskProofs`, `PartPower`, `MCOnDisk` |
| `EC` | one directory under erasure coding: put, commit, purge | `ECProofs`, `PartPower`, `MCEC` |
| `PartPower` | the two directories of an object while the ring grows | `MCNode` |
| `Hashes` | suffix hashes of one partition | `HashesProofs`, `MCHashes` |
| `ObjectServer` | PUT, POST, DELETE with their container and expirer updates | `MCObjectServer` |
| `Reader` | sending and judging the content of one object | `ReaderProofs`, `MCReader` |
| `Xattr` | metadata of files, in the kernel's attributes or bs_xattr's | `MCNode` |
| `Audit` | audit locations and the auditor's status | `MCNode` |
| `DbInfo` | instances and figures of container databases | `MCNode` |
| `MCNode` | `Store`, `Xattr`, `Audit`, `PartPower` and `DbInfo`, one at a time | |
| `*Proofs` | theorems | |

`Submit`, `Engine` and `Device` are layers, each giving the next its abstraction.
`Submit` treats a transaction as its number and shows that they reach BlueStore
in order; `Engine` therefore has a plain queue and one transaction handed over
at a time (`HandNext`), and looks inside: a transaction is a list of operations
that become visible one by one. `Engine` shows that an Object's entry follows
its state; `Device` therefore has just a log of decisions about a name, of which
a prefix can be read (with a put half way, `halfway`) and a shorter prefix is
durable. `Cli` is the other caller of `Engine`, and uses its actions.

`DiskRules` is what every directory of files has in common. `OnDisk` and `EC`
show that cleanups may be ignored when one asks what a directory says:
`ObjectServer` therefore never removes a file, and `PartPower` cleans up a
directory in one step.

### Submit

A transaction is its place in the order of preparation; `of[t]` is its Object.
`Write`, `Change` and `Discard` are hub steps that prepare (and, but for the
last, hand a call to the pool in the same step, as no other greenthread runs in
between); `Look` is a metadata read's sync. A worker's `pc` follows `submit()`
and `sync()` statement by statement where another thread can see the difference:
`try` is `try_to_lock`, `lock` and `locked` are `queue_lock`, `Swap`, `Hand` for
each transaction, `ReleaseOrder` for the order in which the two locks go when
the queue is empty (`s.unlock()` runs while the guard of `queue_lock` is alive).
`HandFails` is a `queue_transaction` that returns an error: the exception drops
what is left of the batch. `owed`, `called` and `acked` are history: they
record what a caller had prepared before its call and are read by no guard.

### Engine

An entry has an address, `[name, temp, gen]`, as `address()` builds it, and
attributes, data and a header. Data is a sequence of writers' identities, one
per chunk, so that one Object's bytes can be told from another's; metadata is
the number of its rewriting. An identity is the life of the process and the
estimate, since estimates repeat only across restarts.

`Refused` says which operations kill the process: a rename onto an entry, and
attributes or a header for one that is not there. A rename of nothing and a
remove of nothing do nothing. A touch, and a write that follows it, make an
entry; a write over an entry that is there changes it.

The engine asks things of its caller (ARCHITECTURE.md, "What the caller
serialises"), and the model's guards are that contract:

- one Object at a time resolves a name, and puts replace that one (`held`);
- an Object that holds a name is let go of only once its own put is durable:
  whoever made it so is still in `sync()`;
- a reader of an Object that was just put syncs before it reads (`Taking`).
  Every DiskFile does: `open()` reads the metadata first, which syncs. This one
  is essential. If a read may begin before the hand-over, its address is still
  the replaced Object's; it gets that one's bytes, the renames arrive, and
  `check()` finds its own timestamp: the read succeeds with another Object's
  bytes. ARCHITECTURE.md asks callers to sync.

`Crash` keeps the durable transactions (`disk`), forgets everything else and
starts over at `Sweep`, which takes what `scan()` lists up to the first entry
that holds a name. `Serve` ends the mount that requests wait for.

`NameStore` says what all this is for, with one sequence per name: the durable
version, then the decided ones to come. A decision appends a newer version or
new metadata; a commit moves the head; a crash keeps only the head. `Engine`
maps to it by `Line`, which applies what is handed over and queued to `disk` and
takes the versions the name's address goes through. So the refinement says: each
decision about a name is one transaction, whole, and a name held once is never
held by nobody.

### Device

One name, since names share nothing but the pool. A request's `pc` is the wait
it is in; a hub step runs from one wait to the next and is one action. `Search`,
`Join`, `FindEnds` and `FindFails` are `open()` and the search that others
join; `Resolved` is the weak map, which forgets an Object when the last request
holding it ends. `Reading` to `Whole` are `read_metadata()`: sync, chunks,
comparison of the version in the step in which a chunk came back, `Retry` for
`ChangedError`. `Again`, `DecideMissing` and `DecideRead` are
`open(with_metadata=True)` and the decision that follows it without a wait;
`Put` and `Post` say who wins, and `Acknowledge` is the sync that ends them.

Metadata is reduced to the timestamps that decide who wins: `data`, when the
Object took the name, and `post`, of its newest POST, 0 for none. `Metadata` has
the rest of the rules. Swift's object server reads a file's metadata before it
calls PUT or DELETE; that read changes nothing and is left out too. Tombstones
stay entries, as in the code, so a DELETE is a PUT of an Object that is
`Deleted`.

### Metadata

The blob of one name, its two sections, and requests of every kind that reach it
in any order. `user` stands for every field that a POST replaces, `type` for the
content type, and both are kept as the request they came from, so that one can
ask whose they are. `Merged`, `TypeTs`, `PutSections` and `PostSections` are
`merge`, `get`, `put` and `post` of `metadata.py`. A PUT or DELETE is one step
(`Replace`): `Device` shows that it decides upon metadata that is current. A POST
is two, since the object server makes its metadata from what it has read
(`Drafted`, an older POST with a newer type keeps the newest fields) and the
Device merges that with what it finds later (`Post`). The handler is Swift's own
`POST`, which the repository also keeps a copy of in
`swift_patches/obj/bs_server.py`. A request that was refused is not `known`, and
nothing is promised about it.

`Converges` is the reference definition: the data is the newest PUT's or
DELETE's, the fields the newest POST's if that is newer, the type the newest
given. Between equal timestamps either may win, as with Swift's own backend.

### Cli

A command is a process that mounts the store as it was left, without a sweep,
takes its steps through `Engine`'s own actions and ends in its destructors
(`LetsGo`, then `Exits`, which hands over and awaits what is left). `Dies` may
come at any step. `put` and `delete` create their Object at the timestamp they
are given (`Creates`), a body is submitted chunk by chunk, and a put that is not
newer ends with 1 after all that (`Conflicts`). A timestamp may come again. `lost` is
history: the timestamps of commands that died before they were done, since `clean` was
run. What such a one left is at the address of its timestamp, where a later put may
write over it or be killed by it (see the observations); `BodyIsOwn` and `CliInv` say that
this is all that can go wrong, and only for those timestamps.

### Store

`Backend`'s constructor statement by statement: is there a block file, is it
smaller than asked, resize, `mkfs`, the label, mount and unmount to find out
whether anybody has it, expand, mount, the collections that are missing. A
process may die at every step; collections not yet durable may be lost each on
its own. Requests of an object server wait for their process's mount and share
its outcome (`Asks`, `Answers`; `device.py`). `mkfs` is one step: what Ceph does
within it is not this repository's.

### OnDisk and EC

A file is what its name encodes: timestamp, extension, content type time,
fragment index, durable mark. `get_ondisk_files` is translated from the two
overrides of that name, `Meaning` says independently what a set of files ought
to mean. A writer renames its file in, lists, decides, and unlinks one by one; a
reader lists and opens one by one. `old` and `late` are the reclaim age and the
commit window: how far the clock has come relative to the timestamps.
`ever`, `acked`, `purged` and `died` are history, and in `OnDisk` `late` is: the
timestamps of data that came, as replication may bring it, when it was already past
the reclaim age. `sorted` by timestamp leaves `.meta` files of one timestamp in the
order of the listing: any order for an open (`Leads`), that of the names for a cleanup
(`SortedLeads`); which one comes first (`lead`) is a choice of the step that lists.

In `EC` a PUT is two actions with anything in between: `Put` renames in
`t#i.data` without cleaning up, `Commit` renames it to `t#i#d.data` and cleans
up. `CommitMissing` is the case that the data is gone; `CommitFails` has both
outcomes, as the error may come from the sync after the rename. `Legacy`
directories have the `.durable` files of older versions.

### PartPower

`dir.old` and `dir.new` are the object's directories under the two partition
powers. A writer keeps the one its ring said (`Open`), links into the other
(`Link`), commits in both (`Commit`, `Follow`), cleans up both. The relinker and
the ring are not in the repository; they are modelled from what
`bs_diskfile.py` says of them (`RelinkerLists` to `Raise`). Which files are
obsolete is `OnDisk`'s or `EC`'s `get_ondisk_files`, by `INSTANCE`.

### Hashes

A digest is the version of the directory it was taken from; an entry of
`hashes.pkl` is a digest, `dirty` (the code's `None`) or absent.
`ConsolidateMarks` and `ConsolidateClears` are the two writes of
`consolidate_hashes` under the lock, between which the process may die.
`HashReads` and `HashEnds` take a digest without the lock, `WriteBack` compares
`hashes.pkl` with what was read and starts over if they differ. Requests
announce their suffix first and rename afterwards, the reconstructor's purge
unlinks first and announces afterwards, as in the code.

### Reader

Content is a sequence of bytes, byte `i` being `i` when sound, and a sum is the
sequence it was taken of. `NextRange`, `ReadChunk`, `ReadToEof` and `Close` are
`app_iter_range`, `_inner_iter` and `close`; `ReadChunk` chops what reaches
beyond the range. An EC reader checks each whole fragment as it passes, and what
is left when it closes; of a fragment pyeclib looks only at the header
(`get_metadata`), for which its first byte stands (`IsHeader`). A chunk that
cannot be read quarantines and breaks off (`ReadFails`). A client leaves at a
chunk or between two ranges (`ClientLeaves`). A quarantine renames the directory
by name, whatever it holds by then. Bytes rot or become unreadable and ends are
lost at any time (`Rot`), and another PUT may come (`Put`). `CorruptionIsFound`
says what the size, the sums and the headers can tell, and no more: rot inside a
fragment goes out unseen if nothing is summed.

### Xattr

Chunks under numbered keys, then the checksum. With `UseBsXattr` every get and
set opens the file's database for itself (`OpensDb`, `Collides`); without it the
keys are the kernel's attributes of the open file.

### Audit

`object_audit_location_generator` over the devices in any order: the status is
read, saved before each partition (at most once a minute: `recent`), a write may
be torn, the auditor may die. The auditor that consumes the generator is Swift's
and not in the repository: it begins a sweep, audits what it is given, and
clears the status when a sweep has come to its end.

### ObjectServer

One object at one object server. `PutComes`, `PostComes`, `DeleteComes` are the
handlers up to the decision, taken from one open (`orig`); `PutData`, `Commit`,
`WriteMeta`, `Tombstone` write much later, from what was seen then. `TellQueue`
is `_conditional_delete_at_update`, and comes before the write for POST and
DELETE and after it for PUT. `Report` starts a greenthread per container server;
`UpdateSucceeds` and `UpdateFails` end one, with or without the update having
arrived; `Answers` may come before all have ended. `pending` is keyed as the
code names its files: by object and metadata timestamp. Requests' timestamps
differ, as a proxy's do; X-Delete-At is in the future when it is given.

### DbInfo

`Fetch` takes a snapshot of the paths, `Looks` gives numbers, one database at a
time, and stops at one that cannot be read; `Answers` is the fetch callback for
a number. `Bucket` is what the generated SQL `CASE` does.

## The runs

Each run has `CHECK_DEADLOCK FALSE`: requests, writers and changes are bounded
and stop coming when a bound is reached, and a store that nobody asks anything
of rests. That nobody is left waiting is a property of its own where the code
promises it (`CallsReturn`, `NobodyStuck`, `GetHashesEnds`, `RequestsEnd`).

| run | bounds | checks | distinct states |
|---|---|---|---|
| `submit` | 2 threads, 2 requests, 2 Objects, 2 transactions, BlueStore may refuse, fairness | `HandedInOrder`, `NoStranded`, `AckedDurable`, `SubmitInv`, `CallsReturn` | 137,000 |
| `engine` | 2 Objects of a name, 1 chunk, 1 metadata, 1 read, 2 queued, 1 handed over, 1 crash | `EngineInv`, `ObjectsAreTrue`, `ReadsOwnBytes`, `NoLitter` | 803,000 |
| `engine_promise` | 2 Objects, 2 metadata, 2 crashes, no body | `KeepsPromise` | 10,000 |
| `cli` | 3 commands on one name, killed at any point, timestamps repeated at will | `CliInv`, `BodyIsOwn`, `CleanIsClean` | 786,000 |
| `device` | a PUT, a POST and a third request, 2 timestamps, 2 chunks, 2 attempts, searches may fail | `ReadsWholeAndCurrent`, `ResolvesToHolder`, `NewestWins`, `AnsweredIsDurable`, `NobodyStuck` | 976,000 |
| `metadata` | 5 requests of any kind, 3 timestamps | `Converges`, `MetadataInv` | 156,000 |
| `hashes` | 2 rehashers, 1 request, 1 change, fairness | `HashesInv`, `AnswersWhatItWasTold`, `GetHashesEnds` | 109,000 |
| `ondisk` | 2 writers, 1 reader, 3 or 4 files, 3 times | `OnDiskInv`, `OpensOneState`, `QuietIsClean` | 1,089,000 |
| `ec` | 2 writers, 2 fragments, 3 files, 2 times | `ECInv`, `AwaitsItsCommit`, `PrefsAreHonoured` | 968,000 |
| `server` | 2 requests, 1 container server, 4 times, every fault, fairness | `ServerInv`, `ContainerKnows`, `ExpiryIsQueued`, `RequestsEnd` | 242,000 |
| `reader` | 4 bytes in chunks of 2, fragments of 3, 2 ranges, sums or none, 1 PUT, 2 faults | `ReaderInv`, `SentIsAsked` | 5,504,000 |
| `node` | five machines, see below | `StoreIsUsable`, `MetadataIsWhole`, `NothingForgotten`, `AckedIsFound`, `NumbersAreKept` | 132,000 |

Why these bounds are enough for the cases that matter:

- `submit`: two threads are what it takes for one to leave its work to the
  other; two Objects let commits of different collections overtake each other. A
  thread that has left its sync to the submitter and is let down by a refusal is
  in it, too. The proofs remove the bounds. The pool has a thread for each
  request; with fewer the code can stop, see the observations.
- `engine`: two Objects are one that holds the name and one that is written,
  becomes its successor or is left behind; queued, handed over, half applied and
  durable transactions exist together, and a crash can fall between every two
  steps of a write, a put, a removal and the sweep. One chunk is the read that
  matters: which entry its bytes are from. Client timestamps lie on both sides
  of an estimate and are none, which is the caller's to see to (observations).
  Symmetry in `Objects`: the four properties quantify over them.
- `engine_promise`: POSTs and PUTs of two Objects through two crashes and two
  lives after them; the body is left out, as the move of a name does not look at
  it. Symmetry is sound for this action property: neither it nor `NameStore`
  names an Object.
- `cli`: what one killed command leaves, a second one runs over or `clean` sweeps, and a third
  one meets: a holder, what died at its timestamp, and the put that retires it. Both
  exceptions of the properties occur. (Four commands, 13.9 million states, show no more.)
- `device`: a reader and two writers, or a search, one that joins it and one
  that comes too late; two timestamps make older, equal and newer. A read of two
  chunks can be cut by a POST or a put at every point, and two attempts stand
  for the code's five: one that is retried and one that gives up. `MCDevice`
  takes a PUT, a POST and a third request that is no POST, since that is every
  combination in which kinds differ.
- `metadata`: a PUT, a tombstone, a POST drafted upon what the two leave, and two
  more POSTs whose types or fields pass it on the way; three timestamps are
  before, between and after. The proofs remove the bounds.
- `hashes`: two callers who race for `hashes.pkl` and a request between any two
  of their steps. Nothing new starts once `hashes.pkl` was written once; what
  runs then may still write, so that each can lose against the other.
- `ondisk`, `ec`: two cleanups with listings of different age, a third file that
  comes in between, every order of timestamps. The reclaim age may pass each
  timestamp; a file may be older than that when it comes. `FewOrClashing` cuts
  `ondisk` to any three files, and to four if three of them are `.meta` that clash
  (below) and one is `.data`, which is the least that has all exceptions of
  `FoundIsKept` in it. Three writes of `ec` are a fragment, its rival and a tombstone, a
  `.meta` or another index; on top of a directory of an older version there is
  one.
- `server`: two requests race whenever they race; a third timestamp is that of
  the object as it was. An update that fails, arrives twice or never is in the
  saved file and the row.
- `reader`: ranges of four bytes in chunks of two end within a chunk, at one, and
  after one; fragments of three end in the middle of a chunk and leave a part of
  one at the end. Two ranges are what it
  takes for one to inherit from the other.
- `node`: `Store` with one process after the other that grow a store made by
  another, and with two at once that want one that is large enough (two that
  grow one at once are an observation); `Xattr` with two readers and a PUT, in
  the kernel's attributes and in `bs_xattr`'s database; `Audit` with three
  devices, one away, a name that is no directory and one that cannot be listed;
  `PartPower` with two writers next to the relinker, and with one whose links
  fail; `DbInfo` with three databases, one of them the expirer's, and two
  changes. They share no variable, so `machine` picks one at the start: their
  interleavings would show nothing that each alone does not.

Fairness. `Submit`: strong fairness for each worker, weak fairness for commits.
The operating system runs every thread, and a thread that asks for a mutex over
and over gets it (the hub and another thread may have it each time it looks, so
weak fairness would not do); BlueStore commits what it was handed. Nothing makes
requests arrive. `Hashes`: weak fairness for each caller of `get_hashes`, a
thread that keeps running; other callers and requests may come or not, and the
lock is held only across steps of such a caller. `ObjectServer`: weak fairness
for each request's steps, since the code bounds every read of a body by
`client_timeout` and the wait for updates by `container_update_timeout`; and for
the FAILURE of each update (`conn_timeout`, `node_timeout`), so that nothing
depends on a container server answering. `Device` needs none: its requests are
bounded and none of its steps can be repeated for ever, so each behaviour ends,
and `NobodyStuck` says where: with every request answered.

## Observations

What the models showed to be otherwise than a document or a reader of the code
would expect, with the steps that lead there. The runs above keep out of their
way, by a constant or by a conjunct of the property, and say so.

BlueStore backend (`bluestore/src/`):

- The pool can stop (`injection/object.cpp:157`). `sync()` submits first and
  reads `done` afterwards. A POST to the same Object prepared in between makes it
  wait for a transaction that it has not submitted; the POST's own sync would
  submit that one, but needs a thread. If every thread is in such a wait, none
  ends. `ARCHITECTURE.md:1037` says that such a thread waits for BlueStore.
- Two Objects at one address (`injection/backend.cpp:187`). A retired Object is
  at the temporary address of its settled timestamp, given by a proxy; one being
  written at that of this process's estimate. Nothing keeps the two from being
  equal, and then a read of the retired Object finds the other's bytes with the
  timestamp it expects. `ARCHITECTURE.md:679` says such a read fails. And a put that
  retires the holder while the writer is there renames onto it, which kills the
  process. The runs over `Engine` keep the two apart; the theorems say `Unmet`.
- `put -t` over what a killed one left (`extension/cli.cpp:45`). The entry is at
  the address of the timestamp; touch does nothing, the write goes over it, and
  what was longer stays: exit 0 and a body that ends with another's bytes. And a
  put that retires a holder with that timestamp renames onto the leftover
  (`injection/backend.cpp:188`), which kills it, each time, until `clean` is run.
- Growing with company (`injection/backend.cpp:84`). The store is mounted to find
  out whether anybody has it, unmounted, and grown; one that mounts it in between
  has it open then, which kills ours. `ARCHITECTURE.md:760` promises an error.
- Two that both find no store (`backend.cpp:61`): the slower one resizes the file
  of the store the other has made meanwhile, to less than BlueStore takes it for.
  `args.cpp:48`: "stores never shrink".
- A process that dies after the resize (`backend.cpp:75`) leaves a larger file,
  and any later one grows the store into it, also one that gave no capacity.

Patched file backend (`bs_diskfile.py`):

- Stale digest (`2046`, `443`). `invalidate_hash` comes before the rename; a
  caller that consolidates and digests in between records the digest from before
  it, and nothing marks the suffix again until the next write. `Hashes` promises
  only what was told (`AnswersWhatItWasTold`).
- Resurrection (`1220`). A cleanup unlinks a tombstone past the reclaim age
  before the older `.data` it outdates; between the two, or after a death there,
  the object is back. `FoundIsKept` excepts deleted objects once something is
  past the age.
- The newest metadata lost by two cleanups (`1126`). Of two `.meta` of one
  timestamp the code retains the one with the newer content type, but only if that
  comes first once the rest is sorted by content type. With A = (3, none),
  B = (3, 1) and an older C = (2, 2), each a (timestamp, content type): a cleanup
  that lists A and B takes A; one that lists all three keeps A and C and takes B.
  Run by two threads they leave C only, against the comments at `1117` ("retain the
  newest meta file") and `1142` ("first has newest metadata"). `FoundIsKept`
  excepts metadata and content type where `.meta` files clash like this (`Clash`);
  without that TLC finds it violated.
- Metadata lost before its data comes (`1224`). A `.meta` without data past the
  reclaim age is unlinked; `_finalize_put` takes data of any age, and when
  replication brings the older data later, the object has lost the metadata.
  `FoundIsKept` excepts metadata of data that came that late (`late`), too.
- Not found between two PUTs (`2963`). `open` lists and then opens by name; a
  newer PUT that has cleaned up in between makes it raise `DiskFileNotExist` for
  an object that was there all the time. `OpensOneState` is of opens that find.
- A commit refused (`3387`). `_finalize_durable` looks for a newer durable write
  of its own fragment index only; if another index replaced it, the commit ends
  in an error. `AwaitsItsCommit` does not promise the answer.
- Commit during a partition power increase (`3372`). `except OSError as exc`
  unbinds the variable that is tested at the end, so a second rename that fails,
  as it does when a newer write has cleaned up, answers a durable commit with
  500. `AckedIsFound` is of writes that were answered well.
- Quarantine by name (`2457`). A reader that finds its old file rotten renames
  away the directory, with whatever newer file is in it by then. `AccusedIsCorrupt`
  is about the file read, not about the one that goes.
- Sums across ranges (`2249`). With `etag_validate_frac` between 0 and 1 a range
  from 0 that is summed and a second one that is not leave both in one sum, and a
  sound object is quarantined. The run `reader` has it at 0 and at 1.
- Fragments (`3315`). The check of a fragment is of its header; the payload of a
  fragment archive is judged by its sum only, and with `etag_validate_frac` below 1
  a whole read of it may be sent rotten. Errors of pyeclib other than the three
  named at `3316` only warn; the model has none.
- `bs_xattr` in use (`123`): two reads at once collide on the database, which is
  EIO, and quarantine a sound object. `2037`: a PUT hands `write_metadata` a
  descriptor, which no process can be started with, so every PUT ends with 500;
  what the models say of files after a PUT is therefore for `USE_BS_XATTR` off.
- Any error of `getxattr` is the end of the metadata (`308`), and a checksum of
  the part read is then written. The kernel's part of the run `node` is a disk
  that works.
- A directory that cannot be listed (`694`) ends the auditor's sweep, and the
  saved status begins with it: what follows it on the device is never audited.
  `RoundIsWhole` is of rounds that end.

Object server (`bs_server.py`; it imports its router from the `swift.obj.diskfile`
it is installed as):

- `1299`: an expirer's DELETE compares x-if-delete-at with what it read, and
  places its tombstone after its queue update, over a POST that cancelled the
  expiry meanwhile.
- `350`: updates are saved under the object and its metadata timestamp. A POST
  that only brings a newer type has the timestamp of the one before it; that
  one's update, failing last, replaces its own, and no container is told the
  type. `ListsObject` is about data, deletion and metadata, not the type.
- `1294`, `710`: DELETE and POST tell the expirer's queue first and may then find
  the disk full: the object keeps X-Delete-At and has lost its task.
  `ExpiryIsQueued` excepts runs with a 507.
- `1018`: a proxy that hangs up after the commit ends the PUT past its except
  clauses and before the updates; no container is told and nothing is saved.
  `ContainerKnows` excepts such a request.

swiftdbinfo (`pmdaswiftdbinfo.py`): the `try` is around the whole loop (`117`),
so one database that cannot be read hides all found after it; and `object.count`
and `object.dist` count deleted rows (`50`).

## What is proved

`SubmitProofs`, for any number of threads, requests, Objects and transactions,
from `SubmitAssumption` alone (nobody is not a worker; the bound is a natural
number):

- `TypeCorrect`, `OrderKept`, `NothingStranded`, `SyncMeansDurable`: the types
  and the invariants of the run `submit`, each from
- `SubmitInvariant`: `SubmitInv` is inductive.

`HandedInOrder`, `NoStranded` and `AckedDurable` are not inductive by themselves.
That the line of transactions keeps its order needs that only the holder of
`submit_lock` has a batch (`Locks`). That nobody is stranded needs where each
holder of a lock is: a thread that finds the submitter busy relies on its being
before its last look at the queue, and it is, because the submitter lets go of
`submit_lock` while it still has `queue_lock`, so nothing can be queued in
between. That a sync means durable needs that the future a sync waits for is its
caller's or a later one of the same Object (`Futures`), and that a collection's
transactions become durable in order (`CommittedInOrder`). A step that is only
about sequences (what appending or moving the front does to an increasing line)
is a lemma. The proof of the step has one lemma per action.

`NeverGoesBack`: any store which keeps the promise of `NameStore` never durably
resolves a name to an older version, or to nothing, again. Its invariant is that
the versions of a name rise along its line; the hypothesis `Stamped` says that
timestamps are natural numbers. That the engine keeps the promise is
`KeepsPromiseAlways` (below); together they are the durability of the engine. It
is proved in `MetadataProofs`, where versions also go by timestamps.

`MetadataProofs`, for any number of requests and any timestamps, from
`MetadataAssumption` (timestamps are positive; the origin of a field that is
absent is nobody's):

- `TypeCorrect` and `Convergence`, each from
- `MetadataInvariant`: `MetadataInv` is inductive.

`Converges` is not inductive: it says nothing of a name that is deleted, and
nothing of POSTs on their way. The invariant adds where every section's fields
and type truly come from (`Origin`), that a draft is no older than its request
and has given up its type only for one at least as new (`DraftTrue`), and that
the type of a POST which is newer than the tombstone is kept although nobody can
see it (`BlobTrue`). With it, that the type is newest follows and is no part of
the invariant (`TypeFollows`). The step is split by action, and `Replace` and
`Post` again by whether they come in time. What the rules make of sections is in
lemmas of their own (`MergedFacts`, `PostMerged`, `DraftMade`).

`HashesProofs`, for any number of suffixes, callers of `get_hashes` and requests,
with failures or without, from `HashesAssumption` (nobody is neither a caller
nor a request; the bounds are natural numbers):

- `InvalidationNotLost` and `AnswersAreCurrent`: `HashesInv` and
  `AnswersWhatItWasTold` of the run `hashes`, each from
- `HashesInvariant`: `HashesIInv` is inductive.

Neither is inductive: both depend on what a caller holds between two locks. The
invariant follows one call from place to place. Between the two writes of
`consolidate_hashes` every entry of `hashes.pkl` is good enough for the last
invalidation, and the caller has the lock, so no line can be added to the
`hashes.invalid` it is about to empty (`ClearTrue`). What it then reads, lists
and digests covers what was told before it was called and, while `hashes.pkl` is
still what it read (`Current`), every invalidation that is not on a line nobody is
about to remove (`CopyTrue`, `WorkTrue`, `DigestTrue`). Every write raises
`updated`, and no caller holds a copy with a later one: so a caller that was
overtaken can tell, and claims nothing about `hashes.pkl` any more (`Overtaken`).
A digest may be stored late because it is of a version read after the listing,
which is no older than the last invalidation (`told[s] <= ver[s]`). The step has
one lemma per action of `get_hashes`, upon four about what a step leaves true of
the other calls (`SameCall`, `Overtaken`, `Held`, `Alone`).

`DeviceProofs`, for any number of requests of any kinds and timestamps, chunks and
attempts, with searches that fail or not, from `DeviceAssumption` (timestamps are
above the one of what was there first; requests, Objects and marks differ):

- `NameIsWhoHasIt`, `TheNewestWins`, `ReadsAreWhole` and `AnsweredDurable`: the four
  invariants of the run `device`, each from
- `DeviceInvariant`: `DeviceInv` is inductive.

`NewestWins` holds only because who decides has just read what was decided last, and
durably so; that again rests on the map, and the map on who waits. The invariant says
each of these of the log. While the decision about the name's Object cannot be read
yet, its request waits for it and is in the map (`Announced`), so that no search
begins which would find the Object before (`LoadStep`). A read that no POST has
overtaken, which the version tells (`Unmoved`, `AppendedSame`), has chunks of the
last decision about its Object, and that one is durable (`Current`); an Object
that lost the name gets no decisions any more, so such a read stays true. The
Object that has the name has all its decisions at the end of the log (`LogTrue`):
nothing is half renamed but what changes hands (`HalfStep`). A waiting request waits
for its own decision or one that makes it void (`Honest`, `ServedLater`). The step has
one lemma per action, upon a few about what a step leaves true of the other requests
(`HonestDecided`, `HonestDurable`, `QuietStep`, `SettlingStep`, `DecidedStep`).

`OnDiskProofs`, for any number of writers and readers of a directory, whatever
they write and when they die, from `OnDiskAssumption` (the bounds are natural
numbers, those of times not 0):

- `OnDiskInvAlways`, `OpensOneStateAlways` and `QuietIsCleanAlways`: the three
  invariants of the run `ondisk`, each from
- `TidyAlways`: `TidyInv` is inductive.

The files of a directory come and go one by one, so nothing can be said of the
directory as such; the invariant speaks of single files. A file that has gone, or
that somebody is about to unlink, is `Dispensable`: something newer that was once
written makes it superfluous, and what was written stays written even when its file
has gone; or it is one of two `.meta` that clash; or it is past the reclaim age while
there is no data, or is such a `.meta` and the data that there is came past that age
(`NothingElseGoes`, `DispensableStays`: what is written later leaves it so). So what
decides the state is still there, and a listing taken at any time finds it, in
whatever order it lists (`KeptMeaning`). A reader has read names that may have gone
since, and starts over when it misses one; what it has opened is the data and the
metadata of the state it saw when it listed, or it is still to find out that it must
try again (`SeesInv`). What is left when all that somebody is to unlink is gone is a
part of what the last cleanup that listed means to leave, and no part of that has
anything obsolete in it (`Tidy`, `NothingObsoleteIsLeft`); when nobody is at work that
is all there is. The lemmas on sets of files
(`LargestIs`, `LatestExists`, `UndeletedIs`, `ObsoleteIsSuperfluous`) rest on
`LeastExists`: every set of natural numbers that is not empty has a least element.

`EngineProofs`, for any number of names, Objects, timestamps,
chunks, transactions in flight, reads and crashes, from `EngineAssumption`, of
the behaviours of `Spec` that are `Unmet`: no put of a name takes a timestamp with
which an Object of that name was created.

- `EngineInvAlways`, `ObjectsAreTrueAlways`, `NoLitterAlways` and
  `ReadsOwnBytesAlways`: the four invariants of the run `engine`, each from
- `IInvAlways`: `IInv` is inductive;
- `KeepsPromiseAlways`: `Engine` implements `NameStore`, the property of the run
  `engine_promise`, from `IInv` and the further invariant `Promised`.

`Unmet` is a condition on behaviours, in the theorems' statements, and nothing is
assumed of the constants: `Stamps` and `Ticks` may be the same set, and the timestamp of
one name may be the reading another got. `Brought`, a constant of `EngineInvariant`,
divides for each name the times its puts take from those its Objects are created
with, and the theorems hold for every division. The code does not ensure the
condition (see the observations), and it cannot be dropped: with `Stamps` and
`Ticks` both {1, 2} in the instance of the run `engine` TLC finds `EngineInv`,
`ObjectsAreTrue` and `ReadsOwnBytes` violated (a put renames its holder onto a writer, a
writer is at the address of a retired Object). `NoLitter` and `KeepsPromise` hold on that instance too, but are proved from
the same invariant. Since the four are invariants, a behaviour that does meet keeps
them up to the step in which it does. The instance that TLC checks has the two sets apart.

The four invariants speak of the store as it will be, and of reads that saw it as it
was. In between are the operations that are queued, one by one, and none of them
may be seen too early or too late; so the invariant speaks of every state that is
still to come. `Settled` is the last of them. There each Object's entry is where its
state and stamp say, whole, and nothing else is in the temporary space
(`SettledTrue`). `Passing` are all of them: in each, an entry at either address of an
Object has that Object's bytes if it has its timestamp, and a retired Object that has
left its name has left it for good (`PassingTrue`, `Gone`); a read that is under way
relies on no more (`ReadsTrue`). `Stages` pairs each state with the operation that
comes next: a rename finds its target free, `setattrs` and `omap_setheader` find an
entry, a remove takes what nobody has (`StagesTrue`). What an Object still has
coming, who holds its name has coming too, and not earlier (`Answered`): so an
Object that is let go of, once its put is durable, leaves nothing behind in the
queue. The disk is behind, transaction by transaction, in an order that is kept for
each collection only; each name therefore has a chain of states of its own, from
what is on disk to what is handed over (`DiskTrue`), and a crash lands on one of them,
where no put is half way, since the clock's stamp is at a name only between a rename
and the save behind it, in one transaction (`MidPut`).

A decision prepares operations that come after all others. So a step of a caller
leaves the states to come as they are and adds some at the end (`OnlyPrepared`), and
what has to be shown of it is what those few are (`OneGiven` to `FourGiven`); BlueStore's
own steps take states away at the front. The lemmas that the module begins with
show that sequences of operations behave so (`PassingCat`, `OpsOnApply`, `FlatAppend`).
They are about `ApplyAll` and `FlattenSeq`, which are recursive functions: `RunExists` and
`JoinedExists` show that each has the values its equations say, by the least
argument for which it would not.

The refinement maps a state to a line of versions for each name, `Line`, which is
told transaction by transaction (`Story`, `Tale`). A put, or a POST to who holds the
name, adds one transaction at the end, and so one version at most (`ToldOne`, `ToldNew`);
which it adds can only be seen if the story ends in what `Settled` says of the name,
so this is part of `Promised`. A transaction of another name, or of an Object that is
still being written, adds none (`ToldAside`); nor does the sweep, which only removes
what has a temporary address. A commit takes the first
transaction of some collection, perhaps from between others: it may pass over those of
other names, which leave this name's addresses alone, so two stories that differ in
where it stands agree from there on (`CommitFirst`, `TalesAgree`), and the line loses
its first version if that transaction made a new one, and nothing else. A crash leaves
the disk alone and with it the head of each line. That a line has only versions of
`EngineVersions`, and a decision is for a newer one or for new metadata, rests on what is
`Known` of them: an id is of this life of the process or of an earlier one, and no
writer has the clock's reading of one that is on a line. The two invariants and their
terms are in `EngineInvariant`; the proofs begin with what they need of sequences.

`ECProofs`, for any number of writers of an erasure-coded object, of
timestamps and fragments, from `ECAssumption`:

- `ECInvAlways`, `AwaitsItsCommitAlways` and `PrefsAreHonouredAlways`: the three
  invariants of the run `ec`, each from
- `FilesAlways`: `FilesInv` is inductive.

As in `OnDiskProofs` the invariant says of each file that has gone, or is about to
go, why it can be dispensed with; here one that awaits its commit can only be if it
was renamed, a tombstone or something newer that is durable beats it, a purge took it,
or both the reclaim age and the commit window have passed. What is durable never
becomes less (`MeaningGrows`), so a commit that finds its fragment gone, and answers
well since it finds something newer, may do so (`AckedStands`). A step of a writer is
`Sound` if it takes away, and means to take away, only such files; `SoundStep` is that a
sound step keeps the invariant, and the rest is that each step is sound. That
preferences are honoured holds of every set of files at all.

`ReaderProofs`, for readers of an object of any size, in chunks of any length, with any
fragments, any number of ranges, PUTs and faults, from `ReaderAssumption`:

- `SentIsAskedAlways`, `CorruptionIsFoundAlways`, and `ReaderInvAlways` provided that
  each reader sums always or never (`"sometimes"` is not in `Validate`; with a fraction
  between, a sound object may be accused, see the observations): what the run `reader` checks,
  each from
- `ReadAlways`: `ReadInv` is inductive.

`SentIsAsked` speaks of a reader at its end. On its way a reader has sent the ranges
it has done with and the part of the present one up to where it stands (`OnItsWay`,
`Halfway`). It judges by sums and fragments that go on from chunk to chunk and, the
sums, from range to range: as long as the file is sound, what has been summed is a
beginning of it and no buffered fragment is rotten (`Judged`); and of a whole read
everything sent has been summed, if the reader sums, and the headers of all whole
fragments were sound (`TakenWhole`, `HasChecked`); the last, partial one begins with
one (`FirstHeader`).
What damage does to a file that is open makes none of this false, as it makes no file
sound again. `TakenIsGood` is the step that reads a chunk.

Only model-checked: `Cli`, the object server and the machines of
`node`; `NobodyStuck` of `Device` and the
liveness properties (the prover does neither fairness nor ENABLED). `NoStranded` and
`AckedDurable` hold as long as BlueStore refuses nothing: after a refusal the
code drops the rest of the batch, whose syncs never return, and a transaction
queued meanwhile stays until somebody submits again.

## Not modelled

BlueStore itself, beyond what its transactions do; Swift, beyond the two files
the repository patches; eventlet, beyond its pool. Of those two files: GET and
HEAD but for the reader, which change nothing; REPLICATE and SSYNC, which hand
over to Swift; locks, which are taken to exclude; the move of a whole suffix
into quarantine. Of the repository: provisioning, deployment, dashboards, tests,
benchmarks and documents (no protocol of their own), the Ceph debug tools.
`PROJECT.json` gives the reason for each.

Known simplifications. `ObjectServer` compares PUT and DELETE times that differ.
`Reader` has one reader at a time in its run: readers share nothing but the
directory they quarantine. `Xattr` takes what unpickles for the whole.
`Metadata` leaves out metadata that cannot be read, and the header by which
Swift's daemons date a type differently from its request.

## Plan

Done, most important first: `Submit` and its proofs, `Engine` with `NameStore` as
its promise, `Device`, `Metadata` and its proofs; then `Cli`, `Store`, `Hashes`,
`OnDisk`, `EC`, `ObjectServer`, `Reader`, `Xattr`, `Audit`, `PartPower`, `DbInfo`.

What is left, to model:

1. `Device` with the sections of `Metadata` in place of the two timestamps, so
   that what a POST drafted and what a crash keeps meet in one module.
2. `Device` over `Engine`'s addresses instead of the log, and the body of a GET
   read in chunks with its retries.
3. `ObjectServer` with `OnDisk`'s cleanups in place of files that stay.

To prove:

1. The object server's `ContainerKnows`; `CliInv`.
2. `Submit`: `sync` as an implementation of an abstract durable log, the one that
   `Engine` and `Device` take for granted.
