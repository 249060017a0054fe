-------------------------- MODULE EngineInvariant --------------------------
(***************************************************************************)
(* What there is to say about Engine for its proofs: the inductive         *)
(* invariant IInv behind its four invariants, Promised, which is what the  *)
(* promise of NameStore needs besides, and the terms both are put in.      *)
(*                                                                         *)
(* Settled is the state the store ends in; Passing are the states it goes  *)
(* through on its way there, Stages each of them with the operation that   *)
(* comes next; Chain is what the disk goes through for one name, Tale what *)
(* its versions are on the way. A transaction only adds states at the end  *)
(* of all these, and a reader who starts or goes on in any of them is told *)
(* the truth.                                                              *)
(***************************************************************************)
EXTENDS Engine

\* For each name, the times that its clients bring and no reading of the
\* engine's clock gives one of its Objects: any set of times.
CONSTANT Brought(_)

Puts(n) == Stamps \cap Brought(n)
Times(n) == Ticks \ Brought(n)

(* The behaviours in which, name by name, no put takes a time that an      *)
(* Object of the same name was created with.  Both count 10 microseconds   *)
(* (internal.cpp, estimate) and nothing in backend.cpp keeps them apart:   *)
(* a writer is at the temporary address of the one, what is retired at     *)
(* that of the other, and where they meet BlueStore dies of the rename.    *)
(* A behaviour in which they do meet is one of these up to that step.      *)
Divided ==
    \A o \in Objects :
        /\ \A n \in Names, tick \in Ticks : Create(o, n, tick) => tick \in Times(n)
        /\ \A ts \in Stamps : Put(o, ts) => ts \in Puts(objs[o].name)
Unmet == [][Divided]_vars

-----------------------------------------------------------------------------
(* What the store, its operations and its transactions are.                *)

Ids == Seq(Nat)
Entries == [id : Ids, ts : Nat, deleted : BOOLEAN, old : BOOLEAN,
            data : Seq(Ids), meta : Nat]
Contents == [Addresses -> Entries]

Ops == [op : {"touch"}, at : Addresses, id : Ids]
       \cup [op : {"setattrs"}, at : Addresses, ts : Nat, deleted : BOOLEAN,
             old : BOOLEAN]
       \cup [op : {"write"}, at : Addresses, off : Nat, id : Ids]
       \cup [op : {"header"}, at : Addresses, meta : Nat]
       \cup [op : {"rename"}, at : Addresses, to : Addresses]
       \cup [op : {"remove"}, at : Addresses]

After(ops, st, k) == ApplyAll(SubSeq(ops, 1, k), st)
PassingOf(ops, st) == {After(ops, st, k) : k \in 0 .. Len(ops)}
StagesOf(ops, st) == {<<After(ops, st, k - 1), ops[k]>> : k \in 1 .. Len(ops)}

\* What ApplyAll's recursion computes.
Run(g, ops, st, n) == g = [i \in 0 .. n |-> IF i = 0 THEN st ELSE Apply(ops[i], g[i - 1])]

Begins(ops, a, more) ==
    Len(ops) = Len(more) + 1 /\ ops[1] = a /\ \A i \in 1 .. Len(more) : ops[i + 1] = more[i]

\* The operations on the addresses of a name.
OpsOf(n) == {op \in Ops : op.at.name = n /\ (op.op = "rename" => op.to.name = n)}

\* Two states say the same of a name.
Agree(n, a, b) == \A at \in Addresses : at.name = n => a[at] = b[at]

\* Only finitely many addresses have anything at them.
Small(st) == IsFiniteSet(Used(st))

Txns == [coll : {Collection(n) : n \in Names}, of : Objects \cup {NoObject},
         ops : Seq(Ops)]
Flat(q) == FlattenSeq([i \in 1 .. Len(q) |-> q[i].ops])

\* What FlattenSeq's recursion computes.
Joined(f, s, n) == f = [i \in 1 .. n |-> IF i = 1 THEN s[i] ELSE f[i - 1] \o s[i]]

Cat(u, v) == u \o v

\* t is s without its first element.
Follows(s, t) == Len(s) = Len(t) + 1 /\ \A i \in 1 .. Len(t) : s[i + 1] = t[i]

Parts(q) == [i \in 1 .. Len(q) |-> q[i].ops]

\* What is on its way to the store: the rest of one transaction, then a queue.
OpsOn(c, q) == c \o Flat(q)

\* An operation on its way to the store is one of a transaction's.
Given(T) == {T.ops[i] : i \in 1 .. Len(T.ops)}

-----------------------------------------------------------------------------
(* The inductive invariant, one part after the other.                      *)

States == {"NONE", "PRE_SEARCH", "MISSING", "PRE_WRITE", "IN_WRITE", "ACTIVE", "OLD"}
Objs == [name : Names \cup {NoObject}, state : States, ts : Nat, deleted : BOOLEAN,
         id : Ids, written : Nat, metas : Nat]

Pending == OpsOn(current, queue)
Passing == PassingOf(Pending, store)
Stages == StagesOf(Pending, store)
Coming == handed \o queue

\* A transaction is about one name, and does not begin by saving.
Proper(T) ==
    /\ Len(T.ops) > 0 /\ T.ops[1].op # "setattrs"
    /\ \E n \in Names : T.coll = Collection(n) /\ Given(T) \subseteq OpsOf(n)

Types ==
    /\ objs \in [Objects -> Objs]
    /\ \A o \in Objects :
          /\ objs[o].state = "NONE" => objs[o] = Free
          /\ objs[o].state # "NONE" => objs[o].name \in Names
    /\ held \in [Names -> Objects \cup {NoObject}]
    /\ reads = [o \in Objects |-> reads[o]]
    /\ last \in Ticks \cup {0} /\ crashes \in Nat
    /\ current \in Seq(Ops) /\ queue \in Seq(Txns) /\ handed \in Seq(Txns)
    /\ \A i \in 1 .. Len(queue) : Proper(queue[i])
    /\ \A i \in 1 .. Len(handed) : Proper(handed[i])
    /\ store \in Contents /\ Small(store) /\ disk \in Contents /\ Small(disk)
    /\ phase \in {"mounted", "sweeping", "serving"}
    /\ aborted \in BOOLEAN /\ ~aborted

\* Until it serves, nobody has an Object; until it sweeps, nothing is coming.
Frozen ==
    /\ phase # "serving" =>
          /\ \A o \in Objects : objs[o] = Free /\ reads[o] = NoRead
          /\ \A n \in Names : held[n] = NoObject
    /\ phase = "mounted" =>
          Len(queue) < 1 /\ Len(current) < 1 /\ Len(handed) < 1 /\ store = disk

\* What is being handed over is the end of the last transaction handed over.
Ending ==
    Len(current) > 0 =>
        /\ Len(handed) > 0
        /\ \A i \in 1 .. Len(current) : current[i] \in Given(handed[Len(handed)])

Sane(n, e) == e = NoEntry \/ (e.ts \in Puts(n) /\ ~e.old)
Whole(e) == e.data = [i \in 1 .. Len(e.data) |-> e.id]
Own(x, e) == e.id = x.id /\ Len(e.data) = x.written
Placed(x) == x.state \in {"ACTIVE", "OLD"}
Kept(x) == x.state \in {"IN_WRITE", "ACTIVE", "OLD"}

\* What there is at either of its addresses with its stamp is its own.
Knows(x, S) ==
    /\ S[Ordinary(x.name)].ts = x.ts => Own(x, S[Ordinary(x.name)])
    /\ S[Temporary(x.name, x.ts)] # NoEntry => Own(x, S[Temporary(x.name, x.ts)])

\* What any state the store passes through says; F is the one it settles in.
Seen(S, F, os, serving) ==
    /\ S \in Contents
    /\ \A at \in Addresses : Whole(S[at])
    /\ \A n \in Names : \/ S[Ordinary(n)].ts \in Times(n)
                        \/ /\ Sane(n, S[Ordinary(n)])
                           /\ S[Ordinary(n)].ts <= F[Ordinary(n)].ts
    /\ serving => \A n \in Names : \A s \in Puts(n) : S[Temporary(n, s)] # NoEntry =>
                     s < F[Ordinary(n)].ts /\ S[Ordinary(n)].ts # s
    /\ \A o \in Objects : Placed(os[o]) => Knows(os[o], S)

\* What any operation still to come finds and does.
DueRename(S, op) ==
    /\ S[op.at] # NoEntry /\ S[op.to] = NoEntry
    /\ op.to.temp => ~op.at.temp /\ op.to.gen = S[op.at].ts /\ op.to.gen \in Puts(op.at.name)
    /\ ~op.to.temp => op.at.temp /\ op.at.gen \in Times(op.at.name)

DueRemove(op, F, os) ==
    op.at.gen \in Puts(op.at.name) =>
        /\ op.at.gen < F[Ordinary(op.at.name)].ts
        /\ \A o \in Objects : Placed(os[o]) /\ os[o].name = op.at.name =>
              os[o].ts # op.at.gen

Due(S, op, F, os, serving) ==
    /\ \A n \in Names : S[Ordinary(n)].ts \in Times(n) =>
          op.op = "setattrs" /\ op.at = Ordinary(n)
    /\ op.op \in {"setattrs", "header"} => S[op.at] # NoEntry
    /\ op.op = "setattrs" => op.ts > 0
    /\ op.op = "setattrs" /\ ~op.at.temp =>
          op.ts = S[op.at].ts \/ S[op.at].ts \in Times(op.at.name)
    /\ op.op = "header" => op.meta > 0
    /\ op.op \in {"write", "touch"} => op.at.temp
    /\ op.op = "rename" => DueRename(S, op)
    /\ op.op = "remove" => op.at.temp
    /\ op.op = "remove" /\ serving => DueRemove(op, F, os)

PassingTrue == \A S \in Passing : Seen(S, Settled, objs, phase = "serving")
StagesTrue == \A g \in Stages : Due(g[1], g[2], Settled, objs, phase = "serving")

\* What an Object knows of its entry.
Told(x) == [id |-> x.id, ts |-> x.ts, deleted |-> x.deleted, old |-> x.state = "OLD",
            data |-> [i \in 1 .. x.written |-> x.id], meta |-> x.metas]

Settles(F, os, swept) ==
    /\ \A n \in Names : Sane(n, F[Ordinary(n)])
    /\ swept => \A at \in Addresses : at.temp /\ F[at] # NoEntry =>
                   \E o \in Objects : Kept(os[o]) /\ Address(os[o]) = at
    /\ \A o \in Objects : Kept(os[o]) => F[Address(os[o])] = Told(os[o])

SettledTrue == Settles(Settled, objs, phase # "mounted")

\* Who has a name and a stamp, and who holds the name.
Stamped(F, os, hd, clock) ==
    \A o \in Objects : LET x == os[o] IN
        /\ x.state \in Writing =>
              /\ x.ts \in Times(x.name) /\ x.ts <= clock
              /\ \A p \in Objects : p # o /\ os[p].state \in Writing => os[p].ts # x.ts
        /\ x.state = "PRE_WRITE" => x.id # NoWriter /\ x.written = 0 /\ x.metas = 0 /\ ~x.deleted
        /\ x.state \in {"PRE_SEARCH", "MISSING"} => x.ts = 0
        /\ x.state \in {"PRE_SEARCH", "ACTIVE"} => hd[x.name] = o
        /\ x.state \in {"ACTIVE", "OLD"} => x.ts \in Puts(x.name)
        /\ x.state = "OLD" =>
              /\ x.ts < F[Ordinary(x.name)].ts
              /\ \A p \in Objects : p # o /\ os[p].state = "OLD" /\ os[p].name = x.name =>
                    os[p].ts # x.ts

Holds(F, os, hd) ==
    \A n \in Names : hd[n] # NoObject =>
        /\ os[hd[n]].name = n /\ os[hd[n]].state \in {"PRE_SEARCH", "MISSING", "ACTIVE"}
        /\ os[hd[n]].state = "MISSING" => F[Ordinary(n)] = NoEntry

ObjectsTrue == Stamped(Settled, objs, held, last)
HeldTrue == Holds(Settled, objs, held)

\* A transaction touches what holds a name, or moves it.
On(op, at) == op.at = at \/ (op.op = "rename" /\ op.to = at)
Touches(T, n) == \E op \in Given(T) : On(op, Ordinary(n))
Moves(T, n) == \E op \in Given(T) : op.op = "rename" /\ On(op, Ordinary(n))

\* Who holds the name has something coming that does as much, and not earlier.
Answers(ts, n, os, hd) ==
    \A i \in 1 .. Len(ts) :
        /\ Touches(ts[i], n) =>
              /\ hd[n] # NoObject /\ os[hd[n]].state = "ACTIVE"
              /\ \E j \in i .. Len(ts) : ts[j].of = hd[n] /\ Touches(ts[j], n)
        /\ Moves(ts[i], n) =>
              \E j \in i .. Len(ts) : ts[j].of = hd[n] /\ Moves(ts[j], n)

Answered == \A n \in Names : Answers(Coming, n, objs, held)

\* A stamp of the clock at a name is there only in the middle of a put.
MidPut ==
    \A n \in Names : store[Ordinary(n)].ts \in Times(n) =>
        Len(current) > 0 /\ Moves(handed[Len(handed)], n)

Bytes(x) == [i \in 1 .. x.written |-> x.id]
Gone(x) == \A S \in Passing : S[Ordinary(x.name)].ts # x.ts

Reading(r, x) ==
    /\ Placed(x) /\ r.at \in {Ordinary(x.name), Temporary(x.name, x.ts)}
    /\ r.at = Ordinary(x.name) => store[r.at].ts = x.ts \/ Gone(x)
    /\ r.got = "bytes" => r.data = Bytes(x) \/ (r.at = Ordinary(x.name) /\ Gone(x))
    /\ r.got = "ok" => r.data = Bytes(x)

ReadsTrue == \A o \in Objects : ~Idle(o) => Reading(reads[o], objs[o])

\* The states of a name on the disk, transaction by transaction.
Fine(n, st) == Sane(n, st[Ordinary(n)]) /\ \A at \in Addresses : at.name = n => Whole(st[at])

Chain(n, g, ts, first, final) ==
    /\ \A i \in 0 .. Len(ts) : g[i] \in Contents /\ Fine(n, g[i])
    /\ \A i \in 1 .. Len(ts) : g[i] = IF ts[i].coll = Collection(n)
                                      THEN ApplyAll(ts[i].ops, g[i - 1]) ELSE g[i - 1]
    /\ Agree(n, g[0], first) /\ Agree(n, g[Len(ts)], final)

DiskTrue ==
    \A n \in Names : \E g : Chain(n, g, handed, disk, ApplyAll(current, store))

IInv ==
    /\ Types /\ Frozen /\ Ending
    /\ PassingTrue /\ StagesTrue /\ SettledTrue
    /\ ObjectsTrue /\ HeldTrue /\ Answered /\ MidPut /\ ReadsTrue /\ DiskTrue

-----------------------------------------------------------------------------
(* What the steps come to: Objects that move, entries that change.         *)

\* Two states in which every name is held with one stamp.
SameStamps(S, F) == \A m \in Names : S[Ordinary(m)].ts = F[Ordinary(m)].ts

\* Who has the name or had it in one table of Objects, had it in another.
SamePlaces(os, new) ==
    \A p \in Objects : Placed(new[p]) =>
        /\ Placed(os[p]) /\ new[p].name = os[p].name /\ new[p].ts = os[p].ts
        /\ new[p].id = os[p].id /\ new[p].written = os[p].written

\* Two states that differ at one address only.
OnlyAt(S, F, A) == S \in Contents /\ \A a \in Addresses : a # A => S[a] = F[a]

\* What a writer may do to the entry at its address: anything, while that is
\* a temporary one; to the one that holds the name, new metadata.
Writable(S, F, A) ==
    \/ A.temp /\ A.gen \in Times(A.name)
    \/ /\ ~A.temp /\ F[A].ts \in Puts(A.name)
       /\ S[A].ts = F[A].ts /\ S[A].id = F[A].id /\ S[A].data = F[A].data /\ ~S[A].old

WrittenTo(o, os, new) ==
    /\ \A p \in Objects : p # o => new[p] = os[p]
    /\ new[o].name = os[o].name /\ new[o].ts = os[o].ts
    /\ \/ os[o].state \in Writing /\ new[o].state = "IN_WRITE"
       \/ os[o].state = "ACTIVE" /\ new[o].state = "ACTIVE"

\* What a transaction's operations do to a state: its last one, those it
\* passes through, and which operation follows which.
Does(T, o, st, given, last_st, passed, steps) ==
    /\ T \in Txns /\ Proper(T) /\ T.of = o /\ Given(T) = given
    /\ ApplyAll(T.ops, st) = last_st /\ PassingOf(T.ops, st) = passed
    /\ \A g \in StagesOf(T.ops, st) : g = <<g[1], g[2]>> /\ g \in steps

(* What a step that gives metadata makes of its Object, and prepares. *)
Described(x, deleted) ==
    [x EXCEPT !.state = IF @ = "ACTIVE" THEN @ ELSE "IN_WRITE",
              !.metas = @ + 1, !.deleted = @ \/ deleted]

MetaGiven(o, y, deleted) ==
    /\ phase = "serving" /\ objs' = [objs EXCEPT ![o] = y]
    /\ objs[o].state \in {"PRE_WRITE", "IN_WRITE", "ACTIVE"}
    /\ deleted => objs[o].state = "PRE_WRITE"
    /\ y \in Objs /\ y.name = objs[o].name /\ y.ts = objs[o].ts
    /\ y.state = (IF objs[o].state = "ACTIVE" THEN "ACTIVE" ELSE "IN_WRITE")
    /\ y.id = objs[o].id /\ y.written = objs[o].written /\ y.metas = objs[o].metas + 1
    /\ Address(y) = Address(objs[o])
    /\ Save(y) = SetAttrs(Address(y), y.ts, y.deleted, FALSE)
    /\ queue' = Append(queue, Txn(y.name, o,
                     (IF objs[o].state = "PRE_WRITE" THEN <<Touch(Address(y), y.id)>> ELSE <<>>)
                     \o <<SetHeader(Address(y), y.metas), Save(y)>>))
    /\ UNCHANGED <<held, reads, last, current, handed, store, disk, phase, crashes, aborted>>

Putting(o, p, n, x, q, y, z, ts) ==
    /\ phase = "serving" /\ n \in Names /\ ts \in Puts(n) /\ ts \in Nat
    /\ o \in Objects /\ p \in Objects /\ o # p /\ objs[o] = x /\ objs[p] = q
    /\ x \in Objs /\ x.name = n /\ x.state = "IN_WRITE" /\ x.ts \in Times(n)
    /\ q \in Objs /\ q.name = n /\ held[n] = p /\ q.ts < ts /\ q.ts \in Nat
    /\ \/ /\ q.state = "ACTIVE" /\ q.ts \in Puts(n) /\ z.state = "OLD"
          /\ Settled[Ordinary(n)] = Told(q)
       \/ /\ q.state = "MISSING" /\ q.ts = 0 /\ z.state = "MISSING"
          /\ Settled[Ordinary(n)] = NoEntry
    /\ Settled[Ordinary(n)].ts = q.ts
    /\ Settled[Temporary(n, x.ts)] = Told(x)
    /\ y \in Objs /\ y.name = n /\ y.state = "ACTIVE" /\ y.ts = ts /\ y.deleted = x.deleted
    /\ y.id = x.id /\ y.written = x.written /\ y.metas = x.metas
    /\ z \in Objs /\ z.name = n /\ z.ts = q.ts /\ z.deleted = q.deleted
    /\ z.id = q.id /\ z.written = q.written /\ z.metas = q.metas
    /\ objs' \in [Objects -> Objs] /\ objs'[o] = y /\ objs'[p] = z
    /\ \A r \in Objects : r # o /\ r # p => objs'[r] = objs[r]
    /\ held' \in [Names -> Objects \cup {NoObject}] /\ held'[n] = o
    /\ \A m \in Names : m # n => held'[m] = held[m]
    /\ UNCHANGED <<reads, last, current, handed, store, disk, phase, crashes, aborted>>

\* A state in the middle of a put of x under n, which q held.
Midway(S, n, x, q, ts) ==
    /\ S \in Contents
    /\ \A a \in Addresses : a # Ordinary(n) /\ a # Temporary(n, x.ts) /\ a # Temporary(n, q.ts)
                               => S[a] = Settled[a]
    /\ \A a \in Addresses : Whole(S[a])
    /\ \/ S[Ordinary(n)] = Settled[Ordinary(n)]
       \/ S[Ordinary(n)] = NoEntry
       \/ S[Ordinary(n)].ts = x.ts
       \/ S[Ordinary(n)].ts = ts /\ ~S[Ordinary(n)].old /\ Own(x, S[Ordinary(n)])
    /\ q.ts \in Puts(n) /\ S[Temporary(n, q.ts)] # NoEntry =>
          Own(q, S[Temporary(n, q.ts)]) /\ S[Ordinary(n)].ts # q.ts

\* The state a put ends in, as far as the names are concerned.
Taken(F, n, ts) ==
    F[Ordinary(n)].ts = ts /\ \A m \in Names : m # n => F[Ordinary(m)] = Settled[Ordinary(m)]

\* What a rename and the saving after it do to a state in which one of their
\* addresses is taken and the other is not.
Moved(S, s1, s2, from, to, ts, deleted, old) ==
    /\ s1 \in Contents /\ s2 \in Contents
    /\ \A a \in Addresses : a # from /\ a # to => s1[a] = S[a] /\ s2[a] = S[a]
    /\ s1[to] = S[from] /\ s1[from] = NoEntry /\ s2[from] = NoEntry
    /\ s2[to] \in Entries
    /\ s2[to].id = S[from].id /\ s2[to].data = S[from].data /\ s2[to].meta = S[from].meta
    /\ s2[to].ts = ts /\ s2[to].deleted = deleted /\ s2[to].old = old

MovedBy(a, b, n, S, from, to, ts, deleted, old) ==
    /\ a \in OpsOf(n) /\ a.op = "rename" /\ a.at = from /\ a.to = to
    /\ b \in OpsOf(n) /\ b.op = "setattrs" /\ b.at = to /\ b.ts = ts
    /\ Moved(S, Apply(a, S), Apply(b, Apply(a, S)), from, to, ts, deleted, old)

\* The new one takes the name.
Enters(a, b, S, n, x, q, y, ts) ==
    LET s1 == Apply(a, S)
        s2 == Apply(b, s1)
    IN  /\ a \in OpsOf(n) /\ a.op = "rename" /\ a.to = Ordinary(n) /\ b \in OpsOf(n)
        /\ Midway(s1, n, x, q, ts) /\ Midway(s2, n, x, q, ts)
        /\ s2[Ordinary(n)] = Told(y) /\ s2[Temporary(n, x.ts)] = NoEntry
        /\ q.ts \in Puts(n) => s2[Temporary(n, q.ts)] = S[Temporary(n, q.ts)]
        /\ \A F : Due(S, a, F, objs', TRUE) /\ Due(s1, b, F, objs', TRUE)

\* A transaction that does what a put of x under n has to.
Hands(T, o, n, x, q, y, z, ts) ==
    /\ T \in Txns /\ Proper(T) /\ T.of = o
    /\ Given(T) \subseteq OpsOf(n) /\ Touches(T, n) /\ Moves(T, n)
    /\ ApplyAll(T.ops, Settled)[Ordinary(n)] = Told(y)
    /\ ApplyAll(T.ops, Settled)[Temporary(n, x.ts)] = NoEntry
    /\ z.state = "OLD" => ApplyAll(T.ops, Settled)[Temporary(n, q.ts)] = Told(z)
    /\ \A S \in PassingOf(T.ops, Settled) : Midway(S, n, x, q, ts)
    /\ \A g \in StagesOf(T.ops, Settled) : \A F :
          Taken(F, n, ts) => Due(g[1], g[2], F, objs', TRUE)

\* A sequence without its i-th element.
Without(r, s, i) ==
    /\ Len(r) = Len(s) - 1
    /\ \A k \in 1 .. Len(s) - 1 : r[k] = IF k < i THEN s[k] ELSE s[k + 1]

\* A transaction for each address, which removes what is there.
Sweeping(gone) ==
    [i \in 1 .. Len(gone) |-> Txn(gone[i].name, NoObject, <<Unlink(gone[i])>>)]

-----------------------------------------------------------------------------
(* The promise: a name's story, and what is known of the versions on a line. *)

\* What Story's recursion computes.
Tale(f, n, ts, st, k) ==
    f = [i \in 0 .. k |-> IF i = 0 THEN [st |-> st, line |-> <<VersionAt(n, st)>>]
                          ELSE Extended(n, f[i - 1], ts[i].ops)]

Versioned == [id : Ids, ts : Nat, meta : Nat, size : Nat]

\* What a story has come to.
Sound(told, n, st) ==
    /\ told.st \in Contents
    /\ told.line \in Seq(Versioned) /\ Len(told.line) > 0
    /\ told.line[1] = VersionAt(n, st)
    /\ told.line[Len(told.line)] = VersionAt(n, told.st)

Goes(f, n, ts, st) ==
    /\ \A k \in 0 .. Len(ts) : Sound(f[k], n, st)
    /\ \A k \in 1 .. Len(ts) : /\ f[k] = Extended(n, f[k - 1], ts[k].ops)
                               /\ f[k].st = ApplyAll(ts[k].ops, f[k - 1].st)

(* What two stories have in common, the first line being u longer. *)
Alike(n, u, x, y) == Agree(n, x.st, y.st) /\ x.line = u \o y.line

\* Nothing happens at some addresses.
Idles(A, ts, m) ==
    \A j \in 1 .. m : \A S \in Contents : \A x \in A : ApplyAll(ts[j].ops, S)[x] = S[x]

Calm(told, A, n, st) == (\A x \in A : told.st[x] = st[x]) /\ told.line = <<VersionAt(n, st)>>

(* A transaction of some name committed: its version of the name, if it    *)
(* has one, is the first of the line now.                                  *)
Before(n, st, new) == IF VersionAt(n, new) = VersionAt(n, st) THEN <<>> ELSE <<VersionAt(n, st)>>

Known(v, c, clock, os) ==
    v = Promise!Nothing \/
    /\ v \in EngineVersions /\ v.id[1] <= c
    /\ v.id[1] = c => /\ v.id[2] <= clock
                      /\ \A o \in Objects : os[o].state \in Writing => os[o].ts # v.id[2]

\* Who writes has an id of this life of the process, and keeps the bounds.
Wrote(x, c) ==
    x.state \in Writing =>
        x.id = <<c, x.ts>> /\ x.written \in 0 .. MaxChunks /\ x.metas \in 0 .. MaxMetas

\* Nobody begins to write but with a new reading of the clock.
Onward(os, clock, new, now) ==
    /\ clock <= now
    /\ \A o \in Objects : new[o].state \in Writing =>
          (os[o].state \in Writing /\ new[o].ts = os[o].ts) \/ new[o].ts > clock

Teller(n) == Story(n, Coming, disk)

Promised ==
    /\ crashes \in 0 .. MaxCrashes
    /\ \A o \in Objects : Wrote(objs[o], crashes)
    /\ \A n \in Names : /\ Agree(n, Teller(n).st, Settled)
                        /\ \A k \in 1 .. Len(Line(n)) : Known(Line(n)[k], crashes, last, objs)

Keeps == [Promise!Next]_([n \in Names |-> Line(n)])
=============================================================================
