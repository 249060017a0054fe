------------------------------- MODULE Submit -------------------------------
(***************************************************************************)
(* How prepared transactions reach BlueStore.                              *)
(*                                                                         *)
(* Whatever changes the store is prepared on the server's one thread (the  *)
(* hub), which appends a transaction to the engine's queue under           *)
(* queue_lock.  The calls that wait, submit() and sync(), run on a pool of *)
(* real threads: a worker that gets submit_lock hands the queue over in    *)
(* the order it was filled, one that does not returns at once and leaves   *)
(* its caller's transactions to the worker that holds the lock.            *)
(*                                                                         *)
(* A transaction is its number in the order transactions were prepared.    *)
(***************************************************************************)
EXTENDS Naturals, Sequences

CONSTANTS
    Workers,     \* the threads of the pool (eventlet_tpool_num_threads)
    Objects,     \* the engine's Objects
    Requests,    \* the greenthreads of the hub that call the engine
    NoWorker,    \* the holder of a lock nobody holds
    MaxTxns,     \* BOUND: transactions prepared in one behaviour
    CanFail      \* whether queue_transaction may return an error

ASSUME SubmitAssumption ==
    /\ NoWorker \notin Workers
    /\ MaxTxns \in Nat
    /\ CanFail \in BOOLEAN

VARIABLES
    holder,      \* who can reach an Object: its writer, every request, nobody
    of,          \* of[t] is the Object transaction t belongs to
    queue,       \* impl::queue: prepared, not yet handed over
    done,        \* done[o]: the transaction o.done waits for, 0 for none
    reqq,        \* the calls handed to the pool and not yet taken
    called,      \* the transactions prepared by whoever made a call for them
    calls,       \* the requests whose call has not returned
    pc,          \* where each worker is in submit() and sync()
    job,         \* the call each worker runs
    batch,       \* submit()'s local batch, what is left of it
    local,       \* sync()'s local copy of done
    submitLock, queueLock,   \* impl::submit_lock and impl::queue_lock
    handed,      \* what BlueStore was given, in order
    durable,     \* what BlueStore has reported committed
    acked,       \* transactions whose sync() has returned
    lost         \* what a failed queue_transaction dropped

hubVars   == <<holder, of, queue, done>>
callVars  == <<reqq, called, calls>>
threadVars == <<pc, job, batch, local, submitLock, queueLock>>
storeVars == <<handed, durable, lost>>
vars == <<hubVars, callVars, threadVars, storeVars, acked>>

Txns == 1 .. Len(of)
Kinds == {"submit", "sync"}
Places == {"idle", "try", "lock", "locked", "hand", "release",
           "return", "wait"}
Jobs == [kind : Kinds, req : Requests, obj : Objects, owed : Nat]
NoJob == [kind |-> "none", owed |-> 0]

Elements(s) == {s[i] : i \in 1 .. Len(s)}
Increasing(s) == \A i, j \in 1 .. Len(s) : i < j => s[i] < s[j]

\* An Object is either being written by the request that created it, or was
\* found before: then it is in the Device's map, and every request shares it.
Init ==
    /\ holder \in [Objects -> Requests \cup {"shared"}]
    /\ of = <<>> /\ queue = <<>> /\ done = [o \in Objects |-> 0]
    /\ reqq = <<>> /\ called = {} /\ calls = {}
    /\ pc = [w \in Workers |-> "idle"]
    /\ job = [w \in Workers |-> NoJob]
    /\ batch = [w \in Workers |-> <<>>]
    /\ local = [w \in Workers |-> 0]
    /\ submitLock = NoWorker /\ queueLock = NoWorker
    /\ handed = <<>> /\ durable = {} /\ lost = {} /\ acked = {}

-----------------------------------------------------------------------------
(* The hub.  prepare() builds its transaction and its future first, and    *)
(* appends the one and publishes the other under queue_lock.               *)

\* A mutant: the future is not published.
PrepareUnpublished(o, tracked) ==
    /\ queueLock = NoWorker
    /\ Len(of) < MaxTxns
    /\ of' = Append(of, o)
    /\ queue' = Append(queue, Len(of'))
    /\ UNCHANGED done

Prepare(o, tracked) ==
    /\ queueLock = NoWorker
    /\ Len(of) < MaxTxns
    /\ of' = Append(of, o)
    /\ queue' = Append(queue, Len(of'))
    /\ done' = IF tracked THEN [done EXCEPT ![o] = Len(of')] ELSE done

\* tpool.execute: the call waits its turn for a worker.  "owed" records the
\* transaction its caller has just prepared, 0 if none.
Execute(r, kind, o, txn) ==
    /\ r \notin calls
    /\ calls' = calls \cup {r}
    /\ reqq' = Append(reqq, [kind |-> kind, req |-> r, obj |-> o, owed |-> txn])
    /\ called' = called \cup ({txn} \ {0})

\* A body's chunk: prepared, and submitted without waiting for the disk.
Write(r, o) ==
    /\ holder[o] = r
    /\ Prepare(o, TRUE)
    /\ Execute(r, "submit", o, Len(of'))
    /\ UNCHANGED <<holder, threadVars, storeVars, acked>>

\* A PUT or a DELETE, which makes its own Object the shared one, or a POST to
\* the shared one: the decision is prepared, then synced.
Change(r, o) ==
    /\ holder[o] \in {r, "shared"}
    /\ holder' = [holder EXCEPT ![o] = "shared"]
    /\ Prepare(o, TRUE)
    /\ Execute(r, "sync", o, Len(of'))
    /\ UNCHANGED <<threadVars, storeVars, acked>>

\* A metadata read syncs the Object it reads, having prepared nothing.
Look(r, o) ==
    /\ holder[o] = "shared"
    /\ Execute(r, "sync", o, 0)
    /\ UNCHANGED <<hubVars, threadVars, storeVars, acked>>

\* The last holder of an Object lets go, so no call names it: its removal is
\* prepared, and goes with whatever is submitted next.
Discard(o) ==
    /\ holder[o] # "gone"
    /\ \A i \in 1 .. Len(reqq) : reqq[i].obj # o
    /\ \A w \in Workers : pc[w] # "idle" => job[w].obj # o
    /\ holder' = [holder EXCEPT ![o] = "gone"]
    /\ Prepare(o, FALSE)
    /\ UNCHANGED <<callVars, threadVars, storeVars, acked>>

-----------------------------------------------------------------------------
(* The pool.                                                               *)

Take(w) ==
    /\ pc[w] = "idle" /\ reqq # <<>>
    /\ job' = [job EXCEPT ![w] = Head(reqq)]
    /\ reqq' = Tail(reqq)
    /\ pc' = [pc EXCEPT ![w] = "try"]
    /\ UNCHANGED <<hubVars, called, calls, batch, local, submitLock, queueLock,
                   storeVars, acked>>

\* A mutant: submit() does not care who else is submitting.
TryLockIgnored(w) ==
    /\ pc[w] = "try"
    /\ submitLock' = w
    /\ pc' = [pc EXCEPT ![w] = "lock"]
    /\ UNCHANGED <<hubVars, callVars, job, batch, local, queueLock,
                   storeVars, acked>>

TryLock(w) ==
    /\ pc[w] = "try"
    /\ IF submitLock = NoWorker
       THEN submitLock' = w /\ pc' = [pc EXCEPT ![w] = "lock"]
       ELSE pc' = [pc EXCEPT ![w] = "return"] /\ UNCHANGED submitLock
    /\ UNCHANGED <<hubVars, callVars, job, batch, local, queueLock,
                   storeVars, acked>>

LockQueue(w) ==
    /\ pc[w] = "lock" /\ queueLock = NoWorker
    /\ queueLock' = w
    /\ pc' = [pc EXCEPT ![w] = "locked"]
    /\ UNCHANGED <<hubVars, callVars, job, batch, local, submitLock,
                   storeVars, acked>>

Swap(w) ==
    /\ pc[w] = "locked" /\ queue # <<>>
    /\ batch' = [batch EXCEPT ![w] = queue]
    /\ queue' = <<>>
    /\ queueLock' = NoWorker
    /\ pc' = [pc EXCEPT ![w] = "hand"]
    /\ UNCHANGED <<holder, of, done, callVars, job, local, submitLock, storeVars,
                   acked>>

\* An empty queue ends submit().  s.unlock() runs while the lock_guard of
\* queue_lock is still alive, so submit_lock is the first of the two to go.
\* The mutant lets go of them the other way round.
ReleaseSwapped == <<"queue", "submit">>

ReleaseOrder == <<"submit", "queue">>

Unlock(which) ==
    /\ submitLock' = IF which = "submit" THEN NoWorker ELSE submitLock
    /\ queueLock' = IF which = "queue" THEN NoWorker ELSE queueLock

FoundEmpty(w) ==
    /\ pc[w] = "locked" /\ queue = <<>>
    /\ Unlock(ReleaseOrder[1])
    /\ pc' = [pc EXCEPT ![w] = "release"]
    /\ UNCHANGED <<hubVars, callVars, job, batch, local, storeVars, acked>>

Released(w) ==
    /\ pc[w] = "release"
    /\ Unlock(ReleaseOrder[2])
    /\ pc' = [pc EXCEPT ![w] = "return"]
    /\ UNCHANGED <<hubVars, callVars, job, batch, local, storeVars, acked>>

Hand(w) ==
    /\ pc[w] = "hand"
    /\ handed' = Append(handed, Head(batch[w]))
    /\ batch' = [batch EXCEPT ![w] = Tail(batch[w])]
    /\ pc' = [pc EXCEPT ![w] = IF Len(batch[w]) = 1 THEN "lock" ELSE "hand"]
    /\ UNCHANGED <<hubVars, callVars, job, local, submitLock, queueLock,
                   durable, lost, acked>>

Return(w) ==
    /\ pc' = [pc EXCEPT ![w] = "idle"]
    /\ job' = [job EXCEPT ![w] = NoJob]
    /\ local' = [local EXCEPT ![w] = 0]
    /\ calls' = calls \ {job[w].req}
    /\ UNCHANGED called

\* A mutant: the lock is not given back.
HandFailsHolding(w) ==
    /\ CanFail /\ pc[w] = "hand"
    /\ lost' = lost \cup Elements(batch[w])
    /\ batch' = [batch EXCEPT ![w] = <<>>]
    /\ Return(w)
    /\ UNCHANGED <<hubVars, reqq, submitLock, queueLock, handed, durable, acked>>

\* queue_transaction returns an error: submit() throws, so its lock goes, the
\* rest of its batch is dropped and the call it was made for fails.
HandFails(w) ==
    /\ CanFail /\ pc[w] = "hand"
    /\ lost' = lost \cup Elements(batch[w])
    /\ batch' = [batch EXCEPT ![w] = <<>>]
    /\ submitLock' = NoWorker
    /\ Return(w)
    /\ UNCHANGED <<hubVars, reqq, queueLock, handed, durable,
                   acked>>

\* submit() is over; sync() goes on to read done, under queue_lock.
SubmitReturns(w) ==
    /\ pc[w] = "return" /\ job[w].kind = "submit"
    /\ Return(w)
    /\ UNCHANGED <<hubVars, reqq, batch, submitLock, queueLock,
                   storeVars, acked>>

ReadDone(w) ==
    /\ pc[w] = "return" /\ job[w].kind = "sync" /\ queueLock = NoWorker
    /\ local' = [local EXCEPT ![w] = done[job[w].obj]]
    /\ pc' = [pc EXCEPT ![w] = "wait"]
    /\ UNCHANGED <<hubVars, callVars, job, batch, submitLock, queueLock,
                   storeVars, acked>>

SyncReturns(w) ==
    /\ pc[w] = "wait" /\ local[w] \in durable \cup {0}
    /\ Return(w)
    /\ acked' = acked \cup ({job[w].owed} \ {0})
    /\ UNCHANGED <<hubVars, reqq, batch, submitLock, queueLock,
                   storeVars>>

-----------------------------------------------------------------------------
(* BlueStore reports commits some time later, in the order it was handed   *)
(* the transactions of one collection.  Transactions of one Object share a *)
(* collection; nothing is assumed of the others.                           *)

Commit(t) ==
    /\ t \in Elements(handed) \ durable
    /\ \A u \in Elements(handed) : u < t /\ of[u] = of[t] => u \in durable
    /\ durable' = durable \cup {t}
    /\ UNCHANGED <<hubVars, callVars, threadVars, handed, lost, acked>>

Work(w) ==
    \/ Take(w) \/ TryLock(w) \/ LockQueue(w) \/ Swap(w) \/ FoundEmpty(w)
    \/ Released(w) \/ Hand(w) \/ HandFails(w) \/ SubmitReturns(w)
    \/ ReadDone(w) \/ SyncReturns(w)

Next ==
    \/ \E r \in Requests, o \in Objects :
          Write(r, o) \/ Change(r, o) \/ Look(r, o)
    \/ \E o \in Objects : Discard(o)
    \/ \E w \in Workers : Work(w)
    \/ \E t \in Txns : Commit(t)

Spec == Init /\ [][Next]_vars

(* The operating system runs every worker, a mutex a worker asks for       *)
(* again and again is had in the end, and BlueStore commits what it was    *)
(* handed.  Nothing makes the hub start another request.                   *)
Fairness ==
    /\ \A w \in Workers : SF_vars(Work(w))
    /\ \A t \in 1 .. MaxTxns : WF_vars(t \in Txns /\ Commit(t))

FairSpec == Spec /\ Fairness

-----------------------------------------------------------------------------
TypeOK ==
    /\ holder \in [Objects -> Requests \cup {"shared", "gone"}]
    /\ of \in Seq(Objects) /\ queue \in Seq(Nat)
    /\ done \in [Objects -> Nat]
    /\ reqq \in Seq(Jobs) /\ called \subseteq Nat
    /\ calls \subseteq Requests
    /\ pc \in [Workers -> Places] /\ job \in [Workers -> Jobs \cup {NoJob}]
    /\ batch \in [Workers -> Seq(Nat)] /\ local \in [Workers -> Nat]
    /\ submitLock \in Workers \cup {NoWorker}
    /\ queueLock \in Workers \cup {NoWorker}
    /\ handed \in Seq(Nat) /\ durable \subseteq Nat
    /\ acked \subseteq Nat /\ lost \subseteq Nat
    /\ \A w \in Workers : pc[w] = "idle" <=> job[w] = NoJob

\* What is on its way, in the order it will have reached BlueStore.
Held == IF submitLock = NoWorker THEN <<>> ELSE batch[submitLock]
Line == (handed \o Held) \o queue

(* Transactions are handed over in the order their decisions were made,    *)
(* and each of them exactly once, whatever the workers do                  *)
(* (ARCHITECTURE.md "Prepared, submitted, synced"): what was handed over,  *)
(* then what the one submitter still holds, then what is queued, is every  *)
(* transaction ever prepared, in order, but for those a failure dropped.   *)
HandedInOrder ==
    /\ Increasing(Line)
    /\ Elements(Line) = Txns \ lost

(* A queued transaction somebody made a call for has not been given up on: *)
(* its call has not tried for submit_lock yet, or whoever holds that lock  *)
(* is going to look at the queue once more.  A worker that leaves because  *)
(* another is already submitting relies on this (internal.cpp:195-205).    *)
(* After a failed hand-over nobody looks again; see the README.            *)
Looking(w) == submitLock = w /\ pc[w] \in {"lock", "locked", "hand"}

NoStranded ==
    lost = {} =>
        \A t \in called \cap Elements(queue) :
            \/ \E i \in 1 .. Len(reqq) : reqq[i].owed = t
            \/ \E w \in Workers : pc[w] = "try" /\ job[w].owed = t
            \/ \E w \in Workers : Looking(w)

(* When sync() returns, what its caller prepared before it is durable,     *)
(* though done may have moved on to a later transaction of the Object      *)
(* meanwhile.  A failed hand-over is outside the promise.                  *)
AckedDurable == lost = {} => acked \subseteq durable

(* What the three rest on.  The locks are held where the code between       *)
(* taking and releasing them says; a future is published no later than the *)
(* call that relies on it is made, and only moves forward; a collection's  *)
(* transactions become durable in order.                                   *)
Locks ==
    /\ \A w \in Workers :
          /\ pc[w] \in {"lock", "locked", "hand"} => submitLock = w
          /\ pc[w] \in {"locked", "release"} <=> queueLock = w
          /\ batch[w] # <<>> <=> pc[w] = "hand"
    /\ submitLock # NoWorker => pc[submitLock] \in {"lock", "locked", "hand"}

Owes(j, published) ==
    j.owed # 0 => /\ j.owed \in Txns
                  /\ of[j.owed] = j.obj
                  /\ j.owed <= published

Futures ==
    /\ \A o \in Objects : done[o] # 0 => done[o] \in Txns /\ of[done[o]] = o
    /\ \A i \in 1 .. Len(reqq) : Owes(reqq[i], done[reqq[i].obj])
    /\ \A w \in Workers :
          /\ pc[w] # "idle" => Owes(job[w], done[job[w].obj])
          /\ pc[w] = "wait" =>
                /\ Owes(job[w], local[w])
                /\ local[w] # 0 => /\ local[w] \in Txns
                                   /\ of[local[w]] = job[w].obj

CommittedInOrder ==
    /\ durable \subseteq Elements(handed)
    /\ \A t \in durable, u \in Txns \ lost :
          u < t /\ of[u] = of[t] => u \in durable

\* The inductive invariant: every step of the system preserves it.
SubmitInv ==
    /\ TypeOK
    /\ called \subseteq Txns /\ lost \subseteq Txns
    /\ Locks /\ HandedInOrder /\ NoStranded
    /\ Futures /\ CommittedInOrder /\ AckedDurable

(* Every submit() and sync() returns.  There has to be a thread for every  *)
(* request: with fewer, a sync can wait for a transaction whose own call   *)
(* waits for a thread.  A failed hand-over is outside the promise: the     *)
(* future of a transaction it dropped is never settled.                    *)
CallsReturn ==
    \A r \in Requests : r \in calls ~> r \notin calls \/ lost # {}
=============================================================================
