-------------------------------- MODULE DbInfo --------------------------------
(***************************************************************************)
(* The agent that exports figures of the container databases on a storage  *)
(* node, monitoring/pdmas/swiftdbinfo/pmdaswiftdbinfo.py.                  *)
(*                                                                         *)
(* At each fetch it searches the node for databases and gives every one it *)
(* has not seen an instance number, which is never taken back.  The PCP    *)
(* daemon then asks for a metric of an instance by number, whenever it     *)
(* likes, of one that it learnt from an earlier fetch too; databases       *)
(* appear, change, break and are deleted all the while.                    *)
(*                                                                         *)
(* A row of a database is an object's size and whether it was deleted;     *)
(* the container server marks rows deleted and purges them much later.     *)
(***************************************************************************)
EXTENDS Naturals, FiniteSets, Sequences, SequencesExt, FiniteSetsExt

CONSTANTS Dbs,           \* paths of databases
          Expiring,      \* those of the expirer's accounts
          Sizes,         \* sizes of objects
          Bounds,        \* upper bounds of the buckets, ascending
          MayBreak,      \* whether a database may become unreadable
          MaxChanges     \* bound on what befalls the databases

Row == [size : Sizes, deleted : BOOLEAN]
None == "none"

VARIABLES there,      \* databases on the node
          broken,     \* those that cannot be read
          rows,       \* db -> its rows
          known,      \* db_instances: the one at i has instance number i - 1
          search,     \* what a fetch has found and not looked at; {} between
          fetching,   \* whether a fetch is on
          answer,     \* the last answer to the daemon
          changes

vars == <<there, broken, rows, known, search, fetching, answer, changes>>
agent == <<known, search, fetching, answer>>

Unasked == [db |-> None, error |-> FALSE, size |-> 0, count |-> 0,
            dist |-> [b \in 1..(Len(Bounds) + 1) |-> 0]]

Init == /\ there \in SUBSET Dbs
        /\ broken = {}
        /\ rows = [db \in Dbs |-> {}]
        /\ known = <<>> /\ search = {} /\ fetching = FALSE
        /\ answer = Unasked
        /\ changes = 0

Readable == there \ broken

-----------------------------------------------------------------------------
(* The databases.                                                          *)

Change == changes < MaxChanges /\ changes' = changes + 1

Appears(db) == /\ Change /\ db \notin there
               /\ there' = there \cup {db}
               /\ rows' = [rows EXCEPT ![db] = {}]
               /\ UNCHANGED <<broken, agent>>

Vanishes(db) == /\ Change /\ db \in there
                /\ there' = there \ {db} /\ broken' = broken \ {db}
                /\ UNCHANGED <<rows, agent>>

Breaks(db) == /\ MayBreak /\ Change /\ db \in Readable
              /\ broken' = broken \cup {db}
              /\ UNCHANGED <<there, rows, agent>>

\* An object is put or deleted.
Writes(db) ==
  \E r \in Row :
    /\ Change /\ db \in Readable
    /\ rows' = [rows EXCEPT ![db] = {q \in @ : q.size # r.size} \cup {r}]
    /\ UNCHANGED <<there, broken, agent>>

-----------------------------------------------------------------------------
(* Discovery.                                                              *)

\* __find_dbs: find prints the paths, in any order.
Fetch == /\ ~fetching
         /\ search' = there /\ fetching' = TRUE
         /\ UNCHANGED <<there, broken, rows, known, answer, changes>>

Tracked(db) == db \notin Expiring /\ db \notin Range(known)

\* __add_dbs: a new database gets the next number; one that cannot be read
\* ends the loop over all of them.
Looks(db) ==
  /\ db \in search
  /\ IF db \in Readable
     THEN /\ known' = IF Tracked(db) THEN Append(known, db) ELSE known
          /\ search' = search \ {db} /\ UNCHANGED fetching
     ELSE /\ search' = {} /\ fetching' = FALSE /\ UNCHANGED known
  /\ UNCHANGED <<there, broken, rows, answer, changes>>

\* Mutant: instances whose database is gone are dropped.
FetchDrops == /\ fetching /\ search = {}
              /\ fetching' = FALSE
              /\ known' = SelectSeq(known, LAMBDA db : db \in there)
              /\ UNCHANGED <<there, broken, rows, search, answer, changes>>

FetchEnds == /\ fetching /\ search = {}
             /\ fetching' = FALSE
             /\ UNCHANGED <<there, broken, rows, known, search, answer, changes>>

-----------------------------------------------------------------------------
(* Metrics.                                                                *)

\* generate_named_bucket_query: CASE takes the first bucket whose range holds
\* the size, each range from the bound before, plus one, to its own.
Bucket(size) ==
  LET within == {i \in DOMAIN Bounds :
                   size \in (IF i = 1 THEN 0 ELSE Bounds[i - 1] + 1)..Bounds[i]}
  IN IF within = {} THEN Len(Bounds) + 1 ELSE Min(within)

\* Size as the database keeps it; both queries read the whole table.
Figures(db) ==
  [db |-> db, error |-> FALSE,
   size |-> SumSet({r.size : r \in {q \in rows[db] : ~q.deleted}}),
   count |-> Cardinality(rows[db]),
   dist |-> [b \in 1..(Len(Bounds) + 1) |->
               Cardinality({r \in rows[db] : Bucket(r.size) = b})]]

Failed(db) == [Unasked EXCEPT !.db = db, !.error = TRUE]

\* fetch_callback: PM_ERR_INST for a number not given out, no value for a
\* database that is gone or cannot be read.  (Three metrics, each asked for by
\* itself, in one.)
Answers(inst) ==
  /\ ~fetching
  /\ answer' = IF inst >= Len(known) THEN Failed(None)
               ELSE IF known[inst + 1] \in Readable THEN Figures(known[inst + 1])
               ELSE Failed(known[inst + 1])
  /\ UNCHANGED <<there, broken, rows, known, search, fetching, changes>>

Agent == Fetch \/ FetchEnds \/ \E db \in Dbs : Looks(db)

Next == \/ Agent
        \/ \E inst \in 0..Cardinality(Dbs) : Answers(inst)
        \/ \E db \in Dbs : Appears(db) \/ Vanishes(db) \/ Breaks(db) \/ Writes(db)

Spec == Init /\ [][Next]_vars

-----------------------------------------------------------------------------
TypeOK ==
  /\ search \cup broken \subseteq Dbs /\ broken \subseteq there /\ there \subseteq Dbs
  /\ rows \in [Dbs -> SUBSET Row]
  /\ known \in Seq(Dbs \ Expiring) /\ Len(known) <= Cardinality(Dbs)
  /\ fetching \in BOOLEAN /\ (search # {} => fetching)
  /\ answer.db \in Dbs \cup {None} /\ changes \in 0..MaxChanges

\* A number the daemon has learnt means the same database for as long as the
\* agent runs, whatever disappears and comes back.
NumbersAreKept ==
  [][\A i \in DOMAIN known : i \in DOMAIN known' /\ known'[i] = known[i]]_vars

\* No database has two numbers.
OneNumberEach == \A i, j \in DOMAIN known : known[i] = known[j] => i = j

\* Every row counts in the smallest bucket that can hold its size, and in the
\* one above them all only if none can.
BucketsAreTight ==
  \A db \in Dbs : \A r \in rows[db] :
    LET b == Bucket(r.size)
    IN IF \E i \in DOMAIN Bounds : r.size <= Bounds[i]
       THEN /\ b \in DOMAIN Bounds /\ r.size <= Bounds[b]
            /\ \A i \in 1..(b - 1) : Bounds[i] < r.size
       ELSE b = Len(Bounds) + 1
===============================================================================
