---------------------------- MODULE ObjectServer ----------------------------
(***************************************************************************)
(* What PUT, POST and DELETE of one object do at one object server,        *)
(* swift_patches/obj/bs_server.py: the files of the object, the listing    *)
(* of its container and the queue of the objects that expire.              *)
(*                                                                         *)
(* Every request is a greenthread and nothing locks the object.  A request *)
(* opens the object once, decides from what it saw, and then writes; the   *)
(* updates of the container are greenthreads of their own that may outlive *)
(* it, and one that fails is saved for the updater daemon under a name     *)
(* made of the object and a timestamp.                                     *)
(*                                                                         *)
(* Which of the files count is DiskRules; unlinking the others changes     *)
(* nothing here and is OnDisk's and EC's.  Content is its timestamp.       *)
(***************************************************************************)
EXTENDS DiskRules

CONSTANTS Requests,   \* requests that may come
          Containers, \* container servers that list the object
          MaxTime,    \* timestamps of requests are 2..MaxTime
          DeleteAts,  \* times at which an object may be set to expire
          TwoPhase,   \* a PUT sends its data and its commit apart
          Faults      \* what may go wrong

ASSUME ObjectServerAssumption ==
  /\ MaxTime \in Nat /\ MaxTime > 1
  /\ DeleteAts \subseteq 1..MaxTime
  /\ TwoPhase \in BOOLEAN
  /\ Faults \subseteq {"full", "unreachable", "hangup", "death"}

Time == 1..MaxTime
Never == 0

\* A request.  X-Delete-At in the past is refused; the expirer deletes at the
\* time the object was to expire and says so with x-if-delete-at.
Menu == {m \in [op : {"PUT", "POST", "DELETE"}, ts : 2..MaxTime,
                delete_at : {Never} \cup DeleteAts, ctype : 0..MaxTime,
                if_delete_at : {Never} \cup DeleteAts] :
           /\ m.op = "DELETE" \/ m.if_delete_at = Never
           /\ m.op = "POST" \/ m.ctype = 0
           /\ m.delete_at # Never => m.op # "DELETE" /\ m.delete_at >= m.ts
           /\ m.ctype \in {0, m.ts}
           /\ m.if_delete_at \in {Never, m.ts}}

File == [ext : {"data", "meta", "ts"}, ts : Time, ctype : 0..MaxTime,
         delete_at : {Never} \cup DeleteAts, durable : BOOLEAN]

\* What a container update says of the object.
Entry == [ts : Time, deleted : BOOLEAN, ctype : Time, meta : Time]
NoEntry == [ts |-> 0, deleted |-> TRUE, ctype |-> 0, meta |-> 0]

VARIABLES files,    \* the object's directory
          row,      \* container server -> what it lists
          pending,  \* timestamp -> the update saved under it, or NoEntry
          task,     \* time -> the newest word on the task to expire then
          req,      \* request -> what it asks, saw and became
          thread    \* request -> container servers its greenthreads still try

vars == <<files, row, pending, task, req, thread>>

-----------------------------------------------------------------------------
(* What an open sees.                                                      *)

View(fs) ==
  LET whole == {f \in fs : f.durable}
      live == whole \ Superseded(whole)
      data == Latest(Kind(live, "data"))
      at == Largest({0} \cup {d.ts : d \in data})
      metas == {m \in Kind(live, "meta") : m.ts > at}
      last == IF metas = {} THEN data ELSE Latest(metas)
  IN IF data = {}
     THEN [found |-> FALSE, data |-> 0, meta |-> 0, ctype |-> 0, delete_at |-> Never,
           tomb |-> Largest({0} \cup {f.ts : f \in Kind(live, "ts")})]
     ELSE [found |-> TRUE, data |-> at, tomb |-> 0,
           meta |-> Largest({0} \cup {m.ts : m \in metas}),
           ctype |-> Largest({at} \cup {m.ctype : m \in metas}),
           delete_at |-> (CHOOSE f \in last : TRUE).delete_at]

Timestamp(v) == Largest({v.data, v.meta})       \* X-Timestamp, 0 if not found
Expired(v, now) == v.delete_at # Never /\ v.delete_at <= now

\* What PUT and DELETE compare their time with: the data or the tombstone, but
\* of an expired object the .meta counts too.
LastWrite(v, now) == IF Expired(v, now) THEN Timestamp(v) ELSE Largest({v.data, v.tomb})

-----------------------------------------------------------------------------
Idle == [at |-> "idle", op |-> "PUT", ts |-> 0, delete_at |-> Never, ctype |-> 0,
         if_delete_at |-> Never, orig |-> View({}), update |-> NoEntry, answer |-> "none"]

NoTask == [ts |-> 0, queued |-> FALSE]

\* A container server keeps the newest of each: the data or its deletion, the
\* content type, the metadata.
Merge(e, f) == LET newer == IF f.ts > e.ts THEN f ELSE e
               IN [newer EXCEPT !.ctype = Largest({e.ctype, f.ctype}),
                                !.meta = Largest({e.meta, f.meta})]

\* The object was written before, may be set to expire, and is listed.
Init == \E d \in {Never} \cup DeleteAts :
  /\ files = {[ext |-> "data", ts |-> 1, ctype |-> 0, delete_at |-> d, durable |-> TRUE]}
  /\ row = [c \in Containers |-> [ts |-> 1, deleted |-> FALSE, ctype |-> 1, meta |-> 1]]
  /\ pending = [t \in Time |-> NoEntry]
  /\ task = [t \in DeleteAts |-> IF t = d THEN [ts |-> 1, queued |-> TRUE] ELSE NoTask]
  /\ req = [r \in Requests |-> Idle]
  /\ thread = [r \in Requests |-> {}]

Ended(r, code) == req' = [req EXCEPT ![r].at = "done", ![r].answer = code]
Goes(r, at) == req' = [req EXCEPT ![r].at = at]

Comes(r, m, step, code) ==
  /\ req' = [req EXCEPT ![r] =
       [at |-> step, op |-> m.op, ts |-> m.ts, delete_at |-> m.delete_at,
        ctype |-> m.ctype, if_delete_at |-> m.if_delete_at,
        orig |-> View(files), update |-> NoEntry, answer |-> code]]
  /\ UNCHANGED <<files, row, pending, task, thread>>

\* _pre_create_checks: 409 unless newer than the data or the tombstone; of
\* an expired object it is the newest file that counts.
PutComes(r, m) ==
  LET orig == View(files)
      at == LastWrite(orig, m.ts)
  IN /\ m.op = "PUT"
     /\ IF at >= m.ts THEN Comes(r, m, "done", "409") ELSE Comes(r, m, "upload", "none")

\* POST: 404 without a live object, 409 if neither the metadata nor the
\* content type is news.  Only a newer POST touches the expirer's queue.
PostComes(r, m) ==
  LET orig == View(files)
  IN /\ m.op = "POST"
     /\ \/ /\ ~orig.found \/ Expired(orig, m.ts)
           /\ Comes(r, m, "done", "404")
        \/ /\ orig.found /\ ~Expired(orig, m.ts)
           /\ IF m.ts > Timestamp(orig) THEN Comes(r, m, "queue", "none")
              ELSE IF m.ctype > orig.ctype THEN Comes(r, m, "write", "none")
              ELSE Comes(r, m, "done", "409")

\* DELETE: with x-if-delete-at it goes on only if there is an older object
\* that is to expire just then.
DeleteComes(r, m) ==
  LET orig == View(files)
      at == LastWrite(orig, m.ts)
  IN /\ m.op = "DELETE"
     /\ IF m.if_delete_at = Never THEN Comes(r, m, "queue", "none")
        ELSE IF at = 0 THEN Comes(r, m, "done", "404")
        ELSE IF at >= m.ts THEN Comes(r, m, "done", "409")
        ELSE IF orig.delete_at # m.if_delete_at THEN Comes(r, m, "done", "412")
        ELSE Comes(r, m, "queue", "none")

-----------------------------------------------------------------------------
(* The upload of a PUT.                                                    *)

\* The client stalls or leaves, an etag does not match, the disk is full.
UploadFails(r) ==
  /\ req[r].at = "upload"
  /\ Ended(r, "4xx")
  /\ UNCHANGED <<files, row, pending, task, thread>>

\* The temporary file is renamed in; with one phase that is all of it.
PutData(r) ==
  /\ req[r].at = "upload"
  /\ files' = files \cup {[ext |-> "data", ts |-> req[r].ts, ctype |-> 0,
                           delete_at |-> req[r].delete_at, durable |-> ~TwoPhase]}
  /\ Goes(r, IF TwoPhase THEN "commit" ELSE "queue")
  /\ UNCHANGED <<row, pending, task, thread>>

\* Another 100 Continue, and the proxy never sends its commit.
CommitNeverComes(r) ==
  /\ req[r].at = "commit"
  /\ Ended(r, "4xx")
  /\ UNCHANGED <<files, row, pending, task, thread>>

\* Mutant: the answer does not wait for the data to be durable.
CommitForgets(r) ==
  /\ req[r].at = "commit"
  /\ Goes(r, "queue")
  /\ UNCHANGED <<files, row, pending, task, thread>>

Commit(r) ==
  /\ req[r].at = "commit"
  /\ files' = {[f EXCEPT !.durable = @ \/ (f.ext = "data" /\ f.ts = req[r].ts)] : f \in files}
  /\ Goes(r, "queue")
  /\ UNCHANGED <<row, pending, task, thread>>

\* What is left of the request body is read after the commit: a proxy that
\* hangs up there ends the request before anything is told of it.
HangUp(r) ==
  /\ "hangup" \in Faults /\ TwoPhase
  /\ req[r].at = "queue" /\ req[r].op = "PUT"
  /\ Ended(r, "cut")
  /\ UNCHANGED <<files, row, pending, task, thread>>

-----------------------------------------------------------------------------
(* The expirer's queue: a PUT updates it once it is durable, POST and      *)
(* DELETE before they write.                                               *)

\* Mutant: the old task is removed though the object is to expire then still.
TaskWordUnequal(r, d) == IF d = req[r].orig.delete_at THEN "removed"
                         ELSE IF d = req[r].delete_at THEN "queued" ELSE "unchanged"

\* _conditional_delete_at_update: queue the new time, remove the old one if
\* it is another.  A PUT does not look at what had expired already, and the
\* expirer removes its own task.
TaskWord(r, d) ==
  LET orig == req[r].orig
      seen == IF req[r].op = "PUT" /\ Expired(orig, req[r].ts) THEN Never ELSE orig.delete_at
  IN IF d = req[r].delete_at THEN "queued"
     ELSE IF d = seen /\ req[r].if_delete_at = Never THEN "removed" ELSE "unchanged"

\* delete_at_update: the queue is a container too and the newest word counts.
TellQueue(r) ==
  task' = [d \in DeleteAts |->
             IF TaskWord(r, d) = "unchanged" \/ task[d].ts >= req[r].ts THEN task[d]
             ELSE [ts |-> req[r].ts, queued |-> TaskWord(r, d) = "queued"]]

\* container_update: one greenthread for each container server.
Report(r, entry, code) ==
  /\ req' = [req EXCEPT ![r].at = "wait", ![r].update = entry, ![r].answer = code]
  /\ thread' = [thread EXCEPT ![r] = Containers]

\* _post_commit_updates.
PutTells(r) ==
  LET t == req[r].ts
  IN /\ req[r].at = "queue" /\ req[r].op = "PUT"
     /\ TellQueue(r)
     /\ Report(r, [ts |-> t, deleted |-> FALSE, ctype |-> t, meta |-> t], "201")
     /\ UNCHANGED <<files, row, pending>>

PostTells(r) ==
  /\ req[r].at = "queue" /\ req[r].op = "POST"
  /\ TellQueue(r)
  /\ Goes(r, "write")
  /\ UNCHANGED <<files, row, pending, thread>>

\* A DELETE removes the task even when it turns out to be too old to delete.
DeleteTells(r) ==
  /\ req[r].at = "queue" /\ req[r].op = "DELETE"
  /\ TellQueue(r)
  /\ IF LastWrite(req[r].orig, req[r].ts) < req[r].ts
     THEN Goes(r, "write") ELSE Ended(r, "409")
  /\ UNCHANGED <<files, row, pending, thread>>

-----------------------------------------------------------------------------
\* write_metadata.  A POST with nothing new but its content type keeps the
\* metadata of the .meta it saw, its timestamp included; the content type
\* goes with the .meta unless it is the data's own.
WriteMeta(r) ==
  LET orig == req[r].orig
      newer == req[r].ts > Timestamp(orig)
      at == IF newer THEN req[r].ts ELSE orig.meta
      ctype == Largest({req[r].ctype, orig.ctype})
  IN /\ req[r].at = "write" /\ req[r].op = "POST"
     /\ files' = files \cup {[ext |-> "meta", ts |-> at,
                              ctype |-> IF ctype = orig.data THEN 0 ELSE ctype,
                              delete_at |-> IF newer THEN req[r].delete_at ELSE orig.delete_at,
                              durable |-> TRUE]}
     /\ Report(r, [ts |-> orig.data, deleted |-> FALSE, ctype |-> ctype, meta |-> at], "202")
     /\ UNCHANGED <<row, pending, task>>

\* disk_file.delete.
Tombstone(r) ==
  LET t == req[r].ts
  IN /\ req[r].at = "write" /\ req[r].op = "DELETE"
     /\ files' = files \cup {[ext |-> "ts", ts |-> t, ctype |-> 0,
                              delete_at |-> Never, durable |-> TRUE]}
     /\ Report(r, [ts |-> t, deleted |-> TRUE, ctype |-> t, meta |-> t],
               IF req[r].orig.found THEN "204" ELSE "404")
     /\ UNCHANGED <<row, pending, task>>

\* There is no room for the .meta or the tombstone.
DiskIsFull(r) ==
  /\ "full" \in Faults /\ req[r].at = "write"
  /\ Ended(r, "507")
  /\ UNCHANGED <<files, row, pending, task, thread>>

-----------------------------------------------------------------------------
(* Container updates.                                                      *)

UpdateSucceeds(r, c) ==
  /\ c \in thread[r]
  /\ row' = [row EXCEPT ![c] = Merge(row[c], req[r].update)]
  /\ thread' = [thread EXCEPT ![r] = @ \ {c}]
  /\ UNCHANGED <<files, pending, task, req>>

\* Mutant: a POST's update is saved under the timestamp of the data.
UpdateFailsByData(r, c) ==
  /\ "unreachable" \in Faults /\ c \in thread[r]
  /\ \E arrived \in BOOLEAN :
       row' = IF arrived THEN [row EXCEPT ![c] = Merge(row[c], req[r].update)] ELSE row
  /\ pending' = [pending EXCEPT ![req[r].update.ts] = req[r].update]
  /\ thread' = [thread EXCEPT ![r] = @ \ {c}]
  /\ UNCHANGED <<files, task, req>>

\* Mutant: an update that fails is tried again at once.
UpdateRetries(r, c) ==
  /\ "unreachable" \in Faults /\ c \in thread[r]
  /\ UNCHANGED vars

\* async_update: an error, a timeout or a lost answer, and the update is
\* saved for later.  The name is made of the object and x-meta-timestamp, or
\* x-timestamp when there is none; it replaces what has the same name.
UpdateFails(r, c) ==
  /\ "unreachable" \in Faults /\ c \in thread[r]
  /\ \E arrived \in BOOLEAN :
       row' = IF arrived THEN [row EXCEPT ![c] = Merge(row[c], req[r].update)] ELSE row
  /\ pending' = [pending EXCEPT ![req[r].update.meta] = req[r].update]
  /\ thread' = [thread EXCEPT ![r] = @ \ {c}]
  /\ UNCHANGED <<files, task, req>>

\* All have ended, or container_update_timeout is over.
Answers(r) ==
  /\ req[r].at = "wait"
  /\ Goes(r, "done")
  /\ UNCHANGED <<files, row, pending, task, thread>>

\* The process dies with every request and greenthread in it.
Dies ==
  /\ "death" \in Faults
  /\ \E r \in Requests : req[r].at \notin {"idle", "done"} \/ thread[r] # {}
  /\ req' = [r \in Requests |->
       IF req[r].at \in {"idle", "done"} /\ thread[r] = {} THEN req[r]
       ELSE [req[r] EXCEPT !.at = "done", !.answer = "died"]]
  /\ thread' = [r \in Requests |-> {}]
  /\ UNCHANGED <<files, row, pending, task>>

\* Timestamps of requests differ.
Begins(r) ==
  /\ req[r] = Idle
  /\ \E m \in Menu :
       /\ \A q \in Requests : req[q].ts # m.ts
       /\ PutComes(r, m) \/ PostComes(r, m) \/ DeleteComes(r, m)

Proceeds(r) == \/ UploadFails(r) \/ PutData(r) \/ CommitNeverComes(r) \/ Commit(r)
               \/ HangUp(r) \/ PutTells(r) \/ PostTells(r) \/ DeleteTells(r)
               \/ WriteMeta(r) \/ Tombstone(r) \/ DiskIsFull(r) \/ Answers(r)

UpdateEnds(r, c) == UpdateSucceeds(r, c) \/ UpdateFails(r, c)

Next == \/ \E r \in Requests : Begins(r) \/ Proceeds(r)
        \/ \E r \in Requests, c \in Containers : UpdateEnds(r, c)
        \/ Dies

Spec == Init /\ [][Next]_vars

\* client_timeout bounds every read of a request, container_update_timeout the
\* wait for the updates, conn_timeout and node_timeout each of these: one that
\* does not succeed fails, and none is bound to succeed.
FairSpec == /\ Spec
            /\ \A r \in Requests : WF_vars(Proceeds(r))
            /\ \A r \in Requests, c \in Containers : WF_vars(UpdateFails(r, c))

-----------------------------------------------------------------------------
(* Properties.                                                             *)

Times == 0..MaxTime
Seen == [found : BOOLEAN, data : Times, meta : Times, ctype : Times, tomb : Times,
         delete_at : {Never} \cup DeleteAts]

TypeOK ==
  /\ files \subseteq File
  /\ row \in [Containers -> Entry \cup {NoEntry}]
  /\ pending \in [Time -> Entry \cup {NoEntry}]
  /\ task \in [DeleteAts -> [ts : Times, queued : BOOLEAN]]
  /\ \A r \in Requests : req[r].orig \in Seen
  /\ \A r \in Requests : req[r].update \in Entry \cup {NoEntry}
  /\ thread \in [Requests -> SUBSET Containers]

Now == View(files)
Quiet == \A r \in Requests : req[r].at \in {"idle", "done"} /\ thread[r] = {}
None(code) == \A r \in Requests : req[r].answer # code

\* What a container server will list once the updater has delivered what is
\* saved.
Known(c) ==
  LET all == {row[c]} \cup {pending[t] : t \in Time}
      newest == CHOOSE e \in all : \A f \in all : f.ts <= e.ts
  IN [newest EXCEPT !.ctype = Largest({e.ctype : e \in all}),
                    !.meta = Largest({e.meta : e \in all})]

\* The listing is right about the object's data and, if it lives, metadata.
ListsObject(e) == IF Now.found
                  THEN ~e.deleted /\ e.ts = Now.data /\ e.meta = Timestamp(Now)
                  ELSE e.deleted /\ e.ts = Now.tomb

\* What was answered with success stands: the object is at least as new, and
\* of a PUT the data can be read.
AnsweredStands ==
  \A r \in Requests : req[r].at = "done" =>
    /\ req[r].answer \in {"201", "204"} => Largest({Now.data, Now.tomb}) >= req[r].ts
    /\ req[r].answer = "202" /\ Now.found => Timestamp(Now) >= req[r].ts
                                             /\ Now.ctype >= req[r].ctype

\* It is checked with the types it relies on.
ServerInv == TypeOK /\ AnsweredStands

\* When nothing is under way and no request was cut off, every container
\* server lists the object as it is, or will once what is saved is delivered:
\* whatever requests raced and whichever updates failed.
ContainerKnows ==
  Quiet /\ None("cut") /\ None("died") => \A c \in Containers : ListsObject(Known(c))

\* Likewise, and if the disk was never full, an object that is to expire has
\* its task in the expirer's queue: no other request took it away.
ExpiryIsQueued ==
  Quiet /\ None("cut") /\ None("died") /\ None("507") /\ Now.delete_at # Never
    => task[Now.delete_at].queued

\* Every request that comes is answered and every update of it ends.
RequestsEnd ==
  \A r \in Requests : req[r] # Idle ~> req[r].at = "done" /\ thread[r] = {}
=============================================================================
