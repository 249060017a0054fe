------------------------------ MODULE Metadata ------------------------------
(***************************************************************************)
(* Swift's metadata rules (metadata.py): what a PUT or a DELETE wrote and  *)
(* what the newest POST wrote are kept apart, as the blob's "data" and     *)
(* "meta", and merged when read.  A content type has a timestamp of its    *)
(* own.  The requests of one name reach the Device in any order; a POST    *)
(* comes in two steps, what the object server makes of the metadata it has *)
(* read, and what the Device makes of that and of the metadata by then     *)
(* (module Device: each decision is one step, upon current metadata).      *)
(*                                                                         *)
(* Of the fields, "user" stands for those a POST replaces and "type" for   *)
(* the content type, each as the request they came from.  Those a POST     *)
(* cannot change come from data alone.                                     *)
(***************************************************************************)
EXTENDS Naturals

CONSTANTS
    Requests,
    Stamps,      \* the timestamps clients bring
    Nobody       \* the origin of a field that is not there

ASSUME MetadataAssumption ==
    /\ Stamps \subseteq Nat \ {0}
    /\ Nobody \notin Requests

Kinds == {"PUT", "DELETE", "POST", "RETYPE"}   \* RETYPE: a POST with a type

VARIABLES
    req,         \* the requests: what they are and when they were made
    pc,          \* "new", "drafted" (POSTs only) and "done"
    draft,       \* what the object server hands to the Device for a POST
    blob,        \* the metadata of what holds the name
    known        \* the requests the Device has decided about

vars == <<req, pc, draft, blob, known>>

\* typeTs is 0 where a section has no Content-Type-Timestamp.
NoSection == [ts |-> 0, user |-> Nobody, type |-> Nobody, typeTs |-> 0]
Missing == [data |-> NoSection, meta |-> NoSection]

Deleted(b) == b = Missing \/ b.data.type = Nobody

Init ==
    /\ req \in [Requests -> [kind : Kinds, ts : Stamps]]
    /\ pc = [r \in Requests |-> "new"]
    /\ draft = [r \in Requests |-> NoSection]
    /\ blob = Missing
    /\ known = {}

-----------------------------------------------------------------------------
(* MetadataModel.                                                          *)

Retyped(section, type, ts) == [section EXCEPT !.type = type, !.typeTs = ts]

\* The POST's fields, but for the content type unless the POST's is newer.
Merged(b) ==
    IF b.meta = NoSection THEN b.data
    ELSE IF b.data.type # Nobody /\ b.data.ts > b.meta.typeTs
    THEN Retyped(b.meta, b.data.type, 0)
    ELSE b.meta

TypeTs(b) == IF Merged(b).typeTs = 0 THEN b.data.ts ELSE Merged(b).typeTs

\* A POST newer than the PUT or DELETE goes on with the name.
PutSections(b, data) ==
    [data |-> data, meta |-> IF b.meta.ts > data.ts THEN b.meta ELSE NoSection]

\* A mutant of PostSections: of two POSTs the newer one is kept as it is.
PostSectionsWhole(b, post) ==
    IF post.ts <= b.data.ts THEN b
    ELSE [b EXCEPT !.meta = IF post.ts > b.meta.ts THEN post ELSE b.meta]

\* Of two POSTs the newer one's fields, with the newer content type.
PostSections(b, post) ==
    LET newer == IF post.ts > b.meta.ts THEN post ELSE b.meta
        older == IF post.ts > b.meta.ts THEN b.meta ELSE post
    IN  IF post.ts <= b.data.ts THEN b
        ELSE [b EXCEPT !.meta =
                 IF older.typeTs > newer.typeTs
                 THEN Retyped(newer, older.type, older.typeTs)
                 ELSE newer]

-----------------------------------------------------------------------------
(* The requests.                                                           *)

\* A PUT or DELETE: the engine refuses one that is not newer than what holds
\* the name, and the Device drops it.
Replace(r) ==
    LET ts == req[r].ts
        who == IF req[r].kind = "PUT" THEN r ELSE Nobody
    IN
    /\ pc[r] = "new" /\ req[r].kind \in {"PUT", "DELETE"}
    /\ pc' = [pc EXCEPT ![r] = "done"]
    /\ blob' = IF ts > blob.data.ts
               THEN PutSections(blob, [ts |-> ts, user |-> who, type |-> who,
                                       typeTs |-> 0])
               ELSE blob
    /\ known' = known \cup {r}
    /\ UNCHANGED <<req, draft>>

\* A mutant of Drafted: an older POST brings its own fields.
DraftedOverwriting(r, b) ==
    LET ts == req[r].ts
        typeTs == IF req[r].kind = "RETYPE" THEN ts ELSE 0
        base == IF ts > Merged(b).ts
                THEN [ts |-> ts, user |-> r, type |-> Nobody, typeTs |-> 0]
                ELSE [b.meta EXCEPT !.user = r]
    IN  IF typeTs > TypeTs(b) THEN Retyped(base, r, typeTs)
        ELSE IF TypeTs(b) # b.data.ts
        THEN Retyped(base, Merged(b).type, TypeTs(b))
        ELSE base

\* What the object server makes of a POST, given the metadata it has read: an
\* older POST with a newer content type keeps the other fields, and one without
\* a content type of its own repeats the newest one it has seen.
Drafted(r, b) ==
    LET ts == req[r].ts
        typeTs == IF req[r].kind = "RETYPE" THEN ts ELSE 0
        base == IF ts > Merged(b).ts
                THEN [ts |-> ts, user |-> r, type |-> Nobody, typeTs |-> 0]
                ELSE b.meta
    IN  IF typeTs > TypeTs(b) THEN Retyped(base, r, typeTs)
        ELSE IF TypeTs(b) # b.data.ts
        THEN Retyped(base, Merged(b).type, TypeTs(b))
        ELSE base

\* Nothing newer is known of the name, or of its content type.
Newer(r, b) ==
    \/ req[r].ts > Merged(b).ts
    \/ req[r].kind = "RETYPE" /\ req[r].ts > TypeTs(b)

Draft(r) ==
    /\ pc[r] = "new" /\ req[r].kind \in {"POST", "RETYPE"}
    /\ ~Deleted(blob) /\ Newer(r, blob)
    /\ pc' = [pc EXCEPT ![r] = "drafted"]
    /\ draft' = [draft EXCEPT ![r] = Drafted(r, blob)]
    /\ UNCHANGED <<req, blob, known>>

\* The server answers 404 or 409 itself, or the DiskFile does when it is opened
\* again for the POST.
Refuse(r) ==
    /\ pc[r] # "done" /\ req[r].kind \in {"POST", "RETYPE"}
    /\ Deleted(blob) \/ (pc[r] = "new" /\ ~Newer(r, blob))
    /\ pc' = [pc EXCEPT ![r] = "done"]
    /\ draft' = [draft EXCEPT ![r] = NoSection]
    /\ UNCHANGED <<req, blob, known>>

Post(r) ==
    /\ pc[r] = "drafted"
    /\ pc' = [pc EXCEPT ![r] = "done"]
    /\ draft' = [draft EXCEPT ![r] = NoSection]
    /\ blob' = PostSections(blob, draft[r])
    /\ known' = known \cup {r}
    /\ UNCHANGED req

Next == \E r \in Requests : Replace(r) \/ Draft(r) \/ Refuse(r) \/ Post(r)

Spec == Init /\ [][Next]_vars

-----------------------------------------------------------------------------
Sections == [ts : Stamps \cup {0}, user : Requests \cup {Nobody},
             type : Requests \cup {Nobody}, typeTs : Stamps \cup {0}]

TypeOK ==
    /\ req \in [Requests -> [kind : Kinds, ts : Stamps]]
    /\ pc \in [Requests -> {"new", "drafted", "done"}]
    /\ draft \in [Requests -> Sections]
    /\ blob \in [data : Sections, meta : Sections]
    /\ known \subseteq Requests
    /\ blob.meta = NoSection \/ blob.meta.ts > blob.data.ts

\* Among the requests known, those that nothing makes void.
Replacing == {r \in known : req[r].kind \in {"PUT", "DELETE"}}
Surviving == {r \in known \ Replacing : req[r].ts > blob.data.ts}

\* r is a newest one of S.
Newest(r, S) == r \in S /\ \A s \in S : req[s].ts <= req[r].ts

(* What a name's metadata comes to does not depend on the order in which   *)
(* its requests arrive, nor on what a POST had read when it was made: the  *)
(* data is the newest PUT's or DELETE's, the other fields are the newest   *)
(* POST's if it is newer than that, and the content type is the newest     *)
(* anybody has given.  Between equal timestamps either may win, as with    *)
(* Swift's own backend (metadata.py merge()).                              *)
DataIsNewest ==
    IF Replacing = {} THEN blob = Missing
    ELSE \E r \in Replacing :
            /\ Newest(r, Replacing) /\ blob.data.ts = req[r].ts
            /\ blob.data.user = IF req[r].kind = "PUT" THEN r ELSE Nobody

UserIsNewest ==
    IF Surviving = {} THEN blob.meta = NoSection
    ELSE /\ Newest(blob.meta.user, Surviving)
         /\ blob.meta.ts = req[blob.meta.user].ts

TypeIsNewest ==
    ~Deleted(blob) =>
        LET given == {r \in known : req[r].kind = "RETYPE" /\ req[r].ts > blob.data.ts}
            type  == Merged(blob).type
        IN  IF given # {} THEN Newest(type, given)
            ELSE \/ type = blob.data.user
                 \/ type \in known /\ req[type].ts = blob.data.ts

Converges == DataIsNewest /\ UserIsNewest /\ TypeIsNewest

(* What this rests on.  A section a POST has left says truly where its     *)
(* fields and its content type come from; what the server drafted is no    *)
(* older than the request itself, and gives up its content type only for   *)
(* one at least as new; and the type of a POST that is not void is kept    *)
(* even while the name is deleted, when nobody can see it.                 *)
Origin(s, S) ==
    /\ s.user \in S /\ req[s.user].ts = s.ts
    /\ req[s.user].kind \in {"POST", "RETYPE"}
    /\ s.typeTs # 0 => /\ s.type \in S /\ req[s.type].ts = s.typeTs
                       /\ req[s.type].kind = "RETYPE"

DraftTrue(r) ==
    /\ req[r].kind \in {"POST", "RETYPE"}
    /\ blob.data.ts # 0
    /\ Origin(draft[r], known \cup {r})
    /\ draft[r].ts >= req[r].ts
    /\ req[r].kind = "RETYPE" =>
          draft[r].typeTs >= req[r].ts \/ blob.data.ts >= req[r].ts

DraftsTrue == \A r \in Requests : pc[r] = "drafted" => DraftTrue(r)

BlobTrue ==
    /\ blob.data.typeTs = 0 /\ blob.data.type = blob.data.user
    /\ blob.meta # NoSection => Origin(blob.meta, known)
    /\ \A r \in Surviving : req[r].kind = "RETYPE" => blob.meta.typeTs >= req[r].ts

\* The inductive invariant: every step of the system preserves it.
MetadataInv ==
    TypeOK /\ DraftsTrue /\ BlobTrue /\ DataIsNewest /\ UserIsNewest
=============================================================================
