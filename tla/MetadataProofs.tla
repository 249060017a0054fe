--------------------------- MODULE MetadataProofs ---------------------------
(***************************************************************************)
(* Metadata converges, for any number of requests of any timestamps: its   *)
(* inductive invariant, step by step.                                      *)
(* And what keeps the promise of NameStore, whose versions come in the     *)
(* order of the same timestamps, never goes back.                          *)
(***************************************************************************)
EXTENDS Metadata, SequencesExt, SequenceTheorems, TLAPS

LEMMA InitInv == Init => MetadataInv
BY MetadataAssumption
   DEF Init, MetadataInv, TypeOK, DraftsTrue, BlobTrue, DataIsNewest,
       UserIsNewest, Replacing, Surviving, Sections, Missing, NoSection, Kinds

\* Some facts of every state.
LEMMA Facts ==
    ASSUME MetadataInv
    PROVE  /\ Stamps \subseteq Nat \ {0}
           /\ Nobody \notin Requests
           /\ blob.data \in Sections /\ blob.meta \in Sections
           /\ NoSection \in Sections
           /\ \A r \in Requests : req[r].ts \in Nat \ {0} /\ req[r].kind \in Kinds
           /\ \A s \in Sections : s.ts \in Nat /\ s.typeTs \in Nat
           /\ blob.data.ts = 0 <=> blob = Missing
           /\ blob = Missing <=> Replacing = {}
<1>1. /\ Stamps \subseteq Nat \ {0} /\ Nobody \notin Requests
      /\ blob.data \in Sections /\ blob.meta \in Sections
  BY MetadataAssumption DEF MetadataInv, TypeOK
<1>2. NoSection \in Sections
  BY DEF NoSection, Sections
<1>3. \A r \in Requests : req[r].ts \in Nat \ {0} /\ req[r].kind \in Kinds
  BY <1>1 DEF MetadataInv, TypeOK
<1>4. \A s \in Sections : s.ts \in Nat /\ s.typeTs \in Nat
  <2>1. \A x \in Stamps \cup {0} : x \in Nat
    BY MetadataAssumption
  <2>2. TAKE s \in Sections
  <2>3. s.ts \in Stamps \cup {0} /\ s.typeTs \in Stamps \cup {0}
    BY DEF Sections
  <2> QED
    BY <2>1, <2>3
<1>5. Replacing = {} => blob = Missing /\ blob.data.ts = 0
  BY DEF MetadataInv, DataIsNewest, Missing, NoSection
<1>6. Replacing # {} => blob.data.ts # 0
  <2>1. Replacing \subseteq Requests
    BY DEF Replacing, MetadataInv, TypeOK
  <2> QED
    BY <2>1, <1>3 DEF MetadataInv, DataIsNewest
<1>7. blob = Missing => blob.data.ts = 0
  BY DEF Missing, NoSection
<1> QED
  BY <1>1, <1>2, <1>3, <1>4, <1>5, <1>6, <1>7

\* What is true of a POST the server has drafted stays so whatever the Device
\* decides of others: it knows more requests, and data gets no older.
LEMMA DraftKept ==
    ASSUME MetadataInv, NEW q \in Requests, pc[q] = "drafted",
           UNCHANGED req, draft'[q] = draft[q], known \subseteq known',
           blob'.data.ts \in Nat, blob'.data.ts >= blob.data.ts
    PROVE  DraftTrue(q)'
<1>1. DraftTrue(q)
  BY DEF MetadataInv, DraftsTrue
<1>2. Origin(draft[q], known \cup {q})'
  BY <1>1 DEF DraftTrue, Origin
<1>3. blob.data.ts \in Nat /\ req[q].ts \in Nat
  BY Facts
<1> QED
  BY <1>1, <1>2, <1>3 DEF DraftTrue

-----------------------------------------------------------------------------
\* A PUT or DELETE that comes too late changes nothing but what is known.
LEMMA ReplaceLate ==
    ASSUME MetadataInv, NEW r \in Requests, Replace(r),
           ~(req[r].ts > blob.data.ts)
    PROVE  MetadataInv'
<1>1. /\ blob' = blob /\ known' = known \cup {r} /\ UNCHANGED <<req, draft>>
      /\ pc' = [pc EXCEPT ![r] = "done"] /\ req[r].kind \in {"PUT", "DELETE"}
  BY DEF Replace
<1>2. Replacing' = Replacing \cup {r} /\ Surviving' = Surviving
  BY <1>1 DEF Replacing, Surviving
<1>3. TypeOK'
  BY <1>1 DEF MetadataInv, TypeOK
<1>4. DraftsTrue'
  <2> SUFFICES ASSUME NEW q \in Requests, pc'[q] = "drafted"
               PROVE  DraftTrue(q)'
    BY DEF DraftsTrue
  <2>1. pc[q] = "drafted"
    BY <1>1 DEF MetadataInv, TypeOK
  <2> QED
    BY <1>1, <2>1, DraftKept, Facts
<1>5. BlobTrue'
  <2>1. (blob.meta # NoSection => Origin(blob.meta, known))'
    BY <1>1 DEF MetadataInv, BlobTrue, Origin
  <2> QED
    BY <1>1, <1>2, <2>1 DEF MetadataInv, BlobTrue
<1>6. DataIsNewest'
  <2>1. blob.data.ts # 0 /\ Replacing # {}
    BY Facts
  <2>2. PICK q \in Replacing :
           /\ Newest(q, Replacing) /\ blob.data.ts = req[q].ts
           /\ blob.data.user = IF req[q].kind = "PUT" THEN q ELSE Nobody
    BY <2>1 DEF MetadataInv, DataIsNewest
  <2>3. req[r].ts <= req[q].ts
    BY <2>2, Facts
  <2>4. Newest(q, Replacing)'
    BY <1>1, <1>2, <2>2, <2>3 DEF Newest
  <2> QED
    BY <1>1, <1>2, <2>2, <2>4 DEF DataIsNewest
<1>7. UserIsNewest'
  BY <1>1, <1>2 DEF MetadataInv, UserIsNewest, Newest
<1> QED
  BY <1>3, <1>4, <1>5, <1>6, <1>7 DEF MetadataInv

\* A PUT or DELETE that is the newest so far has the name, and the newest POST
\* goes on with it if that is newer still.
LEMMA ReplaceInTime ==
    ASSUME MetadataInv, NEW r \in Requests, Replace(r),
           req[r].ts > blob.data.ts
    PROVE  MetadataInv'
<1> DEFINE ts == req[r].ts
           who == IF req[r].kind = "PUT" THEN r ELSE Nobody
           data == [ts |-> ts, user |-> who, type |-> who, typeTs |-> 0]
           meta == IF blob.meta.ts > ts THEN blob.meta ELSE NoSection
<1>1. /\ blob' = [data |-> data, meta |-> meta]
      /\ known' = known \cup {r} /\ UNCHANGED <<req, draft>>
      /\ pc' = [pc EXCEPT ![r] = "done"] /\ req[r].kind \in {"PUT", "DELETE"}
  BY DEF Replace, PutSections
<1>2. /\ ts \in Stamps /\ ts \in Nat \ {0} /\ blob.data.ts \in Nat
      /\ blob.meta.ts \in Nat /\ known \subseteq Requests
  BY Facts DEF MetadataInv, TypeOK
<1>3. data \in Sections /\ meta \in Sections
  BY <1>2, Facts DEF Sections
<1>4. blob'.data = data /\ blob'.meta = meta /\ blob'.data.ts = ts
  BY <1>1
<1>5. Replacing' = Replacing \cup {r}
  BY <1>1 DEF Replacing
<1>6. /\ Surviving' = {q \in known \ Replacing : req[q].ts > ts}
      /\ Surviving' \subseteq Surviving
  <2>1. Surviving' = {q \in known \ Replacing : req[q].ts > ts}
    BY <1>1, <1>4, <1>5 DEF Surviving, Replacing
  <2> QED
    BY <2>1, <1>2, Facts DEF Surviving
<1>7. TypeOK'
  <2>1. blob' \in [data : Sections, meta : Sections]
    BY <1>1, <1>3
  <2>2. blob'.meta = NoSection \/ blob'.meta.ts > blob'.data.ts
    BY <1>4
  <2> QED
    BY <1>1, <2>1, <2>2 DEF MetadataInv, TypeOK
<1>8. DraftsTrue'
  <2> SUFFICES ASSUME NEW q \in Requests, pc'[q] = "drafted"
               PROVE  DraftTrue(q)'
    BY DEF DraftsTrue
  <2>1. pc[q] = "drafted"
    BY <1>1 DEF MetadataInv, TypeOK
  <2> QED
    BY <1>1, <1>2, <1>4, <2>1, DraftKept
<1>9. ASSUME blob.meta.ts > ts PROVE UserIsNewest' /\ BlobTrue'
  <2>1. blob'.meta = blob.meta /\ blob.meta # NoSection
    BY <1>2, <1>4, <1>9 DEF NoSection
  <2>2. Newest(blob.meta.user, Surviving) /\ blob.meta.ts = req[blob.meta.user].ts
    BY <2>1 DEF MetadataInv, UserIsNewest
  <2>3. blob.meta.user \in Surviving'
    BY <1>6, <1>9, <2>2 DEF Newest, Surviving
  <2>4. UserIsNewest'
    BY <1>1, <1>6, <2>1, <2>2, <2>3 DEF UserIsNewest, Newest
  <2>5. BlobTrue'
    <3>1. Origin(blob.meta, known)'
      BY <1>1, <2>1 DEF MetadataInv, BlobTrue, Origin
    <3>2. \A q \in Surviving' : req'[q].kind = "RETYPE" => blob'.meta.typeTs >= req'[q].ts
      BY <1>1, <1>6, <2>1 DEF MetadataInv, BlobTrue
    <3> QED
      BY <1>4, <3>1, <3>2 DEF BlobTrue
  <2> QED
    BY <2>4, <2>5
<1>10. ASSUME ~(blob.meta.ts > ts) PROVE UserIsNewest' /\ BlobTrue'
  <2>1. blob'.meta = NoSection
    BY <1>4, <1>10
  <2>2. Surviving' = {}
    <3> SUFFICES ASSUME NEW q \in Surviving' PROVE FALSE
      OBVIOUS
    <3>1. q \in Surviving /\ req[q].ts > ts /\ q \in Requests
      BY <1>2, <1>6
    <3>2. Newest(blob.meta.user, Surviving) /\ blob.meta.ts = req[blob.meta.user].ts
      BY <3>1 DEF MetadataInv, UserIsNewest
    <3>3. req[q].ts <= blob.meta.ts
      BY <3>1, <3>2 DEF Newest
    <3> QED
      BY <1>2, <1>10, <3>1, <3>3, Facts
  <2>3. UserIsNewest'
    BY <2>1, <2>2 DEF UserIsNewest
  <2>4. BlobTrue'
    BY <1>4, <2>1, <2>2 DEF BlobTrue
  <2> QED
    BY <2>3, <2>4
<1>11. DataIsNewest'
  <2>1. \A q \in Replacing : req[q].ts <= blob.data.ts
    BY DEF MetadataInv, DataIsNewest, Newest
  <2>2. Newest(r, Replacing)'
    <3>1. \A q \in Replacing : req[q].ts \in Nat
      BY <1>2, Facts DEF Replacing
    <3>2. \A q \in Replacing \cup {r} : req[q].ts <= req[r].ts
      BY <1>2, <2>1, <3>1
    <3> QED
      BY <1>1, <1>5, <3>2 DEF Newest
  <2> QED
    BY <1>1, <1>4, <1>5, <2>2 DEF DataIsNewest
<1> QED
  BY <1>7, <1>8, <1>9, <1>10, <1>11 DEF MetadataInv

-----------------------------------------------------------------------------
LEMMA SectionUpdated ==
    ASSUME NEW s \in Sections, NEW x \in Requests \cup {Nobody},
           NEW y \in Stamps \cup {0}
    PROVE  /\ Retyped(s, x, y) \in Sections
           /\ Retyped(s, x, y).ts = s.ts /\ Retyped(s, x, y).user = s.user
           /\ Retyped(s, x, y).type = x /\ Retyped(s, x, y).typeTs = y
BY DEF Sections, Retyped

\* What is read of a name that is there: the newest POST's fields, and its
\* content type only if that is no older than the PUT.
LEMMA MergedFacts ==
    ASSUME MetadataInv, ~Deleted(blob)
    PROVE  /\ Merged(blob) \in Sections
           /\ Merged(blob).ts = IF blob.meta = NoSection THEN blob.data.ts
                                                         ELSE blob.meta.ts
           /\ TypeTs(blob) \in Stamps \cup {0} /\ TypeTs(blob) \in Nat
           /\ blob.data.ts <= TypeTs(blob)
           /\ \/ TypeTs(blob) = blob.data.ts
              \/ /\ TypeTs(blob) = blob.meta.typeTs /\ blob.meta # NoSection
                 /\ blob.meta.typeTs > blob.data.ts /\ Merged(blob) = blob.meta
<1>1. /\ blob.data \in Sections /\ blob.meta \in Sections
      /\ blob.data.typeTs = 0 /\ blob.data.type # Nobody
      /\ blob.data.ts \in Nat \ {0} /\ blob.meta.typeTs \in Nat
      /\ blob.data.ts \in Stamps \cup {0} /\ blob.meta.typeTs \in Stamps \cup {0}
      /\ blob.data.type \in Requests \cup {Nobody}
  <2>1. blob.data \in Sections /\ blob.meta \in Sections /\ blob.data.ts # 0
    BY Facts DEF Deleted
  <2> QED
    BY <2>1, Facts DEF Sections, MetadataInv, BlobTrue, Deleted
<1>2. CASE blob.meta = NoSection
  <2>1. Merged(blob) = blob.data
    BY <1>2 DEF Merged
  <2>2. TypeTs(blob) = blob.data.ts
    BY <1>1, <2>1 DEF TypeTs
  <2> QED
    BY <1>1, <1>2, <2>1, <2>2
<1>3. CASE blob.meta # NoSection /\ blob.data.ts > blob.meta.typeTs
  <2>1. Merged(blob) = Retyped(blob.meta, blob.data.type, 0)
    BY <1>1, <1>3 DEF Merged
  <2>2. /\ Merged(blob) \in Sections /\ Merged(blob).ts = blob.meta.ts
        /\ Merged(blob).typeTs = 0
    BY <1>1, <2>1, SectionUpdated
  <2>3. TypeTs(blob) = blob.data.ts
    BY <2>2 DEF TypeTs
  <2> QED
    BY <1>1, <1>3, <2>2, <2>3
<1>4. CASE blob.meta # NoSection /\ ~(blob.data.ts > blob.meta.typeTs)
  <2>1. Merged(blob) = blob.meta
    BY <1>4 DEF Merged
  <2>2. TypeTs(blob) = blob.meta.typeTs
    BY <1>1, <1>4, <2>1 DEF TypeTs
  <2> QED
    BY <1>1, <1>4, <2>1, <2>2
<1> QED
  BY <1>2, <1>3, <1>4

\* What the server makes of a POST says truly where it comes from, and gives up
\* the POST's own fields and type only for newer ones.
LEMMA DraftMade ==
    ASSUME MetadataInv, NEW r \in Requests, Draft(r)
    PROVE  DraftTrue(r)' /\ Drafted(r, blob) \in Sections
<1> DEFINE ts == req[r].ts
           typeTs == IF req[r].kind = "RETYPE" THEN ts ELSE 0
           M == Merged(blob)
           base == IF ts > M.ts
                   THEN [ts |-> ts, user |-> r, type |-> Nobody, typeTs |-> 0]
                   ELSE blob.meta
<1>1. /\ req[r].kind \in {"POST", "RETYPE"} /\ ~Deleted(blob) /\ Newer(r, blob)
      /\ draft' = [draft EXCEPT ![r] = Drafted(r, blob)]
      /\ UNCHANGED <<req, blob, known>>
  BY DEF Draft
<1>2. draft'[r] = Drafted(r, blob)
  BY <1>1 DEF MetadataInv, TypeOK
<1>3. /\ ts \in Stamps /\ ts \in Nat \ {0}
      /\ blob.data.ts \in Nat /\ blob.data.ts # 0
      /\ M \in Sections /\ M.ts \in Nat /\ M.type \in Requests \cup {Nobody}
      /\ TypeTs(blob) \in Stamps \cup {0} /\ TypeTs(blob) \in Nat
      /\ blob.data.ts <= TypeTs(blob)
  <2>1. ts \in Stamps
    BY DEF MetadataInv, TypeOK
  <2>2. M \in Sections
    BY <1>1, MergedFacts
  <2>3. M.type \in Requests \cup {Nobody}
    BY <2>2 DEF Sections
  <2> QED
    BY <1>1, <2>1, <2>2, <2>3, MergedFacts, Facts DEF Deleted
<1>4. /\ base \in Sections /\ Origin(base, known \cup {r}) /\ base.ts >= ts
      /\ base.ts \in Nat
      /\ ts > M.ts \/ typeTs > TypeTs(blob)
  <2>1. CASE ts > M.ts
    <3>1. base = [ts |-> ts, user |-> r, type |-> Nobody, typeTs |-> 0]
      BY <2>1
    <3>2. base \in Sections
      BY <1>3, <3>1 DEF Sections
    <3>3. Origin(base, known \cup {r})
      BY <1>1, <3>1 DEF Origin
    <3> QED
      BY <1>3, <2>1, <3>1, <3>2, <3>3
  <2>2. CASE ~(ts > M.ts)
    <3>1. req[r].kind = "RETYPE" /\ ts > TypeTs(blob)
      BY <1>1, <2>2 DEF Newer
    <3>2. M.ts > blob.data.ts
      BY <1>3, <2>2, <3>1
    <3>3. blob.meta # NoSection /\ M.ts = blob.meta.ts
      BY <1>1, <1>3, <3>2, MergedFacts
    <3>4. base = blob.meta /\ Origin(blob.meta, known)
      BY <2>2, <3>3 DEF MetadataInv, BlobTrue
    <3> QED
      BY <1>3, <2>2, <3>1, <3>3, <3>4, Facts DEF Origin
  <2> QED
    BY <2>1, <2>2
<1> HIDE DEF base
<1>5. CASE typeTs > TypeTs(blob)
  <2>1. req[r].kind = "RETYPE" /\ typeTs = ts
    BY <1>3, <1>5
  <2>2. Drafted(r, blob) = Retyped(base, r, ts)
    BY <1>5, <2>1 DEF Drafted, base
  <2>3. /\ Retyped(base, r, ts) \in Sections /\ Retyped(base, r, ts).ts = base.ts
        /\ Retyped(base, r, ts).user = base.user /\ Retyped(base, r, ts).type = r
        /\ Retyped(base, r, ts).typeTs = ts
    BY <1>3, <1>4, SectionUpdated
  <2>4. Origin(draft[r], known \cup {r})'
    BY <1>1, <1>2, <1>4, <2>1, <2>2, <2>3 DEF Origin
  <2> QED
    BY <1>1, <1>2, <1>3, <1>4, <2>2, <2>3, <2>4 DEF DraftTrue
<1>6. CASE ~(typeTs > TypeTs(blob)) /\ TypeTs(blob) # blob.data.ts
  <2>1. /\ TypeTs(blob) = blob.meta.typeTs /\ M = blob.meta
        /\ Origin(blob.meta, known) /\ blob.meta.typeTs # 0
    BY <1>1, <1>3, <1>6, MergedFacts DEF MetadataInv, BlobTrue
  <2>2. Drafted(r, blob) = Retyped(base, M.type, TypeTs(blob))
    BY <1>6 DEF Drafted, base
  <2> DEFINE d == Retyped(base, M.type, TypeTs(blob))
  <2>3. /\ d \in Sections /\ d.ts = base.ts /\ d.user = base.user
        /\ d.type = M.type /\ d.typeTs = TypeTs(blob)
    <3> HIDE DEF M
    <3>1. /\ base \in Sections /\ M.type \in Requests \cup {Nobody}
          /\ TypeTs(blob) \in Stamps \cup {0}
      BY <1>3, <1>4
    <3> QED
      BY <3>1, SectionUpdated
  <2> HIDE DEF d
  <2>4. Origin(draft[r], known \cup {r})'
    BY <1>1, <1>2, <1>4, <2>1, <2>2, <2>3 DEF Origin, d
  <2>5. req[r].kind = "RETYPE" => d.typeTs >= ts
    BY <1>3, <1>6, <2>3
  <2> QED
    BY <1>1, <1>2, <1>3, <1>4, <2>2, <2>3, <2>4, <2>5 DEF DraftTrue, d
<1>7. CASE ~(typeTs > TypeTs(blob)) /\ TypeTs(blob) = blob.data.ts
  <2>1. Drafted(r, blob) = base
    BY <1>7 DEF Drafted, base
  <2>2. Origin(draft[r], known \cup {r})'
    BY <1>1, <1>2, <1>4, <2>1 DEF Origin
  <2>3. req[r].kind = "RETYPE" => blob.data.ts >= ts
    BY <1>3, <1>7
  <2> QED
    BY <1>1, <1>2, <1>3, <1>4, <2>1, <2>2, <2>3 DEF DraftTrue
<1> QED
  BY <1>5, <1>6, <1>7

\* A step that leaves the name's metadata, and what is known, alone.
LEMMA BlobStays ==
    ASSUME MetadataInv, UNCHANGED <<req, blob, known>>, TypeOK',
           \A q \in Requests :
              pc'[q] = "drafted" => \/ DraftTrue(q)'
                                    \/ pc[q] = "drafted" /\ draft'[q] = draft[q]
    PROVE  MetadataInv'
<1>1. DraftsTrue'
  BY DraftKept, Facts DEF DraftsTrue
<1>2. BlobTrue' /\ DataIsNewest' /\ UserIsNewest'
  <2>1. Replacing' = Replacing /\ Surviving' = Surviving
    BY DEF Replacing, Surviving
  <2>2. BlobTrue'
    BY <2>1 DEF MetadataInv, BlobTrue, Origin
  <2>3. DataIsNewest'
    BY <2>1 DEF MetadataInv, DataIsNewest, Newest
  <2>4. UserIsNewest'
    BY <2>1 DEF MetadataInv, UserIsNewest, Newest
  <2> QED
    BY <2>2, <2>3, <2>4
<1> QED
  BY <1>1, <1>2 DEF MetadataInv

LEMMA DraftStep ==
    ASSUME MetadataInv, NEW r \in Requests, Draft(r)
    PROVE  MetadataInv'
<1>1. /\ UNCHANGED <<req, blob, known>>
      /\ pc' = [pc EXCEPT ![r] = "drafted"]
      /\ draft' = [draft EXCEPT ![r] = Drafted(r, blob)]
  BY DEF Draft
<1>2. DraftTrue(r)' /\ Drafted(r, blob) \in Sections
  BY DraftMade
<1>3. TypeOK'
  BY <1>1, <1>2 DEF MetadataInv, TypeOK
<1>4. \A q \in Requests : pc'[q] = "drafted" /\ q # r =>
         pc[q] = "drafted" /\ draft'[q] = draft[q]
  BY <1>1 DEF MetadataInv, TypeOK
<1> QED
  BY <1>1, <1>2, <1>3, <1>4, BlobStays

LEMMA RefuseStep ==
    ASSUME MetadataInv, NEW r \in Requests, Refuse(r)
    PROVE  MetadataInv'
<1>1. /\ UNCHANGED <<req, blob, known>>
      /\ pc' = [pc EXCEPT ![r] = "done"]
      /\ draft' = [draft EXCEPT ![r] = NoSection]
  BY DEF Refuse
<1>2. TypeOK'
  BY <1>1, Facts DEF MetadataInv, TypeOK
<1>3. \A q \in Requests : pc'[q] = "drafted" =>
         pc[q] = "drafted" /\ draft'[q] = draft[q]
  BY <1>1 DEF MetadataInv, TypeOK
<1> QED
  BY <1>1, <1>2, <1>3, BlobStays

LEMMA StutterStep ==
    ASSUME MetadataInv, UNCHANGED vars
    PROVE  MetadataInv'
<1>1. UNCHANGED <<req, pc, draft, blob, known>>
  BY DEF vars
<1>2. TypeOK'
  BY <1>1 DEF MetadataInv, TypeOK
<1> QED
  BY <1>1, <1>2, BlobStays

-----------------------------------------------------------------------------
\* What the Device makes of two POSTs: the newer one's fields, and of their
\* content types the newer.
LEMMA PostMerged ==
    ASSUME MetadataInv, NEW post \in Sections, post.ts > blob.data.ts
    PROVE  LET newer == IF post.ts > blob.meta.ts THEN post ELSE blob.meta
               older == IF post.ts > blob.meta.ts THEN blob.meta ELSE post
               m     == PostSections(blob, post).meta
           IN  /\ PostSections(blob, post) = [data |-> blob.data, meta |-> m]
               /\ m \in Sections /\ m.ts = newer.ts /\ m.user = newer.user
               /\ m.ts >= post.ts /\ m.ts >= blob.meta.ts
               /\ m.typeTs >= post.typeTs /\ m.typeTs >= blob.meta.typeTs
               /\ \/ m.typeTs = newer.typeTs /\ m.type = newer.type
                  \/ m.typeTs = older.typeTs /\ m.type = older.type
<1> DEFINE newer == IF post.ts > blob.meta.ts THEN post ELSE blob.meta
           older == IF post.ts > blob.meta.ts THEN blob.meta ELSE post
           m     == IF older.typeTs > newer.typeTs
                    THEN Retyped(newer, older.type, older.typeTs)
                    ELSE newer
<1>1. PostSections(blob, post) = [blob EXCEPT !.meta = m]
  BY Facts DEF PostSections
<1>2. blob = [data |-> blob.data, meta |-> blob.meta]
  BY DEF MetadataInv, TypeOK
<1>3. PostSections(blob, post) = [data |-> blob.data, meta |-> m]
  BY <1>1, <1>2
<1>4. /\ blob.meta \in Sections /\ post.ts \in Nat /\ post.typeTs \in Nat
      /\ blob.meta.ts \in Nat /\ blob.meta.typeTs \in Nat
  BY Facts
<1>5. /\ newer \in Sections /\ older \in Sections
      /\ older.type \in Requests \cup {Nobody} /\ older.typeTs \in Stamps \cup {0}
  <2>1. newer \in Sections /\ older \in Sections
    BY <1>4
  <2>2. \A s \in Sections : /\ s.type \in Requests \cup {Nobody}
                            /\ s.typeTs \in Stamps \cup {0}
    BY DEF Sections
  <2> QED
    BY <2>1, <2>2
<1>6. /\ newer.ts >= post.ts /\ newer.ts >= blob.meta.ts
      /\ {newer.typeTs, older.typeTs} = {post.typeTs, blob.meta.typeTs}
      /\ newer.typeTs \in Nat /\ older.typeTs \in Nat
  BY <1>4
<1> HIDE DEF newer, older
<1>7. CASE older.typeTs > newer.typeTs
  <2>1. m = Retyped(newer, older.type, older.typeTs)
    BY <1>7
  <2>2. /\ m \in Sections /\ m.ts = newer.ts /\ m.user = newer.user
        /\ m.type = older.type /\ m.typeTs = older.typeTs
    BY <1>5, <2>1, SectionUpdated
  <2> QED
    BY <1>3, <1>4, <1>6, <1>7, <2>2 DEF newer, older
<1>8. CASE ~(older.typeTs > newer.typeTs)
  <2>1. m = newer
    BY <1>8
  <2> QED
    BY <1>3, <1>4, <1>5, <1>6, <1>8, <2>1 DEF newer, older
<1> QED
  BY <1>7, <1>8

\* A POST drafted for a name that has a newer PUT by now changes nothing but
\* what is known.
LEMMA PostLate ==
    ASSUME MetadataInv, NEW r \in Requests, Post(r),
           draft[r].ts <= blob.data.ts
    PROVE  MetadataInv'
<1>1. /\ pc[r] = "drafted" /\ pc' = [pc EXCEPT ![r] = "done"]
      /\ draft' = [draft EXCEPT ![r] = NoSection]
      /\ blob' = blob /\ known' = known \cup {r} /\ UNCHANGED req
  BY DEF Post, PostSections
<1>2. /\ DraftTrue(r) /\ draft[r].ts \in Nat /\ blob.data.ts \in Nat
      /\ req[r].ts \in Nat
  <2>1. draft[r] \in Sections
    BY DEF MetadataInv, TypeOK
  <2> QED
    BY <1>1, <2>1, Facts DEF MetadataInv, DraftsTrue
<1>3. Replacing' = Replacing /\ Surviving' = Surviving
  <2>1. req[r].kind \in {"POST", "RETYPE"} /\ ~(req[r].ts > blob.data.ts)
    BY <1>2 DEF DraftTrue
  <2>2. Replacing' = Replacing
    BY <1>1, <2>1 DEF Replacing
  <2> QED
    BY <1>1, <2>1, <2>2 DEF Surviving
<1>4. TypeOK'
  BY <1>1, Facts DEF MetadataInv, TypeOK
<1>5. DraftsTrue'
  <2> SUFFICES ASSUME NEW q \in Requests, pc'[q] = "drafted"
               PROVE  DraftTrue(q)'
    BY DEF DraftsTrue
  <2>1. pc[q] = "drafted" /\ draft'[q] = draft[q]
    BY <1>1 DEF MetadataInv, TypeOK
  <2> QED
    BY <1>1, <1>2, <2>1, DraftKept
<1>6. BlobTrue'
  <2>1. (blob.meta # NoSection => Origin(blob.meta, known))'
    BY <1>1 DEF MetadataInv, BlobTrue, Origin
  <2> QED
    BY <1>1, <1>3, <2>1 DEF MetadataInv, BlobTrue
<1>7. DataIsNewest'
  BY <1>1, <1>3 DEF MetadataInv, DataIsNewest, Newest
<1>8. UserIsNewest'
  BY <1>1, <1>3 DEF MetadataInv, UserIsNewest, Newest
<1> QED
  BY <1>4, <1>5, <1>6, <1>7, <1>8 DEF MetadataInv

\* A POST that is newer than the name's PUT.
LEMMA PostInTime ==
    ASSUME MetadataInv, NEW r \in Requests, Post(r),
           ~(draft[r].ts <= blob.data.ts)
    PROVE  MetadataInv'
<1> DEFINE post  == draft[r]
           newer == IF post.ts > blob.meta.ts THEN post ELSE blob.meta
           older == IF post.ts > blob.meta.ts THEN blob.meta ELSE post
           m     == PostSections(blob, post).meta
<1>1. /\ pc[r] = "drafted" /\ pc' = [pc EXCEPT ![r] = "done"]
      /\ draft' = [draft EXCEPT ![r] = NoSection]
      /\ blob' = PostSections(blob, post)
      /\ known' = known \cup {r} /\ UNCHANGED req
  BY DEF Post
<1>2. /\ post \in Sections /\ DraftTrue(r) /\ known \subseteq Requests
  BY <1>1 DEF MetadataInv, TypeOK, DraftsTrue
<1>3. /\ post.ts \in Nat /\ post.typeTs \in Nat /\ req[r].ts \in Nat
      /\ blob.data.ts \in Nat /\ blob.data.ts # 0
      /\ blob.meta.ts \in Nat /\ blob.meta.typeTs \in Nat
      /\ post.ts > blob.data.ts /\ NoSection.ts = 0 /\ NoSection.typeTs = 0
  BY <1>2, Facts DEF DraftTrue, NoSection
<1>4. /\ blob'.data = blob.data /\ blob'.meta = m
      /\ blob' = [data |-> blob.data, meta |-> m]
      /\ m \in Sections /\ m.ts = newer.ts /\ m.user = newer.user
      /\ m.ts >= post.ts /\ m.ts >= blob.meta.ts
      /\ m.typeTs >= post.typeTs /\ m.typeTs >= blob.meta.typeTs
      /\ \/ m.typeTs = newer.typeTs /\ m.type = newer.type
         \/ m.typeTs = older.typeTs /\ m.type = older.type
  BY <1>1, <1>2, <1>3, PostMerged
<1>5. m.ts \in Nat /\ m.typeTs \in Nat
  BY <1>4, Facts
<1> HIDE DEF m
<1>6. m.ts > blob.data.ts /\ m # NoSection
  BY <1>3, <1>4, <1>5
<1>7. /\ Origin(post, known \cup {r})
      /\ blob.meta # NoSection => Origin(blob.meta, known \cup {r})
  BY <1>2 DEF DraftTrue, MetadataInv, BlobTrue, Origin
<1>8. newer # NoSection /\ Origin(newer, known \cup {r})
  BY <1>3, <1>7
<1>9. Origin(m, known \cup {r})
  <2>1. /\ m.user \in known \cup {r} /\ req[m.user].ts = m.ts
        /\ req[m.user].kind \in {"POST", "RETYPE"}
    BY <1>4, <1>8 DEF Origin
  <2>2. CASE m.typeTs = newer.typeTs /\ m.type = newer.type
    BY <1>8, <2>1, <2>2 DEF Origin
  <2>3. CASE m.typeTs = older.typeTs /\ m.type = older.type
    <3>1. m.typeTs # 0 => older # NoSection /\ Origin(older, known \cup {r})
      BY <1>3, <1>7, <2>3
    <3> QED
      BY <2>1, <2>3, <3>1 DEF Origin
  <2> QED
    BY <1>4, <2>2, <2>3
<1>10. /\ Replacing' = Replacing
       /\ Surviving' = {q \in (known \cup {r}) \ Replacing : req[q].ts > blob.data.ts}
       /\ Surviving' \subseteq Surviving \cup {r}
  <2>1. Replacing' = Replacing
    BY <1>1, <1>2 DEF DraftTrue, Replacing
  <2> QED
    BY <1>1, <1>4, <2>1 DEF Surviving
<1>11. TypeOK'
  <2>1. blob' \in [data : Sections, meta : Sections]
    BY <1>4, Facts
  <2> QED
    BY <1>1, <1>4, <1>6, <2>1, Facts DEF MetadataInv, TypeOK
<1>12. DraftsTrue'
  <2> SUFFICES ASSUME NEW q \in Requests, pc'[q] = "drafted"
               PROVE  DraftTrue(q)'
    BY DEF DraftsTrue
  <2>1. pc[q] = "drafted" /\ draft'[q] = draft[q]
    BY <1>1 DEF MetadataInv, TypeOK
  <2> QED
    BY <1>1, <1>3, <1>4, <2>1, DraftKept
<1>13. BlobTrue'
  <2>1. Origin(blob.meta, known)'
    BY <1>1, <1>4, <1>9 DEF Origin
  <2>2. \A q \in Surviving' : req[q].kind = "RETYPE" => m.typeTs >= req[q].ts
    <3> SUFFICES ASSUME NEW q \in Surviving', req[q].kind = "RETYPE"
                 PROVE  m.typeTs >= req[q].ts
      OBVIOUS
    <3>1. req[q].ts > blob.data.ts /\ req[q].ts \in Nat
      BY <1>2, <1>10, Facts
    <3>2. CASE q \in Surviving
      BY <1>3, <1>4, <1>5, <3>1, <3>2 DEF MetadataInv, BlobTrue
    <3>3. CASE q = r
      BY <1>2, <1>3, <1>4, <1>5, <3>1, <3>3 DEF DraftTrue
    <3> QED
      BY <1>10, <3>2, <3>3
  <2>3. (blob.data.typeTs = 0 /\ blob.data.type = blob.data.user)'
    BY <1>4 DEF MetadataInv, BlobTrue
  <2> QED
    BY <1>1, <1>4, <2>1, <2>2, <2>3 DEF BlobTrue
<1>14. DataIsNewest'
  <2>1. Replacing # {}
    BY <1>3, Facts
  <2> QED
    BY <1>1, <1>4, <1>10, <2>1 DEF MetadataInv, DataIsNewest, Newest
<1>15. UserIsNewest'
  <2>1. m.user \in Surviving'
    BY <1>6, <1>9, <1>10 DEF Origin, Replacing
  <2>2. req[r].ts <= m.ts
    BY <1>2, <1>3, <1>4, <1>5 DEF DraftTrue
  <2>3. \A q \in Surviving : req[q].ts <= m.ts
    <3> SUFFICES ASSUME NEW q \in Surviving PROVE req[q].ts <= m.ts
      OBVIOUS
    <3>1. q \in Requests /\ req[q].ts \in Nat
      BY <1>2, Facts DEF Surviving
    <3>2. req[q].ts <= blob.meta.ts
      BY DEF MetadataInv, UserIsNewest, Newest
    <3> QED
      BY <1>3, <1>4, <1>5, <3>1, <3>2
  <2>4. m.ts = req[m.user].ts
    BY <1>9 DEF Origin
  <2>5. Newest(blob.meta.user, Surviving)'
    BY <1>1, <1>4, <1>10, <2>1, <2>2, <2>3, <2>4 DEF Newest
  <2> QED
    BY <1>1, <1>4, <2>1, <2>4, <2>5 DEF UserIsNewest
<1> QED
  BY <1>11, <1>12, <1>13, <1>14, <1>15 DEF MetadataInv

-----------------------------------------------------------------------------
LEMMA StepInv == MetadataInv /\ [Next]_vars => MetadataInv'
<1> SUFFICES ASSUME MetadataInv, [Next]_vars PROVE MetadataInv'
  OBVIOUS
<1>1. ASSUME NEW r \in Requests, Replace(r) PROVE MetadataInv'
  BY <1>1, ReplaceLate, ReplaceInTime
<1>2. ASSUME NEW r \in Requests, Draft(r) PROVE MetadataInv'
  BY <1>2, DraftStep
<1>3. ASSUME NEW r \in Requests, Refuse(r) PROVE MetadataInv'
  BY <1>3, RefuseStep
<1>4. ASSUME NEW r \in Requests, Post(r) PROVE MetadataInv'
  BY <1>4, PostLate, PostInTime
<1>5. CASE UNCHANGED vars
  BY <1>5, StutterStep
<1> QED
  BY <1>1, <1>2, <1>3, <1>4, <1>5 DEF Next

\* The content type: the last of a name's fields, which needs no invariant of
\* its own but follows from what the sections say of it.
LEMMA TypeFollows ==
    ASSUME MetadataInv
    PROVE  TypeIsNewest
<1> DEFINE given == {r \in known : req[r].kind = "RETYPE" /\ req[r].ts > blob.data.ts}
<1> SUFFICES ASSUME ~Deleted(blob)
             PROVE  IF given # {} THEN Newest(Merged(blob).type, given)
                    ELSE \/ Merged(blob).type = blob.data.user
                         \/ /\ Merged(blob).type \in known
                            /\ req[Merged(blob).type].ts = blob.data.ts
  BY DEF TypeIsNewest
<1>1. /\ blob.data.ts \in Nat \ {0} /\ blob.meta.ts \in Nat
      /\ blob.meta.typeTs \in Nat /\ known \subseteq Requests
      /\ \A r \in known : req[r].ts \in Nat
  BY Facts DEF Deleted, MetadataInv, TypeOK
<1>2. /\ blob.data.type = blob.data.user
      /\ blob.meta # NoSection => Origin(blob.meta, known)
      /\ \A r \in given : r \in Surviving /\ blob.meta.typeTs >= req[r].ts
  BY DEF MetadataInv, BlobTrue, Surviving, Replacing
<1>3. CASE blob.meta = NoSection
  <2>1. given = {}
    BY <1>1, <1>2, <1>3 DEF NoSection
  <2>2. Merged(blob).type = blob.data.user
    BY <1>2, <1>3 DEF Merged
  <2> QED
    BY <2>1, <2>2
<1>4. CASE blob.meta # NoSection /\ blob.data.ts > blob.meta.typeTs
  <2>1. given = {}
    BY <1>1, <1>2, <1>4
  <2>2. Merged(blob).type = blob.data.user
    <3>1. Merged(blob) = Retyped(blob.meta, blob.data.type, 0)
      BY <1>4 DEF Merged, Deleted
    <3>2. /\ blob.meta \in Sections /\ blob.data.type \in Requests \cup {Nobody}
          /\ 0 \in Stamps \cup {0}
      BY Facts DEF Sections
    <3> QED
      BY <1>2, <3>1, <3>2, SectionUpdated
  <2> QED
    BY <2>1, <2>2
<1>5. CASE blob.meta # NoSection /\ ~(blob.data.ts > blob.meta.typeTs)
  <2>1. Merged(blob).type = blob.meta.type
    BY <1>5 DEF Merged
  <2>2. /\ blob.meta.type \in known /\ req[blob.meta.type].kind = "RETYPE"
        /\ req[blob.meta.type].ts = blob.meta.typeTs
    BY <1>1, <1>2, <1>5 DEF Origin
  <2>3. CASE blob.meta.typeTs > blob.data.ts
    <3>1. blob.meta.type \in given
      BY <2>2, <2>3
    <3> QED
      BY <1>2, <2>1, <2>2, <3>1 DEF Newest
  <2>4. CASE blob.meta.typeTs = blob.data.ts
    <3>1. given = {}
      BY <1>1, <1>2, <2>4
    <3> QED
      BY <2>1, <2>2, <2>4, <3>1
  <2> QED
    BY <1>1, <1>5, <2>3, <2>4
<1> QED
  BY <1>3, <1>4, <1>5

-----------------------------------------------------------------------------
\* The inductive invariant holds in every state, however many the requests.
THEOREM MetadataInvariant == Spec => []MetadataInv
BY InitInv, StepInv, PTL DEF Spec

\* Every variable of Metadata stays within its type; in particular a POST's
\* section is kept only while it is newer than the PUT (metadata.py put(),
\* post()).
THEOREM TypeCorrect == Spec => []TypeOK
<1>1. MetadataInv => TypeOK
  BY DEF MetadataInv
<1> QED
  BY <1>1, MetadataInvariant, PTL

\* Whatever the order in which the Device decides about them, and whatever the
\* server had read when it made a POST of them, a name's requests come to the
\* same metadata.
THEOREM Convergence == Spec => []Converges
<1>1. MetadataInv => Converges
  BY TypeFollows DEF MetadataInv, Converges
<1> QED
  BY <1>1, MetadataInvariant, PTL

-----------------------------------------------------------------------------
(* What the promise of module NameStore comes to, for every set of names   *)
(* and versions, whoever keeps it: a name never durably goes back in time. *)

CONSTANTS Names, Versions
VARIABLE line

Keeper == INSTANCE NameStore

Held == Versions \cup {Keeper!Nothing}

\* The versions of a name stand in the order of their timestamps, on their
\* way to the disk as on it.
Rising(s) == \A i \in 1 .. Len(s) - 1 : s[i].ts <= s[i + 1].ts

LineInv == Keeper!TypeOK /\ \A n \in Names : Rising(line[n])

LEMMA HeldStamps ==
    ASSUME Keeper!Stamped
    PROVE  \A v \in Held : v.ts \in Nat
  BY DEF Keeper!Stamped, Held, Keeper!Nothing

LEMMA Nonempty ==
    ASSUME NEW S, NEW s \in Seq(S) \ {<<>>}
    PROVE  /\ Len(s) \in Nat /\ Len(s) >= 1
           /\ Head(s) = s[1] /\ Head(s) \in S
           /\ Last(s) = s[Len(s)] /\ Last(s) \in S
  BY DEF Last

LEMMA Appended ==
    ASSUME Keeper!Stamped, NEW s \in Seq(Held) \ {<<>>}, Rising(s),
           NEW v \in Held, v.ts >= Last(s).ts
    PROVE  /\ Append(s, v) \in Seq(Held) \ {<<>>}
           /\ Rising(Append(s, v))
           /\ Head(Append(s, v)) = Head(s)
  <1>1. Append(s, v) \in Seq(Held) \ {<<>>} /\ Head(Append(s, v)) = Head(s)
    BY Nonempty
  <1>2. Rising(Append(s, v))
    <2> SUFFICES ASSUME NEW i \in 1 .. Len(Append(s, v)) - 1
                 PROVE  Append(s, v)[i].ts <= Append(s, v)[i + 1].ts
      BY DEF Rising
    <2>1. Len(Append(s, v)) = Len(s) + 1
      OBVIOUS
    <2>2. CASE i = Len(s)
      <3>1. Append(s, v)[i] = Last(s) /\ Append(s, v)[i + 1] = v
        BY <2>2, Nonempty
      <3> QED
        BY <3>1
    <2>3. CASE i \in 1 .. Len(s) - 1
      <3>1. s[i].ts <= s[i + 1].ts
        BY <2>3 DEF Rising
      <3>2. i \in 1 .. Len(s) /\ i + 1 \in 1 .. Len(s)
        BY <2>3, Nonempty
      <3>3. Append(s, v)[i] = s[i] /\ Append(s, v)[i + 1] = s[i + 1]
        BY <3>2
      <3> QED
        BY <3>1, <3>3
    <2> QED
      BY <2>1, <2>2, <2>3, Nonempty
  <1> QED
    BY <1>1, <1>2

LEMMA Shortened ==
    ASSUME Keeper!Stamped, NEW s \in Seq(Held), Rising(s), Len(s) > 1
    PROVE  /\ Tail(s) \in Seq(Held) \ {<<>>} /\ Rising(Tail(s))
           /\ Head(Tail(s)).ts >= Head(s).ts
  <1>1. /\ Tail(s) \in Seq(Held) /\ Len(Tail(s)) = Len(s) - 1 /\ Len(s) \in Nat
        /\ \A i \in 1 .. Len(Tail(s)) : Tail(s)[i] = s[i + 1]
    BY HeadTailProperties
  <1>2. \A i \in 1 .. Len(s) - 1 : s[i].ts <= s[i + 1].ts
    BY DEF Rising
  <1> DEFINE t == Tail(s)
  <1> HIDE DEF t
  <1>3. \A i \in 1 .. Len(t) - 1 : t[i].ts <= t[i + 1].ts
    <2> TAKE i \in 1 .. Len(t) - 1
    <2>1. /\ i \in 1 .. Len(t) /\ i + 1 \in 1 .. Len(t) /\ i + 1 \in 1 .. Len(s) - 1
          /\ t[i] = s[i + 1] /\ t[i + 1] = s[(i + 1) + 1]
      BY <1>1 DEF t
    <2> QED
      BY <1>2, <2>1
  <1>4. t # <<>> /\ Head(t) = t[1] /\ t[1] = s[2] /\ Head(s) = s[1]
    <2>1. Len(t) \in Nat /\ Len(t) >= 1 /\ t \in Seq(Held)
      BY <1>1 DEF t
    <2>2. t # <<>> /\ Head(t) = t[1]
      BY <2>1
    <2>3. t[1] = s[2]
      BY <2>1, <1>1 DEF t
    <2> QED
      BY <2>2, <2>3, <1>1
  <1>5. s[1] \in Held /\ s[2] \in Held
    BY ElementOfSeq, <1>1
  <1>6. s[1].ts <= s[2].ts
    BY <1>1, <1>2
  <1> QED
    BY <1>1, <1>3, <1>4, <1>5, <1>6, HeldStamps DEF Rising, t

LEMMA LineInit == Keeper!Init => LineInv
  BY DEF Keeper!Init, LineInv, Keeper!TypeOK, Rising, Keeper!Nothing

LEMMA LineDecide ==
    ASSUME Keeper!Stamped, LineInv, NEW n \in Names, Keeper!Decide(n)
    PROVE  LineInv' /\ Keeper!NeverBack
  <1> DEFINE now == Keeper!Current(n)
             new == Last(line'[n])
  <1>1. /\ new \in Versions
        /\ Keeper!Replaces(new, now) \/ Keeper!Updates(new, now)
        /\ line' = [line EXCEPT ![n] = Append(@, new)]
    BY DEF Keeper!Decide, Keeper!Last, Keeper!Current, Last
  <1>2. line \in [Names -> Seq(Held) \ {<<>>}] /\ \A m \in Names : Rising(line[m])
    BY DEF LineInv, Keeper!TypeOK, Held
  <1>3. now = Last(line[n]) /\ now.ts \in Nat /\ new \in Held /\ new.ts \in Nat
    <2>1. now = Last(line[n])
      BY DEF Keeper!Current, Keeper!Last, Last
    <2>2. line[n] \in Seq(Held) \ {<<>>} /\ new \in Held
      BY <1>1, <1>2 DEF Held
    <2>3. Last(line[n]) \in Held
      BY <2>2, Nonempty
    <2> QED
      BY <2>1, <2>2, <2>3, HeldStamps
  <1>4. new.ts >= now.ts
    BY <1>1, <1>3 DEF Keeper!Replaces, Keeper!Updates
  <1> HIDE DEF now, new
  <1>5. /\ Append(line[n], new) \in Seq(Held) \ {<<>>}
        /\ Rising(Append(line[n], new))
        /\ Head(Append(line[n], new)) = Head(line[n])
    BY <1>2, <1>3, <1>4, Appended
  <1>6. line' \in [Names -> Seq(Held) \ {<<>>}] /\ \A m \in Names : Rising(line'[m])
    BY <1>1, <1>2, <1>5
  <1>7. \A m \in Names : Head(line'[m]) = Head(line[m])
    BY <1>1, <1>2, <1>5
  <1>8. \A m \in Names : Head(line[m]).ts \in Nat
    BY <1>2, Nonempty, HeldStamps
  <1> QED
    BY <1>6, <1>7, <1>8 DEF LineInv, Keeper!TypeOK, Held, Keeper!NeverBack, Keeper!Durable

LEMMA LineCommit ==
    ASSUME Keeper!Stamped, LineInv, NEW n \in Names, Keeper!Commit(n)
    PROVE  LineInv' /\ Keeper!NeverBack
  <1>1. line \in [Names -> Seq(Held) \ {<<>>}] /\ \A m \in Names : Rising(line[m])
    BY DEF LineInv, Keeper!TypeOK, Held
  <1>2. Len(line[n]) > 1 /\ line' = [line EXCEPT ![n] = Tail(@)]
    BY DEF Keeper!Commit
  <1>3. /\ Tail(line[n]) \in Seq(Held) \ {<<>>} /\ Rising(Tail(line[n]))
        /\ Head(Tail(line[n])).ts >= Head(line[n]).ts
    BY <1>1, <1>2, Shortened
  <1>4. \A m \in Names : Head(line[m]).ts \in Nat
    BY <1>1, Nonempty, HeldStamps
  <1>5. line' \in [Names -> Seq(Held) \ {<<>>}] /\ \A m \in Names : Rising(line'[m])
    BY <1>1, <1>2, <1>3
  <1>6. \A m \in Names : Head(line'[m]).ts >= Head(line[m]).ts
    BY <1>1, <1>2, <1>3, <1>4
  <1> QED
    BY <1>5, <1>6 DEF LineInv, Keeper!TypeOK, Held, Keeper!NeverBack, Keeper!Durable

LEMMA LineCrash ==
    ASSUME Keeper!Stamped, LineInv, Keeper!Crash
    PROVE  LineInv' /\ Keeper!NeverBack
  <1>1. line \in [Names -> Seq(Held) \ {<<>>}] /\ line' = [n \in Names |-> <<Head(line[n])>>]
    BY DEF LineInv, Keeper!TypeOK, Held, Keeper!Crash
  <1>2. \A m \in Names : Head(line[m]) \in Held /\ Head(line[m]).ts \in Nat
    BY <1>1, Nonempty, HeldStamps
  <1>3. line' \in [Names -> Seq(Held) \ {<<>>}]
    BY <1>1, <1>2
  <1>4. \A m \in Names : Rising(line'[m])
    BY <1>1 DEF Rising
  <1>5. \A m \in Names : Head(line'[m]) = Head(line[m])
    BY <1>1
  <1> QED
    BY <1>2, <1>3, <1>4, <1>5 DEF LineInv, Keeper!TypeOK, Held, Keeper!NeverBack, Keeper!Durable

LEMMA LineStutter ==
    ASSUME LineInv, UNCHANGED line
    PROVE  LineInv'
  BY DEF LineInv, Keeper!TypeOK

(* A name that durably resolves to a version never durably resolves to an  *)
(* older one or to nothing again: not by a put, not by a POST, not by a    *)
(* crash that loses what was on its way (ARCHITECTURE.md "Writing makes a  *)
(* new one"; backend.cpp put()).                                           *)
THEOREM NeverGoesBack ==
    ASSUME Keeper!Stamped
    PROVE  Keeper!Spec => [][Keeper!NeverBack]_line
  <1>1. LineInv /\ [Keeper!Next]_line => LineInv' /\ [Keeper!NeverBack]_line
    <2> SUFFICES ASSUME LineInv, [Keeper!Next]_line
                 PROVE  LineInv' /\ [Keeper!NeverBack]_line
      OBVIOUS
    <2>1. ASSUME NEW n \in Names, Keeper!Decide(n)
          PROVE  LineInv' /\ Keeper!NeverBack
      BY <2>1, LineDecide
    <2>2. ASSUME NEW n \in Names, Keeper!Commit(n)
          PROVE  LineInv' /\ Keeper!NeverBack
      BY <2>2, LineCommit
    <2>3. CASE Keeper!Crash
      BY <2>3, LineCrash
    <2>4. CASE UNCHANGED line
      BY <2>4, LineStutter
    <2> QED
      BY <2>1, <2>2, <2>3, <2>4 DEF Keeper!Next
  <1> QED
    BY <1>1, LineInit, PTL DEF Keeper!Spec
=============================================================================
