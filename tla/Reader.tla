------------------------------- MODULE Reader -------------------------------
(***************************************************************************)
(* Sending the content of one object: BaseDiskFileReader and               *)
(* ECDiskFileReader of swift_patches/obj/bs_diskfile.py, and the checks of *)
(* open() on the size.                                                     *)
(*                                                                         *)
(* A reader sends the whole file or some ranges of it, sums what it reads, *)
(* and on closing compares size and sum with the metadata.  What does not  *)
(* match is quarantined: the object's directory is renamed away.  Meanwhile*)
(* another PUT may replace the file and bits may rot.                      *)
(*                                                                         *)
(* A file's content is the sequence of its bytes: byte i is i when sound   *)
(* and 0 when rotten, so the sum a PUT recorded is that of Sound.  A       *)
(* fragment's header is its first byte; pyeclib checks no other.           *)
(***************************************************************************)
EXTENDS Integers, SequencesExt

CONSTANTS Readers,
          Size,       \* bytes of an object
          Chunk,      \* disk_chunk_size
          Frags,      \* sizes of EC fragments, 0 being replication
          MaxRanges,  \* ranges a GET may ask for
          Validate,   \* what etag_validate_frac may be: 0, between, or 1
          MaxPuts,    \* bound on PUTs
          MaxRot      \* bound on damage

ASSUME ReaderAssumption ==
  /\ Size \in Nat \ {0} /\ Chunk \in Nat \ {0} /\ Frags \subseteq Nat
  /\ MaxRanges \in Nat /\ MaxPuts \in Nat /\ MaxRot \in Nat
  /\ Validate \subseteq {"never", "sometimes", "always"}

Version == 1..(MaxPuts + 1)
Sound == [i \in 1..Size |-> i]
NoSum == <<-1>>               \* no md5 under way
NoFrag == <<-1>>              \* fragments are not checked
Unreadable == -2              \* a byte on a bad sector

\* Bytes from (first is 0) up to, not including, stop.
Span == {g \in [start : 0..Size - 1, stop : 1..Size] : g.start < g.stop}
Whole == [start |-> 0, stop |-> Size]
Bytes(g) == [i \in 1..(g.stop - g.start) |-> g.start + i]

VARIABLES dir,      \* version the object's directory holds, 0 if there is none
          newest,   \* version written last
          content,  \* version -> its bytes, also of what is only open still
          reader    \* reader -> its state

vars == <<dir, newest, content, reader>>

Closed == [at |-> "idle", fp |-> 0, unit |-> 0, todo |-> <<>>, multi |-> FALSE,
           splice |-> FALSE, validate |-> "never",
           pos |-> 0, left |-> 0, read |-> 0, started |-> FALSE, eof |-> FALSE,
           sum |-> NoSum, frag |-> NoFrag, sent |-> <<>>, asked |-> <<>>, end |-> "none"]

Init == /\ dir = 1 /\ newest = 1
        /\ content = [v \in Version |-> Sound]
        /\ reader = [r \in Readers |-> Closed]

-----------------------------------------------------------------------------
(* The others.                                                             *)

\* A PUT renames its file in and its cleanup unlinks the old one.
Put == /\ newest <= MaxPuts
       /\ newest' = newest + 1
       /\ dir' = newest + 1
       /\ UNCHANGED <<content, reader>>

Damage == Cardinality({at \in Version \X (1..Size) :
                         \/ at[2] > Len(content[at[1]])
                         \/ content[at[1]][at[2]] # at[2]})

\* A byte rots, or cannot be read any more, or the end is lost.
Rot == /\ Damage < MaxRot
       /\ \E v \in 1..newest : content[v] # <<>> /\
            \/ \E i \in 1..Len(content[v]) : \E b \in {0, Unreadable} : content' = [content EXCEPT ![v][i] = b]
            \/ content' = [content EXCEPT ![v] = SubSeq(@, 1, Len(@) - 1)]
       /\ UNCHANGED <<dir, newest, reader>>

-----------------------------------------------------------------------------
\* quarantine_renamer: the directory, whatever it holds by now, goes; if it is
\* gone already the rename fails and that is logged.
Quarantine == dir' = 0

\* DiskFile.open and _verify_data_file: the size must be the recorded one.
OpenFails(r) ==
  /\ reader[r].at = "idle" /\ dir # 0 /\ Len(content[dir]) # Size
  /\ Quarantine
  /\ reader' = [reader EXCEPT ![r].at = "done", ![r].end = "quarantined", ![r].fp = dir]
  /\ UNCHANGED <<newest, content>>

\* GET of the whole object, by splice or not, or of some ranges; only more
\* than one suppresses closing at the end of each.
Open(r) ==
  /\ reader[r].at = "idle" /\ dir # 0 /\ Len(content[dir]) = Size
  /\ \E splice \in BOOLEAN, n \in 0..MaxRanges, unit \in Frags, validate \in Validate :
     \E todo \in [1..n -> Span] :
       /\ splice => n = 0 /\ unit = 0
       /\ reader' = [reader EXCEPT ![r] =
            [Closed EXCEPT !.at = "next", !.fp = dir, !.unit = unit, !.multi = n > 1,
                           !.splice = splice, !.validate = validate,
                           !.todo = IF n = 0 THEN <<Whole>> ELSE todo,
                           !.asked = IF n = 0 THEN <<Whole>> ELSE todo]]
  /\ UNCHANGED <<dir, newest, content>>

\* zero_copy_send always starts at 0 and always sums what it sent.
AlwaysSums(r) == reader[r].splice \/ reader[r].validate = "always"

\* _init_checks: a read from the start may sum; one that does not leaves
\* the sum of an earlier range as it is.
MaySum(r, start) ==
  IF start # 0 THEN {reader[r].sum}
  ELSE IF AlwaysSums(r) THEN {<<>>}
  ELSE IF reader[r].validate = "sometimes" THEN {<<>>, reader[r].sum} ELSE {reader[r].sum}

\* Mutant: the count of one range goes on in the next.
NextRangeCounts(r) ==
  /\ reader[r].at = "next" /\ reader[r].todo # <<>>
  /\ LET g == Head(reader[r].todo)
     IN \E sum \in MaySum(r, g.start) :
          reader' = [reader EXCEPT ![r].at = "read", ![r].todo = Tail(@),
             ![r].pos = g.start, ![r].left = g.stop - g.start, ![r].read = @,
             ![r].started = g.start = 0, ![r].eof = FALSE, ![r].sum = sum,
             ![r].frag = IF g.start = 0 /\ reader[r].unit > 0 THEN <<>> ELSE NoFrag]
  /\ UNCHANGED <<dir, newest, content>>

\* app_iter_range seeks, _inner_iter starts its counts.
NextRange(r) ==
  /\ reader[r].at = "next" /\ reader[r].todo # <<>>
  /\ LET g == Head(reader[r].todo)
     IN \E sum \in MaySum(r, g.start) :
          reader' = [reader EXCEPT ![r].at = "read", ![r].todo = Tail(@),
             ![r].pos = g.start, ![r].left = g.stop - g.start, ![r].read = 0,
             ![r].started = g.start = 0, ![r].eof = FALSE, ![r].sum = sum,
             ![r].frag = IF g.start = 0 /\ reader[r].unit > 0 THEN <<>> ELSE NoFrag]
  /\ UNCHANGED <<dir, newest, content>>

\* The next bytes of the open file, none at its end.
NextChunk(r) == LET file == content[reader[r].fp]
                    to == IF reader[r].pos + Chunk < Len(file)
                          THEN reader[r].pos + Chunk ELSE Len(file)
                IN SubSeq(file, reader[r].pos + 1, to)

\* What frag_buf holds with the chunk, and its first whole fragments.
Buffer(r) == IF reader[r].frag = NoFrag THEN NoFrag ELSE reader[r].frag \o NextChunk(r)

Rest(buf, unit) == IF buf = NoFrag THEN buf
             ELSE SubSeq(buf, (Len(buf) \div unit) * unit + 1, Len(buf))

\* Of a fragment only the header is checked.
IsHeader(i, unit) == \E k \in 0..i : i = k * unit + 1
CorruptFrag(buf, unit) ==
  buf # NoFrag /\ \E i \in 1..(Len(buf) \div unit) * unit : IsHeader(i, unit) /\ buf[i] = 0

Readable(chunk) == \A i \in 1..Len(chunk) : chunk[i] # Unreadable

Took(r, sent, at) ==
  LET chunk == NextChunk(r)
  IN reader' = [reader EXCEPT ![r].at = at, ![r].pos = @ + Len(chunk),
       ![r].read = @ + Len(chunk), ![r].sent = @ \o sent, ![r].left = @ - Len(chunk),
       ![r].sum = IF @ = NoSum THEN @ ELSE @ \o chunk,
       ![r].frag = Rest(Buffer(r), reader[r].unit)]

\* Mutant: a range that ends with a chunk is taken to go on.
ReadChunkLate(r) ==
  LET chunk == NextChunk(r)
  IN /\ reader[r].at = "read" /\ chunk # <<>> /\ Readable(chunk)
     /\ ~CorruptFrag(Buffer(r), reader[r].unit)
     /\ IF Len(chunk) < reader[r].left + 1 THEN Took(r, chunk, "read")
        ELSE Took(r, SubSeq(chunk, 1, reader[r].left + 1), "next")
     /\ UNCHANGED <<dir, newest, content>>

\* A chunk is summed and yielded; what reaches beyond the range is chopped
\* and ends it before the end of the file is seen.
ReadChunk(r) ==
  LET chunk == NextChunk(r)
  IN /\ reader[r].at = "read" /\ chunk # <<>> /\ Readable(chunk)
     /\ ~CorruptFrag(Buffer(r), reader[r].unit)
     /\ IF Len(chunk) <= reader[r].left THEN Took(r, chunk, "read")
        ELSE Took(r, SubSeq(chunk, 1, reader[r].left), "next")
     /\ UNCHANGED <<dir, newest, content>>

\* ECDiskFileReader: a corrupt fragment ends the answer with an exception.
FragmentFails(r) ==
  /\ reader[r].at = "read" /\ NextChunk(r) # <<>> /\ Readable(NextChunk(r))
  /\ CorruptFrag(Buffer(r), reader[r].unit)
  /\ Quarantine
  /\ reader' = [reader EXCEPT ![r].at = "done", ![r].end = "quarantined"]
  /\ UNCHANGED <<newest, content>>

\* EIO: the file is quarantined and the answer breaks off, spliced it only
\* breaks off.
ReadFails(r) ==
  /\ reader[r].at = "read" /\ ~Readable(NextChunk(r))
  /\ IF reader[r].splice
     THEN /\ reader' = [reader EXCEPT ![r].at = "done", ![r].end = "failed"]
          /\ UNCHANGED dir
     ELSE /\ Quarantine
          /\ reader' = [reader EXCEPT ![r].at = "done", ![r].end = "quarantined"]
  /\ UNCHANGED <<newest, content>>

\* An empty read is the end of the file.
ReadToEof(r) ==
  /\ reader[r].at = "read" /\ NextChunk(r) = <<>>
  /\ reader' = [reader EXCEPT ![r].at = "next", ![r].eof = TRUE]
  /\ UNCHANGED <<dir, newest, content>>

\* The client left, at a chunk or at what multi_range_iterator puts between
\* ranges: the range that ended there is still judged by close.
ClientLeaves(r) ==
  /\ \/ reader[r].at = "read" /\ reader[r].pos > 0
     \/ reader[r].at = "next" /\ reader[r].multi /\ reader[r].end = "none"
  /\ reader' = [reader EXCEPT ![r].at = "next", ![r].todo = <<>>, ![r].end = "left"]
  /\ UNCHANGED <<dir, newest, content>>

\* _handle_close_quarantine.
Suspect(r) == \/ reader[r].read # Size
              \/ reader[r].sum # NoSum /\ reader[r].sum # Sound
              \/ reader[r].frag \notin {NoFrag, <<>>} /\ reader[r].frag[1] = 0

\* close: only a read from the start to the end of the file is judged.
Close(r) ==
  /\ reader[r].at = "next" /\ reader[r].todo = <<>>
  /\ IF reader[r].started /\ reader[r].eof /\ Suspect(r)
     THEN /\ Quarantine
          /\ reader' = [reader EXCEPT ![r].at = "done", ![r].end = "quarantined"]
     ELSE /\ reader' = [reader EXCEPT ![r].at = "done",
                                      ![r].end = IF @ = "left" THEN @ ELSE "all"]
          /\ UNCHANGED dir
  /\ UNCHANGED <<newest, content>>

Read(r) == \/ OpenFails(r) \/ Open(r) \/ NextRange(r) \/ ReadChunk(r) \/ FragmentFails(r)
           \/ ReadFails(r) \/ ReadToEof(r) \/ ClientLeaves(r) \/ Close(r)

Next == (\E r \in Readers : Read(r)) \/ Put \/ Rot

Spec == Init /\ [][Next]_vars

-----------------------------------------------------------------------------
Byte == {Unreadable} \cup 0..Size
Text == UNION {[1..n -> Byte] : n \in 0..Size}

\* The types of the variables.
TypeOK ==
  /\ dir \in 0..newest /\ newest \in Version
  /\ content \in [Version -> Text]
  /\ \A r \in Readers : LET s == reader[r] IN
       /\ s.fp \in {0} \cup Version /\ s.pos \in 0..Size /\ s.read \in Nat
       /\ s.left \in -Chunk..Size
       /\ s.at \in {"idle", "next", "read", "done"}
       /\ s.end \in {"none", "all", "left", "failed", "quarantined"}

Asked(gs) == FlattenSeq([k \in 1..Len(gs) |-> Bytes(gs[k])])

\* What a reader sends is exactly the ranges it was asked for, chunk by chunk
\* and range after range, of the version it opened, unless its end was lost.
SentIsAsked ==
  \A r \in Readers : reader[r].end = "all" /\ Len(content[reader[r].fp]) = Size =>
    LET asked == Asked(reader[r].asked)  sent == reader[r].sent
    IN Len(sent) = Len(asked) /\ \A i \in 1..Len(asked) : sent[i] \in {0, asked[i]}

\* Nobody is sent a whole object to its end with the end of it lost; nor with
\* a rotten byte in it if it is summed, as spliced it always is; nor, if it is a
\* fragment archive, with a rotten header of a fragment: without the object
\* being quarantined.
CorruptionIsFound ==
  \A r \in Readers : reader[r].end = "all" /\ reader[r].asked = <<Whole>> =>
    LET sent == reader[r].sent
    IN /\ Len(sent) = Size
       /\ AlwaysSums(r) => sent = Sound
       /\ reader[r].unit > 0 =>
            \A i \in 1..Size : IsHeader(i, reader[r].unit) => sent[i] = i

\* A reader accuses only a file that is corrupt, whatever ranges it sent
\* before and whoever left.
AccusedIsCorrupt ==
  \A r \in Readers : reader[r].end = "quarantined" => content[reader[r].fp] # Sound

\* What is quarantined for is corruption, and no corruption is sent whole
\* without it; with the types.
ReaderInv == TypeOK /\ AccusedIsCorrupt /\ CorruptionIsFound
=============================================================================
