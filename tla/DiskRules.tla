------------------------------ MODULE DiskRules ------------------------------
(***************************************************************************)
(* Which files of an object's directory count: the part of                 *)
(* BaseDiskFileManager.get_ondisk_files every policy shares.  A file is a  *)
(* record with at least its extension ext, its timestamp ts and, of a      *)
(* .meta, the timestamp ctype of its content type (0 is none).             *)
(***************************************************************************)
EXTENDS Naturals, FiniteSets

Largest(S) == CHOOSE n \in S : \A m \in S : m <= n

Kind(fs, ext) == {f \in fs : f.ext = ext}

\* Those that may come first of a list sorted by timestamp only, newest first.
Latest(fs) == {f \in fs : \A g \in fs : g.ts <= f.ts}

\* The first of a list sorted by content type, newest first, that was sorted
\* by timestamp before.
NewestType(fs) == {f \in fs : \A g \in fs : \/ g.ctype < f.ctype
                                            \/ g.ctype = f.ctype /\ g.ts <= f.ts}

\* Other kinds at the same or an older timestamp, the same kind if older.
Outdated(fs, by) ==
  {f \in fs : \E b \in by : f.ts < b.ts \/ (f.ts = b.ts /\ f.ext # b.ext)}

\* What the newest tombstone does not outdate.
Undeleted(fs) == fs \ Outdated(fs, Latest(Kind(fs, "ts")))

\* The .meta that comes first, if there is one.  A sort that is stable leaves
\* files of equal timestamp in the order of the listing, which is any order
\* for an open ...
Leads(fs) ==
  LET tied == Latest(Kind(Undeleted(fs), "meta"))
  IN IF tied = {} THEN {{}} ELSE {{f} : f \in tied}

\* ... and for a cleanup the names' own, backwards: the .meta without content
\* type, those of an older one in the order of that difference's digits, the
\* one whose content type is of its own time.
SortedLeads(fs) ==
  LET rank(f) == IF f.ctype = 0 THEN 2 ELSE IF f.ctype < f.ts THEN 1 ELSE 0
  IN {lead \in Leads(fs) : \A f \in lead :
        \A other \in Leads(fs) : \A g \in other : rank(g) <= rank(f)}

\* Mutant: only the newest .meta.
RetainedFirst(lead, metas) == lead

\* The first .meta, and of the others the one with the newest content type if
\* that is newer than the first's; instead of the first if they are of one
\* timestamp.
RetainedMeta(lead, metas) ==
  LET second == {s \in NewestType(metas \ lead) : \A f \in lead : s.ctype > f.ctype}
  IN second \cup {f \in lead : \A s \in second : s.ts # f.ts}

\* The files every policy discards first: what the newest tombstone outdates,
\* and every .meta that is not retained.
SupersededAfter(lead, fs) ==
  LET metas == Kind(Undeleted(fs), "meta")
  IN (fs \ Undeleted(fs)) \cup (metas \ RetainedMeta(lead, metas))

\* With the newer content type first.  The order is of no account as long as no
\* third .meta, older than two of one timestamp, has a content type newer than
\* both: .meta without content types, or no more than two of them.
Superseded(fs) ==
  LET tied == Latest(Kind(Undeleted(fs), "meta"))
  IN SupersededAfter(NewestType(tied), fs)
=============================================================================
