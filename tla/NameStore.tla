----------------------------- MODULE NameStore ------------------------------
(***************************************************************************)
(* What the engine promises about a name, whatever happens in between:     *)
(* the name resolves to a sequence of versions, each replaced by a newer   *)
(* one or given new metadata; a crash keeps a prefix of those decisions,   *)
(* at least as long as what has been reported durable, and never leaves    *)
(* half of one (ARCHITECTURE.md "Writing makes a new one").                *)
(***************************************************************************)
EXTENDS Naturals, Sequences, SequencesExt

CONSTANTS
    Names,
    Versions     \* [id, ts, meta, size]: the writer, when it took
                 \* the name, its latest metadata, its body

Nothing == [id |-> <<>>, ts |-> 0, meta |-> 0, size |-> 0]

Stamped == \A v \in Versions : v.ts \in Nat

VARIABLES
    line         \* line[n]: the durable version of n, then those that follow

Current(n) == Last(line[n])

TypeOK == line \in [Names -> Seq(Versions \cup {Nothing}) \ {<<>>}]

Init == line = [n \in Names |-> <<Nothing>>]

\* A put() hands the name to another version, and only to a newer one.
Replaces(v, now) == v.ts > now.ts /\ v.id # now.id

\* A POST changes the metadata of the version that holds the name.
Updates(v, now) ==
    /\ now # Nothing
    /\ v.id = now.id /\ v.ts = now.ts /\ v.size = now.size /\ v.meta # now.meta

Decide(n) ==
    LET now == Current(n)
        new == Last(line'[n])
    IN  /\ new \in Versions
        /\ Replaces(new, now) \/ Updates(new, now)
        /\ line' = [line EXCEPT ![n] = Append(@, new)]

Commit(n) ==
    /\ Len(line[n]) > 1
    /\ line' = [line EXCEPT ![n] = Tail(@)]

Crash == line' = [n \in Names |-> <<Head(line[n])>>]

\* A crash that takes nothing back is no step.
Next ==
    /\ line' # line
    /\ \/ \E n \in Names : Decide(n) \/ Commit(n)
       \/ Crash

Spec == Init /\ [][Next]_line

\* What the promise comes to: a name that durably resolves to something
\* never durably resolves to nothing or to something older.
Durable(n) == Head(line[n])
NeverBack == \A n \in Names : Durable(n)'.ts >= Durable(n).ts
=============================================================================
