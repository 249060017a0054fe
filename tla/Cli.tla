--------------------------------- MODULE Cli ---------------------------------
(***************************************************************************)
(* The command line tool (extension/cli.cpp): each command is a process    *)
(* that mounts the store, drives the engine (module Engine) through one    *)
(* request and lets go.  It does not sweep: what a command that died has   *)
(* left is there for the next one, until somebody runs clean.  A command   *)
(* writes its Object at the timestamp it was given with -t, or else at the *)
(* clock's.                                                                *)
(*                                                                         *)
(* A process is a life of the engine: Engine's crashes counts those that   *)
(* have ended.                                                             *)
(***************************************************************************)
EXTENDS Engine

CONSTANT
    Cleans       \* the command clean may be run

VARIABLES
    command,     \* the command that runs
    lost,        \* history: the timestamps of commands that died before they
                 \* were done, since clean was run
    killed       \* history: a command has died since clean was run

history == <<lost, killed>>
cli == <<command, history>>

Kinds == {"put", "delete", "post", "get"} \cup (IF Cleans THEN {"clean"} ELSE {})
None == [kind |-> "none", at |-> "idle", ts |-> 0, name |-> NoObject, left |-> 0,
         prev |-> NoObject, next |-> NoObject, id |-> NoWriter, size |-> 0]

CliInit == Init /\ command = None /\ lost = {} /\ killed = FALSE

Goes(at) == command' = [command EXCEPT !.at = at]
At(kinds, at) == command.kind \in kinds /\ command.at = at

\* A command mounts the store as it was left.  put and delete bring a
\* timestamp, which a command before may have had, put a body.
Mount(kind, n, ts, chunks) ==
    /\ ~aborted /\ command = None /\ phase = "mounted" /\ crashes < MaxCrashes
    /\ kind \in {"put", "delete"} <=> ts # 0
    /\ kind # "put" => chunks = 0
    /\ command' = [None EXCEPT !.kind = kind, !.ts = ts, !.name = n,
                               !.at = IF kind = "clean" THEN "clean" ELSE "find",
                               !.left = chunks, !.size = chunks]
    /\ phase' = IF kind = "clean" THEN phase ELSE "serving"
    /\ UNCHANGED <<engine, bluestore, crashes, aborted, history>>

\* back.find()
Finds(o) == At({"put", "delete", "post", "get"}, "find") /\ Find(o, command.name)
            /\ command' = [command EXCEPT !.at = "open", !.prev = o]
            /\ UNCHANGED history

\* open_existing: "Missing" and 1 for those that need one.
Opens == /\ command.at = "open" /\ Open(command.prev)
         /\ Goes(CASE command.kind \in {"put", "delete"} -> "create"
                   [] objs'[command.prev].state = "MISSING" -> "ends"
                   [] command.kind = "post" -> "metadata"
                   [] OTHER -> "read")
         /\ UNCHANGED history

Creates(o) == /\ command.at = "create" /\ Create(o, command.name, command.ts)
              /\ command' = [command EXCEPT !.next = o, !.id = objs'[o].id,
                    !.at = IF command.kind = "put" THEN "write" ELSE "metadata"]
              /\ UNCHANGED history

\* Each chunk is submitted at once.
Writes == /\ command.at = "write" /\ command.left > 0 /\ Write(command.next)
          /\ command' = [command EXCEPT !.left = @ - 1]
          /\ UNCHANGED history

\* write_metadata() or tombstone(), of a put after its body.
Metadatas ==
    /\ command.at = "metadata" \/ (command.at = "write" /\ command.left = 0)
    /\ WriteMetadata(IF command.kind = "post" THEN command.prev ELSE command.next,
                     command.kind = "delete")
    /\ Goes(IF command.kind = "post" THEN "sync" ELSE "put")
    /\ UNCHANGED history

\* back.put() with the timestamp it was created with.
Puts == /\ command.at = "put" /\ Put(command.next, command.ts)
        /\ Goes("sync")
        /\ UNCHANGED history

\* "is not newer than": 1.
Conflicts == /\ command.at = "put" /\ command.ts <= objs[command.prev].ts
             /\ Goes("ends")
             /\ UNCHANGED <<vars, history>>

\* sync() returns, and the command with 0.
Syncs == /\ command.at = "sync"
         /\ ~Unsettled(IF command.kind = "post" THEN command.prev ELSE command.next)
         /\ Goes("done")
         /\ UNCHANGED <<vars, history>>

Gets == /\ command.at = "read"
        /\ \/ ReadStart(command.prev) /\ UNCHANGED command
           \/ ReadBytes(command.prev) /\ UNCHANGED command
           \/ Check(command.prev) /\ Goes("done")
        /\ UNCHANGED history

\* clean() prepares, and the Backend submits when it is let go of.
Sweeps == At({"clean"}, "clean") /\ Sweep /\ Goes("done") /\ UNCHANGED history

\* Destructors: the Objects.
LetsGo(o) == /\ command.at \in {"done", "ends"}
             /\ o = command.next \/ (o = command.prev /\ objs[o].state # "PRE_SEARCH")
             /\ ReadEnd(o) \/ Drop(o)
             /\ UNCHANGED cli

\* Then the Backend, which hands over what is left and waits for it.
Exits == /\ command.at \in {"done", "ends"}
         /\ \A o \in Objects : objs[o] = Free
         /\ queue = <<>> /\ current = <<>> /\ handed = <<>>
         /\ Crash
         /\ command' = None
         /\ IF command.kind = "clean" THEN killed' = FALSE /\ lost' = {}
                                      ELSE UNCHANGED history

\* Killed, at any point.
Dies == /\ command # None /\ Crash
        /\ command' = None /\ killed' = TRUE
        /\ lost' = IF command.next = NoObject \/ command.at = "done" THEN lost
                   ELSE lost \cup {command.ts}

CliNext ==
    \/ \E kind \in Kinds, n \in Names, ts \in Stamps \cup {0}, chunks \in 0 .. MaxChunks :
          Mount(kind, n, ts, chunks)
    \/ \E o \in Objects : Finds(o) \/ Creates(o) \/ LetsGo(o)
    \/ Opens \/ Writes \/ Metadatas \/ Puts \/ Conflicts \/ Syncs \/ Gets \/ Sweeps
    \/ Exits \/ Dies
    \/ (HandNext \/ ApplyOne \/ \E i \in 1 .. Len(handed) : Commit(i)) /\ UNCHANGED cli

CliSpec == CliInit /\ [][CliNext]_<<vars, cli>>

-----------------------------------------------------------------------------
(* The type of the state and, whatever commands have died and whatever     *)
(* they were doing, a later command is killed by BlueStore only if it is   *)
(* to retire a holder whose timestamp a command that died had as well,     *)
(* and no clean was run since (backend.cpp:188 renames it onto what that   *)
(* one left); one that exits with 0 has the Objects it needed.             *)
CliInv ==
    /\ aborted => command.prev # NoObject /\ objs[command.prev].ts \in lost
    /\ command.kind \in Kinds \cup {"none"}
    /\ command.prev \in Objects \cup {NoObject} /\ command.next \in Objects \cup {NoObject}
    /\ command.at = "done" /\ command.kind # "clean" => command.prev # NoObject
    /\ At({"put", "delete"}, "done") => objs[command.next].state \in {"ACTIVE", "NONE"}
    /\ lost \subseteq Stamps /\ killed \in BOOLEAN

(* A put that exits with 0 has stored its own body, all of it and nothing  *)
(* else, durably (test_cli.py's round trip: what get prints is what put    *)
(* was given), whatever timestamps commands before it had, lost, had       *)
(* retired, or had cleaned up: unless one that died before it was done,    *)
(* and after which no clean was run, had its very timestamp (cli.cpp:45).  *)
BodyIsOwn ==
    At({"put"}, "done") /\ command.ts \notin lost =>
        LET e == disk[Ordinary(command.name)] IN
        /\ e.ts = command.ts
        /\ e.data = [i \in 1 .. command.size |-> command.id]

(* What clean leaves, and what is left once commands end that did not die, *)
(* is the holders of names: nothing of a killed put, of a retired Object,  *)
(* or of a put that lost.                                                  *)
CleanIsClean ==
    command.kind # "none" /\ command.at \in {"done", "ends"}
    /\ (command.kind = "clean" \/ ~killed)
    /\ (\A o \in Objects : objs[o] = Free)
    /\ queue = <<>> /\ current = <<>> => \A at \in Used(store) : ~at.temp
=============================================================================
