-------------------------- MODULE LockfileCommands --------------------------
(***************************************************************************)
(* The `locus` commands that rewrite .locus/lock.json, as processes on one *)
(* workspace.  Every one of them scans (accept, init), loads the whole     *)
(* file, edits it in memory and saves the whole file with std::fs::write,  *)
(* which truncates first and writes afterwards.  Nothing locks the file,   *)
(* so two commands may overlap, and a crash may fall between any two of    *)
(* these steps.                                                            *)
(***************************************************************************)
EXTENDS OneTruthSection

CONSTANTS
    Proc,             \* concurrent invocations of the binary
    Prefix,           \* paradigm prefixes that can be acknowledged empty
    Exc,              \* lockfile exceptions a developer may write
    Expires,          \* Expires[e]: the day an exception ends
    MaxDay,           \* bound: the last day of the model
    Airs,             \* the scans the source tree can give
    MaxEdits,         \* bound: commands started plus hand edits
    Unreadable        \* abstract content of a file that does not parse

ASSUME ExpiryAssumption == MaxDay \in Nat /\ Expires \in [Exc -> Nat]
ASSUME AirAssumption    == Airs \subseteq Air
ASSUME BoundAssumption  == MaxEdits \in Nat

VARIABLES
    disk,       \* the file: its status, and the last content that parsed
    proc,       \* the commands under way
    edits,      \* how many commands and hand edits have begun (a bound)
    written     \* history: every lockfile that has been readable on disk

vars == <<disk, proc, edits, written>>

-----------------------------------------------------------------------------
(* Types *)

Lockfile == [ot : OtSection, acknowledged_empty : SUBSET Prefix,
             exceptions : SUBSET Exc]

EmptyLockfile == [ot |-> EmptySection, acknowledged_empty |-> {}, exceptions |-> {}]

\* "empty" is a truncated file, "garbled" one cut short or holding the tail of
\* another process's longer write.  Neither parses.
Status == {"absent", "ok", "empty", "garbled"}

AcceptOps == {"canonical", "canonical_force", "boundary", "converter"}
InitOps   == {"init", "init_no_overwrite"}
Op        == AcceptOps \cup InitOps \cup {"prune"}

Phase == {"idle", "started", "loaded", "saving"}

Process == [phase : Phase, op : Op, air : Air, today : Nat,
            after : Lockfile, stale : BOOLEAN]

NoScan      == [types |-> {}, canonical |-> {}, boundary |-> {}, converters |-> {}]
IdleProcess == [phase |-> "idle", op |-> "prune", air |-> NoScan, today |-> 0,
                after |-> EmptyLockfile, stale |-> FALSE]

Running(p) == proc[p].phase # "idle"

-----------------------------------------------------------------------------
(* What each command may make of the lockfile it loaded *)

CanonicalEdits(l, a, force) ==
    {[l EXCEPT !.ot = AcceptCanonical(@, x[1], x[2])] :
        x \in {y \in Symbol \X Concept : CanAcceptCanonical(l.ot, a, y[1], y[2], force)}}

BoundaryEdits(l, a) ==
    {[l EXCEPT !.ot = AcceptBoundary(@, x[1], x[2])] :
        x \in {y \in Symbol \X Concept : CanAcceptBoundary(l.ot, a, y[1], y[2])}}

ConverterEdits(l) ==
    {[l EXCEPT !.ot = AcceptConverter(@, x[1], x[2])] :
        x \in {y \in Converter \X Concept : CanAcceptConverter(l.ot, y[2])}}

\* populate_lockfile_sections, with or without --acknowledge-empty.
InitEdits(l, a) ==
    {[l EXCEPT !.ot = InitSection(@, a), !.acknowledged_empty = @ \cup ack] :
        ack \in SUBSET Prefix}

\* prune_expired retains what expires today or later.
PruneEdits(l, d) == {[l EXCEPT !.exceptions = {e \in @ : Expires[e] >= d}]}

EditsOf(op, l, a, d) ==
    CASE op = "canonical"       -> CanonicalEdits(l, a, FALSE)
      [] op = "canonical_force" -> CanonicalEdits(l, a, TRUE)
      [] op = "boundary"        -> BoundaryEdits(l, a)
      [] op = "converter"       -> ConverterEdits(l)
      [] op \in InitOps         -> InitEdits(l, a)
      [] op = "prune"           -> PruneEdits(l, d)

\* What a developer writes into the file by hand: an exception, or a
\* converter path (no command records either).
HandEdits(l) ==
    {[l EXCEPT !.exceptions = @ \cup {e}] : e \in Exc}
    \cup {[l EXCEPT !.ot.converter_paths = @ \cup {x}] : x \in Path}

-----------------------------------------------------------------------------
(* Loading and saving *)

\* A slip in load_or_empty: a file that does not parse is taken for no file.
MutUnparsableIsEmpty == TRUE

\* load_or_empty: no file is an empty lockfile, a parse error ends the command.
Loadable == disk.status \in {"absent", "ok"}

LoadedLock == IF disk.status = "ok" THEN disk.lock ELSE EmptyLockfile

\* A slip in the schema: the source of a canonical is skipped, and reads back
\* as a hint.
MutSaveForgetsSource(l) ==
    [l EXCEPT !.ot.canonical =
        [c \in Concept |-> [symbol |-> l.ot.canonical[c].symbol, source |-> "hint"]]]

\* Serialization keeps everything the section types declare.
Saved(l) == l

\* Any change of the file outdates what the other commands have loaded.
Outdate(p, procs) ==
    [q \in Proc |-> IF q # p /\ procs[q].phase \in {"loaded", "saving"}
                    THEN [procs[q] EXCEPT !.stale = TRUE] ELSE procs[q]]

-----------------------------------------------------------------------------
Init ==
    /\ disk = [status |-> "absent", lock |-> EmptyLockfile]
    /\ edits = 0
    /\ written = {EmptyLockfile}
    /\ proc = [p \in Proc |-> IdleProcess]

\* The operands a command does not use are fixed, to tell fewer states apart.
Needs(op, air, today) ==
    /\ op = "prune" => air = CHOOSE a \in Airs : TRUE
    /\ op # "prune" => today = 0

\* A command starts.  init --no-overwrite looks for the file first and gives
\* up if it is there.  Accept and init scan the source tree, which may have
\* changed in any way since the last command; prune asks for the date, which
\* LOCUS_TODAY may set to any day.
Start(p) ==
    /\ ~Running(p)
    /\ edits < MaxEdits
    /\ \E op \in Op, air \in Airs, today \in 0..MaxDay :
        /\ op = "init_no_overwrite" => disk.status = "absent"
        /\ Needs(op, air, today)
        /\ proc' = [proc EXCEPT ![p] =
                     [IdleProcess EXCEPT !.phase = "started", !.op = op,
                                         !.air = air, !.today = today]]
    /\ edits' = edits + 1
    /\ UNCHANGED <<disk, written>>

\* The file is read and edited in memory.
Load(p) ==
    /\ proc[p].phase = "started"
    /\ Loadable
    /\ \E after \in EditsOf(proc[p].op, LoadedLock, proc[p].air, proc[p].today) :
            proc' = [proc EXCEPT ![p] = [@ EXCEPT !.phase = "loaded", !.after = after]]
    /\ UNCHANGED <<disk, edits, written>>

\* The file does not parse, or accept refuses its arguments (a symbol that the
\* scan did not find always can be asked for): the command ends unsaved.
Refuse(p) ==
    /\ proc[p].phase = "started"
    /\ ~Loadable \/ proc[p].op \in AcceptOps
    /\ proc' = [proc EXCEPT ![p] = IdleProcess]
    /\ UNCHANGED <<disk, edits, written>>

\* fs::write opens the file with truncation ...
Truncate(p) ==
    /\ proc[p].phase = "loaded"
    /\ disk' = [disk EXCEPT !.status = "empty"]
    /\ proc' = Outdate(p, [proc EXCEPT ![p] = [@ EXCEPT !.phase = "saving"]])
    /\ UNCHANGED <<edits, written>>

\* ... and writes from offset zero.  Over another process's content, written
\* since the truncation, the tail of a longer file stays behind.
Write(p) ==
    /\ proc[p].phase = "saving"
    /\ LET l == Saved(proc[p].after) IN
        \/ /\ disk' = [status |-> "ok", lock |-> l]
           /\ written' = written \cup {l}
        \/ /\ disk.status \in {"ok", "garbled"}
           /\ l # disk.lock
           /\ disk' = [disk EXCEPT !.status = "garbled"]
           /\ UNCHANGED written
    /\ proc' = Outdate(p, [proc EXCEPT ![p] = IdleProcess])
    /\ UNCHANGED edits

\* A crash loses the command; during a save it may leave part of the bytes.
Crash(p) ==
    /\ Running(p)
    /\ \/ UNCHANGED disk /\ proc' = [proc EXCEPT ![p] = IdleProcess]
       \/ /\ proc[p].phase = "saving"
          /\ disk' = [disk EXCEPT !.status = "garbled"]
          /\ proc' = Outdate(p, [proc EXCEPT ![p] = IdleProcess])
    /\ UNCHANGED <<edits, written>>

\* The developer edits the readable file by hand ...
HandEdit ==
    /\ disk.status = "ok"
    /\ edits < MaxEdits
    /\ \E l \in HandEdits(disk.lock) :
        /\ l # disk.lock
        /\ disk' = [disk EXCEPT !.lock = l]
        /\ written' = written \cup {l}
    /\ proc' = [p \in Proc |-> IF proc[p].phase \in {"loaded", "saving"}
                               THEN [proc[p] EXCEPT !.stale = TRUE] ELSE proc[p]]
    /\ edits' = edits + 1

\* ... or restores an earlier version of a damaged one.
RestoreFile ==
    /\ ~Loadable
    /\ \E l \in written :
        disk' = [status |-> "ok", lock |-> l]
    /\ proc' = [p \in Proc |-> IF proc[p].phase \in {"loaded", "saving"}
                               THEN [proc[p] EXCEPT !.stale = TRUE] ELSE proc[p]]
    /\ UNCHANGED <<edits, written>>

Next ==
    \/ \E p \in Proc : \/ Start(p) \/ Load(p) \/ Refuse(p)
                       \/ Truncate(p) \/ Write(p) \/ Crash(p)
    \/ HandEdit \/ RestoreFile

Spec == Init /\ [][Next]_vars

-----------------------------------------------------------------------------
(* Properties *)

\* Every variable stays in its type.
TypeOK ==
    /\ disk \in [status : Status, lock : Lockfile]
    /\ proc \in [Proc -> Process]
    /\ edits \in Nat
    /\ written \subseteq Lockfile

\* Whatever commands overlapped, crashed or were forced, every lockfile that
\* could ever be read files each symbol under one concept at most, which is
\* what OtSection::role_of relies on to give a symbol one role.
OneConceptOnDisk == \A l \in written : OneConceptPerSymbol(l.ot)

\* Every lockfile that could ever be read hangs its boundaries and converters
\* off a concept with a canonical.
NoOrphansOnDisk == \A l \in written : NoOrphans(l.ot)

SavesNow(p) ==
    /\ proc[p].phase = "saving"
    /\ proc'[p].phase = "idle"
    /\ disk' = [status |-> "ok", lock |-> Saved(proc[p].after)]

\* A save by a command whose snapshot is still current loses nothing that its
\* own operation does not remove: accept drops no recorded decision (--force
\* drops the one canonical it replaces), prune drops expired exceptions only,
\* init drops no acknowledgement and no exception.  Decisions are lost to an
\* overlapping command or to an explicit edit, never to an unreadable file.
LossNeedsOverlap ==
    [][\A p \in Proc : SavesNow(p) /\ ~proc[p].stale =>
        LET old  == disk.lock
            new  == disk'.lock
            op   == proc[p].op
            lost == AcceptedEntries(old.ot) \ AcceptedEntries(new.ot)
        IN  /\ old.acknowledged_empty \subseteq new.acknowledged_empty
            /\ \A e \in old.exceptions \ new.exceptions :
                    op = "prune" /\ Expires[e] < proc[p].today
            /\ op \notin InitOps =>
                    /\ Cardinality(lost) <= (IF op = "canonical_force" THEN 1 ELSE 0)
                    /\ old.ot.converter_paths \subseteq new.ot.converter_paths
      ]_vars

\* One command or one hand edit leads from l to m.
Follows(l, m) ==
    \/ m \in HandEdits(l)
    \/ \E op \in Op, a \in Airs, d \in 0..MaxDay : m \in EditsOf(op, l, a, d)

History == INSTANCE LockfileHistory WITH
    Initial  <- EmptyLockfile,
    versions <- written,
    current  <- IF Loadable THEN disk.lock ELSE Unreadable

\* The lockfile on disk implements the reviewers' view of it: every readable
\* version is one edit away from an earlier readable version.
RefinesHistory == History!Spec

\* What the comment in init.rs says of a re-run: accepted decisions survive.
InitKeepsAccepted ==
    [][\A p \in Proc : SavesNow(p) /\ ~proc[p].stale /\ proc[p].op \in InitOps =>
        AcceptedEntries(disk.lock.ot) \subseteq AcceptedEntries(disk'.lock.ot)]_vars
=============================================================================
