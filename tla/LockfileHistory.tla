--------------------------- MODULE LockfileHistory ---------------------------
(***************************************************************************)
(* What .locus/lock.json promises whoever reviews it: the file is always   *)
(* either unreadable, or a version that one legal edit produced from a     *)
(* version that was itself in the file before.  No version is a blend of   *)
(* two, and none starts over from nothing.  Which earlier version an edit  *)
(* started from is left open: overlapping commands may start from an old   *)
(* one.                                                                    *)
(***************************************************************************)
CONSTANTS
    Initial,          \* the content the file starts with
    Follows(_, _),    \* Follows(v, w): one edit of version v may produce w
    Unreadable        \* the content of a file that does not parse

VARIABLES
    versions,         \* every version the file has held
    current           \* what a reader finds now

vars == <<versions, current>>

Init == versions = {Initial} /\ current = Initial

\* An edit lands, whichever earlier version it was computed from.
Record ==
    /\ versions' = versions \cup {current'}
    /\ \E v \in versions : Follows(v, current')

\* A save is under way, was cut short, or collided with another.
Damage == current' = Unreadable /\ UNCHANGED versions

\* The developer checks an earlier version out again.
Restore == \E v \in versions : current' = v /\ UNCHANGED versions

Next == Damage \/ Restore \/ Record

Spec == Init /\ [][Next]_vars
=============================================================================
