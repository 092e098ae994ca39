------------------------- MODULE MCExceptionLifecycle -------------------------
(***************************************************************************)
(* Two rules of one family on neighbouring lines of one file, which the    *)
(* lockfile names by a shorter path.  Three hints (one without an expiry,  *)
(* one on the last line), and exceptions for a line, for a file and for    *)
(* everything.                                                             *)
(***************************************************************************)
EXTENDS ExceptionLifecycle

MCFamilyOf == [r \in Rule |-> "OT"]
MCSuffix   == {<<"src/lib.rs", "lib.rs">>}

D(rule, first, last) == [rule |-> rule, file |-> "src/lib.rs", first |-> first, last |-> last]
MCDiag == {D("OT002", 1, 2), D("OT004", 2, 2)}

HintAt(rank, allow, scope, line, expires) ==
    [source |-> "source hint", rank |-> rank, allow |-> allow, scope |-> scope,
     file |-> "src/lib.rs", line |-> line, expires |-> expires]
ExceptionFor(rank, allow, scope, file, line, expires) ==
    [source |-> "lockfile exception", rank |-> rank, allow |-> allow, scope |-> scope,
     file |-> file, line |-> line, expires |-> expires]

MCSuppressor ==
    {HintAt(1, "OT002", "line", 2, 1),
     HintAt(2, "OT004", "line", 2, Never),
     HintAt(3, "OT", "unbound", 0, 0),
     ExceptionFor(4, "OT004", "line", "lib.rs", 2, 0),
     ExceptionFor(5, "OT", "file", "lib.rs", 0, 1),
     ExceptionFor(6, Wildcard, "file", Wildcard, 0, 2)}

\* The first days of 1970; the ends of all months of a leap year, and of February in
\* 2023, 2000 (a century that leaps), 2100 (one that does not) and 2400.
MCOrigins ==
    {0, 19415, 11015, 47540, 157112}
        \cup {19722 + d : d \in {0, 30, 59, 90, 120, 151, 181, 212, 243, 273, 304, 334, 365}}
=============================================================================
