----------------------------- MODULE MCCheckRun -----------------------------
(***************************************************************************)
(* CX001 has migrated and CX003 has not, so that both the registered rule  *)
(* and the legacy paradigm may report; XX001 is a rule that reports        *)
(* without being registered.  Two files, of which --changed may name one.  *)
(***************************************************************************)
EXTENDS CheckRun

MCParadigmOf == [r \in Registered |-> "CX"]
MCFamilyOf   == [r \in Rule |-> IF r \in {"CX001", "CX003"} THEN "CX" ELSE "LO"]

Line(f) == [file |-> f, first |-> 1, last |-> 1]
V(rule, f, severity) ==
    [rule |-> rule, paradigm |-> "CX", span |-> Line(f), severity |-> severity, text |-> <<>>]

CX001a == V("CX001", "a.rs", "fatal")
CX001b == V("CX001", "b.rs", "warning")
XX001a == V("XX001", "a.rs", "warning")
XX001b == V("XX001", "b.rs", "warning")
CX003a == V("CX003", "a.rs", "fatal")
CX003b == V("CX003", "b.rs", "warning")
Nudge  == [V("LOCUS002", ".locus/lock.json", "advisory") EXCEPT !.text = <<"BO">>]

MCScans == [observed : {<<>>, <<CX001a>>, <<CX001a, CX001b>>, <<CX001b, CX001b, CX001a>>,
                        <<XX001a>>, <<XX001a, XX001b>>},
            legacy   : {<<>>, <<Nudge, CX001a>>, <<CX003b, CX003a>>}]

Concept(id, enforcement) == [id |-> id, enforcement |-> enforcement]
Declares(policies, concepts) ==
    [status |-> "present", policies |-> policies, concepts |-> concepts]
MCArchs ==
    {[status |-> "missing"], [status |-> "invalid"],
     Declares(PolicyIds, <<Concept("rule", "enforced"), Concept("rule", "advisory")>>),
     Declares({"exception-policy"}, <<Concept("modules", "enforced")>>)}

Allow(rank, rule, expires) ==
    [source |-> "lockfile exception", rank |-> rank, allow |-> rule, scope |-> "file",
     file |-> Wildcard, line |-> 0, expires |-> expires]
MCSuppressor == {Allow(1, "CX001", 0), Allow(2, Wildcard, 2), Allow(3, "CX003", 2)}
MCLockfiles  == {{}, {Allow(1, "CX001", 0)}, {Allow(1, "CX001", 0), Allow(2, Wildcard, 2)},
                 {Allow(3, "CX003", 2)}}

MCDiag == {[rule |-> v.rule, file |-> v.span.file, first |-> 1, last |-> 1] :
                v \in {CX001a, CX001b, XX001a, XX001b, CX003a, CX003b, Nudge}}

Guard(severity) ==
    [rule |-> "PG001", file |-> ".locus/lock.json", first |-> 1, last |-> 1,
     severity |-> severity, text |-> <<>>]
MCAudits == {<<>>, <<Guard("fatal")>>, <<Guard("advisory")>>}
=============================================================================
