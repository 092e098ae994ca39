--------------------------- MODULE OneTruthReview ---------------------------
(***************************************************************************)
(* A developer works through the OT findings of a workspace.  Each finding *)
(* carries a suggested fix, most of them with an alternative; the fixes    *)
(* change the code, the hints or, by a re-run of `locus init`, the section.*)
(* Besides them the developer runs some commands of their own accord.      *)
(***************************************************************************)
EXTENDS OneTruthRules

CONSTANTS
    Starts,         \* workspaces with their OT sections at first
    Denotes,        \* Denotes[f]: the types that the ends of a conversion are
    MaxCommands     \* bound on the commands that no finding asked for

ASSUME ReviewAssumption ==
    /\ Starts \subseteq [section : OtSection, code : Code]
    /\ Denotes \in [Converter -> Symbol \X Symbol]
    /\ MaxCommands \in Nat

VARIABLES
    section,    \* OT section of the lockfile
    code,       \* the workspace
    commands    \* commands run of the developer's own accord

vars == <<section, code, commands>>

TypeOK == section \in OtSection /\ code \in Code /\ commands \in 0..MaxCommands

Init ==
    /\ \E start \in Starts : section = start.section /\ code = start.code
    /\ commands = 0

-----------------------------------------------------------------------------
(* Commands *)

Command ==
    /\ commands < MaxCommands
    /\ commands' = commands + 1
    /\ UNCHANGED code

AcceptCanonicalCmd(s, c, force) ==
    /\ CanAcceptCanonical(section, code, s, c, force)
    /\ section' = AcceptCanonical(section, s, c)
    /\ Command

AcceptBoundaryCmd(s, c) ==
    /\ CanAcceptBoundary(section, code, s, c)
    /\ section' = AcceptBoundary(section, s, c)
    /\ Command

AcceptConverterCmd(f, c) ==
    /\ CanAcceptConverter(section, c)
    /\ section' = AcceptConverter(section, f, c)
    /\ Command

InitCmd ==
    /\ section' = InitSection(section, code)
    /\ Command

RunCommand ==
    \/ \E s \in Symbol, c \in Concept, force \in BOOLEAN : AcceptCanonicalCmd(s, c, force)
    \/ \E s \in Symbol, c \in Concept : AcceptBoundaryCmd(s, c)
    \/ \E f \in Converter, c \in Concept : AcceptConverterCmd(f, c)
    \/ InitCmd

-----------------------------------------------------------------------------
(* Edits of the code *)

Hint(s) == [code EXCEPT !.boundary = @ \cup {s}, !.canonical = @ \ {s}]

\* The type goes, under this symbol at least, and with it the conversions of it
\* and the mentions of a name that no other type has.
Retire(s) ==
    LET types == code.types \ {s}
        named == {NameOf[t] : t \in types}
    IN  [code EXCEPT
           !.types = types,
           !.canonical = @ \ {s},
           !.boundary = @ \ {s},
           !.methods = @ \ {s},
           !.converters = {f \in @ : s \notin {Denotes[f][1], Denotes[f][2]}},
           !.signature = [f \in Converter |-> code.signature[f] \cap named],
           !.constructs = {use \in @ : use[2] \in named},
           !.primitives = {field \in @ : field[1] # s}]

\* A function moves to another file, that of the canonical it works on.
MoveAway(f) ==
    [code EXCEPT !.signature[f] = {}, !.constructs = {use \in @ : use[1] # f}]

Edit(new) == code' = new /\ UNCHANGED <<section, commands>>

Record(new) == section' = new /\ UNCHANGED <<code, commands>>

\* "... then rerun `locus init`"
EditAndInit(new) ==
    /\ code' = new
    /\ section' = InitSection(section, new)
    /\ UNCHANGED commands

\* "... accept this function as a converter and rerun `locus init`"
AcceptAndInit(f, c) == Record(InitSection(AcceptConverter(section, f, c), code))

-----------------------------------------------------------------------------
(* Suggested fixes, each with the alternatives its text offers *)

\* OT001, OT002: annotate it as a boundary; or rename the type, or remove it and
\* use the canonical.
FixMember(x) ==
    /\ x.rule \in {"OT001", "OT002"}
    /\ Edit(Hint(x.subject)) \/ Edit(Retire(x.subject))

\* OT003: convert at the edge.
FixLeak(x) ==
    /\ x.rule = "OT003"
    /\ Edit([code EXCEPT !.signature[x.subject[1]] = @ \ {x.subject[2]}])

\* OT004: go through the accepted converter; or make this function one.
FixConstruction(x) ==
    /\ x.rule = "OT004"
    /\ \/ Edit([code EXCEPT !.constructs = @ \ {x.subject}])
       \/ AcceptAndInit(x.subject[1], x.concept)

\* OT005: add an impl and rerun init; or remove the boundary acceptance.
AddImpl(s, c) ==
    \E f \in Converter :
        /\ {Denotes[f][1], Denotes[f][2]} = {s, section.canonical[c].symbol}
        /\ EditAndInit([code EXCEPT !.converters = @ \cup {f}])

FixMissing(x) ==
    /\ x.rule = "OT005"
    /\ \/ AddImpl(x.subject, x.concept)
       \/ Record([section EXCEPT !.boundaries[x.concept][x.subject] = "none"])

\* OT006: rerun init; or add the converter by hand.
FixUnregistered(x) ==
    /\ x.rule = "OT006"
    /\ EditAndInit(code) \/ Record(AcceptConverter(section, x.subject, x.concept))

\* OT007: go through the canonical; or annotate the shortcut.
FixAdapter(x) ==
    /\ x.rule = "OT007"
    /\ \/ Edit([code EXCEPT !.converters = @ \ {x.subject}])
       \/ Edit([code EXCEPT !.protocol = @ \cup {x.subject}])

\* OT008: move the method onto the canonical.
FixMethods(x) ==
    /\ x.rule = "OT008"
    /\ Edit([code EXCEPT !.methods = @ \ {x.subject}])

\* OT009: move it into the owner; or accept it as a converter.
FixValidation(x) ==
    /\ x.rule = "OT009"
    /\ Edit(MoveAway(x.subject)) \/ AcceptAndInit(x.subject, x.concept)

\* OT010, OT011: use the canonical; or annotate as a boundary and rerun init.
FixShadow(x) ==
    /\ x.rule \in {"OT010", "OT011"}
    /\ Edit(Retire(x.subject)) \/ EditAndInit(Hint(x.subject))

\* OT012: use the canonical in the field; or make the struct a boundary.
FixField(x) ==
    /\ x.rule = "OT012"
    /\ \/ Edit([code EXCEPT !.primitives = @ \ {x.subject}])
       \/ EditAndInit(Hint(x.subject[1]))

Fix(x) ==
    \/ FixMember(x) \/ FixLeak(x) \/ FixConstruction(x) \/ FixMissing(x)
    \/ FixUnregistered(x) \/ FixAdapter(x) \/ FixMethods(x) \/ FixValidation(x)
    \/ FixShadow(x) \/ FixField(x)

\* Of the alternatives the developer takes one that settles the finding, as the
\* next check tells: some do not, see the README.
Follow ==
    \E x \in Findings(section, code) : Fix(x) /\ x \notin Findings(section', code')

Next == RunCommand \/ Follow

Spec == Init /\ [][Next]_vars /\ WF_vars(Follow)

-----------------------------------------------------------------------------
(* Properties *)

\* What init registers and what OT006 looks for are found by separate code; a
\* section that init has just built leaves OT006 nothing to report.
RebuiltIsRegistered ==
    section = BuildOtSection(code) => UnregisteredConversions(section, code) = {}

\* The findings without the concept they name.
Topics(sec, cd) == {<<x.rule, x.subject>> : x \in Findings(sec, cd)}

\* To accept a converter, under whichever concept, settles what OT003, OT004 and
\* OT009 say of the function and adds nothing elsewhere.
ConverterAnswered(f) ==
    LET before == Topics(section, code)
        after  == Topics(section', code')
        uses   == {<<f, n>> : n \in Name}
    IN  /\ after \subseteq before
        /\ after \cap (({"OT003", "OT004"} \X uses) \cup {<<"OT009", f>>}) = {}

AcceptingConverterAnswers ==
    [][\A f \in Converter, c \in Concept : AcceptConverterCmd(f, c) => ConverterAnswered(f)]_vars

\* To accept a boundary settles what was said against the type; apart from that
\* only uses in the file that defines it are forgiven.
BoundaryAnswered(s) ==
    LET before  == Topics(section, code)
        after   == Topics(section', code')
        against == ({"OT001", "OT002", "OT010", "OT011"} \X {s})
                   \cup ({"OT012"} \X ({s} \X Name))
        inFile  == {"OT003"} \X ({f \in Converter : FunctionFile[f] = FileOf[s]} \X Name)
    IN  /\ after \cap against = {}
        /\ before \ after \subseteq against \cup inFile

AcceptingBoundaryAnswers ==
    [][\A s \in Symbol \ code.canonical, c \in Concept :
          AcceptBoundaryCmd(s, c) => BoundaryAnswered(s)]_vars

\* Whoever keeps following the suggestions, whichever of them, ends with none.
FixesConverge == <>[](Findings(section, code) = {})
=============================================================================
