----------------------- MODULE LockfileCommandsProofs -----------------------
(***************************************************************************)
(* For any number of overlapping and crashing commands: type correctness,  *)
(* the well-formedness of every lockfile that was ever readable, what a    *)
(* save may lose, and that the file implements LockfileHistory.            *)
(*                                                                         *)
(* None of this is inductive alone: what lands on disk was computed        *)
(* earlier, in a process, from a snapshot of a version that may have been  *)
(* overwritten since.  IInv adds that the content last read from disk is   *)
(* one of the versions, and that every edit waiting in a process is        *)
(* well-formed too.  Pending adds where a waiting edit comes from: from    *)
(* some version always, from the one on disk while the copy is not stale.  *)
(***************************************************************************)
EXTENDS LockfileCommands, FiniteSetTheorems, WellFoundedInduction, TLAPS

-----------------------------------------------------------------------------
(* What every edit of the OT section preserves, for any concepts, symbols, *)
(* converters and scans: it stays in its type and stays well-formed.       *)

\* A set of numbers has a least element: the CHOOSE of a first hit is not empty-handed.
LEMMA LeastNatural ==
    ASSUME NEW R, R \subseteq Nat, R # {}
    PROVE  \E n \in R : \A m \in R : n <= m
<1> DEFINE less == {p \in Nat \X Nat : p[1] < p[2]}
<1>1. IsWellFoundedOn(less, Nat)
  BY NatLessThanWellFounded DEF OpToRel
<1>2. \A m, n \in R : ~(n <= m) => <<m, n>> \in less
  OBVIOUS
<1> HIDE DEF less
<1> QED BY <1>1, <1>2, WFMin

WellFormed(sec) == OneConceptPerSymbol(sec) /\ NoOrphans(sec)

\* role_of returns one of the concepts the symbol has a role in, when the
\* symbol has a role in one concept at most.
LEMMA RoleOfIsARole ==
    ASSUME NEW sec \in OtSection, OneConceptPerSymbol(sec),
           NEW s \in Symbol, NEW d \in Concept, HasRole(sec, s, d)
    PROVE  RoleOf(sec, s) = d
<1>1. \A e \in RolesOf(sec, s) : e = d
  BY DEF RolesOf, OneConceptPerSymbol
<1>2. d \in RolesOf(sec, s)
  BY DEF RolesOf
<1>3. ConceptRank[d] <= ConceptRank[d]
  BY ConceptAssumption
<1>4. \A e \in RolesOf(sec, s) : ConceptRank[d] <= ConceptRank[e]
  BY <1>1, <1>3
<1> QED
  BY <1>1, <1>2, <1>4 DEF RoleOf

\* The guard of accept holds only for a symbol that no other concept holds.
LEMMA GuardExcludesOtherConcepts ==
    ASSUME NEW sec \in OtSection, OneConceptPerSymbol(sec),
           NEW s \in Symbol, NEW c \in Concept, ~RoleElsewhere(sec, s, c),
           NEW d \in Concept, HasRole(sec, s, d)
    PROVE  d = c
<1>1. RoleOf(sec, s) = d
  BY RoleOfIsARole
<1>2. RolesOf(sec, s) # {}
  BY DEF RolesOf
<1> QED
  BY <1>1, <1>2 DEF RoleElsewhere

\* The section of a lockfile that nobody has written to is well-formed.
LEMMA EmptySectionWellFormed ==
    EmptySection \in OtSection /\ WellFormed(EmptySection)
<1>1. EmptySection \in OtSection
  BY DEF EmptySection, OtSection, AcceptedCanonical, Source
<1>2. WellFormed(EmptySection)
  BY SymbolAssumption
     DEF WellFormed, OneConceptPerSymbol, NoOrphans, EmptySection, HasEntry,
         HasRole, IsCanonical, IsBoundary
<1> QED BY <1>1, <1>2

\* accept canonical keeps the section well-formed, with --force and without.
LEMMA AcceptCanonicalWellFormed ==
    ASSUME NEW sec \in OtSection, WellFormed(sec), NEW air,
           NEW s \in Symbol, NEW c \in Concept, NEW force \in BOOLEAN,
           CanAcceptCanonical(sec, air, s, c, force)
    PROVE  /\ AcceptCanonical(sec, s, c) \in OtSection
           /\ WellFormed(AcceptCanonical(sec, s, c))
<1> DEFINE new == AcceptCanonical(sec, s, c)
<1>1. new \in OtSection
  BY DEF AcceptCanonical, OtSection, AcceptedCanonical, Source
<1>2. /\ new.canonical[c].symbol = s
      /\ \A d \in Concept : d # c => new.canonical[d] = sec.canonical[d]
      /\ new.boundaries = sec.boundaries
      /\ new.converters = sec.converters
  BY DEF AcceptCanonical, OtSection
<1>3. OneConceptPerSymbol(sec) /\ NoOrphans(sec)
  BY DEF WellFormed
<1>4. ASSUME NEW t \in Symbol, NEW d \in Concept, HasRole(new, t, d)
      PROVE  HasRole(sec, t, d) \/ (t = s /\ d = c)
  BY <1>2, <1>4 DEF HasRole, IsCanonical, IsBoundary
<1>5. OneConceptPerSymbol(new)
  <2> SUFFICES ASSUME NEW t \in Symbol, NEW d \in Concept, NEW e \in Concept,
                      HasRole(new, t, d), HasRole(new, t, e)
               PROVE  d = e
    BY DEF OneConceptPerSymbol
  <2>1. ASSUME NEW f \in Concept, HasRole(sec, s, f) PROVE f = c
    BY <1>3, <2>1, GuardExcludesOtherConcepts DEF CanAcceptCanonical
  <2> QED
    BY <1>3, <1>4, <2>1 DEF OneConceptPerSymbol
<1>6. NoOrphans(new)
  BY <1>2, <1>3, SymbolAssumption DEF NoOrphans, HasEntry, IsBoundary
<1> QED BY <1>1, <1>5, <1>6 DEF WellFormed

\* accept boundary keeps the section well-formed.
LEMMA AcceptBoundaryWellFormed ==
    ASSUME NEW sec \in OtSection, WellFormed(sec), NEW air,
           NEW s \in Symbol, NEW c \in Concept,
           CanAcceptBoundary(sec, air, s, c)
    PROVE  /\ AcceptBoundary(sec, s, c) \in OtSection
           /\ WellFormed(AcceptBoundary(sec, s, c))
<1> DEFINE new == AcceptBoundary(sec, s, c)
<1>1. new \in OtSection
  BY DEF AcceptBoundary, OtSection, Source
<1>2. /\ new.canonical = sec.canonical
      /\ new.converters = sec.converters
      /\ \A d \in Concept, t \in Symbol :
            d # c \/ t # s => new.boundaries[d][t] = sec.boundaries[d][t]
  BY DEF AcceptBoundary, OtSection
<1>3. OneConceptPerSymbol(sec) /\ NoOrphans(sec)
  BY DEF WellFormed
<1>4. ASSUME NEW t \in Symbol, NEW d \in Concept, HasRole(new, t, d)
      PROVE  HasRole(sec, t, d) \/ (t = s /\ d = c)
  BY <1>2, <1>4 DEF HasRole, IsCanonical, IsBoundary
<1>5. OneConceptPerSymbol(new)
  <2> SUFFICES ASSUME NEW t \in Symbol, NEW d \in Concept, NEW e \in Concept,
                      HasRole(new, t, d), HasRole(new, t, e)
               PROVE  d = e
    BY DEF OneConceptPerSymbol
  <2>1. ASSUME NEW f \in Concept, HasRole(sec, s, f) PROVE f = c
    BY <1>3, <2>1, GuardExcludesOtherConcepts DEF CanAcceptBoundary
  <2> QED
    BY <1>3, <1>4, <2>1 DEF OneConceptPerSymbol
<1>6. NoOrphans(new)
  BY <1>2, <1>3 DEF NoOrphans, HasEntry, IsBoundary, CanAcceptBoundary
<1> QED BY <1>1, <1>5, <1>6 DEF WellFormed

\* accept converter keeps the section well-formed.
LEMMA AcceptConverterWellFormed ==
    ASSUME NEW sec \in OtSection, WellFormed(sec),
           NEW f \in Converter, NEW c \in Concept,
           CanAcceptConverter(sec, c)
    PROVE  /\ AcceptConverter(sec, f, c) \in OtSection
           /\ WellFormed(AcceptConverter(sec, f, c))
<1> DEFINE new == AcceptConverter(sec, f, c)
<1>1. new \in OtSection
  BY DEF AcceptConverter, OtSection, Source
<1>2. /\ new.canonical = sec.canonical
      /\ new.boundaries = sec.boundaries
      /\ \A d \in Concept : d # c => new.converters[d] = sec.converters[d]
  BY DEF AcceptConverter, OtSection
<1>3. OneConceptPerSymbol(sec) /\ NoOrphans(sec)
  BY DEF WellFormed
<1>4. OneConceptPerSymbol(new)
  BY <1>2, <1>3 DEF OneConceptPerSymbol, HasRole, IsCanonical, IsBoundary
<1>5. NoOrphans(new)
  BY <1>2, <1>3 DEF NoOrphans, HasEntry, IsBoundary, CanAcceptConverter
<1> QED BY <1>1, <1>4, <1>5 DEF WellFormed

\* The first type that the scan meets is one of those it looks for.
LEMMA FirstScannedIsMember ==
    ASSUME NEW types, types \subseteq Symbol, types # {}
    PROVE  FirstScanned(types) \in types
<1> DEFINE R == {SymbolRank[t] : t \in types}
<1>1. R \subseteq Nat /\ R # {}
  BY StemAssumption
<1> HIDE DEF R
<1>2. PICK n \in R : \A m \in R : n <= m
  BY <1>1, LeastNatural
<1>3. \E s \in types : \A t \in types : SymbolRank[s] <= SymbolRank[t]
  BY <1>2 DEF R
<1> QED BY <1>3 DEF FirstScanned

\* The canonical that init picks for a concept, if any, is a type hinted
\* canonical whose name stem is that concept; a cluster has one.
LEMMA InitCanonicalIsHinted ==
    ASSUME NEW air, air.types \subseteq Symbol, NEW c \in Concept
    PROVE  /\ InitCanonical(air, c) # NoSymbol
                => InitCanonical(air, c) \in HintedCanonicals(air, c)
           /\ Clustered(air, c) => InitCanonical(air, c) # NoSymbol
<1>1. /\ HintedMembers(air, c) \subseteq HintedCanonicals(air, c)
      /\ HintedCanonicals(air, c) \subseteq Symbol
  BY DEF HintedMembers, HintedCanonicals, ConceptMembers, TypesOf
<1>2. Candidates(air, c) \subseteq HintedCanonicals(air, c)
  BY <1>1 DEF Candidates
<1>3. CASE Candidates(air, c) = {}
  <2>1. ~Clustered(air, c)
    BY <1>3 DEF Candidates, Clustered
  <2> QED BY <1>3, <2>1 DEF InitCanonical
<1>4. CASE Candidates(air, c) # {}
  <2>1. FirstScanned(Candidates(air, c)) \in Candidates(air, c)
    BY <1>1, <1>2, <1>4, FirstScannedIsMember
  <2> QED BY <1>1, <1>2, <1>4, <2>1, SymbolAssumption DEF InitCanonical
<1> QED BY <1>3, <1>4

\* What init derives from hints is well-formed: a type is filed under its own
\* stem only, and a concept without a canonical gets nothing else.
LEMMA BuildOtSectionWellFormed ==
    ASSUME NEW air, air.types \subseteq Symbol
    PROVE  /\ BuildOtSection(air) \in OtSection
           /\ WellFormed(BuildOtSection(air))
<1> DEFINE new == BuildOtSection(air)
<1>1. \A c \in Concept : InitCanonical(air, c) # NoSymbol =>
        InitCanonical(air, c) \in Symbol /\ Stem[InitCanonical(air, c)] = c
  BY InitCanonicalIsHinted DEF HintedCanonicals, TypesOf
<1>2. \A c \in Concept : InitCanonical(air, c) \in Symbol \cup {NoSymbol}
  BY <1>1
<1>3. /\ \A c \in Concept : new.canonical[c].symbol = InitCanonical(air, c)
      /\ \A c \in Concept, s \in Symbol :
            IsBoundary(new, s, c) <=> s \in InitBoundaries(air, c)
      /\ \A c \in Concept, f \in Converter :
            new.converters[c][f] # "none" <=> f \in InitConverters(air, c)
  BY DEF BuildOtSection, IsBoundary
<1>4. new \in OtSection
  BY <1>2 DEF BuildOtSection, OtSection, AcceptedCanonical, Source
<1>5. ASSUME NEW s \in Symbol, NEW c \in Concept, HasRole(new, s, c)
      PROVE  Stem[s] = c
  <2>1. CASE IsCanonical(new, s, c)
    <3>1. s = InitCanonical(air, c)
      BY <1>3, <2>1 DEF IsCanonical
    <3> QED BY <1>1, <3>1, SymbolAssumption
  <2>2. CASE IsBoundary(new, s, c)
    BY <1>3, <2>2 DEF InitBoundaries, ConceptMembers, TypesOf
  <2> QED BY <1>5, <2>1, <2>2 DEF HasRole
<1>6. OneConceptPerSymbol(new)
  BY <1>5 DEF OneConceptPerSymbol
<1>7. NoOrphans(new)
  <2>1. \A c \in Concept : Clustered(air, c) => InitCanonical(air, c) # NoSymbol
    BY InitCanonicalIsHinted
  <2> QED BY <1>3, <2>1 DEF NoOrphans, HasEntry, InitBoundaries, InitConverters
<1> QED BY <1>4, <1>6, <1>7 DEF WellFormed

\* locus init keeps the section well-formed, whether it replaces it or not.
LEMMA InitSectionWellFormed ==
    ASSUME NEW sec \in OtSection, WellFormed(sec), NEW air, air.types \subseteq Symbol
    PROVE  /\ InitSection(sec, air) \in OtSection
           /\ WellFormed(InitSection(sec, air))
BY BuildOtSectionWellFormed DEF InitSection

\* A converter path added by hand touches no entry.
LEMMA ConverterPathWellFormed ==
    ASSUME NEW sec \in OtSection, WellFormed(sec), NEW x \in Path
    PROVE  LET new == [sec EXCEPT !.converter_paths = @ \cup {x}]
           IN  new \in OtSection /\ WellFormed(new)
<1> DEFINE new == [sec EXCEPT !.converter_paths = @ \cup {x}]
<1>1. new \in OtSection
  BY DEF OtSection
<1>2. /\ new.canonical = sec.canonical
      /\ new.boundaries = sec.boundaries
      /\ new.converters = sec.converters
  BY DEF OtSection
<1>3. WellFormed(new)
  BY <1>2 DEF WellFormed, OneConceptPerSymbol, NoOrphans, HasEntry, HasRole,
              IsCanonical, IsBoundary
<1> QED BY <1>1, <1>3

-----------------------------------------------------------------------------
(* The lockfile and the processes *)

IInv ==
    /\ TypeOK
    /\ disk.lock \in written
    /\ \A l \in written : WellFormed(l.ot)
    /\ \A p \in Proc : WellFormed(proc[p].after.ot)

\* The lockfile that load_or_empty returns for a missing file is well-formed.
LEMMA EmptyLockfileOK ==
    EmptyLockfile \in Lockfile /\ WellFormed(EmptyLockfile.ot)
BY EmptySectionWellFormed DEF EmptyLockfile, Lockfile

\* A process that is not running holds nothing that it could save.
LEMMA IdleProcessOK ==
    IdleProcess \in Process /\ WellFormed(IdleProcess.after.ot)
<1>1. NoScan \in Air
  BY DEF NoScan, Air
<1> QED
  BY <1>1, EmptyLockfileOK DEF IdleProcess, Process, Phase, Op, AcceptOps, InitOps

\* Every command turns a well-formed lockfile into a well-formed lockfile.
LEMMA EditsWellFormed ==
    ASSUME NEW l \in Lockfile, WellFormed(l.ot), NEW a \in Air, NEW d \in Nat,
           NEW op \in Op, NEW m \in EditsOf(op, l, a, d)
    PROVE  m \in Lockfile /\ WellFormed(m.ot)
<1>1. l.ot \in OtSection
  BY DEF Lockfile
<1>2. ASSUME NEW force \in BOOLEAN, m \in CanonicalEdits(l, a, force)
      PROVE  m \in Lockfile /\ WellFormed(m.ot)
  <2>1. PICK s \in Symbol, c \in Concept :
           /\ CanAcceptCanonical(l.ot, a, s, c, force)
           /\ m = [l EXCEPT !.ot = AcceptCanonical(l.ot, s, c)]
    BY <1>2 DEF CanonicalEdits
  <2>2. /\ AcceptCanonical(l.ot, s, c) \in OtSection
        /\ WellFormed(AcceptCanonical(l.ot, s, c))
    BY <1>1, <2>1, AcceptCanonicalWellFormed
  <2> QED BY <2>1, <2>2 DEF Lockfile
<1>3. ASSUME m \in BoundaryEdits(l, a)
      PROVE  m \in Lockfile /\ WellFormed(m.ot)
  <2>1. PICK s \in Symbol, c \in Concept :
           /\ CanAcceptBoundary(l.ot, a, s, c)
           /\ m = [l EXCEPT !.ot = AcceptBoundary(l.ot, s, c)]
    BY <1>3 DEF BoundaryEdits
  <2>2. /\ AcceptBoundary(l.ot, s, c) \in OtSection
        /\ WellFormed(AcceptBoundary(l.ot, s, c))
    BY <1>1, <2>1, AcceptBoundaryWellFormed
  <2> QED BY <2>1, <2>2 DEF Lockfile
<1>4. ASSUME m \in ConverterEdits(l)
      PROVE  m \in Lockfile /\ WellFormed(m.ot)
  <2>1. PICK f \in Converter, c \in Concept :
           /\ CanAcceptConverter(l.ot, c)
           /\ m = [l EXCEPT !.ot = AcceptConverter(l.ot, f, c)]
    BY <1>4 DEF ConverterEdits
  <2>2. /\ AcceptConverter(l.ot, f, c) \in OtSection
        /\ WellFormed(AcceptConverter(l.ot, f, c))
    BY <1>1, <2>1, AcceptConverterWellFormed
  <2> QED BY <2>1, <2>2 DEF Lockfile
<1>5. ASSUME m \in InitEdits(l, a)
      PROVE  m \in Lockfile /\ WellFormed(m.ot)
  <2>1. PICK ack \in SUBSET Prefix :
           m = [l EXCEPT !.ot = InitSection(l.ot, a),
                         !.acknowledged_empty = l.acknowledged_empty \cup ack]
    BY <1>5 DEF InitEdits
  <2>2. InitSection(l.ot, a) \in OtSection /\ WellFormed(InitSection(l.ot, a))
    BY <1>1, InitSectionWellFormed DEF Air
  <2> QED BY <2>1, <2>2 DEF Lockfile
<1>6. ASSUME m \in PruneEdits(l, d)
      PROVE  m \in Lockfile /\ WellFormed(m.ot)
  BY <1>6 DEF PruneEdits, Lockfile
<1> QED
  BY <1>2, <1>3, <1>4, <1>5, <1>6 DEF EditsOf, Op, AcceptOps, InitOps

\* So does a hand edit.
LEMMA HandEditsWellFormed ==
    ASSUME NEW l \in Lockfile, WellFormed(l.ot), NEW m \in HandEdits(l)
    PROVE  m \in Lockfile /\ WellFormed(m.ot)
<1>1. ASSUME NEW e \in Exc, m = [l EXCEPT !.exceptions = l.exceptions \cup {e}]
      PROVE  m \in Lockfile /\ WellFormed(m.ot)
  BY <1>1 DEF Lockfile
<1>2. ASSUME NEW x \in Path,
             m = [l EXCEPT !.ot = [l.ot EXCEPT !.converter_paths = @ \cup {x}]]
      PROVE  m \in Lockfile /\ WellFormed(m.ot)
  <2> DEFINE new == [l.ot EXCEPT !.converter_paths = @ \cup {x}]
  <2>1. new \in OtSection /\ WellFormed(new)
    BY ConverterPathWellFormed DEF Lockfile
  <2>2. m = [l EXCEPT !.ot = new]
    BY <1>2
  <2> HIDE DEF new
  <2> QED BY <2>1, <2>2 DEF Lockfile
<1> QED
  BY <1>1, <1>2 DEF HandEdits

\* Marking a copy stale leaves the lockfile it holds as it is.
LEMMA StaleOK ==
    ASSUME NEW q \in Process, WellFormed(q.after.ot)
    PROVE  /\ [q EXCEPT !.stale = TRUE] \in Process
           /\ WellFormed([q EXCEPT !.stale = TRUE].after.ot)
BY DEF Process

\* Before any command has run the strengthening holds.
LEMMA InitIInv == Init => IInv
<1> SUFFICES ASSUME Init PROVE IInv
  OBVIOUS
<1>1. TypeOK
  BY EmptyLockfileOK, IdleProcessOK DEF Init, TypeOK, Status
<1> QED
  BY <1>1, EmptyLockfileOK, IdleProcessOK DEF Init, IInv

\* Outdating the other processes changes nothing but their stale flags.
LEMMA OutdateOK ==
    ASSUME NEW p \in Proc, NEW procs \in [Proc -> Process],
           \A q \in Proc : WellFormed(procs[q].after.ot)
    PROVE  /\ Outdate(p, procs) \in [Proc -> Process]
           /\ \A q \in Proc : WellFormed(Outdate(p, procs)[q].after.ot)
<1>1. ASSUME NEW q \in Proc
      PROVE  /\ [procs[q] EXCEPT !.stale = TRUE] \in Process
             /\ [procs[q] EXCEPT !.stale = TRUE].after = procs[q].after
  BY DEF Process
<1> QED
  BY <1>1 DEF Outdate

\* A process that ends, however it ends, leaves nothing to be saved.
LEMMA EndOK ==
    ASSUME IInv, NEW p \in Proc
    PROVE  /\ [proc EXCEPT ![p] = IdleProcess] \in [Proc -> Process]
           /\ \A q \in Proc : WellFormed([proc EXCEPT ![p] = IdleProcess][q].after.ot)
BY IdleProcessOK DEF IInv, TypeOK

\* Every step of a command, a crash or a hand edit keeps the strengthening.
LEMMA StepIInv == IInv /\ [Next]_vars => IInv'
<1> SUFFICES ASSUME IInv, [Next]_vars PROVE IInv'
  OBVIOUS
<1>1. ASSUME NEW p \in Proc, Start(p) PROVE IInv'
  <2>1. PICK op \in Op, a \in Airs, d \in 0..MaxDay :
          proc' = [proc EXCEPT ![p] = [IdleProcess EXCEPT !.phase = "started",
                                          !.op = op, !.air = a, !.today = d]]
    BY <1>1 DEF Start
  <2> DEFINE new == [IdleProcess EXCEPT !.phase = "started", !.op = op,
                                        !.air = a, !.today = d]
  <2>2. new \in Process /\ new.after = IdleProcess.after
    <3>1. a \in Air /\ d \in Nat
      BY AirAssumption, ExpiryAssumption
    <3> QED BY <3>1, IdleProcessOK DEF Process, Phase, IdleProcess
  <2>3. proc' \in [Proc -> Process] /\ \A q \in Proc : WellFormed(proc'[q].after.ot)
    <3> HIDE DEF new
    <3> QED BY <2>1, <2>2, IdleProcessOK DEF IInv, TypeOK, new
  <2>4. edits' \in Nat /\ UNCHANGED <<disk, written>>
    BY <1>1 DEF Start, IInv, TypeOK
  <2> QED BY <2>3, <2>4 DEF IInv, TypeOK
<1>2. ASSUME NEW p \in Proc, Load(p) PROVE IInv'
  <2> DEFINE l == LoadedLock
  <2>1. l \in Lockfile /\ WellFormed(l.ot)
    BY EmptyLockfileOK DEF IInv, TypeOK, LoadedLock
  <2>2. proc[p] \in Process
    BY DEF IInv, TypeOK
  <2>3. PICK after \in EditsOf(proc[p].op, l, proc[p].air, proc[p].today) :
          proc' = [proc EXCEPT ![p] = [@ EXCEPT !.phase = "loaded", !.after = after]]
    BY <1>2 DEF Load
  <2>4. after \in Lockfile /\ WellFormed(after.ot)
    BY <2>1, <2>2, EditsWellFormed DEF Process
  <2>5. proc' \in [Proc -> Process] /\ \A q \in Proc : WellFormed(proc'[q].after.ot)
    <3> DEFINE new == [proc[p] EXCEPT !.phase = "loaded", !.after = after]
    <3>1. new \in Process /\ new.after = after
      BY <2>2, <2>4 DEF Process, Phase
    <3> HIDE DEF new
    <3>2. proc' = [proc EXCEPT ![p] = new]
      BY <2>3 DEF new
    <3> QED BY <2>4, <3>1, <3>2 DEF IInv, TypeOK
  <2>6. UNCHANGED <<disk, edits, written>>
    BY <1>2 DEF Load
  <2> QED BY <2>5, <2>6 DEF IInv, TypeOK
<1>3. ASSUME NEW p \in Proc, Refuse(p) PROVE IInv'
  BY <1>3, EndOK DEF Refuse, IInv, TypeOK
<1>4. ASSUME NEW p \in Proc, Truncate(p) PROVE IInv'
  <2> DEFINE new == [proc EXCEPT ![p] = [proc[p] EXCEPT !.phase = "saving"]]
  <2>1. new \in [Proc -> Process] /\ \A q \in Proc : WellFormed(new[q].after.ot)
    <3>1. /\ [proc[p] EXCEPT !.phase = "saving"] \in Process
          /\ [proc[p] EXCEPT !.phase = "saving"].after = proc[p].after
      BY DEF IInv, TypeOK, Process, Phase
    <3> QED BY <3>1 DEF IInv, TypeOK
  <2>2. proc' = Outdate(p, new)
    BY <1>4 DEF Truncate
  <2>3. proc' \in [Proc -> Process] /\ \A q \in Proc : WellFormed(proc'[q].after.ot)
    <3> HIDE DEF new
    <3> QED BY <2>1, <2>2, OutdateOK
  <2>4. /\ disk' \in [status : Status, lock : Lockfile]
        /\ disk'.lock = disk.lock
        /\ UNCHANGED <<edits, written>>
    BY <1>4 DEF Truncate, IInv, TypeOK, Status
  <2> QED BY <2>3, <2>4 DEF IInv, TypeOK
<1>5. ASSUME NEW p \in Proc, Write(p) PROVE IInv'
  <2> DEFINE l == proc[p].after
  <2>1. l \in Lockfile /\ WellFormed(l.ot)
    BY DEF IInv, TypeOK, Process
  <2>2. proc' = Outdate(p, [proc EXCEPT ![p] = IdleProcess])
    BY <1>5 DEF Write
  <2>3. proc' \in [Proc -> Process] /\ \A q \in Proc : WellFormed(proc'[q].after.ot)
    BY <2>2, EndOK, OutdateOK
  <2>4. edits' = edits
    BY <1>5 DEF Write
  <2>5. CASE disk' = [status |-> "ok", lock |-> l] /\ written' = written \cup {l}
    BY <2>1, <2>3, <2>4, <2>5 DEF IInv, TypeOK, Status
  <2>6. CASE disk' = [disk EXCEPT !.status = "garbled"] /\ UNCHANGED written
    BY <2>3, <2>4, <2>6 DEF IInv, TypeOK, Status
  <2> QED BY <1>5, <2>5, <2>6 DEF Write, Saved
<1>6. ASSUME NEW p \in Proc, Crash(p) PROVE IInv'
  <2>1. proc' \in [Proc -> Process] /\ \A q \in Proc : WellFormed(proc'[q].after.ot)
    BY <1>6, EndOK, OutdateOK DEF Crash
  <2>2. /\ disk' \in [status : Status, lock : Lockfile]
        /\ disk'.lock = disk.lock
        /\ UNCHANGED <<edits, written>>
    BY <1>6 DEF Crash, IInv, TypeOK, Status
  <2> QED BY <2>1, <2>2 DEF IInv, TypeOK
<1>7. ASSUME HandEdit PROVE IInv'
  <2>1. PICK l \in HandEdits(disk.lock) :
          /\ disk' = [disk EXCEPT !.lock = l]
          /\ written' = written \cup {l}
    BY <1>7 DEF HandEdit
  <2>2. l \in Lockfile /\ WellFormed(l.ot)
    BY HandEditsWellFormed DEF IInv, TypeOK
  <2>3. proc' \in [Proc -> Process] /\ \A q \in Proc : WellFormed(proc'[q].after.ot)
    BY <1>7, StaleOK DEF HandEdit, IInv, TypeOK
  <2>4. edits' \in Nat
    BY <1>7 DEF HandEdit, IInv, TypeOK
  <2>5. disk' \in [status : Status, lock : Lockfile] /\ disk'.lock = l
    BY <2>1, <2>2 DEF IInv, TypeOK
  <2> QED BY <2>1, <2>2, <2>3, <2>4, <2>5 DEF IInv, TypeOK
<1>8. ASSUME RestoreFile PROVE IInv'
  <2>1. PICK l \in written : disk' = [status |-> "ok", lock |-> l]
    BY <1>8 DEF RestoreFile
  <2>2. proc' \in [Proc -> Process] /\ \A q \in Proc : WellFormed(proc'[q].after.ot)
    BY <1>8, StaleOK DEF RestoreFile, IInv, TypeOK
  <2>3. UNCHANGED <<edits, written>>
    BY <1>8 DEF RestoreFile
  <2> QED BY <2>1, <2>2, <2>3 DEF IInv, TypeOK, Status
<1>9. CASE UNCHANGED vars
  BY <1>9 DEF vars, IInv, TypeOK
<1> QED
  BY <1>1, <1>2, <1>3, <1>4, <1>5, <1>6, <1>7, <1>8, <1>9 DEF Next

\* So the strengthening holds in every reachable state.
LEMMA Inductive == Spec => []IInv
BY InitIInv, StepIInv, PTL DEF Spec

\* Every variable keeps its type in every reachable state.
THEOREM TypeCorrect == Spec => []TypeOK
BY Inductive, PTL DEF IInv

\* In every lockfile that was ever readable, each symbol belongs to one
\* concept at most: whatever commands overlapped, crashed, or were forced.
THEOREM OneConceptEver == Spec => []OneConceptOnDisk
<1>1. IInv => OneConceptOnDisk
  BY DEF IInv, OneConceptOnDisk, WellFormed
<1> QED BY <1>1, Inductive, PTL

\* In every lockfile that was ever readable, boundaries and converters belong
\* to a concept that has a canonical.
THEOREM NoOrphansEver == Spec => []NoOrphansOnDisk
<1>1. IInv => NoOrphansOnDisk
  BY DEF IInv, NoOrphansOnDisk, WellFormed
<1> QED BY <1>1, Inductive, PTL

-----------------------------------------------------------------------------
(* What a command holds between its load and its save *)

\* A command works on a scan and a day of its own.  What it is about to save is
\* one edit away from a version that was readable, and as long as nobody has
\* touched the file since, from the version that is there.
Sound(q, l, versions) ==
    /\ q.phase # "idle" => q.air \in Airs /\ q.today \in 0..MaxDay
    /\ q.phase \in {"loaded", "saving"} =>
        /\ \E v \in versions : Follows(v, q.after)
        /\ ~q.stale => q.after \in EditsOf(q.op, l, q.air, q.today)

Pending ==
    /\ disk.status = "absent" => disk.lock = EmptyLockfile
    /\ EmptyLockfile \in written
    /\ \A p \in Proc : Sound(proc[p], disk.lock, written)

\* A process that is not running holds nothing.
LEMMA IdleSound ==
    ASSUME NEW l, NEW versions
    PROVE  Sound(IdleProcess, l, versions)
BY DEF Sound, IdleProcess

\* More versions do not hurt.
LEMMA SoundGrows ==
    ASSUME NEW q, NEW l, NEW v, NEW w, v \subseteq w, Sound(q, l, v)
    PROVE  Sound(q, l, w)
BY DEF Sound

\* A copy that is marked stale when the file changes is as good as before, and
\* a command that holds no copy need not be marked.
LEMMA SoundStale ==
    ASSUME NEW q \in Process, NEW l, NEW m, NEW v, NEW w, v \subseteq w, Sound(q, l, v)
    PROVE  /\ Sound([q EXCEPT !.stale = TRUE], m, w)
           /\ q.phase \notin {"loaded", "saving"} => Sound(q, m, w)
<1> DEFINE r == [q EXCEPT !.stale = TRUE]
<1>1. /\ r.phase = q.phase /\ r.op = q.op /\ r.air = q.air
      /\ r.today = q.today /\ r.after = q.after /\ r.stale = TRUE
  BY DEF Process
<1> HIDE DEF r
<1>2. Sound(r, m, w)
  BY <1>1 DEF Sound
<1>3. q.phase \notin {"loaded", "saving"} => Sound(q, m, w)
  BY DEF Sound
<1> QED BY <1>2, <1>3 DEF r

\* So when a process changes the file, outdating the others keeps them sound.
LEMMA OutdateSound ==
    ASSUME NEW p \in Proc, NEW procs \in [Proc -> Process],
           NEW l, NEW m, NEW v, NEW w, v \subseteq w,
           \A q \in Proc \ {p} : Sound(procs[q], l, v),
           Sound(procs[p], m, w)
    PROVE  \A q \in Proc : Sound(Outdate(p, procs)[q], m, w)
<1> SUFFICES ASSUME NEW q \in Proc PROVE Sound(Outdate(p, procs)[q], m, w)
  OBVIOUS
<1>1. CASE q = p
  BY <1>1 DEF Outdate
<1>2. CASE q # p /\ procs[q].phase \in {"loaded", "saving"}
  <2>1. Outdate(p, procs)[q] = [procs[q] EXCEPT !.stale = TRUE]
    BY <1>2 DEF Outdate
  <2>2. Sound([procs[q] EXCEPT !.stale = TRUE], m, w)
    BY <1>2, SoundStale
  <2> QED BY <2>1, <2>2
<1>3. CASE q # p /\ procs[q].phase \notin {"loaded", "saving"}
  <2>1. Outdate(p, procs)[q] = procs[q]
    BY <1>3 DEF Outdate
  <2>2. Sound(procs[q], m, w)
    BY <1>3, SoundStale
  <2> QED BY <2>1, <2>2
<1> QED BY <1>1, <1>2, <1>3

\* Nothing is pending before the first command.
LEMMA InitPending == Init => Pending
BY IdleSound DEF Init, Pending

\* Every step keeps what is pending sound.
LEMMA StepPending == IInv /\ Pending /\ [Next]_vars => Pending'
<1> SUFFICES ASSUME IInv, Pending, [Next]_vars PROVE Pending'
  OBVIOUS
<1>t. /\ proc \in [Proc -> Process]
      /\ disk \in [status : Status, lock : Lockfile]
      /\ disk.lock \in written
  BY DEF IInv, TypeOK
<1>s. \A p \in Proc : Sound(proc[p], disk.lock, written)
  BY DEF Pending
<1>1. ASSUME NEW p \in Proc, Start(p) PROVE Pending'
  <2>1. PICK op \in Op, a \in Airs, d \in 0..MaxDay :
          proc' = [proc EXCEPT ![p] = [IdleProcess EXCEPT !.phase = "started",
                                          !.op = op, !.air = a, !.today = d]]
    BY <1>1 DEF Start
  <2> DEFINE new == [IdleProcess EXCEPT !.phase = "started", !.op = op,
                                        !.air = a, !.today = d]
  <2>2. Sound(new, disk.lock, written)
    BY DEF Sound, IdleProcess
  <2>3. proc' = [proc EXCEPT ![p] = new] /\ UNCHANGED <<disk, written>>
    BY <1>1, <2>1 DEF Start
  <2> HIDE DEF new
  <2> QED BY <1>t, <1>s, <2>2, <2>3 DEF Pending
<1>2. ASSUME NEW p \in Proc, Load(p) PROVE Pending'
  <2>1. LoadedLock = disk.lock
    BY <1>2 DEF Load, Loadable, LoadedLock, Pending
  <2>2. PICK after \in EditsOf(proc[p].op, disk.lock, proc[p].air, proc[p].today) :
          proc' = [proc EXCEPT ![p] = [proc[p] EXCEPT !.phase = "loaded", !.after = after]]
    BY <1>2, <2>1 DEF Load
  <2> DEFINE new == [proc[p] EXCEPT !.phase = "loaded", !.after = after]
  <2>3. /\ new.phase = "loaded" /\ new.after = after /\ new.op = proc[p].op
        /\ new.air = proc[p].air /\ new.today = proc[p].today
        /\ new.stale = proc[p].stale
    BY <1>t DEF Process
  <2>4. /\ proc[p].op \in Op /\ proc[p].air \in Airs /\ proc[p].today \in 0..MaxDay
    BY <1>t, <1>s, <1>2 DEF Process, Load, Sound
  <2>5. Follows(disk.lock, after)
    BY <2>2, <2>4 DEF Follows
  <2> HIDE DEF new
  <2>6. Sound(new, disk.lock, written)
    BY <1>t, <2>2, <2>3, <2>4, <2>5 DEF Sound
  <2>7. proc' = [proc EXCEPT ![p] = new] /\ UNCHANGED <<disk, written>>
    BY <1>2, <2>2 DEF Load, new
  <2> QED BY <1>t, <1>s, <2>6, <2>7 DEF Pending
<1>3. ASSUME NEW p \in Proc, Refuse(p) PROVE Pending'
  <2>1. proc' = [proc EXCEPT ![p] = IdleProcess] /\ UNCHANGED <<disk, written>>
    BY <1>3 DEF Refuse
  <2> QED BY <1>t, <1>s, <2>1, IdleSound DEF Pending
<1>4. ASSUME NEW p \in Proc, Truncate(p) PROVE Pending'
  <2> DEFINE new == [proc[p] EXCEPT !.phase = "saving"]
             procs == [proc EXCEPT ![p] = new]
  <2>1. /\ new \in Process
        /\ new.phase = "saving" /\ new.after = proc[p].after /\ new.op = proc[p].op
        /\ new.air = proc[p].air /\ new.today = proc[p].today
        /\ new.stale = proc[p].stale
    BY <1>t DEF Process, Phase
  <2>2. /\ proc' = Outdate(p, procs) /\ disk' = [disk EXCEPT !.status = "empty"]
        /\ UNCHANGED written /\ proc[p].phase = "loaded"
    BY <1>4 DEF Truncate
  <2> HIDE DEF new
  <2>3. Sound(new, disk.lock, written)
    BY <1>s, <2>1, <2>2 DEF Sound
  <2>4. /\ procs \in [Proc -> Process] /\ procs[p] = new
        /\ \A q \in Proc \ {p} : procs[q] = proc[q]
    BY <1>t, <2>1
  <2> HIDE DEF procs
  <2>5. \A q \in Proc : Sound(proc'[q], disk.lock, written)
    BY <1>s, <2>2, <2>3, <2>4, OutdateSound
  <2>6. disk'.lock = disk.lock /\ disk'.status = "empty"
    BY <1>t, <2>2
  <2> QED BY <2>2, <2>5, <2>6 DEF Pending
<1>e. ASSUME NEW p \in Proc, proc' = Outdate(p, [proc EXCEPT ![p] = IdleProcess]),
             written \subseteq written', disk'.status # "absent"
      PROVE  Pending'
  <2> DEFINE procs == [proc EXCEPT ![p] = IdleProcess]
  <2>1. /\ procs \in [Proc -> Process] /\ procs[p] = IdleProcess
        /\ \A q \in Proc \ {p} : procs[q] = proc[q]
    BY <1>t, IdleProcessOK
  <2>2. proc' = Outdate(p, procs)
    BY <1>e
  <2> HIDE DEF procs
  <2>3. Sound(procs[p], disk'.lock, written')
    BY <2>1, IdleSound
  <2>4. \A q \in Proc : Sound(proc'[q], disk'.lock, written')
    BY <1>s, <1>e, <2>1, <2>2, <2>3, OutdateSound
  <2> QED BY <1>e, <2>4 DEF Pending
<1>5. ASSUME NEW p \in Proc, Write(p) PROVE Pending'
  <2>1. /\ proc' = Outdate(p, [proc EXCEPT ![p] = IdleProcess])
        /\ written \subseteq written'
    BY <1>5 DEF Write
  <2>2. disk'.status \in {"ok", "garbled"}
    BY <1>5, <1>t DEF Write
  <2> QED BY <2>1, <2>2, <1>e
<1>6. ASSUME NEW p \in Proc, Crash(p) PROVE Pending'
  <2>1. CASE UNCHANGED disk /\ proc' = [proc EXCEPT ![p] = IdleProcess]
    BY <1>6, <1>t, <1>s, <2>1, IdleSound DEF Crash, Pending
  <2>2. CASE proc[p].phase = "saving" /\ disk' = [disk EXCEPT !.status = "garbled"]
              /\ proc' = Outdate(p, [proc EXCEPT ![p] = IdleProcess])
    BY <1>6, <1>t, <1>e, <2>2 DEF Crash
  <2> QED BY <1>6, <2>1, <2>2 DEF Crash
<1>h. ASSUME proc' = [p \in Proc |-> IF proc[p].phase \in {"loaded", "saving"}
                                     THEN [proc[p] EXCEPT !.stale = TRUE] ELSE proc[p]],
             written \subseteq written', disk'.status # "absent"
      PROVE  Pending'
  <2>1. ASSUME NEW p \in Proc PROVE Sound(proc'[p], disk'.lock, written')
    <3>1. /\ Sound([proc[p] EXCEPT !.stale = TRUE], disk'.lock, written')
          /\ proc[p].phase \notin {"loaded", "saving"} =>
                Sound(proc[p], disk'.lock, written')
      BY <1>t, <1>s, <1>h, SoundStale
    <3> QED BY <1>h, <3>1
  <2> QED BY <1>h, <2>1 DEF Pending
<1>7. ASSUME HandEdit PROVE Pending'
  <2>1. disk'.status = disk.status
    BY <1>7, <1>t DEF HandEdit
  <2> QED BY <1>7, <1>h, <2>1 DEF HandEdit
<1>8. ASSUME RestoreFile PROVE Pending'
  BY <1>8, <1>h DEF RestoreFile
<1>9. CASE UNCHANGED vars
  BY <1>9 DEF vars, Pending
<1> QED
  BY <1>1, <1>2, <1>3, <1>4, <1>5, <1>6, <1>7, <1>8, <1>9 DEF Next

\* In every reachable state, what a command holds is one edit away from a
\* version that was readable.
LEMMA AlwaysPending == Spec => [](IInv /\ Pending)
BY InitIInv, StepIInv, InitPending, StepPending, PTL DEF Spec

-----------------------------------------------------------------------------
(* The file implements the reviewers' view of it *)

\* Every step of a command, a crash or a hand edit is a step of the history or
\* one that a reader does not notice.
LEMMA StepRefines == IInv /\ Pending /\ [Next]_vars => [History!Next]_(History!vars)
<1> SUFFICES ASSUME IInv, Pending, [Next]_vars
             PROVE  [History!Next]_(History!vars)
  OBVIOUS
<1>t. /\ proc \in [Proc -> Process]
      /\ disk \in [status : Status, lock : Lockfile]
      /\ disk.lock \in written
  BY DEF IInv, TypeOK
<1>u. UNCHANGED <<disk, written>> => UNCHANGED History!vars
  BY DEF History!vars, Loadable
<1>d. ASSUME disk'.status \in {"empty", "garbled"}, UNCHANGED written
      PROVE  History!Damage
  BY <1>d DEF History!Damage, Loadable
<1>1. ASSUME NEW p \in Proc, Start(p) \/ Load(p) \/ Refuse(p)
      PROVE  UNCHANGED History!vars
  BY <1>1, <1>u DEF Start, Load, Refuse
<1>2. ASSUME NEW p \in Proc, Truncate(p) PROVE History!Damage
  BY <1>2, <1>t, <1>d DEF Truncate
<1>3. ASSUME NEW p \in Proc, Write(p) PROVE History!Next
  <2> DEFINE l == proc[p].after
  <2>1. CASE disk' = [status |-> "ok", lock |-> l] /\ written' = written \cup {l}
    <3>1. Loadable' /\ disk'.lock = l
      BY <2>1 DEF Loadable
    <3>2. \E v \in written : Follows(v, l)
      BY <1>3 DEF Write, Pending, Sound
    <3>3. History!Record
      BY <2>1, <3>1, <3>2 DEF History!Record
    <3> QED BY <3>3 DEF History!Next
  <2>2. CASE disk' = [disk EXCEPT !.status = "garbled"] /\ UNCHANGED written
    BY <2>2, <1>t, <1>d DEF History!Next
  <2> QED BY <1>3, <2>1, <2>2 DEF Write, Saved
<1>4. ASSUME NEW p \in Proc, Crash(p) PROVE [History!Next]_(History!vars)
  <2>1. CASE UNCHANGED disk
    BY <1>4, <2>1, <1>u DEF Crash
  <2>2. CASE disk' = [disk EXCEPT !.status = "garbled"]
    BY <1>4, <2>2, <1>t, <1>d DEF Crash, History!Next
  <2> QED BY <1>4, <2>1, <2>2 DEF Crash
<1>5. ASSUME HandEdit PROVE History!Next
  <2>1. PICK l \in HandEdits(disk.lock) :
          /\ disk' = [disk EXCEPT !.lock = l]
          /\ written' = written \cup {l}
    BY <1>5 DEF HandEdit
  <2>2. Loadable' /\ disk'.lock = l
    BY <1>5, <1>t, <2>1 DEF HandEdit, Loadable
  <2>3. \E v \in written : Follows(v, l)
    BY <1>t, <2>1 DEF Follows
  <2>4. History!Record
    BY <2>1, <2>2, <2>3 DEF History!Record
  <2> QED BY <2>4 DEF History!Next
<1>6. ASSUME RestoreFile PROVE History!Next
  <2>1. PICK l \in written : disk' = [status |-> "ok", lock |-> l]
    BY <1>6 DEF RestoreFile
  <2>2. Loadable' /\ disk'.lock = l
    BY <2>1 DEF Loadable
  <2>3. History!Restore
    BY <1>6, <2>2 DEF RestoreFile, History!Restore
  <2> QED BY <2>3 DEF History!Next
<1>7. CASE UNCHANGED vars
  BY <1>7, <1>u DEF vars
<1> QED
  BY <1>1, <1>2, <1>3, <1>4, <1>5, <1>6, <1>7 DEF Next, History!Next

\* For any number of overlapping and crashing commands, every readable version
\* of the lockfile is one edit away from a version that was readable before.
THEOREM LockfileImplementsHistory == Spec => RefinesHistory
<1>1. Init => History!Init
  BY DEF Init, History!Init, Loadable
<1> QED BY <1>1, AlwaysPending, StepRefines, PTL DEF Spec, RefinesHistory, History!Spec

-----------------------------------------------------------------------------
(* What a save may lose *)

\* Entries are filed under pairs: of a concept, and a symbol or a converter.
Filed(tag, S, T, f) ==
    {<<tag, p[1], p[2]>> : p \in {q \in S \X T : f[q[1]][q[2]] = "accepted"}}

\* An entry is among them when its pair is marked accepted.
LEMMA PairImage ==
    ASSUME NEW S, NEW T, NEW tag, NEW f, NEW x
    PROVE  x \in Filed(tag, S, T, f) <=>
              \E c \in S, s \in T : f[c][s] = "accepted" /\ x = <<tag, c, s>>
<1> DEFINE P == {q \in S \X T : f[q[1]][q[2]] = "accepted"}
<1>1. ASSUME NEW p \in P
      PROVE  /\ p[1] \in S /\ p[2] \in T
             /\ f[p[1]][p[2]] = "accepted"
  OBVIOUS
<1>2. ASSUME NEW c \in S, NEW s \in T, f[c][s] = "accepted"
      PROVE  \E p \in P : p[1] = c /\ p[2] = s
  <2>1. <<c, s>> \in P
    BY <1>2
  <2> QED BY <2>1
<1> HIDE DEF P
<1>3. x \in {<<tag, p[1], p[2]>> : p \in P}
        <=> \E c \in S, s \in T : f[c][s] = "accepted" /\ x = <<tag, c, s>>
  <2>1. ASSUME NEW p \in P, x = <<tag, p[1], p[2]>>
        PROVE  \E c \in S, s \in T : f[c][s] = "accepted" /\ x = <<tag, c, s>>
    BY <1>1, <2>1
  <2>2. ASSUME NEW c \in S, NEW s \in T, f[c][s] = "accepted", x = <<tag, c, s>>
        PROVE  \E p \in P : x = <<tag, p[1], p[2]>>
    BY <1>2, <2>2
  <2> QED BY <2>1, <2>2
<1> QED BY <1>3 DEF P, Filed

\* The recorded decisions of a section, one kind of entry after the other.
LEMMA AcceptedMember ==
    ASSUME NEW sec, NEW x
    PROVE  x \in AcceptedEntries(sec) <=>
            \/ \E c \in Concept : /\ HasEntry(sec, c)
                                  /\ sec.canonical[c].source = "accepted"
                                  /\ x = <<"canonical", c, sec.canonical[c].symbol>>
            \/ \E c \in Concept, s \in Symbol : /\ sec.boundaries[c][s] = "accepted"
                                                /\ x = <<"boundary", c, s>>
            \/ \E c \in Concept, f \in Converter : /\ sec.converters[c][f] = "accepted"
                                                   /\ x = <<"converter", c, f>>
<1> DEFINE C == {<<"canonical", c, sec.canonical[c].symbol>> :
                    c \in {d \in Concept : HasEntry(sec, d) /\ sec.canonical[d].source = "accepted"}}
           B == Filed("boundary", Concept, Symbol, sec.boundaries)
           V == Filed("converter", Concept, Converter, sec.converters)
<1>1. x \in C <=> \E c \in Concept : /\ HasEntry(sec, c)
                                    /\ sec.canonical[c].source = "accepted"
                                    /\ x = <<"canonical", c, sec.canonical[c].symbol>>
  OBVIOUS
<1>2. x \in B <=> \E c \in Concept, s \in Symbol : /\ sec.boundaries[c][s] = "accepted"
                                                 /\ x = <<"boundary", c, s>>
  BY PairImage
<1>3. x \in V <=> \E c \in Concept, f \in Converter : /\ sec.converters[c][f] = "accepted"
                                                    /\ x = <<"converter", c, f>>
  BY PairImage
<1>4. AcceptedEntries(sec) = C \cup B \cup V
  BY DEF AcceptedEntries, Filed
<1> HIDE DEF C, B, V
<1> QED BY <1>1, <1>2, <1>3, <1>4

\* accept canonical drops at most the decision about the canonical that it
\* replaces, which only --force lets it replace.
LEMMA AcceptCanonicalKeeps ==
    ASSUME NEW sec \in OtSection, NEW s \in Symbol, NEW c \in Concept,
           NEW air, NEW force \in BOOLEAN, CanAcceptCanonical(sec, air, s, c, force)
    PROVE  LET new  == AcceptCanonical(sec, s, c)
               lost == AcceptedEntries(sec) \ AcceptedEntries(new)
           IN  /\ lost \subseteq {<<"canonical", c, sec.canonical[c].symbol>>}
               /\ ~force => lost = {}
               /\ new.converter_paths = sec.converter_paths
<1> DEFINE new == AcceptCanonical(sec, s, c)
<1>1. /\ new.canonical[c] = [symbol |-> s, source |-> "accepted"]
      /\ \A d \in Concept : d # c => new.canonical[d] = sec.canonical[d]
      /\ new.boundaries = sec.boundaries
      /\ new.converters = sec.converters
      /\ new.converter_paths = sec.converter_paths
  BY DEF AcceptCanonical, OtSection
<1>2. HasEntry(new, c) /\ new.canonical[c].symbol = s /\ new.canonical[c].source = "accepted"
  BY <1>1, SymbolAssumption DEF HasEntry
<1>3. ~force => sec.canonical[c].symbol \in {NoSymbol, s}
  BY DEF CanAcceptCanonical
<1>4. ASSUME NEW x \in AcceptedEntries(sec), x \notin AcceptedEntries(new)
      PROVE  /\ x = <<"canonical", c, sec.canonical[c].symbol>>
             /\ sec.canonical[c].symbol \notin {NoSymbol, s}
  <2> HIDE DEF new
  <2>1. PICK d \in Concept : /\ HasEntry(sec, d)
                             /\ sec.canonical[d].source = "accepted"
                             /\ x = <<"canonical", d, sec.canonical[d].symbol>>
    BY <1>1, <1>4, AcceptedMember
  <2>2. d = c
    BY <1>1, <1>4, <2>1, AcceptedMember DEF HasEntry
  <2>3. x # <<"canonical", c, s>>
    BY <1>2, <1>4, AcceptedMember
  <2> QED BY <2>1, <2>2, <2>3 DEF HasEntry
<1> HIDE DEF new
<1> DEFINE lost == AcceptedEntries(sec) \ AcceptedEntries(new)
<1>5. lost \subseteq {<<"canonical", c, sec.canonical[c].symbol>>}
  BY <1>4
<1>6. ~force => lost = {}
  BY <1>3, <1>4
<1> QED BY <1>1, <1>5, <1>6 DEF new

\* accept boundary drops none.
LEMMA AcceptBoundaryKeeps ==
    ASSUME NEW sec \in OtSection, NEW s \in Symbol, NEW c \in Concept
    PROVE  LET new == AcceptBoundary(sec, s, c)
           IN  /\ AcceptedEntries(sec) \subseteq AcceptedEntries(new)
               /\ new.converter_paths = sec.converter_paths
<1> DEFINE new == AcceptBoundary(sec, s, c)
<1>1. /\ new.canonical = sec.canonical
      /\ new.converters = sec.converters
      /\ new.converter_paths = sec.converter_paths
      /\ \A d \in Concept, t \in Symbol :
            sec.boundaries[d][t] = "accepted" => new.boundaries[d][t] = "accepted"
  BY DEF AcceptBoundary, OtSection
<1> HIDE DEF new
<1>2. AcceptedEntries(sec) \subseteq AcceptedEntries(new)
  BY <1>1, AcceptedMember DEF HasEntry
<1> QED BY <1>1, <1>2 DEF new

\* accept converter drops none.
LEMMA AcceptConverterKeeps ==
    ASSUME NEW sec \in OtSection, NEW f \in Converter, NEW c \in Concept
    PROVE  LET new == AcceptConverter(sec, f, c)
           IN  /\ AcceptedEntries(sec) \subseteq AcceptedEntries(new)
               /\ new.converter_paths = sec.converter_paths
<1> DEFINE new == AcceptConverter(sec, f, c)
<1>1. /\ new.canonical = sec.canonical
      /\ new.boundaries = sec.boundaries
      /\ new.converter_paths = sec.converter_paths
      /\ \A d \in Concept, g \in Converter :
            sec.converters[d][g] = "accepted" => new.converters[d][g] = "accepted"
  BY DEF AcceptConverter, OtSection
<1> HIDE DEF new
<1>2. AcceptedEntries(sec) \subseteq AcceptedEntries(new)
  BY <1>1, AcceptedMember DEF HasEntry
<1> QED BY <1>1, <1>2 DEF new

\* What the edit m of l, made by a command with these arguments, may lose.
KeepsDecisions(l, m, op, today) ==
    LET lost == AcceptedEntries(l.ot) \ AcceptedEntries(m.ot)
    IN  /\ l.acknowledged_empty \subseteq m.acknowledged_empty
        /\ \A e \in l.exceptions \ m.exceptions :
                op = "prune" /\ Expires[e] < today
        /\ op \notin InitOps =>
                /\ Cardinality(lost) <= (IF op = "canonical_force" THEN 1 ELSE 0)
                /\ l.ot.converter_paths \subseteq m.ot.converter_paths

\* No entry lost, or at most the one named.
LEMMA FewLost ==
    ASSUME NEW lost, NEW x, lost \subseteq {x}
    PROVE  Cardinality(lost) <= 1 /\ (lost = {} => Cardinality(lost) = 0)
<1>1. lost = {} \/ lost = {x}
  OBVIOUS
<1>2. Cardinality({}) = 0 /\ Cardinality({x}) = 1
  BY FS_EmptySet, FS_Singleton
<1> QED BY <1>1, <1>2

\* Every command keeps the decisions that are not its own to remove.
LEMMA EditsKeep ==
    ASSUME NEW l \in Lockfile, NEW op \in Op, NEW a, NEW d \in Nat,
           NEW m \in EditsOf(op, l, a, d)
    PROVE  KeepsDecisions(l, m, op, d)
<1>1. l.ot \in OtSection
  BY DEF Lockfile
<1>2. ASSUME NEW force \in BOOLEAN, m \in CanonicalEdits(l, a, force),
             op \notin InitOps, force => op = "canonical_force"
      PROVE  KeepsDecisions(l, m, op, d)
  <2>1. PICK s \in Symbol, c \in Concept :
           /\ CanAcceptCanonical(l.ot, a, s, c, force)
           /\ m = [l EXCEPT !.ot = AcceptCanonical(l.ot, s, c)]
    BY <1>2 DEF CanonicalEdits
  <2> DEFINE new  == AcceptCanonical(l.ot, s, c)
             lost == AcceptedEntries(l.ot) \ AcceptedEntries(new)
  <2>2. /\ lost \subseteq {<<"canonical", c, l.ot.canonical[c].symbol>>}
        /\ ~force => lost = {}
        /\ new.converter_paths = l.ot.converter_paths
    BY <1>1, <2>1, AcceptCanonicalKeeps
  <2>3. /\ m.ot = new /\ m.acknowledged_empty = l.acknowledged_empty
        /\ m.exceptions = l.exceptions
    BY <2>1 DEF Lockfile
  <2> HIDE DEF new
  <2>4. Cardinality(lost) <= 1 /\ (lost = {} => Cardinality(lost) = 0)
    BY <2>2, FewLost
  <2>5. Cardinality(lost) <= (IF op = "canonical_force" THEN 1 ELSE 0)
    BY <1>2, <2>2, <2>4
  <2> QED BY <2>2, <2>3, <2>5 DEF KeepsDecisions
<1>3. ASSUME NEW new, m = [l EXCEPT !.ot = new], op \notin InitOps,
             AcceptedEntries(l.ot) \subseteq AcceptedEntries(new),
             new.converter_paths = l.ot.converter_paths
      PROVE  KeepsDecisions(l, m, op, d)
  <2>1. /\ m.ot = new /\ m.acknowledged_empty = l.acknowledged_empty
        /\ m.exceptions = l.exceptions
    BY <1>3 DEF Lockfile
  <2>2. AcceptedEntries(l.ot) \ AcceptedEntries(new) = {}
    BY <1>3
  <2>3. Cardinality({}) <= (IF op = "canonical_force" THEN 1 ELSE 0)
    BY FS_EmptySet
  <2> QED BY <1>3, <2>1, <2>2, <2>3 DEF KeepsDecisions
<1>4. ASSUME m \in BoundaryEdits(l, a), op \notin InitOps
      PROVE  KeepsDecisions(l, m, op, d)
  <2>1. PICK s \in Symbol, c \in Concept : m = [l EXCEPT !.ot = AcceptBoundary(l.ot, s, c)]
    BY <1>4 DEF BoundaryEdits
  <2> QED BY <1>1, <1>3, <1>4, <2>1, AcceptBoundaryKeeps
<1>5. ASSUME m \in ConverterEdits(l), op \notin InitOps
      PROVE  KeepsDecisions(l, m, op, d)
  <2>1. PICK f \in Converter, c \in Concept : m = [l EXCEPT !.ot = AcceptConverter(l.ot, f, c)]
    BY <1>5 DEF ConverterEdits
  <2> QED BY <1>1, <1>3, <1>5, <2>1, AcceptConverterKeeps
<1>6. ASSUME m \in InitEdits(l, a), op \in InitOps
      PROVE  KeepsDecisions(l, m, op, d)
  <2>1. PICK ack \in SUBSET Prefix :
           m = [l EXCEPT !.ot = InitSection(l.ot, a),
                         !.acknowledged_empty = l.acknowledged_empty \cup ack]
    BY <1>6 DEF InitEdits
  <2>2. /\ m.acknowledged_empty = l.acknowledged_empty \cup ack
        /\ m.exceptions = l.exceptions
    BY <2>1 DEF Lockfile
  <2> QED BY <1>6, <2>2 DEF KeepsDecisions
<1>7. ASSUME m \in PruneEdits(l, d), op = "prune"
      PROVE  KeepsDecisions(l, m, op, d)
  <2>1. m = [l EXCEPT !.exceptions = {e \in l.exceptions : Expires[e] >= d}]
    BY <1>7 DEF PruneEdits
  <2>2. /\ m.ot = l.ot /\ m.acknowledged_empty = l.acknowledged_empty
        /\ m.exceptions = {e \in l.exceptions : Expires[e] >= d}
    BY <2>1 DEF Lockfile
  <2>3. \A e \in l.exceptions \ m.exceptions : Expires[e] < d
    BY <2>2, ExpiryAssumption DEF Lockfile
  <2>4. AcceptedEntries(l.ot) \ AcceptedEntries(m.ot) = {} /\ Cardinality({}) = 0
    BY <2>2, FS_EmptySet
  <2> QED BY <1>7, <2>2, <2>3, <2>4 DEF KeepsDecisions
<1> QED
  BY <1>2, <1>4, <1>5, <1>6, <1>7 DEF EditsOf, Op, AcceptOps, InitOps

\* A save whose snapshot is current loses nothing but what its own operation
\* removes, for any commands that overlapped with it before.
THEOREM LossNeedsOverlapOrIntent == Spec => LossNeedsOverlap
<1>1. ASSUME IInv, Pending, NEW p \in Proc, SavesNow(p), ~proc[p].stale
      PROVE  KeepsDecisions(disk.lock, disk'.lock, proc[p].op, proc[p].today)
  <2>1. disk'.lock = proc[p].after
    BY <1>1 DEF SavesNow, Saved
  <2>2. proc[p].after \in EditsOf(proc[p].op, disk.lock, proc[p].air, proc[p].today)
    BY <1>1 DEF SavesNow, Pending, Sound
  <2>3. disk.lock \in Lockfile /\ proc[p].op \in Op /\ proc[p].today \in Nat
    BY <1>1 DEF IInv, TypeOK, Process
  <2> QED BY <2>1, <2>2, <2>3, EditsKeep
<1>2. IInv /\ Pending =>
        \A p \in Proc : SavesNow(p) /\ ~proc[p].stale =>
            LET old  == disk.lock
                new  == disk'.lock
                op   == proc[p].op
                lost == AcceptedEntries(old.ot) \ AcceptedEntries(new.ot)
            IN  /\ old.acknowledged_empty \subseteq new.acknowledged_empty
                /\ \A e \in old.exceptions \ new.exceptions :
                        op = "prune" /\ Expires[e] < proc[p].today
                /\ op \notin InitOps =>
                        /\ Cardinality(lost) <= (IF op = "canonical_force" THEN 1 ELSE 0)
                        /\ old.ot.converter_paths \subseteq new.ot.converter_paths
  BY <1>1 DEF KeepsDecisions
<1> QED BY <1>2, AlwaysPending, PTL DEF LossNeedsOverlap
=============================================================================
