-------------------------- MODULE CrateCyclesProofs --------------------------
(***************************************************************************)
(* Tarjan's algorithm, as DG002 runs it, is correct for every set of       *)
(* crates and imports: what it puts out are the classes of crates that     *)
(* reach each other, and the edges reported are those on a cycle.          *)
(*                                                                         *)
(* The argument.  What is no longer in the stack is closed under the edges *)
(* (EmittedInv), so no component can have a member outside the set popped. *)
(* In the stack, a crate whose call is open reaches everything above it    *)
(* (Above), and a crate whose call has ended reaches something below it    *)
(* (Below).  When the link of the top crate is its own index, no edge      *)
(* leads from the set above it to the stack below it (LinkBound); so going *)
(* down from any crate of the set ends at the top crate.                   *)
(***************************************************************************)
EXTENDS CrateCycles, FiniteSetTheorems, WellFoundedInduction, SequenceTheorems, TLAPS

\* A set of numbers has a least element: the CHOOSE of a first hit is not empty-handed.
LEMMA LeastNatural ==
    ASSUME NEW R, R \subseteq Nat, R # {}
    PROVE  \E n \in R : \A m \in R : n <= m
<1> DEFINE less == {p \in Nat \X Nat : p[1] < p[2]}
<1>1. IsWellFoundedOn(less, Nat)
  BY NatLessThanWellFounded DEF OpToRel
<1>2. \A m, n \in R : ~(n <= m) => <<m, n>> \in less
  OBVIOUS
<1> HIDE DEF less
<1> QED BY <1>1, <1>2, WFMin

OnCall(v)  == \E i \in 1..Len(calls) : calls[i] = v
Emitted(v) == indices[v] # None /\ ~onStack[v]

EdgeInv == \A e \in edges : e[1] # e[2]

\* Indices are given out once, in order.
IndexInv ==
    /\ \A v \in Crate : indices[v] < index
    /\ \A u, v \in Crate : indices[u] = indices[v] /\ indices[v] # None => u = v
    /\ \A v \in Crate : onStack[v] => indices[v] # None

\* The stack holds what onStack says, in the order of discovery.
StackInv ==
    /\ \A i \in 1..Len(stack) : onStack[stack[i]]
    /\ \A v \in Crate : onStack[v] => \E i \in 1..Len(stack) : stack[i] = v
    /\ \A i, j \in 1..Len(stack) : i < j => indices[stack[i]] < indices[stack[j]]

\* The open calls are in the stack, in the order of discovery, and the first
\* of them is at its bottom.
CallInv ==
    /\ \A i \in 1..Len(calls) : onStack[calls[i]]
    /\ \A i, j \in 1..Len(calls) : i < j => indices[calls[i]] < indices[calls[j]]
    /\ \A w \in Crate : onStack[w] => calls # <<>> /\ indices[calls[1]] <= indices[w]

\* What a call has looked at has an index; a call that has ended has looked at
\* everything.
SuccsInv ==
    /\ \A v \in Crate : \A w \in succs[v] : <<v, w>> \in edges
    /\ \A v, w \in Crate :
        <<v, w>> \in edges /\ indices[v] # None /\ w \notin succs[v] => indices[w] # None
    /\ \A v \in Crate : indices[v] # None /\ ~OnCall(v) => succs[v] = {}

Above ==
    \A i \in 1..Len(calls), w \in Crate :
        onStack[w] /\ indices[calls[i]] <= indices[w] => Reaches(calls[i], w)

Below ==
    \A w \in Crate : onStack[w] /\ ~OnCall(w) =>
        \E u \in Crate : onStack[u] /\ indices[u] < indices[w] /\ Reaches(w, u)

\* The link of an open call is the index of a crate in the stack that the call's
\* crate reaches.
LinkReach ==
    \A i \in 1..Len(calls) :
        /\ lowlinks[calls[i]] <= indices[calls[i]]
        /\ \E u \in Crate : /\ onStack[u]
                            /\ indices[u] = lowlinks[calls[i]]
                            /\ Reaches(calls[i], u)

\* Of the crates found since an open call began, and before the next one did, no
\* edge looked at leads below the link of the call.
LinkBound ==
    \A i \in 1..Len(calls), v, w \in Crate :
        /\ onStack[v] /\ onStack[w]
        /\ <<v, w>> \in edges /\ w \notin succs[v]
        /\ indices[calls[i]] <= indices[v]
        /\ i < Len(calls) => indices[v] < indices[calls[i + 1]]
        => lowlinks[calls[i]] <= indices[w]

EmittedInv ==
    /\ \A v, w \in Crate : <<v, w>> \in edges /\ Emitted(v) => Emitted(w)
    /\ \A k \in 1..Len(sccs) : \A v \in sccs[k] : Emitted(v)
    /\ \A v \in Crate : Emitted(v) => \E k \in 1..Len(sccs) : v \in sccs[k]
    /\ \A j, k \in 1..Len(sccs) : \A v \in Crate : v \in sccs[j] /\ v \in sccs[k] => j = k

ReportInv ==
    done =>
        /\ calls = <<>>
        /\ \A v \in Nodes : indices[v] # None
        /\ findings = Cyclic

Inv ==
    /\ TypeOK /\ EdgeInv /\ IndexInv /\ StackInv /\ CallInv /\ SuccsInv
    /\ Above /\ Below /\ LinkReach /\ LinkBound
    /\ EmittedInv /\ ComponentsAreClasses /\ ReportInv

-----------------------------------------------------------------------------
(* Reachability *)

\* An edge is a path.
LEMMA ReachesByEdge ==
    ASSUME NEW a, NEW b, <<a, b>> \in edges
    PROVE  Reaches(a, b)
BY DEF Reaches, Closed

\* The empty path is a path.
LEMMA ReachesSelf ==
    ASSUME NEW a
    PROVE  Reaches(a, a)
BY DEF Reaches

\* Two paths make one.
LEMMA ReachesOn ==
    ASSUME NEW a, NEW b, NEW c, Reaches(a, b), Reaches(b, c)
    PROVE  Reaches(a, c)
BY DEF Reaches

\* The graph does not change, and so neither does reachability.
LEMMA ReachesStays ==
    ASSUME edges' = edges, NEW a, NEW b
    PROVE  Reaches(a, b)' <=> Reaches(a, b)
BY DEF Reaches, Closed

-----------------------------------------------------------------------------
(* What each action does, element by element *)

\* Sequence t is s with e after it.
Extends(t, s, e) ==
    /\ Len(t) = Len(s) + 1
    /\ t[Len(s) + 1] = e
    /\ \A i \in 1..Len(s) : t[i] = s[i]

\* Sequence t is s up to place n.
Shortens(t, s, n) ==
    /\ Len(t) = n
    /\ \A i \in 1..n : t[i] = s[i]

Entered(v) ==
    /\ v \in Crate /\ indices[v] = None /\ ~done
    /\ edges' = edges /\ sccs' = sccs /\ done' = done
    /\ index' = index + 1
    /\ indices'[v] = index /\ \A u \in Crate \ {v} : indices'[u] = indices[u]
    /\ lowlinks'[v] = index /\ \A u \in Crate \ {v} : lowlinks'[u] = lowlinks[u]
    /\ onStack'[v] /\ \A u \in Crate \ {v} : onStack'[u] = onStack[u]
    /\ Extends(stack', stack, v)
    /\ Extends(calls', calls, v)
    /\ succs'[v] = Successors(v)
    /\ \A u \in Crate \ {v} :
        succs'[u] = IF calls # <<>> /\ u = Top THEN succs[u] \ {v} ELSE succs[u]
    /\ calls # <<>> => <<Top, v>> \in edges

\* A successor w of the top call was looked at.
Looked(w) ==
    /\ calls # <<>> /\ w \in Crate /\ w \in succs[Top] /\ indices[w] # None /\ ~done
    /\ edges' = edges /\ sccs' = sccs /\ done' = done /\ index' = index
    /\ indices' = indices /\ onStack' = onStack /\ stack' = stack /\ calls' = calls
    /\ \A u \in Crate : succs'[u] = IF u = Top THEN succs[u] \ {w} ELSE succs[u]
    /\ \A u \in Crate \ {Top} : lowlinks'[u] = lowlinks[u]
    /\ lowlinks'[Top] =
        IF onStack[w] /\ indices[w] <= lowlinks[Top] THEN indices[w] ELSE lowlinks[Top]

Left ==
    /\ calls # <<>> /\ succs[Top] = {} /\ ~done
    /\ edges' = edges /\ done' = done /\ index' = index
    /\ indices' = indices /\ succs' = succs
    /\ Shortens(calls', calls, Len(calls) - 1)
    /\ \A i \in 1..Len(calls) - 1 :
        lowlinks'[calls[i]] =
            IF i = Len(calls) - 1 /\ lowlinks[Top] < lowlinks[calls[i]]
            THEN lowlinks[Top] ELSE lowlinks[calls[i]]

Retreated ==
    /\ Left
    /\ lowlinks[Top] # indices[Top]
    /\ onStack' = onStack /\ stack' = stack /\ sccs' = sccs

\* The component that is popped, in terms of indices.
Popped == {w \in Crate : onStack[w] /\ indices[Top] <= indices[w]}

Closes ==
    /\ Left
    /\ lowlinks[Top] = indices[Top]
    /\ \E k \in 1..Len(stack) : stack[k] = Top /\ Shortens(stack', stack, k - 1)
    /\ onStack' = [w \in Crate |-> onStack[w] /\ indices[w] < indices[Top]]
    /\ Extends(sccs', sccs, Popped)

-----------------------------------------------------------------------------
(* Types *)

\* The top call is that of a crate in the stack, which has an index.
LEMMA TopType ==
    ASSUME TypeOK, IndexInv, CallInv, calls # <<>>
    PROVE  /\ Len(calls) \in Nat \ {0} /\ Len(calls) \in 1..Len(calls)
           /\ Top \in Crate /\ onStack[Top] /\ indices[Top] \in Nat
<1>1. Len(calls) \in Nat \ {0} /\ Len(calls) \in 1..Len(calls)
    BY EmptySeq, LenProperties DEF TypeOK
<1>2. Top \in Crate /\ onStack[Top]
    BY <1>1, ElementOfSeq DEF TypeOK, CallInv, Top
<1> QED BY <1>1, <1>2 DEF TypeOK, IndexInv

\* A crate in the stack has one place there.
LEMMA PlaceExists ==
    ASSUME TypeOK, StackInv, NEW v \in Crate, onStack[v]
    PROVE  PlaceOf(v) \in 1..Len(stack) /\ stack[PlaceOf(v)] = v
<1>1. DOMAIN stack = 1..Len(stack)
    BY LenProperties DEF TypeOK
<1>2. \A i \in 1..Len(stack) : indices[stack[i]] \in Int
    BY ElementOfSeq DEF TypeOK, None
<1>3. PICK k \in 1..Len(stack) : stack[k] = v
    BY DEF StackInv
<1>4. \A j \in 1..Len(stack) : j > k => stack[j] # v
    BY <1>2, <1>3, LenProperties DEF StackInv, TypeOK
<1> QED BY <1>1, <1>3, <1>4 DEF PlaceOf

\* Every step keeps the variables in their types.
LEMMA EnterType ==
    ASSUME TypeOK, NEW v \in Crate, NEW p, p \in [Crate -> SUBSET Crate], Enter(v, p)
    PROVE  TypeOK'
<1> USE DEF TypeOK
<1>1. stack' \in Seq(Crate) /\ calls' \in Seq(Crate)
    BY AppendProperties DEF Enter
<1>2. Successors(v) \in SUBSET Crate
    BY DEF Successors
<1>3. succs' \in [Crate -> SUBSET Crate]
    BY <1>2 DEF Enter
<1>4. onStack' \in [Crate -> BOOLEAN]
    BY DEF Enter
<1>5. index' \in Nat /\ indices' \in [Crate -> Nat \cup {None}] /\ lowlinks' \in [Crate -> Nat]
    BY DEF Enter
<1>6. UNCHANGED <<edges, sccs, findings, done>>
    BY DEF Enter, graph
<1> QED BY <1>1, <1>3, <1>4, <1>5, <1>6

\* Every step of the rule keeps the types of all variables.
LEMMA StepType ==
    ASSUME TypeOK, IndexInv, StackInv, CallInv, [Next]_vars
    PROVE  TypeOK'
<1> USE DEF TypeOK
<1>1. CASE Root
    <2>1. PICK v \in Nodes : Enter(v, succs)
        BY <1>1 DEF Root
    <2>2. v \in Crate
        BY <2>1 DEF Nodes
    <2> QED BY <2>1, <2>2, EnterType
<1>2. ASSUME NEW w \in Crate, Descend(w) PROVE TypeOK'
    <2>1. Consumed(w) \in [Crate -> SUBSET Crate]
        BY DEF Consumed
    <2> QED BY <1>2, <2>1, EnterType DEF Descend
<1>3. ASSUME NEW w \in Crate, BackEdge(w) \/ CrossEdge(w) PROVE TypeOK'
    <2>1. Consumed(w) \in [Crate -> SUBSET Crate]
        BY DEF Consumed
    <2>2. Top \in Crate
        BY <1>3, TopType DEF BackEdge, CrossEdge, IsNext
    <2>3. lowlinks' \in [Crate -> Nat]
        <3>1. CASE BackEdge(w)
            <4>1. indices[w] \in Nat /\ lowlinks[Top] \in Nat
                BY <3>1, <2>2 DEF BackEdge
            <4>2. Least(lowlinks[Top], indices[w]) \in Nat
                BY <4>1 DEF Least
            <4> QED BY <3>1, <4>2, <2>2 DEF BackEdge
        <3>2. CASE CrossEdge(w)
            BY <3>2 DEF CrossEdge
        <3> QED BY <1>3, <3>1, <3>2
    <2> QED BY <1>3, <2>1, <2>3 DEF BackEdge, CrossEdge, graph
<1>4. ASSUME Leave PROVE calls' \in Seq(Crate) /\ lowlinks' \in [Crate -> Nat]
    <2>1. calls # <<>>
        BY <1>4 DEF Leave
    <2>2. Len(calls) \in Nat \ {0} /\ Top \in Crate
        BY <2>1, TopType
    <2>3. \A i \in 1..Len(calls) - 1 : calls[i] \in Crate
        BY <2>2, ElementOfSeq
    <2>4. calls' \in Seq(Crate)
        BY <1>4, <2>2, <2>3, SubSeqProperties DEF Leave
    <2>5. lowlinks' \in [Crate -> Nat]
        <3>1. CASE Len(calls) = 1
            BY <1>4, <3>1 DEF Leave
        <3>2. CASE Len(calls) # 1
            <4> DEFINE c == calls[Len(calls) - 1]
            <4>1. c \in Crate
                <5>1. PICK n \in Nat \ {0} : n = Len(calls)
                    BY <2>2
                <5>2. n - 1 \in 1..n
                    BY <5>1, <3>2
                <5>3. calls[n - 1] \in Crate
                    BY <5>1, <5>2, ElementOfSeq
                <5> QED BY <5>1, <5>3
            <4>2. Least(lowlinks[c], lowlinks[Top]) \in Nat
                BY <4>1, <2>2 DEF Least
            <4>3. lowlinks' = [lowlinks EXCEPT ![c] = Least(lowlinks[c], lowlinks[Top])]
                BY <1>4, <3>2 DEF Leave
            <4> QED BY <4>1, <4>2, <4>3
        <3> QED BY <3>1, <3>2
    <2> QED BY <2>4, <2>5
<1>5. CASE Retreat
    BY <1>4, <1>5 DEF Retreat, Leave, graph
<1>6. CASE PopComponent
    <2>1. calls # <<>> /\ Top \in Crate /\ onStack[Top]
        BY <1>6, TopType DEF PopComponent, Leave
    <2> DEFINE k == PlaceOf(Top)
    <2>2. k \in 1..Len(stack)
        BY <2>1, PlaceExists
    <2>3. \A i \in 1..Len(stack) : stack[i] \in Crate
        BY ElementOfSeq
    <2>4. stack' \in Seq(Crate)
        BY <1>6, <2>2, <2>3, SubSeqProperties DEF PopComponent
    <2>5. {stack[j] : j \in k..Len(stack)} \in SUBSET Crate
        BY <2>2, <2>3
    <2>6. sccs' \in Seq(SUBSET Crate)
        BY <1>6, <2>5, AppendProperties DEF PopComponent
    <2>7. onStack' \in [Crate -> BOOLEAN]
        BY <1>6 DEF PopComponent
    <2> QED BY <1>4, <1>6, <2>4, <2>6, <2>7 DEF PopComponent, Leave, graph
<1>7. CASE Report
    <2>1. Cyclic \subseteq Nat \X edges
        BY LenProperties DEF Cyclic
    <2> QED BY <1>7, <2>1 DEF Report, graph, search
<1>8. CASE UNCHANGED vars
    BY <1>8 DEF vars, graph, search
<1> QED BY <1>1, <1>2, <1>3, <1>5, <1>6, <1>7, <1>8 DEF Next

-----------------------------------------------------------------------------
(* From the actions to what they do *)

\* A call begins.
LEMMA EnterFacts ==
    ASSUME Inv, NEW v \in Crate, NEW p, Enter(v, p), indices[v] = None, ~done,
           p \in [Crate -> SUBSET Crate],
           \A u \in Crate \ {v} :
               p[u] = IF calls # <<>> /\ u = Top THEN succs[u] \ {v} ELSE succs[u],
           calls # <<>> => <<Top, v>> \in edges
    PROVE  Entered(v)
<1> USE DEF Inv, TypeOK
<1>1. Extends(stack', stack, v) /\ Extends(calls', calls, v)
    BY AppendProperties DEF Enter, Extends
<1>2. succs'[v] = Successors(v) /\ \A u \in Crate \ {v} : succs'[u] = p[u]
    BY DEF Enter
<1>3. /\ indices'[v] = index /\ \A u \in Crate \ {v} : indices'[u] = indices[u]
      /\ lowlinks'[v] = index /\ \A u \in Crate \ {v} : lowlinks'[u] = lowlinks[u]
    BY DEF Enter
<1>4. onStack'[v] /\ \A u \in Crate \ {v} : onStack'[u] = onStack[u]
    BY DEF Enter
<1>5. edges' = edges /\ sccs' = sccs /\ done' = done /\ index' = index + 1
    BY DEF Enter, graph
<1> QED BY <1>1, <1>2, <1>3, <1>4, <1>5 DEF Entered

\* After the report there is nothing to do.
LEMMA NotDone ==
    ASSUME Inv, calls # <<>> \/ \E v \in Nodes : indices[v] = None
    PROVE  ~done
BY DEF Inv, ReportInv

\* tarjan_sccs starts with the least crate that has no index, and no call open.
LEMMA RootFacts ==
    ASSUME Inv, Root
    PROVE  \E v \in Crate : Entered(v)
<1>1. PICK v \in Nodes : indices[v] = None /\ Enter(v, succs)
    BY DEF Root
<1>2. v \in Crate /\ ~done /\ calls = <<>>
    BY <1>1, NotDone DEF Nodes, Inv, TypeOK, Root
<1> QED BY <1>1, <1>2, EnterFacts DEF Inv, TypeOK

\* The call for a successor takes it from those pending of the caller.
LEMMA DescendFacts ==
    ASSUME Inv, NEW w \in Crate, Descend(w)
    PROVE  Entered(w)
<1>1. calls # <<>> /\ w \in succs[Top] /\ indices[w] = None /\ Enter(w, Consumed(w)) /\ ~done
    BY NotDone DEF Descend, IsNext
<1>2. Top \in Crate
    BY <1>1, TopType DEF Inv
<1>3. <<Top, w>> \in edges
    BY <1>1, <1>2 DEF Inv, SuccsInv
<1>4. /\ Consumed(w) \in [Crate -> SUBSET Crate]
      /\ \A u \in Crate : Consumed(w)[u] = IF u = Top THEN succs[u] \ {w} ELSE succs[u]
    BY <1>2 DEF Consumed, Inv, TypeOK
<1> QED BY <1>1, <1>3, <1>4, EnterFacts

\* Looking at an indexed successor changes at most the link of the top crate.
LEMMA LookFacts ==
    ASSUME Inv, NEW w \in Crate, BackEdge(w) \/ CrossEdge(w)
    PROVE  Looked(w)
<1>1. calls # <<>> /\ w \in succs[Top] /\ indices[w] # None /\ ~done
    BY NotDone DEF BackEdge, CrossEdge, IsNext
<1>2. Top \in Crate
    BY <1>1, TopType DEF Inv
<1>3. \A u \in Crate : succs'[u] = IF u = Top THEN succs[u] \ {w} ELSE succs[u]
    BY <1>2 DEF BackEdge, CrossEdge, Consumed, Inv, TypeOK
<1>4. /\ \A u \in Crate \ {Top} : lowlinks'[u] = lowlinks[u]
      /\ lowlinks'[Top] =
          IF onStack[w] /\ indices[w] <= lowlinks[Top] THEN indices[w] ELSE lowlinks[Top]
    <2>1. CASE BackEdge(w)
        <3>1. indices[w] \in Nat /\ lowlinks[Top] \in Nat
            BY <1>1, <1>2 DEF Inv, TypeOK
        <3>2. Least(lowlinks[Top], indices[w]) =
                IF indices[w] <= lowlinks[Top] THEN indices[w] ELSE lowlinks[Top]
            BY <3>1 DEF Least
        <3> QED BY <2>1, <3>2, <1>2 DEF BackEdge, Inv, TypeOK
    <2>2. CASE CrossEdge(w)
        BY <2>2, <1>2 DEF CrossEdge
    <2> QED BY <2>1, <2>2
<1> QED BY <1>1, <1>3, <1>4 DEF Looked, BackEdge, CrossEdge, graph

\* What the end of a call does to the calls and the link of the caller.
LEMMA LeaveFacts ==
    ASSUME Inv, Leave
    PROVE  Left
<1>1. calls # <<>> /\ succs[Top] = {} /\ ~done
    BY NotDone DEF Leave
<1>2. /\ Len(calls) \in Nat \ {0} /\ Top \in Crate
      /\ \A i \in 1..Len(calls) : calls[i] \in Crate
    BY <1>1, TopType, ElementOfSeq DEF Inv, TypeOK
<1>3. Shortens(calls', calls, Len(calls) - 1)
    <2>1. PICK n \in Nat : n = Len(calls) - 1
        BY <1>2
    <2>2. \A i \in 1..n : calls[i] \in Crate
        BY <1>2, <2>1
    <2>3. Shortens(SubSeq(calls, 1, n), calls, n)
        BY <2>1, <2>2, SubSeqProperties DEF Shortens
    <2> QED BY <2>1, <2>3 DEF Leave
<1>4. ASSUME NEW i \in 1..Len(calls) - 1
      PROVE  lowlinks'[calls[i]] =
                IF i = Len(calls) - 1 /\ lowlinks[Top] < lowlinks[calls[i]]
                THEN lowlinks[Top] ELSE lowlinks[calls[i]]
    <2> DEFINE c == calls[Len(calls) - 1]
    <2>1. i \in 1..Len(calls) /\ Len(calls) - 1 \in 1..Len(calls) /\ Len(calls) # 1
        BY <1>2, <1>4
    <2>2. lowlinks' = [lowlinks EXCEPT ![c] = Least(lowlinks[c], lowlinks[Top])]
        BY <2>1 DEF Leave
    <2>3. c \in Crate /\ calls[i] \in Crate /\ lowlinks[c] \in Nat /\ lowlinks[Top] \in Nat
        BY <1>2, <2>1 DEF Inv, TypeOK
    <2>4. Least(lowlinks[c], lowlinks[Top]) =
            IF lowlinks[Top] < lowlinks[c] THEN lowlinks[Top] ELSE lowlinks[c]
        BY <2>3 DEF Least
    <2>5. i # Len(calls) - 1 => calls[i] # c
        <3> SUFFICES ASSUME i # Len(calls) - 1 PROVE calls[i] # c
            OBVIOUS
        <3> PICK n \in Nat \ {0} : n = Len(calls)
            BY <1>2
        <3>1. PICK j \in 1..n : j = n - 1 /\ i < j
            BY <2>1
        <3>2. indices[calls[i]] < indices[calls[j]]
            BY <2>1, <3>1 DEF Inv, CallInv
        <3>3. indices[calls[j]] \in Int
            <4>1. calls[j] \in Crate
                BY <1>2, <3>1
            <4> QED BY <4>1 DEF Inv, TypeOK, None
        <3>4. calls[i] # calls[j]
            BY <3>2, <3>3
        <3> QED BY <3>1, <3>4
    <2> QED BY <2>2, <2>3, <2>4, <2>5 DEF Inv, TypeOK
<1> QED BY <1>1, <1>3, <1>4 DEF Left, Leave, graph

\* A call that ends inside its component leaves the stack alone.
LEMMA RetreatFacts ==
    ASSUME Inv, Retreat
    PROVE  Retreated
BY LeaveFacts DEF Retreat, Retreated

\* Popping cuts the stack at the top crate and puts out what lay from there on.
LEMMA PopFacts ==
    ASSUME Inv, PopComponent
    PROVE  Closes
<1> USE DEF Inv
<1>1. Leave /\ calls # <<>> /\ lowlinks[Top] = indices[Top]
    BY DEF PopComponent, Leave
<1>2. Top \in Crate /\ onStack[Top] /\ indices[Top] \in Nat
    BY <1>1, TopType
<1> DEFINE k == PlaceOf(Top)
           popped == {stack[j] : j \in k..Len(stack)}
<1>3. k \in 1..Len(stack) /\ stack[k] = Top /\ Len(stack) \in Nat
    BY <1>2, PlaceExists, LenProperties DEF TypeOK
<1>4. \A i \in 1..Len(stack) : stack[i] \in Crate /\ indices[stack[i]] \in Int
    BY ElementOfSeq DEF TypeOK, None
<1> HIDE DEF k
<1>5. popped = Popped
    <2>1. ASSUME NEW j \in k..Len(stack) PROVE stack[j] \in Popped
        <3>1. j \in 1..Len(stack) /\ (j = k \/ k < j)
            BY <1>3, <2>1
        <3>2. stack[j] \in Crate /\ onStack[stack[j]]
            BY <1>4, <3>1 DEF StackInv
        <3>3. indices[Top] <= indices[stack[j]]
            BY <1>2, <1>3, <1>4, <3>1 DEF StackInv
        <3> QED BY <3>2, <3>3 DEF Popped
    <2>2. ASSUME NEW w \in Popped PROVE w \in popped
        <3>1. PICK j \in 1..Len(stack) : stack[j] = w
            BY <2>2 DEF Popped, StackInv
        <3>2. indices[Top] <= indices[w]
            BY <2>2 DEF Popped
        <3>3. ~(j < k)
            BY <1>2, <1>3, <1>4, <3>1, <3>2 DEF StackInv
        <3>4. j \in k..Len(stack)
            BY <1>3, <3>3
        <3> QED BY <3>1, <3>4
    <2> QED BY <2>1, <2>2
<1>6. Popped \in SUBSET Crate
    BY DEF Popped
<1>7. \E j \in 1..Len(stack) : stack[j] = Top /\ Shortens(stack', stack, j - 1)
    <2>1. k - 1 \in Nat /\ \A i \in 1..k - 1 : stack[i] \in Crate
        BY <1>3, <1>4
    <2>2. stack' = SubSeq(stack, 1, k - 1)
        BY DEF PopComponent, k
    <2>3. Shortens(stack', stack, k - 1)
        BY <2>1, <2>2, <1>3, SubSeqProperties DEF Shortens
    <2> QED BY <1>3, <2>3
<1>8. Extends(sccs', sccs, Popped)
    <2>1. sccs' = Append(sccs, Popped)
        BY <1>5 DEF PopComponent, k
    <2> QED BY <2>1, <1>6, AppendProperties DEF Extends, TypeOK
<1>9. onStack' = [w \in Crate |-> onStack[w] /\ indices[w] < indices[Top]]
    <2>1. onStack' = [w \in Crate |-> onStack[w] /\ w \notin Popped]
        BY <1>5 DEF PopComponent, k
    <2>2. ASSUME NEW w \in Crate
          PROVE  (onStack[w] /\ w \notin Popped) <=> (onStack[w] /\ indices[w] < indices[Top])
        <3>1. indices[w] \in Int
            BY DEF TypeOK, None
        <3> QED BY <3>1, <1>2 DEF Popped
    <2> QED BY <2>1, <2>2
<1> QED BY <1>1, <1>7, <1>8, <1>9, LeaveFacts DEF Closes

\* The steps of the rule, but for the report.
LEMMA StepFacts ==
    ASSUME Inv, [Next]_vars
    PROVE  \/ \E v \in Crate : Entered(v)
           \/ \E w \in Crate : Looked(w)
           \/ Retreated
           \/ Closes
           \/ UNCHANGED <<graph, search>>
<1>1. CASE Report
    BY <1>1 DEF Report
<1>2. CASE UNCHANGED vars
    BY <1>2 DEF vars
<1> QED BY <1>1, <1>2, RootFacts, DescendFacts, LookFacts, RetreatFacts, PopFacts DEF Next

-----------------------------------------------------------------------------
(* Each part of the invariant is preserved *)

\* The number of open calls, as a variable of its own, and where they lie.
LEMMA Calls ==
    ASSUME Inv
    PROVE  \E n \in Nat :
            /\ n = Len(calls)
            /\ calls = <<>> <=> n = 0
            /\ \A i \in 1..n : /\ calls[i] \in Crate /\ onStack[calls[i]]
                               /\ indices[calls[i]] \in Nat /\ lowlinks[calls[i]] \in Nat
                               /\ indices[calls[i]] <= indices[Top]
                               /\ i # n => indices[calls[i]] < indices[Top]
            /\ n # 0 => Top = calls[n] /\ Top \in Crate /\ onStack[Top]
<1> USE DEF Inv
<1>1. PICK n \in Nat : n = Len(calls)
    BY LenProperties DEF TypeOK
<1>2. calls = <<>> <=> n = 0
    BY <1>1, EmptySeq DEF TypeOK
<1>3. ASSUME NEW i \in 1..n
      PROVE  /\ calls[i] \in Crate /\ onStack[calls[i]]
             /\ indices[calls[i]] \in Nat /\ lowlinks[calls[i]] \in Nat
    <2>1. calls[i] \in Crate
        BY <1>1, ElementOfSeq DEF TypeOK
    <2>2. onStack[calls[i]]
        BY <1>1 DEF CallInv
    <2> QED BY <2>1, <2>2 DEF TypeOK, IndexInv
<1>4. n # 0 => Top = calls[n] /\ n \in 1..n
    BY <1>1 DEF Top
<1>5. ASSUME NEW i \in 1..n, i # n
      PROVE  indices[calls[i]] < indices[Top]
    <2>1. n # 0 /\ i < n
        BY <1>5
    <2>2. Top = calls[n] /\ n \in 1..n
        BY <1>4, <2>1
    <2> QED BY <1>1, <2>1, <2>2 DEF CallInv
<1>6. ASSUME NEW i \in 1..n
      PROVE  indices[calls[i]] <= indices[Top]
    BY <1>3, <1>4, <1>5
<1> QED BY <1>1, <1>2, <1>3, <1>4, <1>5, <1>6

\* What is known of the functions, element by element.
LEMMA Elements ==
    ASSUME Inv, NEW v \in Crate
    PROVE  /\ index \in Nat /\ indices[v] \in Int /\ lowlinks[v] \in Nat
           /\ indices[v] < index /\ indices[v] # index
           /\ indices[v] # None => indices[v] \in Nat
           /\ onStack[v] => indices[v] # None
<1> USE DEF Inv
<1>1. index \in Nat /\ indices[v] \in Nat \cup {None} /\ lowlinks[v] \in Nat
    BY DEF TypeOK
<1>2. indices[v] < index /\ (onStack[v] => indices[v] # None)
    BY DEF IndexInv
<1> QED BY <1>1, <1>2 DEF None

\* No edge appears, so none leads from a crate to itself.
LEMMA EdgeStep ==
    ASSUME Inv, [Next]_vars
    PROVE  edges' = edges /\ EdgeInv'
<1>1. edges' = edges
    BY StepFacts DEF Entered, Looked, Retreated, Closes, Left, graph
<1> QED BY <1>1 DEF EdgeInv, Inv

\* Indices stay distinct and below the next one.
LEMMA IndexStep ==
    ASSUME Inv, [Next]_vars
    PROVE  IndexInv'
<1>1. ASSUME NEW v \in Crate, Entered(v) PROVE IndexInv'
    <2>1. /\ index' = index + 1 /\ indices'[v] = index /\ onStack'[v]
          /\ \A u \in Crate \ {v} : indices'[u] = indices[u] /\ onStack'[u] = onStack[u]
        BY <1>1 DEF Entered
    <2>2. index \in Nat
        BY DEF Inv, TypeOK
    <2>3. \A u \in Crate : indices'[u] < index'
        BY <2>1, <2>2, Elements
    <2>4. ASSUME NEW u \in Crate, NEW w \in Crate, indices'[u] = indices'[w], indices'[w] # None
          PROVE  u = w
        BY <2>1, <2>4, Elements DEF Inv, IndexInv
    <2>5. \A u \in Crate : onStack'[u] => indices'[u] # None
        BY <2>1, <2>2, Elements DEF None
    <2> QED BY <2>3, <2>4, <2>5 DEF IndexInv
<1>2. CASE /\ indices' = indices /\ index' = index
           /\ \A v \in Crate : onStack'[v] => onStack[v]
    BY <1>2 DEF Inv, IndexInv
<1>3. ASSUME NEW w \in Crate, Looked(w) PROVE IndexInv'
    BY <1>2, <1>3 DEF Looked
<1>4. CASE Retreated
    BY <1>2, <1>4 DEF Retreated, Left
<1>5. CASE Closes
    BY <1>2, <1>5 DEF Closes, Left
<1>6. CASE UNCHANGED <<graph, search>>
    BY <1>2, <1>6 DEF search
<1> QED BY <1>1, <1>3, <1>4, <1>5, <1>6, StepFacts

\* The stack goes on holding what onStack says, in the order of discovery.
LEMMA StackStep ==
    ASSUME Inv, [Next]_vars
    PROVE  StackInv'
<1>0. PICK m \in Nat : m = Len(stack)
    BY LenProperties DEF Inv, TypeOK
<1>s. \A i \in 1..m : stack[i] \in Crate /\ onStack[stack[i]]
    BY <1>0, ElementOfSeq DEF Inv, TypeOK, StackInv
<1>1. ASSUME NEW v \in Crate, Entered(v) PROVE StackInv'
    <2>1. /\ indices'[v] = index /\ onStack'[v] /\ ~onStack[v]
          /\ \A u \in Crate \ {v} : indices'[u] = indices[u] /\ onStack'[u] = onStack[u]
        BY <1>1, Elements DEF Entered
    <2>2. Len(stack') = m + 1 /\ stack'[m + 1] = v /\ \A i \in 1..m : stack'[i] = stack[i]
        BY <1>0, <1>1 DEF Entered, Extends
    <2>3. \A i \in 1..m : stack'[i] \in Crate \ {v}
        BY <1>s, <2>1, <2>2
    <2>4. ASSUME NEW i \in 1..m + 1 PROVE onStack'[stack'[i]]
        BY <1>s, <2>1, <2>2, <2>3
    <2>5. ASSUME NEW u \in Crate, onStack'[u] PROVE \E i \in 1..m + 1 : stack'[i] = u
        <3>1. CASE u = v
            BY <3>1, <2>2
        <3>2. CASE u # v
            <4>1. PICK i \in 1..m : stack[i] = u
                BY <1>0, <2>1, <2>5, <3>2 DEF Inv, StackInv
            <4> QED BY <4>1, <2>2
        <3> QED BY <3>1, <3>2
    <2>6. ASSUME NEW i \in 1..m + 1, NEW j \in 1..m + 1, i < j
          PROVE  indices'[stack'[i]] < indices'[stack'[j]]
        <3>1. i \in 1..m /\ indices'[stack'[i]] = indices[stack[i]]
            BY <2>1, <2>2, <2>3, <2>6
        <3>2. CASE j = m + 1
            BY <1>s, <2>1, <2>2, <3>1, <3>2, Elements
        <3>3. CASE j # m + 1
            <4>1. j \in 1..m /\ indices'[stack'[j]] = indices[stack[j]]
                BY <2>1, <2>2, <2>3, <3>3
            <4> QED BY <1>0, <3>1, <4>1, <2>6 DEF Inv, StackInv
        <3> QED BY <3>2, <3>3
    <2> QED BY <2>2, <2>4, <2>5, <2>6 DEF StackInv
<1>2. CASE indices' = indices /\ onStack' = onStack /\ stack' = stack
    BY <1>2 DEF Inv, StackInv
<1>3. ASSUME NEW w \in Crate, Looked(w) PROVE StackInv'
    BY <1>2, <1>3 DEF Looked
<1>4. CASE Retreated
    BY <1>2, <1>4 DEF Retreated, Left
<1>5. CASE Closes
    <2>1. PICK k \in 1..m : /\ stack[k] = Top /\ Len(stack') = k - 1
                            /\ \A i \in 1..k - 1 : stack'[i] = stack[i]
        BY <1>0, <1>5 DEF Closes, Shortens
    <2>2. indices' = indices /\ \A w \in Crate : onStack'[w] <=> onStack[w] /\ indices[w] < indices[Top]
        BY <1>5 DEF Closes, Left
    <2>3. \A i, j \in 1..m : i < j => indices[stack[i]] < indices[stack[j]]
        BY <1>0 DEF Inv, StackInv
    <2>4. ASSUME NEW i \in 1..k - 1 PROVE onStack'[stack'[i]]
        <3>1. i \in 1..m /\ i < k /\ stack'[i] = stack[i]
            BY <2>1
        <3> QED BY <1>s, <2>1, <2>2, <2>3, <3>1
    <2>5. ASSUME NEW u \in Crate, onStack'[u] PROVE \E i \in 1..k - 1 : stack'[i] = u
        <3>1. PICK i \in 1..m : stack[i] = u
            BY <1>0, <2>2, <2>5 DEF Inv, StackInv
        <3>2. ~(k < i) /\ i # k
            BY <1>s, <2>1, <2>2, <2>3, <2>5, <3>1, Elements
        <3>3. i \in 1..k - 1
            BY <3>2
        <3> QED BY <2>1, <3>1, <3>3
    <2>6. ASSUME NEW i \in 1..k - 1, NEW j \in 1..k - 1, i < j
          PROVE  indices'[stack'[i]] < indices'[stack'[j]]
        BY <2>1, <2>2, <2>3, <2>6
    <2> QED BY <2>1, <2>4, <2>5, <2>6 DEF StackInv
<1>6. CASE UNCHANGED <<graph, search>>
    BY <1>2, <1>6 DEF search
<1> QED BY <1>1, <1>3, <1>4, <1>5, <1>6, StepFacts

\* A call that retreats is not the outermost one: its link leads to a crate below.
LEMMA RetreatHasCaller ==
    ASSUME Inv, Retreated
    PROVE  Len(calls) # 1 /\ lowlinks[Top] < indices[Top]
<1>1. PICK n \in Nat : n = Len(calls) /\ n # 0 /\ Top = calls[n] /\ Top \in Crate
    BY Calls DEF Retreated, Left
<1>2. n \in 1..n
    BY <1>1
<1>3. lowlinks[Top] < indices[Top]
    BY <1>1, <1>2, Elements DEF Retreated, Inv, LinkReach
<1>4. PICK u \in Crate : onStack[u] /\ indices[u] = lowlinks[Top]
    BY <1>1, <1>2 DEF Inv, LinkReach
<1>5. indices[calls[1]] <= indices[u]
    BY <1>4 DEF Inv, CallInv
<1>6. n # 1
    BY <1>1, <1>3, <1>4, <1>5, Elements
<1> QED BY <1>1, <1>3, <1>6

\* The open calls stay those of crates in the stack, in the same order.
LEMMA CallStep ==
    ASSUME Inv, [Next]_vars
    PROVE  CallInv'
<1>0. PICK n \in Nat :
            /\ n = Len(calls)
            /\ calls = <<>> <=> n = 0
            /\ \A i \in 1..n : /\ calls[i] \in Crate /\ onStack[calls[i]]
                               /\ indices[calls[i]] \in Nat
                               /\ i # n => indices[calls[i]] < indices[Top]
            /\ n # 0 => Top = calls[n] /\ Top \in Crate
    BY Calls
<1>t. TypeOK'
    BY StepType DEF Inv
<1>e. Len(calls') # 0 => calls' # <<>>
    BY EmptySeq
<1>c. /\ \A i, j \in 1..n : i < j => indices[calls[i]] < indices[calls[j]]
      /\ \A w \in Crate : onStack[w] => calls # <<>> /\ indices[calls[1]] <= indices[w]
    BY <1>0 DEF Inv, CallInv
<1>1. ASSUME NEW v \in Crate, Entered(v) PROVE CallInv'
    <2>1. /\ indices'[v] = index /\ onStack'[v] /\ ~onStack[v]
          /\ \A u \in Crate \ {v} : indices'[u] = indices[u] /\ onStack'[u] = onStack[u]
        BY <1>1, Elements DEF Entered
    <2>2. Len(calls') = n + 1 /\ calls'[n + 1] = v /\ \A i \in 1..n : calls'[i] = calls[i]
        BY <1>0, <1>1 DEF Entered, Extends
    <2>3. \A i \in 1..n : calls'[i] \in Crate \ {v}
        BY <1>0, <2>1, <2>2
    <2>4. ASSUME NEW i \in 1..n + 1 PROVE onStack'[calls'[i]]
        BY <1>0, <2>1, <2>2, <2>3
    <2>5. ASSUME NEW i \in 1..n + 1, NEW j \in 1..n + 1, i < j
          PROVE  indices'[calls'[i]] < indices'[calls'[j]]
        <3>1. i \in 1..n /\ indices'[calls'[i]] = indices[calls[i]]
            BY <2>1, <2>2, <2>3, <2>5
        <3>2. CASE j = n + 1
            BY <1>0, <2>1, <2>2, <3>1, <3>2, Elements
        <3>3. CASE j # n + 1
            <4>1. j \in 1..n /\ indices'[calls'[j]] = indices[calls[j]]
                BY <2>1, <2>2, <2>3, <3>3
            <4> QED BY <1>c, <3>1, <4>1, <2>5
        <3> QED BY <3>2, <3>3
    <2>6. ASSUME NEW w \in Crate, onStack'[w] PROVE indices'[calls'[1]] <= indices'[w]
        <3>1. CASE n = 0
            <4>1. w = v
                BY <1>0, <1>c, <2>1, <2>6, <3>1
            <4>2. calls'[1] = v
                BY <2>2, <3>1
            <4> QED BY <4>1, <4>2, <2>1, Elements
        <3>2. CASE n # 0
            <4>1. 1 \in 1..n
                BY <3>2
            <4>2. indices'[calls'[1]] = indices[calls[1]] /\ calls[1] \in Crate
                BY <4>1, <1>0, <2>1, <2>2, <2>3
            <4>3. CASE w = v
                BY <4>2, <4>3, <2>1, Elements
            <4>4. CASE w # v
                BY <1>c, <2>1, <2>6, <4>2, <4>4
            <4> QED BY <4>3, <4>4
        <3> QED BY <3>1, <3>2
    <2>7. calls' # <<>>
        BY <1>e, <2>2
    <2> QED BY <2>2, <2>4, <2>5, <2>6, <2>7 DEF CallInv
<1>2. CASE indices' = indices /\ onStack' = onStack /\ calls' = calls
    BY <1>2 DEF Inv, CallInv
<1>3. ASSUME NEW w \in Crate, Looked(w) PROVE CallInv'
    BY <1>2, <1>3 DEF Looked
<1>4. ASSUME Left, \A w \in Crate : onStack'[w] => onStack[w] /\ n # 1,
             \A i \in 1..n - 1 : onStack'[calls[i]]
      PROVE  CallInv'
    <2>1. /\ indices' = indices /\ n # 0 /\ Len(calls') = n - 1
          /\ \A i \in 1..n - 1 : calls'[i] = calls[i]
        BY <1>0, <1>4 DEF Left, Shortens
    <2>2. \A i \in 1..n - 1 : i \in 1..n
        BY <2>1
    <2>3. \A i \in 1..n - 1 : onStack'[calls'[i]]
        BY <1>4, <2>1
    <2>4. \A i, j \in 1..n - 1 : i < j => indices'[calls'[i]] < indices'[calls'[j]]
        BY <1>c, <2>1, <2>2
    <2>5. ASSUME NEW w \in Crate, onStack'[w]
          PROVE  calls' # <<>> /\ indices'[calls'[1]] <= indices'[w]
        <3>1. 1 \in 1..n - 1 /\ Len(calls') # 0
            BY <1>4, <2>1, <2>5
        <3> QED BY <1>c, <1>e, <1>4, <2>1, <2>5, <3>1
    <2> QED BY <2>1, <2>3, <2>4, <2>5 DEF CallInv
<1>5. CASE Retreated
    <2>1. Left /\ onStack' = onStack /\ n # 1
        BY <1>0, <1>5, RetreatHasCaller DEF Retreated
    <2>2. \A i \in 1..n - 1 : onStack'[calls[i]]
        BY <1>0, <2>1
    <2> QED BY <1>4, <2>1, <2>2
<1>6. CASE Closes
    <2>1. Left /\ \A w \in Crate : onStack'[w] <=> onStack[w] /\ indices[w] < indices[Top]
        BY <1>6 DEF Closes
    <2>2. ASSUME NEW w \in Crate, onStack'[w] PROVE n # 1
        BY <1>0, <1>c, <2>1, <2>2, Elements
    <2>3. ASSUME NEW i \in 1..n - 1 PROVE onStack'[calls[i]]
        <3>1. i \in 1..n /\ i # n
            BY <2>3
        <3> QED BY <1>0, <2>1, <3>1
    <2> QED BY <1>4, <2>1, <2>2, <2>3
<1>7. CASE UNCHANGED <<graph, search>>
    BY <1>2, <1>7 DEF search
<1> QED BY <1>1, <1>3, <1>5, <1>6, <1>7, StepFacts

\* A successor that is no longer pending has an index.
LEMMA SuccsStep ==
    ASSUME Inv, [Next]_vars
    PROVE  SuccsInv'
<1>0. PICK n \in Nat :
            /\ n = Len(calls)
            /\ calls = <<>> <=> n = 0
            /\ \A i \in 1..n : /\ calls[i] \in Crate /\ onStack[calls[i]]
                               /\ indices[calls[i]] \in Nat
                               /\ i # n => indices[calls[i]] < indices[Top]
            /\ n # 0 => Top = calls[n] /\ Top \in Crate
    BY Calls
<1>s. /\ \A v \in Crate : \A w \in succs[v] : <<v, w>> \in edges
      /\ \A v, w \in Crate :
            <<v, w>> \in edges /\ indices[v] # None /\ w \notin succs[v] => indices[w] # None
      /\ \A v \in Crate : indices[v] # None /\ ~OnCall(v) => succs[v] = {}
    BY DEF Inv, SuccsInv
<1>d. edges' = edges
    BY EdgeStep
<1>1. ASSUME NEW x \in Crate, Entered(x) PROVE SuccsInv'
    <2>1. /\ indices'[x] = index /\ index \in Nat /\ indices[x] = None
          /\ \A u \in Crate \ {x} : indices'[u] = indices[u]
          /\ succs'[x] = Successors(x)
          /\ \A u \in Crate \ {x} :
                succs'[u] = IF calls # <<>> /\ u = Top THEN succs[u] \ {x} ELSE succs[u]
        BY <1>1, Elements DEF Entered
    <2>2. Len(calls') = n + 1 /\ calls'[n + 1] = x /\ \A i \in 1..n : calls'[i] = calls[i]
        BY <1>0, <1>1 DEF Entered, Extends
    <2>3. ASSUME NEW v \in Crate, NEW w \in succs'[v] PROVE <<v, w>> \in edges'
        BY <1>d, <1>s, <2>1, <2>3 DEF Successors
    <2>4. ASSUME NEW v \in Crate, NEW w \in Crate,
                 <<v, w>> \in edges', indices'[v] # None, w \notin succs'[v]
          PROVE  indices'[w] # None
        <3>1. CASE w = x
            BY <2>1, <3>1 DEF None
        <3>2. CASE w # x
            <4>1. v # x
                BY <1>d, <2>1, <2>4 DEF Successors
            <4> QED BY <1>d, <1>s, <2>1, <2>4, <3>2, <4>1
        <3> QED BY <3>1, <3>2
    <2>5. ASSUME NEW v \in Crate, indices'[v] # None, ~OnCall(v)' PROVE succs'[v] = {}
        <3>1. v # x
            BY <2>2, <2>5 DEF OnCall
        <3>2. ~OnCall(v)
            <4>1. ASSUME NEW i \in 1..n, calls[i] = v PROVE FALSE
                <5>1. i \in 1..n + 1 /\ calls'[i] = v
                    BY <2>2, <4>1
                <5> QED BY <2>2, <2>5, <5>1 DEF OnCall
            <4> QED BY <1>0, <4>1 DEF OnCall
        <3> QED BY <1>s, <2>1, <2>5, <3>1, <3>2
    <2> QED BY <2>3, <2>4, <2>5 DEF SuccsInv
<1>2. ASSUME NEW x \in Crate, Looked(x) PROVE SuccsInv'
    <2>1. /\ indices' = indices /\ calls' = calls /\ indices[x] # None /\ n # 0
          /\ \A u \in Crate : succs'[u] = IF u = Top THEN succs[u] \ {x} ELSE succs[u]
        BY <1>0, <1>2 DEF Looked
    <2>2. \A v \in Crate : OnCall(v)' <=> OnCall(v)
        BY <2>1 DEF OnCall
    <2>3. \A v \in Crate : \A w \in succs'[v] : <<v, w>> \in edges'
        BY <1>d, <1>s, <2>1
    <2>4. ASSUME NEW v \in Crate, NEW w \in Crate,
                 <<v, w>> \in edges', indices'[v] # None, w \notin succs'[v]
          PROVE  indices'[w] # None
        BY <1>d, <1>s, <2>1, <2>4
    <2>5. ASSUME NEW v \in Crate, indices'[v] # None, ~OnCall(v)' PROVE succs'[v] = {}
        BY <1>s, <2>1, <2>2, <2>5
    <2> QED BY <2>3, <2>4, <2>5 DEF SuccsInv
<1>3. CASE Left
    <2>1. /\ indices' = indices /\ succs' = succs /\ succs[Top] = {} /\ n # 0
          /\ Len(calls') = n - 1 /\ \A i \in 1..n - 1 : calls'[i] = calls[i]
        BY <1>0, <1>3 DEF Left, Shortens
    <2>2. ASSUME NEW v \in Crate, indices'[v] # None, ~OnCall(v)' PROVE succs'[v] = {}
        <3>1. CASE OnCall(v)
            <4>1. PICK i \in 1..n : calls[i] = v
                BY <1>0, <3>1 DEF OnCall
            <4>2. i \notin 1..n - 1
                BY <2>1, <2>2, <4>1 DEF OnCall
            <4>3. i = n
                BY <4>2
            <4> QED BY <1>0, <2>1, <4>1, <4>3
        <3>2. CASE ~OnCall(v)
            BY <1>s, <2>1, <2>2, <3>2
        <3> QED BY <3>1, <3>2
    <2> QED BY <1>d, <1>s, <2>1, <2>2 DEF SuccsInv
<1>4. CASE UNCHANGED <<graph, search>>
    <2>1. \A v \in Crate : OnCall(v)' <=> OnCall(v)
        BY <1>4 DEF search, OnCall
    <2> QED BY <1>d, <1>s, <1>4, <2>1 DEF search, SuccsInv
<1> QED BY <1>1, <1>2, <1>3, <1>4, StepFacts DEF Retreated, Closes

\* A crate with an open call goes on reaching what lies above it.
LEMMA AboveStep ==
    ASSUME Inv, [Next]_vars
    PROVE  Above'
<1>0. PICK n \in Nat :
            /\ n = Len(calls)
            /\ calls = <<>> <=> n = 0
            /\ \A i \in 1..n : calls[i] \in Crate /\ indices[calls[i]] <= indices[Top]
            /\ n # 0 => Top \in Crate /\ onStack[Top]
    BY Calls
<1>a. \A i \in 1..n, w \in Crate :
        onStack[w] /\ indices[calls[i]] <= indices[w] => Reaches(calls[i], w)
    BY <1>0 DEF Inv, Above
<1>d. edges' = edges
    BY EdgeStep
<1>1. ASSUME NEW v \in Crate, Entered(v) PROVE Above'
    <2>1. /\ indices'[v] = index /\ ~onStack[v] /\ (calls # <<>> => <<Top, v>> \in edges)
          /\ \A u \in Crate \ {v} : indices'[u] = indices[u] /\ onStack'[u] = onStack[u]
        BY <1>1, Elements DEF Entered
    <2>2. Len(calls') = n + 1 /\ calls'[n + 1] = v /\ \A i \in 1..n : calls'[i] = calls[i]
        BY <1>0, <1>1 DEF Entered, Extends
    <2>3. SUFFICES ASSUME NEW i \in 1..n + 1, NEW w \in Crate,
                          onStack'[w], indices'[calls'[i]] <= indices'[w]
                   PROVE  Reaches(calls'[i], w)
        BY <1>d, <2>2, ReachesStays DEF Above
    <2>4. CASE i = n + 1
        <3>1. w = v
            BY <2>1, <2>2, <2>3, <2>4, Elements
        <3> QED BY <2>2, <2>4, <3>1, ReachesSelf
    <2>5. CASE i # n + 1 /\ w = v
        <3>1. i \in 1..n /\ calls # <<>>
            BY <1>0, <2>5
        <3>2. Reaches(calls[i], Top) /\ Reaches(Top, v)
            BY <1>0, <1>a, <2>1, <3>1, ReachesByEdge
        <3> QED BY <2>2, <2>5, <3>1, <3>2, ReachesOn
    <2>6. CASE i # n + 1 /\ w # v
        <3>1. i \in 1..n
            BY <2>6
        <3>2. CASE calls[i] = v
            BY <1>a, <2>1, <2>2, <2>3, <2>6, <3>1, <3>2, Elements
        <3>3. CASE calls[i] # v
            BY <1>0, <1>a, <2>1, <2>2, <2>3, <2>6, <3>1, <3>3
        <3> QED BY <3>2, <3>3
    <2> QED BY <2>4, <2>5, <2>6
<1>2. ASSUME indices' = indices, \A w \in Crate : onStack'[w] => onStack[w],
             Len(calls') <= n, Len(calls') \in Nat, \A i \in 1..Len(calls') : calls'[i] = calls[i]
      PROVE  Above'
    <2> PICK m \in Nat : m = Len(calls') /\ m <= n
        BY <1>2
    <2>1. \A i \in 1..m : i \in 1..n /\ calls'[i] = calls[i]
        BY <1>2
    <2>2. SUFFICES ASSUME NEW i \in 1..m, NEW w \in Crate,
                          onStack'[w], indices'[calls'[i]] <= indices'[w]
                   PROVE  Reaches(calls'[i], w)
        BY <1>d, ReachesStays DEF Above
    <2> QED BY <1>2, <1>a, <2>1, <2>2
<1>3. ASSUME NEW w \in Crate, Looked(w) PROVE Above'
    BY <1>0, <1>2, <1>3 DEF Looked
<1>4. CASE Left /\ \A w \in Crate : onStack'[w] => onStack[w]
    <2>1. indices' = indices /\ n # 0 /\ Len(calls') = n - 1 /\ \A i \in 1..n - 1 : calls'[i] = calls[i]
        BY <1>0, <1>4 DEF Left, Shortens
    <2> QED BY <1>2, <1>4, <2>1
<1>5. CASE Retreated
    BY <1>4, <1>5 DEF Retreated
<1>6. CASE Closes
    BY <1>4, <1>6 DEF Closes
<1>7. CASE UNCHANGED <<graph, search>>
    BY <1>0, <1>2, <1>7 DEF search
<1> QED BY <1>1, <1>3, <1>5, <1>6, <1>7, StepFacts

\* A crate whose call has ended goes on reaching one below it in the stack.
LEMMA BelowStep ==
    ASSUME Inv, [Next]_vars
    PROVE  Below'
<1>0. PICK n \in Nat :
            /\ n = Len(calls)
            /\ calls = <<>> <=> n = 0
            /\ \A i \in 1..n : calls[i] \in Crate
            /\ n # 0 => Top = calls[n] /\ Top \in Crate
    BY Calls
<1>b. \A w \in Crate : onStack[w] /\ ~OnCall(w) =>
        \E u \in Crate : onStack[u] /\ indices[u] < indices[w] /\ Reaches(w, u)
    BY DEF Inv, Below
<1>d. edges' = edges
    BY EdgeStep
<1>g. SUFFICES ASSUME NEW w \in Crate, onStack'[w], ~OnCall(w)'
               PROVE  \E u \in Crate : onStack'[u] /\ indices'[u] < indices'[w] /\ Reaches(w, u)
    BY <1>d, ReachesStays DEF Below
<1>1. ASSUME NEW v \in Crate, Entered(v)
      PROVE  \E u \in Crate : onStack'[u] /\ indices'[u] < indices'[w] /\ Reaches(w, u)
    <2>1. /\ ~onStack[v]
          /\ \A u \in Crate \ {v} : indices'[u] = indices[u] /\ onStack'[u] = onStack[u]
        BY <1>1, Elements DEF Entered
    <2>2. Len(calls') = n + 1 /\ calls'[n + 1] = v /\ \A i \in 1..n : calls'[i] = calls[i]
        BY <1>0, <1>1 DEF Entered, Extends
    <2>3. w # v
        BY <1>g, <2>2 DEF OnCall
    <2>4. ~OnCall(w)
        <3>1. ASSUME NEW i \in 1..n, calls[i] = w PROVE FALSE
            <4>1. i \in 1..n + 1 /\ calls'[i] = w
                BY <2>2, <3>1
            <4> QED BY <1>g, <2>2, <4>1 DEF OnCall
        <3> QED BY <1>0, <3>1 DEF OnCall
    <2>5. PICK u \in Crate : onStack[u] /\ indices[u] < indices[w] /\ Reaches(w, u)
        BY <1>b, <1>g, <2>1, <2>3, <2>4
    <2>6. u # v
        BY <2>1, <2>5
    <2> QED BY <2>1, <2>3, <2>5, <2>6
<1>2. CASE indices' = indices /\ onStack' = onStack /\ calls' = calls
    <2>1. ~OnCall(w)
        BY <1>2, <1>g DEF OnCall
    <2> QED BY <1>2, <1>b, <1>g, <2>1
<1>3. ASSUME NEW x \in Crate, Looked(x)
      PROVE  \E u \in Crate : onStack'[u] /\ indices'[u] < indices'[w] /\ Reaches(w, u)
    BY <1>2, <1>3 DEF Looked
<1>4. ASSUME Left, w # Top PROVE ~OnCall(w)
    <2>1. n # 0 /\ Len(calls') = n - 1 /\ \A i \in 1..n - 1 : calls'[i] = calls[i]
        BY <1>0, <1>4 DEF Left, Shortens
    <2>2. ASSUME NEW i \in 1..n, calls[i] = w PROVE FALSE
        <3>1. i # n
            BY <1>0, <1>4, <2>1, <2>2
        <3>2. i \in 1..n - 1
            BY <3>1
        <3> QED BY <1>g, <2>1, <2>2, <3>2 DEF OnCall
    <2> QED BY <1>0, <2>2 DEF OnCall
<1>5. CASE Retreated
    <2>1. indices' = indices /\ onStack' = onStack /\ n # 0
        BY <1>0, <1>5 DEF Retreated, Left
    <2>2. CASE w = Top
        <3>1. n \in 1..n /\ Top = calls[n]
            BY <1>0, <2>1
        <3>2. PICK u \in Crate : onStack[u] /\ indices[u] = lowlinks[Top] /\ Reaches(Top, u)
            BY <1>0, <3>1 DEF Inv, LinkReach
        <3> QED BY <1>5, <2>1, <2>2, <3>2, RetreatHasCaller
    <2>3. CASE w # Top
        BY <1>4, <1>5, <1>b, <1>g, <2>1, <2>3 DEF Retreated
    <2> QED BY <2>2, <2>3
<1>6. CASE Closes
    <2>1. /\ indices' = indices /\ n # 0
          /\ \A u \in Crate : onStack'[u] <=> onStack[u] /\ indices[u] < indices[Top]
        BY <1>0, <1>6 DEF Closes, Left
    <2>2. onStack[w] /\ indices[w] < indices[Top] /\ w # Top
        BY <1>0, <1>g, <2>1, Elements
    <2>3. PICK u \in Crate : onStack[u] /\ indices[u] < indices[w] /\ Reaches(w, u)
        BY <1>4, <1>6, <1>b, <2>2 DEF Closes
    <2>4. indices[u] < indices[Top]
        BY <1>0, <2>1, <2>2, <2>3, Elements
    <2> QED BY <2>1, <2>3, <2>4
<1>7. CASE UNCHANGED <<graph, search>>
    BY <1>2, <1>7 DEF search
<1> QED BY <1>1, <1>3, <1>5, <1>6, <1>7, StepFacts

\* A link goes on being the index of a crate in the stack that can be reached.
LEMMA LinkReachStep ==
    ASSUME Inv, [Next]_vars
    PROVE  LinkReach'
<1>0. PICK n \in Nat :
            /\ n = Len(calls)
            /\ calls = <<>> <=> n = 0
            /\ \A i \in 1..n : /\ calls[i] \in Crate /\ onStack[calls[i]]
                               /\ indices[calls[i]] \in Nat /\ lowlinks[calls[i]] \in Nat
                               /\ i # n => indices[calls[i]] < indices[Top]
            /\ n # 0 => Top = calls[n] /\ Top \in Crate /\ onStack[Top]
    BY Calls
<1>l. \A i \in 1..n :
        /\ lowlinks[calls[i]] <= indices[calls[i]]
        /\ \E u \in Crate : onStack[u] /\ indices[u] = lowlinks[calls[i]] /\ Reaches(calls[i], u)
    BY <1>0 DEF Inv, LinkReach
<1>d. edges' = edges
    BY EdgeStep
<1>g. SUFFICES ASSUME NEW i \in 1..Len(calls')
               PROVE  /\ lowlinks'[calls'[i]] <= indices'[calls'[i]]
                      /\ \E u \in Crate : /\ onStack'[u]
                                          /\ indices'[u] = lowlinks'[calls'[i]]
                                          /\ Reaches(calls'[i], u)
    BY <1>d, ReachesStays DEF LinkReach
<1> DEFINE Goal == /\ lowlinks'[calls'[i]] <= indices'[calls'[i]]
                   /\ \E u \in Crate : /\ onStack'[u]
                                       /\ indices'[u] = lowlinks'[calls'[i]]
                                       /\ Reaches(calls'[i], u)
<1>1. ASSUME NEW v \in Crate, Entered(v) PROVE Goal
    <2>1. /\ indices'[v] = index /\ index \in Nat /\ lowlinks'[v] = index /\ onStack'[v] /\ ~onStack[v]
          /\ \A u \in Crate \ {v} : /\ indices'[u] = indices[u] /\ onStack'[u] = onStack[u]
                                    /\ lowlinks'[u] = lowlinks[u]
        BY <1>1, Elements DEF Entered
    <2>2. Len(calls') = n + 1 /\ calls'[n + 1] = v /\ \A j \in 1..n : calls'[j] = calls[j]
        BY <1>0, <1>1 DEF Entered, Extends
    <2>3. CASE i = n + 1
        BY <2>1, <2>2, <2>3, ReachesSelf
    <2>4. CASE i # n + 1
        <3>1. i \in 1..n /\ calls'[i] = calls[i] /\ calls[i] \in Crate \ {v}
            BY <1>0, <1>g, <2>1, <2>2, <2>4
        <3>2. PICK u \in Crate : onStack[u] /\ indices[u] = lowlinks[calls[i]] /\ Reaches(calls[i], u)
            BY <1>l, <3>1
        <3>3. u # v
            BY <2>1, <3>2
        <3> QED BY <1>l, <2>1, <3>1, <3>2, <3>3
    <2> QED BY <2>3, <2>4
<1>2. CASE indices' = indices /\ onStack' = onStack /\ calls' = calls /\ lowlinks' = lowlinks
    BY <1>0, <1>2, <1>l, <1>g
<1>3. ASSUME NEW w \in Crate, Looked(w) PROVE Goal
    <2>1. /\ indices' = indices /\ onStack' = onStack /\ calls' = calls /\ n # 0 /\ w \in succs[Top]
          /\ \A u \in Crate \ {Top} : lowlinks'[u] = lowlinks[u]
          /\ lowlinks'[Top] =
                IF onStack[w] /\ indices[w] <= lowlinks[Top] THEN indices[w] ELSE lowlinks[Top]
        BY <1>0, <1>3 DEF Looked
    <2>2. i \in 1..n /\ calls'[i] = calls[i]
        BY <1>0, <1>g, <2>1
    <2>3. CASE calls[i] = Top /\ onStack[w] /\ indices[w] <= lowlinks[Top]
        <3>1. Reaches(Top, w)
            BY <1>0, <2>1, ReachesByEdge DEF Inv, SuccsInv
        <3>2. indices[w] <= indices[Top]
            BY <1>0, <1>l, <2>2, <2>3, Elements
        <3> QED BY <2>1, <2>2, <2>3, <3>1, <3>2
    <2>4. CASE ~(calls[i] = Top /\ onStack[w] /\ indices[w] <= lowlinks[Top])
        <3>1. lowlinks'[calls[i]] = lowlinks[calls[i]]
            BY <1>0, <2>1, <2>2, <2>4
        <3> QED BY <1>l, <2>1, <2>2, <3>1
    <2> QED BY <2>3, <2>4
<1>4. ASSUME Left
      PROVE  /\ indices' = indices /\ n # 0 /\ i \in 1..n - 1 /\ i \in 1..n /\ i # n
             /\ calls'[i] = calls[i]
             /\ lowlinks'[calls[i]] =
                    IF i = n - 1 /\ lowlinks[Top] < lowlinks[calls[i]]
                    THEN lowlinks[Top] ELSE lowlinks[calls[i]]
    <2>1. indices' = indices /\ n # 0 /\ Len(calls') = n - 1
        BY <1>0, <1>4 DEF Left, Shortens
    <2>2. i \in 1..n - 1 /\ i \in 1..n /\ i # n
        BY <1>g, <2>1
    <2> QED BY <1>0, <1>4, <2>1, <2>2 DEF Left, Shortens
<1>5. CASE Retreated
    <2>1. onStack' = onStack
        BY <1>5 DEF Retreated
    <2>2. CASE lowlinks[Top] < lowlinks[calls[i]] /\ i = n - 1
        <3>1. n \in 1..n /\ lowlinks'[calls[i]] = lowlinks[Top]
            BY <1>0, <1>4, <1>5, <2>2 DEF Retreated
        <3>2. PICK u \in Crate : onStack[u] /\ indices[u] = lowlinks[Top] /\ Reaches(Top, u)
            BY <1>0, <1>l, <3>1
        <3>3. Reaches(calls[i], Top)
            BY <1>0, <1>4, <1>5, Elements DEF Retreated, Inv, Above
        <3>4. Reaches(calls[i], u)
            BY <3>2, <3>3, ReachesOn
        <3>5. lowlinks[Top] <= indices[calls[i]]
            <4>1. i \in 1..n
                BY <1>4, <1>5 DEF Retreated
            <4>2. lowlinks[Top] \in Nat /\ lowlinks[calls[i]] \in Nat /\ indices[calls[i]] \in Nat
                BY <1>0, <3>1, <4>1
            <4>3. lowlinks[calls[i]] <= indices[calls[i]]
                BY <1>l, <4>1
            <4> QED BY <2>2, <4>2, <4>3
        <3> QED BY <1>4, <1>5, <2>1, <3>1, <3>2, <3>4, <3>5 DEF Retreated
    <2>3. CASE ~(lowlinks[Top] < lowlinks[calls[i]] /\ i = n - 1)
        BY <1>l, <1>4, <1>5, <2>1, <2>3 DEF Retreated
    <2> QED BY <2>2, <2>3
<1>6. CASE Closes
    <2>1. \A u \in Crate : onStack'[u] <=> onStack[u] /\ indices[u] < indices[Top]
        BY <1>6 DEF Closes
    <2>2. indices[calls[i]] < indices[Top] /\ lowlinks[calls[i]] <= indices[calls[i]]
        BY <1>0, <1>l, <1>4, <1>6 DEF Closes
    <2>3. lowlinks'[calls[i]] = lowlinks[calls[i]]
        <3>1. lowlinks[Top] = indices[Top] /\ Top \in Crate
            BY <1>0, <1>4, <1>6 DEF Closes
        <3> QED BY <1>0, <1>4, <1>6, <2>2, <3>1, Elements DEF Closes
    <2>4. PICK u \in Crate : onStack[u] /\ indices[u] = lowlinks[calls[i]] /\ Reaches(calls[i], u)
        BY <1>l, <1>4, <1>6 DEF Closes
    <2>5. onStack'[u]
        <3>1. Top \in Crate /\ calls[i] \in Crate
            BY <1>0, <1>4, <1>6 DEF Closes
        <3>2. indices[u] \in Int /\ indices[calls[i]] \in Int /\ indices[Top] \in Int
            BY <3>1, Elements
        <3>3. indices[u] < indices[Top]
            BY <2>2, <2>4, <3>2
        <3> QED BY <2>1, <2>4, <3>3
    <2> QED BY <1>4, <1>6, <2>2, <2>3, <2>4, <2>5 DEF Closes
<1>7. CASE UNCHANGED <<graph, search>>
    BY <1>2, <1>7 DEF search
<1> QED BY <1>1, <1>3, <1>5, <1>6, <1>7, StepFacts

\* A link stays below the index of every successor looked at in the stack.
LEMMA LinkBoundStep ==
    ASSUME Inv, [Next]_vars
    PROVE  LinkBound'
<1>0. PICK n \in Nat :
            /\ n = Len(calls)
            /\ calls = <<>> <=> n = 0
            /\ \A i \in 1..n : /\ calls[i] \in Crate /\ onStack[calls[i]]
                               /\ indices[calls[i]] \in Nat /\ lowlinks[calls[i]] \in Nat
                               /\ indices[calls[i]] <= indices[Top]
            /\ n # 0 => Top = calls[n] /\ Top \in Crate /\ onStack[Top]
    BY Calls
<1>l. \A i \in 1..n : lowlinks[calls[i]] <= indices[calls[i]]
    BY <1>0 DEF Inv, LinkReach
<1>b. \A i \in 1..n, v, w \in Crate :
        /\ onStack[v] /\ onStack[w]
        /\ <<v, w>> \in edges /\ w \notin succs[v]
        /\ indices[calls[i]] <= indices[v]
        /\ i < n => indices[v] < indices[calls[i + 1]]
        => lowlinks[calls[i]] <= indices[w]
    BY <1>0 DEF Inv, LinkBound
<1>d. edges' = edges
    BY EdgeStep
<1>g. SUFFICES ASSUME NEW i \in 1..Len(calls'), NEW v \in Crate, NEW w \in Crate,
                      onStack'[v], onStack'[w], <<v, w>> \in edges', w \notin succs'[v],
                      indices'[calls'[i]] <= indices'[v],
                      i < Len(calls') => indices'[v] < indices'[calls'[i + 1]]
               PROVE  lowlinks'[calls'[i]] <= indices'[w]
    BY DEF LinkBound
<1>1. ASSUME NEW x \in Crate, Entered(x) PROVE lowlinks'[calls'[i]] <= indices'[w]
    <2>1. /\ indices'[x] = index /\ ~onStack[x] /\ succs'[x] = Successors(x)
          /\ \A u \in Crate \ {x} :
                /\ indices'[u] = indices[u] /\ onStack'[u] = onStack[u] /\ lowlinks'[u] = lowlinks[u]
                /\ succs'[u] = IF calls # <<>> /\ u = Top THEN succs[u] \ {x} ELSE succs[u]
        BY <1>1, Elements DEF Entered
    <2>2. Len(calls') = n + 1 /\ calls'[n + 1] = x /\ \A j \in 1..n : calls'[j] = calls[j]
        BY <1>0, <1>1 DEF Entered, Extends
    <2>3. v # x
        BY <1>d, <1>g, <2>1 DEF Successors
    <2>4. i \in 1..n
        <3>1. i \in 1..n + 1
            BY <2>2
        <3>2. indices'[v] = indices[v] /\ indices[v] < index /\ indices[v] \in Int /\ index \in Nat
            BY <2>1, <2>3, Elements
        <3>3. i # n + 1
            BY <1>g, <2>1, <2>2, <3>2
        <3> QED BY <3>1, <3>3
    <2>5. calls'[i] = calls[i] /\ calls[i] \in Crate \ {x}
        BY <1>0, <2>1, <2>2, <2>4
    <2>6. CASE w = x
        <3>1. lowlinks[calls[i]] <= indices[calls[i]] /\ indices[calls[i]] < index
            BY <1>l, <2>4, <2>5, Elements
        <3>2. lowlinks[calls[i]] \in Nat /\ indices[calls[i]] \in Nat /\ index \in Nat
            BY <1>0, <2>4, <2>5, Elements
        <3>3. lowlinks[calls[i]] <= index
            BY <3>1, <3>2
        <3>4. PICK c \in Crate \ {x} : c = calls[i] /\ c = calls'[i]
            BY <2>5
        <3>5. lowlinks'[c] = lowlinks[c] /\ indices'[w] = index
            BY <2>1, <2>6
        <3> QED BY <3>3, <3>4, <3>5
    <2>7. CASE w # x
        <3>1. i < n => indices[v] < indices[calls[i + 1]]
            <4> SUFFICES ASSUME i < n PROVE indices[v] < indices[calls[i + 1]]
                OBVIOUS
            <4>1. PICK j \in 1..n : j = i + 1
                BY <2>4
            <4>2. calls'[j] = calls[j] /\ calls[j] \in Crate \ {x}
                BY <1>0, <2>1, <2>2, <4>1
            <4>3. i < Len(calls')
                BY <2>2, <2>4
            <4>4. indices'[v] < indices'[calls'[j]]
                BY <1>g, <4>1, <4>3
            <4> QED BY <2>1, <2>3, <4>1, <4>2, <4>4
        <3>2. w \notin succs[v]
            BY <1>g, <2>1, <2>3, <2>7
        <3>3. onStack[v] /\ onStack[w] /\ indices[calls[i]] <= indices[v]
            BY <1>g, <2>1, <2>3, <2>5, <2>7
        <3> QED BY <1>b, <1>d, <1>g, <2>1, <2>4, <2>5, <2>7, <3>1, <3>2, <3>3
    <2> QED BY <2>6, <2>7
<1>2. CASE /\ indices' = indices /\ onStack' = onStack /\ calls' = calls
           /\ lowlinks' = lowlinks /\ succs' = succs
    BY <1>0, <1>2, <1>b, <1>d, <1>g
<1>3. ASSUME NEW x \in Crate, Looked(x) PROVE lowlinks'[calls'[i]] <= indices'[w]
    <2>1. /\ indices' = indices /\ onStack' = onStack /\ calls' = calls /\ n # 0
          /\ \A u \in Crate : succs'[u] = IF u = Top THEN succs[u] \ {x} ELSE succs[u]
          /\ \A u \in Crate \ {Top} : lowlinks'[u] = lowlinks[u]
          /\ lowlinks'[Top] =
                IF onStack[x] /\ indices[x] <= lowlinks[Top] THEN indices[x] ELSE lowlinks[Top]
        BY <1>0, <1>3 DEF Looked
    <2>2. i \in 1..n /\ calls'[i] = calls[i] /\ calls[i] \in Crate
        BY <1>0, <1>g, <2>1
    <2>3. lowlinks'[calls[i]] <= lowlinks[calls[i]] /\ lowlinks'[calls[i]] \in Int
        BY <1>0, <2>1, <2>2, Elements
    <2>4. CASE w \notin succs[v]
        <3>1. lowlinks[calls[i]] <= indices[w]
            BY <1>0, <1>b, <1>d, <1>g, <2>1, <2>2, <2>4
        <3> QED BY <1>0, <2>1, <2>2, <2>3, <3>1, Elements
    <2>5. CASE w \in succs[v]
        <3>1. v = Top /\ w = x
            BY <1>g, <2>1, <2>5
        <3>2. i = n
            <4> SUFFICES ASSUME i < n PROVE FALSE
                BY <2>2
            <4>1. PICK j \in 1..n : j = i + 1
                BY <2>2
            <4>2. indices[Top] < indices[calls[j]]
                BY <1>0, <1>g, <2>1, <3>1, <4>1
            <4>3. indices[calls[j]] <= indices[Top] /\ indices[calls[j]] \in Int /\ indices[Top] \in Int
                BY <1>0, <2>1, Elements
            <4> QED BY <4>2, <4>3
        <3> QED BY <1>0, <1>g, <2>1, <2>2, <3>1, <3>2, Elements
    <2> QED BY <2>4, <2>5
<1>4. ASSUME Left, indices[v] < indices[Top] \/ onStack' = onStack, \A u \in Crate : onStack'[u] => onStack[u]
      PROVE  lowlinks'[calls'[i]] <= indices'[w]
    <2>1. indices' = indices /\ succs' = succs /\ n # 0 /\ Len(calls') = n - 1
        BY <1>0, <1>4 DEF Left, Shortens
    <2>2. i \in 1..n - 1 /\ i \in 1..n /\ i < n
        BY <1>g, <2>1
    <2>3. /\ \A j \in 1..n - 1 : calls'[j] = calls[j]
          /\ lowlinks'[calls[i]] =
                IF i = n - 1 /\ lowlinks[Top] < lowlinks[calls[i]]
                THEN lowlinks[Top] ELSE lowlinks[calls[i]]
        BY <1>0, <1>4, <2>1, <2>2 DEF Left, Shortens
    <2>4. /\ calls'[i] = calls[i] /\ calls[i] \in Crate
          /\ lowlinks[calls[i]] \in Nat /\ lowlinks[Top] \in Nat /\ indices[w] \in Int
          /\ indices[v] \in Int /\ indices[Top] \in Int
        BY <1>0, <2>1, <2>2, <2>3, Elements
    <2>5. /\ lowlinks'[calls[i]] <= lowlinks[calls[i]]
          /\ i = n - 1 => lowlinks'[calls[i]] <= lowlinks[Top]
          /\ lowlinks'[calls[i]] \in Int
        BY <2>3, <2>4
    <2>6. onStack[v] /\ onStack[w] /\ <<v, w>> \in edges /\ w \notin succs[v] /\ indices[calls[i]] <= indices[v]
        BY <1>d, <1>g, <1>4, <2>1, <2>3, <2>4
    <2>7. CASE i # n - 1
        <3>1. PICK j \in 1..n - 1 : j = i + 1
            BY <2>2, <2>7
        <3>2. i < n - 1
            BY <2>2, <2>7
        <3>3. indices[v] < indices[calls[j]]
            BY <1>g, <2>1, <2>3, <3>1, <3>2
        <3> QED BY <1>b, <2>1, <2>2, <2>4, <2>5, <2>6, <3>1, <3>3
    <2>8. CASE i = n - 1 /\ indices[v] < indices[Top]
        <3>1. i + 1 = n
            BY <2>8
        <3>2. lowlinks[calls[i]] <= indices[w]
            BY <1>0, <1>b, <2>1, <2>2, <2>6, <2>8, <3>1
        <3> QED BY <2>1, <2>4, <2>5, <3>2
    <2>9. CASE i = n - 1 /\ ~(indices[v] < indices[Top])
        <3>1. indices[Top] <= indices[v] /\ n \in 1..n
            BY <2>1, <2>4, <2>9
        <3>2. lowlinks[Top] <= indices[w]
            BY <1>0, <1>b, <2>1, <2>6, <3>1
        <3> QED BY <2>1, <2>4, <2>5, <2>9, <3>2
    <2> QED BY <2>7, <2>8, <2>9
<1>5. CASE Retreated
    BY <1>4, <1>5 DEF Retreated
<1>6. CASE Closes
    BY <1>4, <1>6, <1>g DEF Closes
<1>7. CASE UNCHANGED <<graph, search>>
    BY <1>2, <1>7 DEF search
<1> QED BY <1>1, <1>3, <1>5, <1>6, <1>7, StepFacts

-----------------------------------------------------------------------------
(* What is popped is a component *)

\* Crates that are popped, other than the top one, have no open call.
LEMMA PoppedFacts ==
    ASSUME Inv, Closes, NEW v \in Popped
    PROVE  /\ v \in Crate /\ onStack[v] /\ indices[v] \in Nat /\ succs[v] = {}
           /\ v # Top => ~OnCall(v)
<1>1. PICK n \in Nat :
            /\ n = Len(calls) /\ n # 0
            /\ \A i \in 1..n : indices[calls[i]] \in Nat /\ (i # n => indices[calls[i]] < indices[Top])
            /\ Top = calls[n] /\ Top \in Crate
    BY Calls DEF Closes, Left
<1>2. v \in Crate /\ onStack[v] /\ indices[Top] <= indices[v]
    BY DEF Popped
<1>3. indices[v] \in Nat /\ indices[v] # None
    BY <1>2, Elements
<1>4. ASSUME v # Top, NEW i \in 1..n, calls[i] = v PROVE FALSE
    BY <1>1, <1>2, <1>4, Elements
<1>5. v # Top => ~OnCall(v)
    BY <1>1, <1>4 DEF OnCall
<1>6. succs[v] = {}
    BY <1>2, <1>3, <1>5 DEF Inv, SuccsInv, Closes, Left
<1> QED BY <1>2, <1>3, <1>5, <1>6

\* No edge leads from the crates popped to the rest of the stack, or to a crate
\* the search has not come to.
LEMMA PoppedClosed ==
    ASSUME Inv, Closes, NEW v \in Popped, NEW w \in Crate, <<v, w>> \in edges
    PROVE  w \in Popped \/ Emitted(w)
<1>1. PICK n \in Nat : n = Len(calls) /\ n # 0 /\ Top = calls[n] /\ Top \in Crate
    BY Calls DEF Closes, Left
<1>2. v \in Crate /\ onStack[v] /\ indices[v] # None /\ succs[v] = {}
    BY PoppedFacts DEF None
<1>3. indices[w] # None
    BY <1>2 DEF Inv, SuccsInv
<1>4. CASE onStack[w]
    <2>1. n \in 1..n /\ indices[Top] <= indices[v]
        BY <1>1 DEF Popped
    <2>2. lowlinks[Top] <= indices[w]
        BY <1>1, <1>2, <1>4, <2>1 DEF Inv, LinkBound
    <2> QED BY <1>4, <2>2 DEF Closes, Popped
<1>5. CASE ~onStack[w]
    BY <1>3, <1>5 DEF Emitted
<1> QED BY <1>4, <1>5

\* The crates out of the stack are closed under the edges, and so are they
\* together with those popped.
LEMMA OutIsClosed ==
    ASSUME Inv
    PROVE  /\ Closed({u \in Crate : Emitted(u)})
           /\ Closes => Closed({u \in Crate : Emitted(u)} \cup Popped)
<1>1. \A e \in edges : e = <<e[1], e[2]>> /\ e[1] \in Crate /\ e[2] \in Crate
    BY DEF Inv, TypeOK
<1>2. ASSUME NEW e \in edges, Emitted(e[1]) PROVE Emitted(e[2])
    BY <1>1, <1>2 DEF Inv, EmittedInv
<1>3. ASSUME Closes, NEW e \in edges, e[1] \in Popped PROVE Emitted(e[2]) \/ e[2] \in Popped
    BY <1>1, <1>3, PoppedClosed
<1> QED BY <1>1, <1>2, <1>3 DEF Closed

\* Going down from a crate that is popped ends at the top crate.
LEMMA PoppedReachesTop ==
    ASSUME Inv, Closes, NEW v \in Popped
    PROVE  Reaches(v, Top)
<1> SUFFICES ASSUME ~Reaches(v, Top) PROVE FALSE
    OBVIOUS
<1> DEFINE Stuck == {x \in Popped : ~Reaches(x, Top)}
           R == {indices[x] : x \in Stuck}
<1>1. R \subseteq Nat /\ R # {}
    BY PoppedFacts
<1>2. PICK r \in R : \A s \in R : r <= s
    BY <1>1, LeastNatural
<1>3. PICK x \in Stuck : r = indices[x]
    BY <1>2
<1>4. x # Top
    BY <1>3, ReachesSelf
<1>5. PICK u \in Crate : onStack[u] /\ indices[u] < indices[x] /\ Reaches(x, u)
    BY <1>3, <1>4, PoppedFacts DEF Inv, Below
<1>6. u \in Popped
    <2> DEFINE S == {y \in Crate : Emitted(y)} \cup Popped
    <2>1. S \in SUBSET Crate /\ Closed(S) /\ x \in S
        BY <1>3, OutIsClosed DEF Popped
    <2>2. u \in S
        BY <1>5, <2>1 DEF Reaches
    <2> QED BY <1>5, <2>2 DEF Emitted
<1>7. u \notin Stuck
    <2>1. indices[u] \in Nat /\ indices[x] \in Nat
        BY <1>3, <1>6, PoppedFacts
    <2> QED BY <1>2, <1>3, <1>5, <2>1
<1> QED BY <1>3, <1>5, <1>6, <1>7, ReachesOn

\* The crates popped are one class of mutual reachability.
LEMMA PoppedIsClass ==
    ASSUME Inv, Closes, NEW a \in Popped, NEW b \in Crate
    PROVE  b \in Popped <=> Mutual(a, b)
<1>1. PICK n \in Nat : n = Len(calls) /\ n # 0 /\ Top = calls[n]
    BY Calls DEF Closes, Left
<1>2. \A x \in Popped : Reaches(Top, x)
    <2>1. n \in 1..n
        BY <1>1
    <2> QED BY <1>1, <2>1 DEF Popped, Inv, Above
<1>3. ASSUME b \in Popped PROVE Mutual(a, b)
    BY <1>2, <1>3, PoppedReachesTop, ReachesOn DEF Mutual
<1>4. ASSUME Mutual(a, b) PROVE b \in Popped
    <2> DEFINE Out == {u \in Crate : Emitted(u)}
    <2>1. Out \cup Popped \in SUBSET Crate /\ Closed(Out) /\ Closed(Out \cup Popped)
        BY OutIsClosed DEF Popped
    <2>2. b \in Out \cup Popped
        BY <1>4, <2>1 DEF Mutual, Reaches
    <2>3. ASSUME b \in Out PROVE FALSE
        <3>1. a \in Out
            BY <1>4, <2>1, <2>3 DEF Mutual, Reaches
        <3> QED BY <3>1 DEF Emitted, Popped
    <2> QED BY <2>2, <2>3
<1> QED BY <1>3, <1>4

\* What has left the stack stays closed under the edges.
LEMMA EmittedStep ==
    ASSUME Inv, [Next]_vars
    PROVE  EmittedInv'
<1>0. PICK m \in Nat : m = Len(sccs) /\ \A k \in 1..m : sccs[k] \in SUBSET Crate
    BY LenProperties, ElementOfSeq DEF Inv, TypeOK
<1>e. /\ \A v, w \in Crate : <<v, w>> \in edges /\ Emitted(v) => Emitted(w)
      /\ \A k \in 1..m : \A v \in sccs[k] : Emitted(v)
      /\ \A v \in Crate : Emitted(v) => \E k \in 1..m : v \in sccs[k]
      /\ \A j, k \in 1..m : \A v \in Crate : v \in sccs[j] /\ v \in sccs[k] => j = k
    BY <1>0 DEF Inv, EmittedInv
<1>d. edges' = edges
    BY EdgeStep
<1>1. CASE sccs' = sccs /\ \A v \in Crate : Emitted(v)' <=> Emitted(v)
    BY <1>0, <1>1, <1>d, <1>e DEF EmittedInv
<1>2. ASSUME NEW x \in Crate, Entered(x) PROVE EmittedInv'
    <2>1. /\ sccs' = sccs /\ onStack'[x] /\ indices[x] = None
          /\ \A u \in Crate \ {x} : indices'[u] = indices[u] /\ onStack'[u] = onStack[u]
        BY <1>2 DEF Entered
    <2>2. ASSUME NEW v \in Crate PROVE Emitted(v)' <=> Emitted(v)
        BY <2>1 DEF Emitted
    <2> QED BY <1>1, <2>1, <2>2
<1>3. CASE sccs' = sccs /\ indices' = indices /\ onStack' = onStack
    BY <1>1, <1>3 DEF Emitted
<1>4. ASSUME NEW w \in Crate, Looked(w) PROVE EmittedInv'
    BY <1>3, <1>4 DEF Looked
<1>5. CASE Retreated
    BY <1>3, <1>5 DEF Retreated, Left
<1>6. CASE Closes
    <2>1. /\ indices' = indices
          /\ \A u \in Crate : onStack'[u] <=> onStack[u] /\ indices[u] < indices[Top]
          /\ Len(sccs') = m + 1 /\ sccs'[m + 1] = Popped /\ \A k \in 1..m : sccs'[k] = sccs[k]
        BY <1>0, <1>6 DEF Closes, Left, Extends
    <2>2. Top \in Crate
        BY <1>6, Calls DEF Closes, Left
    <2>3. ASSUME NEW v \in Crate PROVE Emitted(v)' <=> Emitted(v) \/ v \in Popped
        BY <2>1, <2>2, Elements DEF Emitted, Popped
    <2>4. \A v \in Popped : v \in Crate /\ ~Emitted(v)
        BY DEF Emitted, Popped
    <2>5. ASSUME NEW v \in Crate, NEW w \in Crate, <<v, w>> \in edges', Emitted(v)'
          PROVE  Emitted(w)'
        BY <1>6, <1>d, <1>e, <2>3, <2>5, PoppedClosed
    <2>6. ASSUME NEW k \in 1..m + 1, NEW v \in sccs'[k] PROVE Emitted(v)'
        BY <1>0, <1>e, <2>1, <2>3, <2>4, <2>6
    <2>7. ASSUME NEW v \in Crate, Emitted(v)' PROVE \E k \in 1..m + 1 : v \in sccs'[k]
        <3>1. CASE v \in Popped
            BY <2>1, <3>1
        <3>2. CASE Emitted(v)
            <4>1. PICK k \in 1..m : v \in sccs[k]
                BY <1>e, <3>2
            <4> QED BY <2>1, <4>1
        <3> QED BY <2>3, <2>7, <3>1, <3>2
    <2>8. ASSUME NEW j \in 1..m + 1, NEW k \in 1..m + 1, NEW v \in Crate,
                 v \in sccs'[j], v \in sccs'[k]
          PROVE  j = k
        <3>1. (j = m + 1) <=> v \in Popped
            BY <1>e, <2>1, <2>4, <2>8
        <3>2. (k = m + 1) <=> v \in Popped
            BY <1>e, <2>1, <2>4, <2>8
        <3> QED BY <1>e, <2>1, <2>8, <3>1, <3>2
    <2> QED BY <2>1, <2>5, <2>6, <2>7, <2>8 DEF EmittedInv
<1>7. CASE UNCHANGED <<graph, search>>
    BY <1>3, <1>7 DEF search
<1> QED BY <1>2, <1>4, <1>5, <1>6, <1>7, StepFacts

\* A component put out is a class, and those before it stay so.
LEMMA ComponentsStep ==
    ASSUME Inv, [Next]_vars
    PROVE  ComponentsAreClasses'
<1>0. PICK m \in Nat : m = Len(sccs) /\ DOMAIN sccs = 1..m /\ \A k \in 1..m : sccs[k] \in SUBSET Crate
    BY LenProperties, ElementOfSeq DEF Inv, TypeOK
<1>t. sccs' \in Seq(SUBSET Crate)
    BY StepType DEF Inv, TypeOK
<1>d. edges' = edges
    BY EdgeStep
<1>r. \A a, b : Mutual(a, b)' <=> Mutual(a, b)
    BY <1>d, ReachesStays DEF Mutual
<1>1. CASE sccs' = sccs
    BY <1>1, <1>r DEF Inv, ComponentsAreClasses
<1>2. CASE Closes
    <2>1. Len(sccs') = m + 1 /\ sccs'[m + 1] = Popped /\ \A k \in 1..m : sccs'[k] = sccs[k]
        BY <1>0, <1>2 DEF Closes, Extends
    <2>2. DOMAIN sccs' = 1..m + 1
        BY <1>t, <2>1, LenProperties
    <2>3. ASSUME NEW k \in 1..m + 1, NEW a \in sccs'[k], NEW b \in Crate
          PROVE  b \in sccs'[k] <=> Mutual(a, b)
        <3>1. CASE k = m + 1
            BY <1>2, <2>1, <2>3, <3>1, PoppedIsClass
        <3>2. CASE k # m + 1
            <4>1. k \in 1..m /\ sccs'[k] = sccs[k]
                BY <2>1, <3>2
            <4> QED BY <1>0, <2>3, <4>1 DEF Inv, ComponentsAreClasses
        <3> QED BY <3>1, <3>2
    <2> QED BY <1>r, <2>2, <2>3 DEF ComponentsAreClasses
<1> QED BY <1>1, <1>2, StepFacts DEF Entered, Looked, Retreated, search

\* The findings are the edges inside the components put out.
LEMMA ReportStep ==
    ASSUME Inv, [Next]_vars
    PROVE  ReportInv'
<1>1. CASE Report
    BY <1>1 DEF Report, ReportInv, Cyclic, IsCycle, Nodes, graph, search
<1>2. CASE UNCHANGED vars
    BY <1>2 DEF vars, graph, search, Inv, ReportInv, Cyclic, IsCycle, Nodes
<1>3. CASE ~done'
    BY <1>3 DEF ReportInv
<1>4. (\E v \in Crate : Entered(v)) => ~done'
    BY DEF Entered
<1>5. (\E w \in Crate : Looked(w)) => ~done'
    BY DEF Looked
<1>6. Retreated \/ Closes => ~done'
    BY DEF Retreated, Closes, Left
<1> QED BY <1>1, <1>2, <1>3, <1>4, <1>5, <1>6,
           RootFacts, DescendFacts, LookFacts, RetreatFacts, PopFacts DEF Next

-----------------------------------------------------------------------------
(* The theorems *)

\* Before the search nothing is indexed, stacked or found.
LEMMA InvInit == Init => Inv
<1> SUFFICES ASSUME Init PROVE Inv
    OBVIOUS
<1> USE DEF Init
<1>1. edges \subseteq Crate \X Crate /\ EdgeInv
    <2>1. PICK imports \in SUBSET Imports : edges = CrateEdges(imports)
        OBVIOUS
    <2>2. ASSUME NEW e \in edges PROVE e \in Crate \X Crate /\ e[1] # e[2]
        BY <2>1, <2>2, CrateAssumption DEF CrateEdges
    <2> QED BY <2>2 DEF EdgeInv
<1>2. Len(stack) = 0 /\ Len(calls) = 0 /\ Len(sccs) = 0
    BY EmptySeq
<1>3. \A v \in Crate : indices[v] = None /\ ~onStack[v] /\ succs[v] = {}
    OBVIOUS
<1>4. TypeOK
    <2>1. stack \in Seq(Crate) /\ calls \in Seq(Crate) /\ sccs \in Seq(SUBSET Crate)
        BY EmptySeq
    <2>2. /\ indices \in [Crate -> Nat \cup {None}] /\ lowlinks \in [Crate -> Nat]
          /\ onStack \in [Crate -> BOOLEAN] /\ succs \in [Crate -> SUBSET Crate]
        OBVIOUS
    <2> QED BY <1>1, <2>1, <2>2 DEF TypeOK
<1>5. IndexInv
    BY <1>3 DEF IndexInv, None
<1>6. StackInv /\ CallInv /\ SuccsInv
    BY <1>2, <1>3 DEF StackInv, CallInv, SuccsInv
<1>7. Above /\ Below /\ LinkReach /\ LinkBound
    BY <1>2, <1>3 DEF Above, Below, LinkReach, LinkBound
<1>8. EmittedInv
    BY <1>2, <1>3 DEF EmittedInv, Emitted
<1>9. ComponentsAreClasses
    BY DEF ComponentsAreClasses
<1>10. ReportInv
    BY DEF ReportInv
<1> QED BY <1>1, <1>4, <1>5, <1>6, <1>7, <1>8, <1>9, <1>10 DEF Inv

\* The invariant is inductive.
LEMMA InvStep == Inv /\ [Next]_vars => Inv'
BY EdgeStep, StepType, IndexStep, StackStep, CallStep, SuccsStep, AboveStep, BelowStep,
   LinkReachStep, LinkBoundStep, EmittedStep, ComponentsStep, ReportStep DEF Inv

\* Inv holds throughout the search.
LEMMA Invariance == Spec => []Inv
BY InvInit, InvStep, PTL DEF Spec

\* TypeOK: the search keeps its variables in their types.
THEOREM TypeCorrect == Spec => []TypeOK
<1>1. Inv => TypeOK
    BY DEF Inv
<1> QED BY <1>1, Invariance, PTL

\* NeverPanics: neither `expect` of strongconnect can fail, on any graph.
THEOREM SearchNeverPanics == Spec => []NeverPanics
<1>1. ASSUME Inv PROVE NeverPanics
    <2>1. DOMAIN calls = 1..Len(calls) /\ DOMAIN stack = 1..Len(stack)
        BY <1>1, LenProperties DEF Inv, TypeOK
    <2>2. ASSUME NEW i \in 1..Len(calls) PROVE \E k \in 1..Len(stack) : stack[k] = calls[i]
        <3>1. calls[i] \in Crate /\ onStack[calls[i]]
            BY <1>1, ElementOfSeq DEF Inv, TypeOK, CallInv
        <3> QED BY <1>1, <3>1 DEF Inv, StackInv
    <2>3. \A v \in Crate : onStack[v] => indices[v] # None
        BY <1>1 DEF Inv, IndexInv
    <2> QED BY <2>1, <2>2, <2>3 DEF NeverPanics
<1> QED BY <1>1, Invariance, PTL

\* ComponentsAreClasses: at every moment of the search, each component put out
\* is a class of crates that reach each other, and the whole of it.
THEOREM ComponentsCorrect == Spec => []ComponentsAreClasses
<1>1. Inv => ComponentsAreClasses
    BY DEF Inv
<1> QED BY <1>1, Invariance, PTL

\* CyclesReportedOnce: an import edge is reported exactly if it lies on a cycle,
\* and then once.
THEOREM ReportCorrect == Spec => []CyclesReportedOnce
<1>1. ASSUME Inv PROVE CyclesReportedOnce
    <2> USE <1>1 DEF Inv
    <2> SUFFICES ASSUME done, NEW e \in edges
                 PROVE  /\ (\E k \in DOMAIN sccs : <<k, e>> \in findings) <=> Reaches(e[2], e[1])
                        /\ \A j, k \in DOMAIN sccs :
                              <<j, e>> \in findings /\ <<k, e>> \in findings => j = k
        BY DEF CyclesReportedOnce
    <2>1. calls = <<>> /\ findings = Cyclic /\ indices[e[1]] # None
        BY DEF ReportInv, Nodes
    <2>2. e = <<e[1], e[2]>> /\ e[1] \in Crate /\ e[2] \in Crate /\ e[1] # e[2]
        BY DEF TypeOK, EdgeInv
    <2>3. DOMAIN sccs = 1..Len(sccs)
        BY LenProperties DEF TypeOK
    <2>4. \A k \in DOMAIN sccs :
            <<k, e>> \in findings <=> IsCycle(sccs[k]) /\ e[1] \in sccs[k] /\ e[2] \in sccs[k]
        BY <2>1 DEF Cyclic
    <2>5. ASSUME NEW k \in DOMAIN sccs, <<k, e>> \in findings PROVE Reaches(e[2], e[1])
        BY <2>2, <2>4, <2>5 DEF ComponentsAreClasses, Mutual
    <2>6. ASSUME Reaches(e[2], e[1]) PROVE \E k \in DOMAIN sccs : <<k, e>> \in findings
        <3>1. Emitted(e[1])
            BY <2>1, <2>2 DEF CallInv, Emitted
        <3>2. PICK k \in DOMAIN sccs : e[1] \in sccs[k]
            BY <2>2, <2>3, <3>1 DEF EmittedInv
        <3>3. Mutual(e[1], e[2])
            BY <2>2, <2>6, ReachesByEdge DEF Mutual
        <3>4. e[2] \in sccs[k]
            BY <2>2, <3>2, <3>3 DEF ComponentsAreClasses
        <3>5. IsCycle(sccs[k])
            BY <2>2, <3>2, <3>4 DEF IsCycle
        <3> QED BY <2>4, <3>2, <3>4, <3>5
    <2>7. \A j, k \in DOMAIN sccs : <<j, e>> \in findings /\ <<k, e>> \in findings => j = k
        BY <2>2, <2>3, <2>4 DEF EmittedInv
    <2> QED BY <2>5, <2>6, <2>7
<1> QED BY <1>1, Invariance, PTL
=============================================================================
