----------------------------- MODULE CrateCycles -----------------------------
(***************************************************************************)
(* DG002, dependency cycles across crates.  The rule reads the imports of  *)
(* the workspace as edges between crates, finds the strongly connected     *)
(* components of that graph with Tarjan's algorithm, and reports every     *)
(* edge inside a component of two crates or more.                          *)
(*                                                                         *)
(* A crate is a number, its place in the sorted list of crate names.  One  *)
(* step is one turn of the loop over the successors of the crate whose     *)
(* call of strongconnect is on top, or the end of that call.               *)
(***************************************************************************)
EXTENDS Integers, Sequences

CONSTANTS
    Crate,      \* crates that imports may name
    Imports     \* pairs <<importer, imported>> of first path segments that may occur

\* The empty first segment, of a path that starts with `::`.
Empty == 0

\* indices[v] of a crate that the search has not come to.
None == -1

ASSUME CrateAssumption ==
    /\ Crate \subseteq Nat \ {Empty}
    /\ Imports \subseteq (Crate \cup {Empty}) \X (Crate \cup {Empty})

VARIABLES
    edges,      \* crate edges of this workspace
    index,      \* next index to give out
    indices,    \* order of discovery
    lowlinks,   \* least index known to be reachable
    onStack,
    stack,
    sccs,       \* components found, as sets
    calls,      \* crates whose strongconnect has not returned, the latest last
    succs,      \* succs[v]: successors that the call for v has yet to look at
    findings,   \* pairs <<number of a component, edge>>
    done

graph  == <<edges>>
search == <<index, indices, lowlinks, onStack, stack, sccs, calls, succs>>
vars   == <<graph, search, findings, done>>

TypeOK ==
    /\ edges \subseteq Crate \X Crate
    /\ index \in Nat
    /\ indices \in [Crate -> Nat \cup {None}]
    /\ lowlinks \in [Crate -> Nat]
    /\ onStack \in [Crate -> BOOLEAN]
    /\ stack \in Seq(Crate)
    /\ sccs \in Seq(SUBSET Crate)
    /\ calls \in Seq(Crate)
    /\ succs \in [Crate -> SUBSET Crate]
    /\ findings \subseteq Nat \X edges
    /\ done \in BOOLEAN

\* The edges of a set of imports: a crate's imports of itself are none.
CrateEdges(imports) ==
    {e \in imports : e[1] # Empty /\ e[2] # Empty /\ e[1] # e[2]}

Nodes == {e[1] : e \in edges} \cup {e[2] : e \in edges}

Successors(v) == {w \in Crate : <<v, w>> \in edges}

Init ==
    /\ edges \in {CrateEdges(imports) : imports \in SUBSET Imports}
    /\ index = 0
    /\ indices = [v \in Crate |-> None]
    /\ lowlinks = [v \in Crate |-> 0]
    /\ onStack = [v \in Crate |-> FALSE]
    /\ stack = <<>>
    /\ sccs = <<>>
    /\ calls = <<>>
    /\ succs = [v \in Crate |-> {}]
    /\ findings = {}
    /\ done = FALSE

-----------------------------------------------------------------------------
(* The search *)

\* strongconnect(v) begins; the caller has the successors pending.
Enter(v, pending) ==
    /\ indices' = [indices EXCEPT ![v] = index]
    /\ lowlinks' = [lowlinks EXCEPT ![v] = index]
    /\ index' = index + 1
    /\ stack' = Append(stack, v)
    /\ onStack' = [onStack EXCEPT ![v] = TRUE]
    /\ calls' = Append(calls, v)
    /\ succs' = [pending EXCEPT ![v] = Successors(v)]
    /\ UNCHANGED <<graph, sccs, findings, done>>

\* tarjan_sccs takes up the next crate that no call has reached.
Root ==
    /\ calls = <<>>
    /\ \E v \in Nodes :
        /\ indices[v] = None
        /\ \A u \in Nodes : u < v => indices[u] # None
        /\ Enter(v, succs)

Top == calls[Len(calls)]

\* w is the next successor of the top call.
IsNext(w) ==
    /\ calls # <<>>
    /\ w \in succs[Top]
    /\ \A u \in succs[Top] : w <= u

\* A slip of Consumed: the loop looks at the same successor again.
MutSameAgain(w) == succs

Consumed(w) == [succs EXCEPT ![Top] = @ \ {w}]

Least(m, n) == IF m <= n THEN m ELSE n

Descend(w) ==
    /\ IsNext(w)
    /\ indices[w] = None
    /\ Enter(w, Consumed(w))

\* A slip of BackEdge: no test of on_stack.
MutAnyIndexed(w) ==
    /\ IsNext(w)
    /\ indices[w] # None
    /\ lowlinks' = [lowlinks EXCEPT ![Top] = Least(@, indices[w])]
    /\ succs' = Consumed(w)
    /\ UNCHANGED <<graph, index, indices, onStack, stack, sccs, calls, findings, done>>

\* A successor in the stack lowers the link of the top crate.
BackEdge(w) ==
    /\ IsNext(w)
    /\ indices[w] # None
    /\ onStack[w]
    /\ lowlinks' = [lowlinks EXCEPT ![Top] = Least(@, indices[w])]
    /\ succs' = Consumed(w)
    /\ UNCHANGED <<graph, index, indices, onStack, stack, sccs, calls, findings, done>>

\* A successor in a component found before: nothing but the next turn.
CrossEdge(w) ==
    /\ IsNext(w)
    /\ indices[w] # None
    /\ ~onStack[w]
    /\ succs' = Consumed(w)
    /\ UNCHANGED <<graph, index, indices, lowlinks, onStack, stack, sccs, calls, findings, done>>

\* strongconnect of the top crate ends: its caller, if there is one, takes its
\* link into account.
Leave ==
    /\ calls # <<>>
    /\ succs[Top] = {}
    /\ calls' = SubSeq(calls, 1, Len(calls) - 1)
    /\ lowlinks' =
        IF Len(calls) = 1 THEN lowlinks
        ELSE [lowlinks EXCEPT ![calls[Len(calls) - 1]] = Least(@, lowlinks[Top])]
    /\ UNCHANGED <<graph, index, indices, succs, findings, done>>

Retreat ==
    /\ Leave
    /\ lowlinks[Top] # indices[Top]
    /\ UNCHANGED <<onStack, stack, sccs>>

\* A slip of PlaceOf: popping does not stop at v.
MutToTheBottom(v) == 1

\* The last place of v in the stack, where popping down to v ends.
PlaceOf(v) ==
    CHOOSE k \in DOMAIN stack :
        stack[k] = v /\ \A j \in DOMAIN stack : j > k => stack[j] # v

PopComponent ==
    LET k == PlaceOf(Top)
        popped == {stack[j] : j \in k..Len(stack)}
    IN  /\ Leave
        /\ lowlinks[Top] = indices[Top]
        /\ stack' = SubSeq(stack, 1, k - 1)
        /\ onStack' = [w \in Crate |-> onStack[w] /\ w \notin popped]
        /\ sccs' = Append(sccs, popped)

-----------------------------------------------------------------------------
(* The findings *)

\* A slip of IsCycle: a component of two is skipped as well.
MutThreeOrMore(scc) == \E a, b, c \in scc : a # b /\ b # c /\ a # c

\* A component of two crates or more.
IsCycle(scc) == \E a, b \in scc : a # b

\* Every edge inside such a component, with the number of the component.
Cyclic ==
    {f \in (DOMAIN sccs) \X edges :
        LET scc == sccs[f[1]] IN IsCycle(scc) /\ f[2][1] \in scc /\ f[2][2] \in scc}

Report ==
    /\ ~done
    /\ calls = <<>>
    /\ \A v \in Nodes : indices[v] # None
    /\ findings' = Cyclic
    /\ done' = TRUE
    /\ UNCHANGED <<graph, search>>

Next ==
    \/ Root
    \/ \E w \in Crate : Descend(w) \/ BackEdge(w) \/ CrossEdge(w)
    \/ Retreat
    \/ PopComponent
    \/ Report

Spec == Init /\ [][Next]_vars

\* The rule is a plain function call: it goes on as long as there is a step.
FairSpec == Spec /\ WF_vars(Next)

-----------------------------------------------------------------------------
(* Properties *)

Closed(S) == \A e \in edges : e[1] \in S => e[2] \in S

\* b can be reached from a: whatever holds a and is closed under the edges holds b.
Reaches(a, b) == \A S \in SUBSET Crate : a \in S /\ Closed(S) => b \in S

Mutual(a, b) == Reaches(a, b) /\ Reaches(b, a)

\* The two `expect`s of strongconnect never fail: a crate whose call ends is
\* still in the stack, and what is in the stack has an index.
NeverPanics ==
    /\ \A i \in DOMAIN calls : \E k \in DOMAIN stack : stack[k] = calls[i]
    /\ \A v \in Crate : onStack[v] => indices[v] # None

\* What the search puts out as a component is one: its crates reach each other,
\* and no crate outside does both, whatever the search has yet to look at.
ComponentsAreClasses ==
    \A k \in DOMAIN sccs : \A a \in sccs[k], b \in Crate :
        b \in sccs[k] <=> Mutual(a, b)

\* DG002 reports an import edge exactly if it lies on a cycle, and once.
CyclesReportedOnce ==
    done => \A e \in edges :
        /\ (\E k \in DOMAIN sccs : <<k, e>> \in findings) <=> Reaches(e[2], e[1])
        /\ \A j, k \in DOMAIN sccs :
               <<j, e>> \in findings /\ <<k, e>> \in findings => j = k

\* The rule comes to an end on every graph.
Terminates == <>done
=============================================================================
