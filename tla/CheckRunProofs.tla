---------------------------- MODULE CheckRunProofs ----------------------------
(***************************************************************************)
(* That a run of `locus check` decides every finding once, keeps decisions *)
(* and diagnostics together through the exceptions and the change, and     *)
(* succeeds only when what is fatal was excused: for all scans,            *)
(* declarations, lockfiles and answers of git that the assumptions of      *)
(* CheckRun allow.                                                         *)
(*                                                                         *)
(* IInv relates the findings to what was collected, the decisions to the   *)
(* findings and the records to the decisions, stage by stage.  The step    *)
(* that needs an argument of its own is ApplyExceptions (PairedSurvivors): *)
(* the walk hands on its place from diagnostic to diagnostic, so that the  *)
(* places it gives are shown by induction, which is here that a set of     *)
(* naturals has a least element (Induction).                               *)
(***************************************************************************)
EXTENDS CheckRun, FiniteSetTheorems, WellFoundedInduction, SequenceTheorems, TLAPS

-----------------------------------------------------------------------------
(* Sequences of anything *)

IsSequence(s) == s \in Seq(ToSet(s))

\* A sequence is a function on 1..n.
LEMMA SequenceProperties ==
    ASSUME NEW s, IsSequence(s)
    PROVE  /\ Len(s) \in Nat
           /\ DOMAIN s = 1..Len(s)
           /\ s \in [1..Len(s) -> ToSet(s)]
BY LenProperties DEF IsSequence

LEMMA SequenceOf ==
    ASSUME NEW n \in Nat, NEW s, DOMAIN s = 1..n, s = [i \in 1..n |-> s[i]]
    PROVE  IsSequence(s) /\ Len(s) = n
<1>1. s \in [1..n -> ToSet(s)]
    BY DEF ToSet
<1>2. s \in Seq(ToSet(s))
    BY <1>1
<1> QED  BY <1>1, <1>2, LenProperties DEF IsSequence

LEMMA TypedSequence ==
    ASSUME NEW S, NEW s \in Seq(S)
    PROVE  IsSequence(s) /\ DOMAIN s = 1..Len(s) /\ Len(s) \in Nat /\ \A i \in DOMAIN s : s[i] \in S
<1>1. Len(s) \in Nat /\ s \in [1..Len(s) -> S] /\ DOMAIN s = 1..Len(s)
    BY LenProperties
<1>2. IsSequence(s)
    BY <1>1, SequenceOf
<1> QED  BY <1>1, <1>2

LEMMA EmptySequence == IsSequence(<<>>) /\ Len(<<>>) = 0 /\ DOMAIN <<>> = {}
<1>1. <<>> \in Seq({}) /\ Len(<<>>) = 0
    OBVIOUS
<1>2. IsSequence(<<>>) /\ DOMAIN <<>> = 1..Len(<<>>)
    BY <1>1, TypedSequence
<1> QED  BY <1>1, <1>2

LEMMA Joined ==
    ASSUME NEW s, NEW t, IsSequence(s), IsSequence(t)
    PROVE  /\ IsSequence(s \o t)
           /\ Len(s \o t) = Len(s) + Len(t)
           /\ DOMAIN (s \o t) = 1..(Len(s) + Len(t))
           /\ \A i \in DOMAIN s : i \in DOMAIN (s \o t) /\ (s \o t)[i] = s[i]
           /\ \A i \in DOMAIN t : Len(s) + i \in DOMAIN (s \o t) /\ (s \o t)[Len(s) + i] = t[i]
<1> DEFINE S == ToSet(s) \cup ToSet(t)
<1>1. s \in Seq(S) /\ t \in Seq(S)
    BY SeqMonotonic DEF IsSequence
<1>2. /\ Len(s) \in Nat /\ DOMAIN s = 1..Len(s)
      /\ Len(t) \in Nat /\ DOMAIN t = 1..Len(t)
    BY SequenceProperties
<1> HIDE DEF S
<1>3. /\ s \o t \in Seq(S)
      /\ Len(s \o t) = Len(s) + Len(t)
      /\ \A i \in 1..(Len(s) + Len(t)) : (s \o t)[i] = IF i <= Len(s) THEN s[i] ELSE t[i - Len(s)]
    BY <1>1, ConcatProperties
<1>4. IsSequence(s \o t) /\ DOMAIN (s \o t) = 1..(Len(s) + Len(t))
    BY <1>3, TypedSequence
<1>5. \A i \in DOMAIN s : i \in DOMAIN (s \o t) /\ (s \o t)[i] = s[i]
    BY <1>2, <1>3, <1>4
<1>6. \A i \in DOMAIN t : Len(s) + i \in DOMAIN (s \o t) /\ (s \o t)[Len(s) + i] = t[i]
    BY <1>2, <1>3, <1>4
<1> QED  BY <1>3, <1>4, <1>5, <1>6

LEMMA JoinedSequence ==
    ASSUME NEW s, NEW t, IsSequence(s), IsSequence(t)
    PROVE  IsSequence(s \o t) /\ Len(s \o t) = Len(s) + Len(t) /\ DOMAIN (s \o t) = 1..(Len(s) + Len(t))
BY Joined

LEMMA JoinedFront ==
    ASSUME NEW s, NEW t, IsSequence(s), IsSequence(t), NEW i \in DOMAIN s
    PROVE  i \in DOMAIN (s \o t) /\ (s \o t)[i] = s[i]
BY Joined

LEMMA JoinedBack ==
    ASSUME NEW s, NEW t, IsSequence(s), IsSequence(t), NEW i \in DOMAIN t
    PROVE  Len(s) + i \in DOMAIN (s \o t) /\ (s \o t)[Len(s) + i] = t[i]
BY Joined

LEMMA JoinedPlace ==
    ASSUME NEW s, NEW t, IsSequence(s), IsSequence(t), NEW k \in DOMAIN (s \o t)
    PROVE  k \in DOMAIN s \/ \E i \in DOMAIN t : k = Len(s) + i
<1>1. /\ Len(s) \in Nat /\ DOMAIN s = 1..Len(s)
      /\ Len(t) \in Nat /\ DOMAIN t = 1..Len(t)
    BY SequenceProperties
<1>2. k \in 1..(Len(s) + Len(t))
    BY JoinedSequence
<1>3. k \notin DOMAIN s => k - Len(s) \in DOMAIN t /\ k = Len(s) + (k - Len(s))
    BY <1>1, <1>2
<1> QED  BY <1>3

\* A set in some order.
LEMMA SetToSeqProperties ==
    ASSUME NEW S, IsFiniteSet(S)
    PROVE  /\ IsSequence(SetToSeq(S)) /\ Cardinality(S) \in Nat
           /\ DOMAIN SetToSeq(S) = 1..Cardinality(S)
           /\ \A i \in DOMAIN SetToSeq(S) : SetToSeq(S)[i] \in S
<1>1. Cardinality(S) \in Nat /\ ExistsBijection(1..Cardinality(S), S)
    BY FS_CardinalityType
<1>2. \E f \in [1..Cardinality(S) -> S] : IsInjective(f)
    BY <1>1 DEF ExistsBijection, Bijection, Injection
<1>3. SetToSeq(S) \in [1..Cardinality(S) -> S]
    BY <1>2 DEF SetToSeq
<1>4. IsSequence(SetToSeq(S))
    BY <1>1, <1>3, SequenceOf
<1> QED  BY <1>1, <1>3, <1>4

-----------------------------------------------------------------------------
(* Places in order *)

LEMMA LeastNatural ==
    ASSUME NEW R \in SUBSET Nat, R # {}
    PROVE  \E n \in R : \A m \in R : n <= m
<1> DEFINE less == OpToRel(<, Nat)
<1>1. IsWellFoundedOn(less, Nat)
  BY NatLessThanWellFounded DEF OpToRel
<1>2. \A m, n \in R : ~(n <= m) => <<m, n>> \in less
  BY DEF OpToRel
<1> HIDE DEF less
<1> QED BY <1>1, <1>2, WFMin

LEMMA MinIsLeast ==
    ASSUME NEW R \in SUBSET Nat, R # {}
    PROVE  Min(R) \in R /\ \A m \in R : Min(R) <= m
BY LeastNatural DEF Min

\* The number of smaller places tells a place of a finite set, and every number below its
\* cardinality is that of a place.
LEMMA Ranked ==
    ASSUME NEW S \in SUBSET Nat, IsFiniteSet(S)
    PROVE  /\ Cardinality(S) \in Nat
           /\ \A i \in S : Cardinality({j \in S : j < i}) \in 0..(Cardinality(S) - 1)
           /\ \A i, k \in S : i < k => Cardinality({j \in S : j < i}) < Cardinality({j \in S : j < k})
           /\ \A n \in 0..(Cardinality(S) - 1) : \E i \in S : Cardinality({j \in S : j < i}) = n
<1> DEFINE below(i) == {j \in S : j < i}
           rank == [i \in S |-> Cardinality(below(i))]
           ranks == 0..(Cardinality(S) - 1)
<1>1. Cardinality(S) \in Nat
    BY FS_CardinalityType
<1>2. \A i \in Nat : IsFiniteSet(below(i)) /\ Cardinality(below(i)) \in Nat
    BY FS_Subset, FS_CardinalityType
<1>3. ASSUME NEW i \in S, NEW T \in SUBSET S, IsFiniteSet(T), i \in T, below(i) \subseteq T
      PROVE  Cardinality(below(i)) < Cardinality(T)
  <2>1. Cardinality(below(i)) <= Cardinality(T) /\ (Cardinality(T) = Cardinality(below(i)) => T = below(i))
      BY <1>3, FS_Subset
  <2>2. T # below(i)
      BY <1>3
  <2>3. Cardinality(T) \in Nat /\ Cardinality(below(i)) \in Nat
      BY <1>2, <1>3, FS_CardinalityType
  <2> QED  BY <2>1, <2>2, <2>3
<1>4. \A i \in S : Cardinality(below(i)) \in ranks
  <2> SUFFICES ASSUME NEW i \in S PROVE Cardinality(below(i)) \in ranks
      OBVIOUS
  <2>1. Cardinality(below(i)) < Cardinality(S)
      BY <1>3
  <2> QED  BY <1>1, <1>2, <2>1
<1>5. \A i, k \in S : i < k => Cardinality(below(i)) < Cardinality(below(k))
  <2> SUFFICES ASSUME NEW i \in S, NEW k \in S, i < k
               PROVE  Cardinality(below(i)) < Cardinality(below(k))
      OBVIOUS
  <2>1. i \in below(k) /\ below(i) \subseteq below(k) /\ below(k) \in SUBSET S
    <3>1. \A j \in S : j \in Nat
        OBVIOUS
    <3>2. \A j \in S : j < i => j < k
        BY <3>1
    <3> QED  BY <3>2
  <2>2. IsFiniteSet(below(k))
      BY <1>2
  <2> HIDE DEF below
  <2> QED  BY <1>3, <2>1, <2>2
<1>6. rank \in Injection(S, ranks)
  <2>1. rank \in [S -> ranks]
      BY <1>4
  <2>2. \A i, k \in S : rank[i] = rank[k] => i = k
    <3> SUFFICES ASSUME NEW i \in S, NEW k \in S, rank[i] = rank[k], i # k PROVE FALSE
        OBVIOUS
    <3>1. i < k \/ k < i
        OBVIOUS
    <3>2. Cardinality(below(i)) = Cardinality(below(k)) /\ Cardinality(below(i)) \in Nat
        BY <1>2
    <3> HIDE DEF below
    <3> QED  BY <1>5, <3>1, <3>2
  <2> QED  BY <2>1, <2>2 DEF Injection, IsInjective
<1>7. IsFiniteSet(ranks) /\ Cardinality(ranks) = Cardinality(S)
  <2>1. Cardinality(S) - 1 \in Int /\ 0 \in Int
      BY <1>1
  <2>2. IsFiniteSet(ranks) /\ Cardinality(ranks) = IF 0 > Cardinality(S) - 1 THEN 0 ELSE Cardinality(S) - 1 - 0 + 1
      BY <2>1, FS_Interval
  <2> QED  BY <1>1, <2>2
<1> HIDE DEF rank, ranks
<1>8. rank \in Surjection(S, ranks)
    BY <1>6, <1>7, FS_Injection
<1>9. \A n \in ranks : \E i \in S : rank[i] = n
    BY <1>8 DEF Surjection
<1> QED  BY <1>1, <1>4, <1>5, <1>9 DEF rank, ranks

LEMMA InOrderProperties ==
    ASSUME NEW S \in SUBSET Nat, IsFiniteSet(S)
    PROVE  /\ Cardinality(S) \in Nat
           /\ IsSequence(InOrder(S)) /\ DOMAIN InOrder(S) = 1..Cardinality(S)
           /\ \A k \in 1..Cardinality(S) : InOrder(S)[k] \in S
           /\ \A k, l \in 1..Cardinality(S) : k < l => InOrder(S)[k] < InOrder(S)[l]
           /\ \A i \in S : \E k \in 1..Cardinality(S) : InOrder(S)[k] = i
<1> DEFINE rank(i) == Cardinality({j \in S : j < i})
           n == Cardinality(S)
<1>1. /\ n \in Nat
      /\ \A i \in S : rank(i) \in 0..(n - 1)
      /\ \A i, k \in S : i < k => rank(i) < rank(k)
      /\ \A m \in 0..(n - 1) : \E i \in S : rank(i) = m
    BY Ranked
<1>2. InOrder(S) = [k \in 1..n |-> CHOOSE i \in S : rank(i) = k - 1]
    BY DEF InOrder
<1> HIDE DEF rank, n
<1>3. \A k \in 1..n : InOrder(S)[k] \in S /\ rank(InOrder(S)[k]) = k - 1
  <2> SUFFICES ASSUME NEW k \in 1..n PROVE InOrder(S)[k] \in S /\ rank(InOrder(S)[k]) = k - 1
      OBVIOUS
  <2>1. k - 1 \in 0..(n - 1)
      BY <1>1
  <2>2. \E i \in S : rank(i) = k - 1
      BY <1>1, <2>1
  <2> QED  BY <1>2, <2>2
<1>4. ASSUME NEW k \in 1..n, NEW l \in 1..n, k < l
      PROVE  InOrder(S)[k] < InOrder(S)[l]
  <2>1. PICK a \in S, b \in S : /\ a = InOrder(S)[k] /\ b = InOrder(S)[l]
                               /\ rank(a) = k - 1 /\ rank(b) = l - 1
      BY <1>3
  <2>2. k \in Nat /\ l \in Nat /\ a \in Nat /\ b \in Nat
      BY <1>1
  <2>3. rank(a) < rank(b) /\ ~(rank(b) < rank(a))
      BY <1>4, <2>1, <2>2
  <2>4. a # b /\ ~(b < a)
      BY <1>1, <2>3
  <2> QED  BY <2>1, <2>2, <2>4
<1>5. ASSUME NEW i \in S
      PROVE  \E k \in 1..n : InOrder(S)[k] = i
  <2>1. PICK k \in 1..n : k - 1 = rank(i) /\ k = rank(i) + 1
    <3>1. rank(i) + 1 \in 1..n /\ (rank(i) + 1) - 1 = rank(i)
        BY <1>1
    <3> QED  BY <3>1
  <2>2. PICK a \in S : a = InOrder(S)[k] /\ rank(a) = rank(i)
      BY <1>3, <2>1
  <2>3. a \in Nat /\ i \in Nat /\ rank(i) \in Nat
      BY <1>1
  <2>4. ~(a < i) /\ ~(i < a)
      BY <1>1, <2>2, <2>3
  <2> QED  BY <2>1, <2>2, <2>3, <2>4
<1>6. IsSequence(InOrder(S)) /\ DOMAIN InOrder(S) = 1..n
    BY <1>1, <1>2, SequenceOf
<1> QED  BY <1>1, <1>3, <1>4, <1>5, <1>6 DEF n

\* What is picked is a sequence again, with the elements at the places that are kept.
LEMMA PickedProperties ==
    ASSUME NEW seq, IsSequence(seq), NEW S \in SUBSET DOMAIN seq
    PROVE  /\ S \in SUBSET Nat /\ IsFiniteSet(S)
           /\ IsSequence(Picked(seq, S)) /\ DOMAIN Picked(seq, S) = 1..Cardinality(S)
           /\ \A k \in 1..Cardinality(S) : Picked(seq, S)[k] = seq[InOrder(S)[k]]
<1>1. S \in SUBSET Nat /\ IsFiniteSet(S)
  <2>1. DOMAIN seq = 1..Len(seq) /\ Len(seq) \in Nat
      BY SequenceProperties
  <2>2. IsFiniteSet(DOMAIN seq)
      BY <2>1, FS_Interval
  <2> QED  BY <2>1, <2>2, FS_Subset
<1>2. Cardinality(S) \in Nat
    BY <1>1, FS_CardinalityType
<1>3. Picked(seq, S) = [k \in 1..Cardinality(S) |-> seq[InOrder(S)[k]]]
    BY DEF Picked
<1>4. IsSequence(Picked(seq, S))
    BY <1>2, <1>3, SequenceOf
<1> QED  BY <1>1, <1>3, <1>4

\* What holds at 0 and is handed on holds up to n.
LEMMA Induction ==
    ASSUME NEW n \in Nat, NEW T, 0 \in T, \A k \in 1..n : k - 1 \in T => k \in T
    PROVE  \A k \in 0..n : k \in T
<1> DEFINE Bad == {k \in 0..n : k \notin T}
<1>1. SUFFICES ASSUME Bad # {} PROVE FALSE
    OBVIOUS
<1>2. Bad \in SUBSET Nat
    OBVIOUS
<1> HIDE DEF Bad
<1>3. PICK k \in Bad : \A j \in Bad : k <= j
    BY <1>1, <1>2, LeastNatural
<1> USE DEF Bad
<1>4. k \in 1..n /\ k - 1 \in 0..n
    BY <1>3
<1>5. k - 1 \notin Bad
    BY <1>3, <1>4
<1> QED  BY <1>3, <1>4, <1>5

-----------------------------------------------------------------------------
(* The walk that pairs diagnostics and decisions again *)

LEMMA NextEqualProperties ==
    ASSUME NEW pre, IsSequence(pre), NEW place \in Nat, NEW diag
    PROVE  LET next == NextEqual(pre, place, diag)
           IN  /\ next \in Nat
               /\ next = Len(pre) + 1 \/ (next \in (place + 1)..Len(pre) /\ pre[next].diag = diag)
               /\ \A i \in (place + 1)..Len(pre) : pre[i].diag = diag => next <= i
<1> DEFINE R == {i \in (place + 1)..Len(pre) : pre[i].diag = diag} \cup {Len(pre) + 1}
<1>1. Len(pre) \in Nat
    BY SequenceProperties
<1>2. R \in SUBSET Nat /\ R # {}
    BY <1>1
<1>3. Min(R) \in R /\ \A m \in R : Min(R) <= m
  <2> HIDE DEF R
  <2> QED  BY <1>2, MinIsLeast
<1>4. NextEqual(pre, place, diag) = Min(R)
    BY DEF NextEqual
<1> DEFINE m == Min(R)
<1>5. m \in R /\ (\A i \in R : m <= i) /\ m \in Nat
    BY <1>2, <1>3
<1> HIDE DEF m
<1> QED  BY <1>4, <1>5 DEF m

LEMMA CursorProperties ==
    ASSUME NEW pre, NEW post, IsSequence(pre), IsSequence(post)
    PROVE  /\ Cursor(pre, post)[0] = 0
           /\ \A k \in 1..Len(post) :
                Cursor(pre, post)[k] = NextEqual(pre, Cursor(pre, post)[k - 1], post[k])
<1> DEFINE Step(g, k) == IF k = 0 THEN 0 ELSE NextEqual(pre, g[k - 1], post[k])
           Walks(g, n) == g = [k \in 0..n |-> Step(g, k)]
           T == {n \in Nat : \E g : Walks(g, n)}
<1>1. Len(post) \in Nat
    BY SequenceProperties
<1>2. 0 \in T
  <2> DEFINE g == [k \in 0..0 |-> 0]
  <2>1. Walks(g, 0)
      OBVIOUS
  <2> HIDE DEF Walks
  <2> QED  BY <2>1
<1>3. ASSUME NEW n \in 1..Len(post), n - 1 \in T
      PROVE  n \in T
  <2>1. PICK f : Walks(f, n - 1)
      BY <1>3
  <2> DEFINE last == NextEqual(pre, f[n - 1], post[n])
             g == [k \in 0..n |-> IF k = n THEN last ELSE f[k]]
  <2>2. n \in Nat /\ \A k \in 0..n : k # n => k \in 0..(n - 1)
      BY <1>1
  <2>3. f[0] = 0 /\ \A k \in 0..(n - 1) : k # 0 => f[k] = NextEqual(pre, f[k - 1], post[k])
      BY <2>1, <2>2
  <2>4. \A k \in 0..n : g[k] = Step(g, k)
    <3> SUFFICES ASSUME NEW k \in 0..n PROVE g[k] = Step(g, k)
        OBVIOUS
    <3>1. CASE k = 0
        BY <2>2, <2>3, <3>1
    <3>2. CASE k # 0
      <4>1. k - 1 \in 0..n /\ k - 1 # n /\ g[k - 1] = f[k - 1]
          BY <2>2, <3>2
      <4>2. CASE k = n
          BY <3>2, <4>1, <4>2
      <4>3. CASE k # n
          BY <2>2, <2>3, <3>2, <4>1, <4>3
      <4> QED  BY <4>2, <4>3
    <3> QED  BY <3>1, <3>2
  <2>5. Walks(g, n)
    <3> HIDE DEF Step, last
    <3> QED  BY <2>4
  <2> HIDE DEF Walks, g
  <2> QED  BY <2>2, <2>5
<1>4. Len(post) \in T
  <2> HIDE DEF T
  <2>1. \A k \in 0..Len(post) : k \in T
      BY <1>1, <1>2, <1>3, Induction
  <2> QED  BY <1>1, <2>1
<1>5. Cursor(pre, post) = CHOOSE g : Walks(g, Len(post))
    BY DEF Cursor
<1>6. Walks(Cursor(pre, post), Len(post))
  <2> HIDE DEF Walks
  <2> QED  BY <1>4, <1>5
<1>7. \A k \in 0..Len(post) : Cursor(pre, post)[k] = Step(Cursor(pre, post), k)
  <2> HIDE DEF Step
  <2> QED  BY <1>6
<1> QED  BY <1>1, <1>7

\* If what is silenced differs from all that is not and from all that is announced, the walk
\* gives every diagnostic that is left its own record, and none to an announcement.
LEMMA PairedSurvivors ==
    ASSUME NEW pre, IsSequence(pre), NEW S \in SUBSET DOMAIN pre, NEW new, IsSequence(new),
           \A i \in S, j \in DOMAIN pre \ S : pre[i].diag # pre[j].diag,
           \A k \in DOMAIN new, j \in DOMAIN pre \ S : new[k] # pre[j].diag,
           NEW post, IsSequence(post), Len(post) = Cardinality(S) + Len(new),
           \A k \in 1..Cardinality(S) : post[k] = pre[InOrder(S)[k]].diag,
           \A k \in DOMAIN new : post[Cardinality(S) + k] = new[k]
    PROVE  /\ DOMAIN Paired(pre, post) = 1..(Cardinality(S) + Len(new))
           /\ IsSequence(Paired(pre, post))
           /\ \A k \in 1..Cardinality(S) : Paired(pre, post)[k] = pre[InOrder(S)[k]]
           /\ \A k \in DOMAIN new :
                Paired(pre, post)[Cardinality(S) + k] = [diag |-> new[k], decision |-> 0]
<1> DEFINE n == Cardinality(S)
           e == InOrder(S)
           c == Cursor(pre, post)
<1>1. /\ S \in SUBSET Nat /\ n \in Nat
      /\ \A k \in 1..n : e[k] \in S
      /\ \A k, l \in 1..n : k < l => e[k] < e[l]
      /\ \A i \in S : \E k \in 1..n : e[k] = i
  <2>1. S \in SUBSET Nat /\ IsFiniteSet(S)
      BY PickedProperties
  <2> QED  BY <2>1, InOrderProperties
<1>2. /\ Len(pre) \in Nat /\ DOMAIN pre = 1..Len(pre)
      /\ Len(new) \in Nat /\ DOMAIN new = 1..Len(new)
      /\ DOMAIN post = 1..Len(post)
    BY SequenceProperties
<1>3. c[0] = 0 /\ \A k \in 1..Len(post) : c[k] = NextEqual(pre, c[k - 1], post[k])
    BY CursorProperties
<1> HIDE DEF n, e, c
<1>4. Len(post) \in Nat /\ Len(post) = n + Len(new)
    BY <1>1, <1>2 DEF n
<1>5. \A k \in 1..n : post[k] = pre[e[k]].diag
    BY DEF n, e
<1>6. \A k \in DOMAIN new : post[n + k] = new[k]
    BY DEF n
<1> DEFINE T == {k \in Nat : IF k = 0 THEN c[k] = 0
                            ELSE IF k <= n THEN c[k] = e[k] ELSE c[k] = Len(pre) + 1}
<1>7. ASSUME NEW k \in 1..Len(post), k - 1 \in T
      PROVE  k \in T
  <2>1. k \in Nat /\ k # 0 /\ k - 1 \in Nat /\ k - 1 < k
      BY <1>4
  <2>2. c[k - 1] \in Nat
      BY <1>1, <1>2, <1>7, <2>1
  <2> DEFINE next == NextEqual(pre, c[k - 1], post[k])
  <2>3. /\ next \in Nat
        /\ next = Len(pre) + 1 \/ (next \in (c[k - 1] + 1)..Len(pre) /\ pre[next].diag = post[k])
        /\ \A i \in (c[k - 1] + 1)..Len(pre) : pre[i].diag = post[k] => next <= i
      BY <2>2, NextEqualProperties
  <2>4. c[k] = next
      BY <1>3
  <2> HIDE DEF next
  <2>5. CASE k <= n
    <3>1. k \in 1..n /\ e[k] \in S /\ e[k] \in Nat /\ e[k] \in DOMAIN pre
        BY <1>1, <2>1, <2>5
    <3>2. c[k - 1] < e[k] /\ \A j \in 1..n : c[k - 1] < e[j] => k <= j
      <4>1. CASE k - 1 = 0
        <5>1. c[k - 1] = 0
            BY <1>7, <4>1
        <5>2. e[k] > 0
            BY <1>2, <3>1
        <5> QED  BY <1>1, <4>1, <5>1, <5>2, <2>1
      <4>2. CASE k - 1 # 0
        <5>1. k - 1 \in 1..n /\ c[k - 1] = e[k - 1]
            BY <1>1, <1>7, <2>1, <2>5, <4>2
        <5>2. ASSUME NEW j \in 1..n, e[k - 1] < e[j], ~(k <= j) PROVE FALSE
          <6>1. j = k - 1 \/ j < k - 1
              BY <1>1, <2>1, <5>2
          <6>2. e[j] <= e[k - 1]
              BY <1>1, <5>1, <6>1
          <6>3. e[j] \in Nat /\ e[k - 1] \in Nat
              BY <1>1, <5>1
          <6> QED  BY <5>2, <6>2, <6>3
        <5> QED  BY <1>1, <2>1, <3>1, <5>1, <5>2
      <4> QED  BY <4>1, <4>2
    <3>3. e[k] \in (c[k - 1] + 1)..Len(pre) /\ pre[e[k]].diag = post[k]
        BY <1>2, <1>5, <2>2, <3>1, <3>2
    <3>4. next <= e[k]
        BY <2>3, <3>3
    <3>5. next \in (c[k - 1] + 1)..Len(pre) /\ pre[next].diag = post[k]
        BY <1>2, <2>3, <3>1, <3>4
    <3>6. next \in DOMAIN pre /\ next \in S
        BY <1>2, <2>2, <3>1, <3>3, <3>5
    <3>7. PICK j \in 1..n : e[j] = next
        BY <1>1, <3>6
    <3>8. k <= j
        BY <2>2, <2>3, <3>2, <3>5, <3>7
    <3>9. e[k] <= e[j]
        BY <1>1, <3>1, <3>7, <3>8
    <3> QED  BY <2>1, <2>3, <2>4, <2>5, <3>1, <3>4, <3>7, <3>9
  <2>6. CASE ~(k <= n)
    <3>1. \A i \in S : ~(c[k - 1] < i)
      <4> SUFFICES ASSUME NEW i \in S, c[k - 1] < i PROVE FALSE
          OBVIOUS
      <4>1. PICK j \in 1..n : e[j] = i
          BY <1>1
      <4>2. i \in Nat /\ i <= Len(pre)
          BY <1>1, <1>2
      <4>3. CASE k - 1 = n
        <5>1. n \in 1..n /\ c[k - 1] = e[n]
            BY <1>1, <1>7, <2>1, <4>1, <4>3
        <5>2. j < n => e[j] < e[n]
            BY <1>1, <5>1
        <5>3. e[n] \in Nat
            BY <1>1, <5>1
        <5> QED  BY <1>1, <4>1, <4>2, <5>1, <5>2, <5>3
      <4>4. CASE k - 1 # n
        <5>1. c[k - 1] = Len(pre) + 1
            BY <1>1, <1>7, <2>1, <2>6, <4>4
        <5> QED  BY <1>2, <4>2, <5>1
      <4> QED  BY <4>3, <4>4
    <3>2. k - n \in DOMAIN new /\ post[k] = new[k - n]
      <4>1. k - n \in DOMAIN new /\ n + (k - n) = k
          BY <1>1, <1>2, <1>4, <2>1, <2>6
      <4> QED  BY <1>6, <4>1
    <3>3. ASSUME next # Len(pre) + 1 PROVE FALSE
      <4>1. next \in DOMAIN pre /\ pre[next].diag = post[k] /\ c[k - 1] < next
          BY <1>2, <2>2, <2>3, <3>3
      <4>2. next \notin S
          BY <3>1, <4>1
      <4> QED  BY <3>2, <4>1, <4>2
    <3> QED  BY <2>1, <2>4, <2>6, <3>3
  <2> QED  BY <2>5, <2>6
<1>8. \A k \in 0..Len(post) : k \in T
  <2>1. 0 \in T
      BY <1>3
  <2> HIDE DEF T
  <2> QED  BY <1>4, <1>7, <2>1, Induction
<1>9. /\ \A k \in 1..n : c[k] = e[k] /\ c[k] \in DOMAIN pre
      /\ \A k \in DOMAIN new : c[n + k] = Len(pre) + 1 /\ c[n + k] \notin DOMAIN pre
  <2>1. ASSUME NEW k \in 1..n PROVE c[k] = e[k] /\ c[k] \in DOMAIN pre
      BY <1>1, <1>2, <1>4, <1>8
  <2>2. ASSUME NEW k \in DOMAIN new PROVE c[n + k] = Len(pre) + 1 /\ c[n + k] \notin DOMAIN pre
    <3>1. n + k \in 0..Len(post) /\ n + k # 0 /\ ~(n + k <= n)
        BY <1>1, <1>2, <1>4
    <3> QED  BY <1>2, <1>8, <3>1
  <2> QED  BY <2>1, <2>2
<1>10. Paired(pre, post) = [k \in 1..Len(post) |-> IF c[k] \in DOMAIN pre THEN pre[c[k]]
                                                 ELSE [diag |-> post[k], decision |-> 0]]
    BY <1>2 DEF Paired, c
<1>11. IsSequence(Paired(pre, post))
    BY <1>4, <1>10, SequenceOf
<1>12. \A k \in 1..n : k \in 1..Len(post)
    BY <1>1, <1>2, <1>4
<1>13. \A k \in DOMAIN new : n + k \in 1..Len(post)
    BY <1>1, <1>2, <1>4
<1>14. \A k \in 1..n : Paired(pre, post)[k] = pre[e[k]]
    BY <1>9, <1>10, <1>12
<1>15. \A k \in DOMAIN new : Paired(pre, post)[n + k] = [diag |-> new[k], decision |-> 0]
    BY <1>6, <1>9, <1>10, <1>13
<1>16. DOMAIN Paired(pre, post) = 1..(n + Len(new))
    BY <1>4, <1>10
<1> QED  BY <1>11, <1>14, <1>15, <1>16 DEF n, e

-----------------------------------------------------------------------------
(* The stages *)

LEMMA PolicyNames ==
    /\ DOMAIN Policies = 1..4
    /\ PolicyIds = {"registry-integrity", "registry-coherence",
                    "concept-source-of-truth", "default-pass-through"}
<1>1. DOMAIN Policies = 1..4
    BY DEF Policies
<1>2. /\ Policies[1] = "registry-integrity" /\ Policies[2] = "registry-coherence"
      /\ Policies[3] = "concept-source-of-truth" /\ Policies[4] = "default-pass-through"
    BY DEF Policies
<1>3. 1..4 = {1, 2, 3, 4}
    OBVIOUS
<1>4. PolicyIds = {Policies[i] : i \in {1, 2, 3, 4}}
    BY <1>1, <1>3 DEF PolicyIds, ToSet
<1> QED  BY <1>1, <1>2, <1>4

LEMMA TenStages ==
    ASSUME NEW a, DOMAIN a = 1..1, a = [i \in 1..1 |-> a[i]],
           NEW b, DOMAIN b = 1..4, b = [i \in 1..4 |-> b[i]],
           NEW c, DOMAIN c = 1..5, c = [i \in 1..5 |-> c[i]]
    PROVE  LET abc == (a \o b) \o c
           IN  /\ DOMAIN abc = 1..10
               /\ abc[1] = a[1]
               /\ abc[2] = b[1] /\ abc[3] = b[2] /\ abc[4] = b[3] /\ abc[5] = b[4]
               /\ abc[6] = c[1] /\ abc[7] = c[2] /\ abc[8] = c[3] /\ abc[9] = c[4]
               /\ abc[10] = c[5]
<1>1. IsSequence(a) /\ Len(a) = 1
    BY SequenceOf
<1>2. IsSequence(b) /\ Len(b) = 4
    BY SequenceOf
<1>3. IsSequence(c) /\ Len(c) = 5
    BY SequenceOf
<1> DEFINE ab == a \o b
<1>4. /\ IsSequence(ab) /\ Len(ab) = Len(a) + Len(b) /\ DOMAIN ab = 1..(Len(a) + Len(b))
      /\ \A i \in DOMAIN a : ab[i] = a[i]
      /\ \A i \in DOMAIN b : ab[Len(a) + i] = b[i]
    BY <1>1, <1>2, Joined
<1> HIDE DEF ab
<1>5. Len(ab) = 5 /\ DOMAIN ab = 1..5
    BY <1>1, <1>2, <1>4
<1> DEFINE abc == ab \o c
<1>6. /\ DOMAIN abc = 1..(Len(ab) + Len(c))
      /\ \A i \in DOMAIN ab : abc[i] = ab[i]
      /\ \A i \in DOMAIN c : abc[Len(ab) + i] = c[i]
  <2>1. ASSUME NEW x, IsSequence(x)
        PROVE  /\ DOMAIN (x \o c) = 1..(Len(x) + Len(c))
               /\ \A i \in DOMAIN x : (x \o c)[i] = x[i]
               /\ \A i \in DOMAIN c : (x \o c)[Len(x) + i] = c[i]
      BY <1>3, Joined
  <2> QED  BY <1>4, <2>1
<1> HIDE DEF abc
<1>7. DOMAIN abc = 1..10 /\ (\A i \in 1..5 : abc[i] = ab[i] /\ abc[5 + i] = c[i])
    BY <1>3, <1>5, <1>6
<1>8. ab[1] = a[1] /\ \A i \in 1..4 : ab[1 + i] = b[i]
    BY <1>1, <1>4
<1>9. /\ ab[1 + 1] = b[1] /\ ab[1 + 2] = b[2] /\ ab[1 + 3] = b[3] /\ ab[1 + 4] = b[4]
      /\ abc[1] = ab[1] /\ abc[2] = ab[2] /\ abc[3] = ab[3] /\ abc[4] = ab[4] /\ abc[5] = ab[5]
      /\ abc[5 + 1] = c[1] /\ abc[5 + 2] = c[2] /\ abc[5 + 3] = c[3] /\ abc[5 + 4] = c[4]
      /\ abc[5 + 5] = c[5]
    BY <1>7, <1>8
<1>10. /\ 1 + 1 = 2 /\ 1 + 2 = 3 /\ 1 + 3 = 4 /\ 1 + 4 = 5
       /\ 5 + 1 = 6 /\ 5 + 2 = 7 /\ 5 + 3 = 8 /\ 5 + 4 = 9 /\ 5 + 5 = 10
    OBVIOUS
<1> QED  BY <1>7, <1>8, <1>9, <1>10 DEF abc, ab

LEMMA StageOrder ==
    /\ ToSet(Stages) = {"collect", "materialize", "exceptions", "changed", "guard", "exit"}
                            \cup PolicyIds
    /\ StageAfter("collect") = "registry-integrity"
    /\ StageAfter("registry-integrity") = "registry-coherence"
    /\ StageAfter("registry-coherence") = "concept-source-of-truth"
    /\ StageAfter("concept-source-of-truth") = "default-pass-through"
    /\ StageAfter("default-pass-through") = "materialize"
    /\ StageAfter("materialize") = "exceptions"
    /\ StageAfter("exceptions") = "changed"
    /\ StageAfter("changed") = "guard"
    /\ StageAfter("guard") = "exit"
<1> DEFINE a == <<"collect">>
           c == <<"materialize", "exceptions", "changed", "guard", "exit">>
<1>1. /\ DOMAIN a = 1..1 /\ a = [i \in 1..1 |-> a[i]] /\ a[1] = "collect"
      /\ DOMAIN c = 1..5 /\ c = [i \in 1..5 |-> c[i]]
      /\ c[1] = "materialize" /\ c[2] = "exceptions" /\ c[3] = "changed"
      /\ c[4] = "guard" /\ c[5] = "exit"
      /\ DOMAIN Policies = 1..4 /\ Policies = [i \in 1..4 |-> Policies[i]]
      /\ Policies[1] = "registry-integrity" /\ Policies[2] = "registry-coherence"
      /\ Policies[3] = "concept-source-of-truth" /\ Policies[4] = "default-pass-through"
    BY DEF Policies
<1>2. Stages = (a \o Policies) \o c
    BY DEF Stages
<1> HIDE DEF a, c
<1>3. /\ DOMAIN Stages = 1..10
      /\ Stages[1] = "collect" /\ Stages[2] = "registry-integrity"
      /\ Stages[3] = "registry-coherence" /\ Stages[4] = "concept-source-of-truth"
      /\ Stages[5] = "default-pass-through" /\ Stages[6] = "materialize"
      /\ Stages[7] = "exceptions" /\ Stages[8] = "changed"
      /\ Stages[9] = "guard" /\ Stages[10] = "exit"
    BY <1>1, <1>2, TenStages
<1>4. 1..10 = {1, 2, 3, 4, 5, 6, 7, 8, 9, 10}
    OBVIOUS
<1>5. ToSet(Stages) = {"collect", "materialize", "exceptions", "changed", "guard", "exit"} \cup PolicyIds
  <2>1. ToSet(Stages) = {Stages[i] : i \in {1, 2, 3, 4, 5, 6, 7, 8, 9, 10}}
      BY <1>3, <1>4 DEF ToSet
  <2> QED  BY <1>3, <2>1, PolicyNames
<1>6. ASSUME NEW i \in 1..9, \A j \in 1..10 : Stages[j] = Stages[i] => j = i
      PROVE  StageAfter(Stages[i]) = Stages[i + 1]
  <2>1. i \in DOMAIN Stages /\ 1 + i = i + 1
      BY <1>3
  <2>2. (CHOOSE j \in DOMAIN Stages : Stages[j] = Stages[i]) = i
      BY <1>3, <1>6, <2>1
  <2> QED  BY <2>1, <2>2 DEF StageAfter
<1>7. \A i, j \in 1..10 : Stages[j] = Stages[i] => j = i
    BY <1>3, <1>4
<1>8. \A i \in 1..9 : StageAfter(Stages[i]) = Stages[i + 1]
    BY <1>6, <1>7
<1> QED  BY <1>3, <1>5, <1>8
-----------------------------------------------------------------------------
(* The invariant *)

Base == Collect(input.scan.observed, input.scan.legacy)

Minted == {"LOCUS003", "LOCUS004", "LOCUS005"}

\* A finding shows its code, or else its owner: a rule id, and never that of the exceptions.
IsFinding(f) ==
    /\ f.severity \in Severities
    /\ f.code \in Minted \cup {""}
    /\ f.code = "" => f.owner \in Rule \ {"LOCUS001"}

\* What was collected stays where it is, and the policies only add findings with a code.
StoreInv ==
    /\ IsSequence(store)
    /\ \A i \in DOMAIN store : IsFinding(store[i])
    /\ stage = "collect" => store = <<>>
    /\ stage # "collect" =>
            /\ DOMAIN Base \subseteq DOMAIN store
            /\ \A i \in DOMAIN Base : store[i] = Base[i] /\ store[i].code = ""
            /\ \A i \in DOMAIN store \ DOMAIN Base : store[i].code \in Minted

IsDecision(d, findings) ==
    /\ d.finding \in DOMAIN findings
    /\ d.policy \in PolicyIds
    /\ d.severity = findings[d.finding].severity
    /\ d.status \notin Suppressing

\* No finding is decided twice, and after the policies none is undecided.
DecisionsInv ==
    /\ IsSequence(decisions)
    /\ \A k \in DOMAIN decisions : IsDecision(decisions[k], store)
    /\ \A j, k \in DOMAIN decisions : decisions[j].finding = decisions[k].finding => j = k
    /\ stage = "collect" => decisions = <<>>
    /\ stage \notin {"collect"} \cup PolicyIds => Undecided(store, decisions) = {}

Emitted(findings, decided, k) == [diag |-> Materialize(findings, decided[k]), decision |-> k]

\* A record is that of a decision, an announcement or a diagnostic of Policy Guard.
IsRecord(r, findings, decided, audit) ==
    \/ r.decision \in DOMAIN decided /\ r = Emitted(findings, decided, r.decision)
    \/ r.decision = 0 /\ r.diag.rule = "LOCUS001" /\ r.diag.severity = "warning"
    \/ r.decision = 0 /\ r.diag \in ToSet(audit)

Ordered(recs) ==
    \A i, j \in DOMAIN recs : i < j /\ recs[j].decision # 0 => recs[i].decision < recs[j].decision

Shows(recs, k) == \E i \in DOMAIN recs : recs[i].decision = k

RecordsInv ==
    /\ IsSequence(records)
    /\ \A i \in DOMAIN records : IsRecord(records[i], store, decisions, input.audit)
    /\ Ordered(records)

\* The records are those of the decisions that got through the filters so far.
FiltersInv ==
    /\ stage \in {"collect", "materialize"} \cup PolicyIds => records = <<>>
    /\ stage = "exceptions" =>
            /\ \A k \in DOMAIN decisions : Shows(records, k)
            /\ \A i \in DOMAIN records : records[i].decision # 0
    /\ stage = "changed" =>
            \A k \in DOMAIN decisions :
                Shows(records, k) <=> ~Silenced(Emitted(store, decisions, k))
    /\ stage \in {"guard", "exit", "exit 0", "exit 1"} =>
            \A k \in DOMAIN decisions : Shows(records, k) <=> Kept(k)

\* In the end everything Policy Guard said is there, and success means that nothing is fatal.
EndInv ==
    /\ stage \in {"exit", "exit 0", "exit 1"} =>
            \A d \in DOMAIN input.audit : \E i \in DOMAIN records : records[i].diag = input.audit[d]
    /\ stage = "exit 0" => \A i \in DOMAIN records : ~IsFatal(records[i])

IInv ==
    /\ input \in [mode    : {"human", "agent_strict"}, scan : Scans, arch : Archs,
                  sup     : Lockfiles,
                  changed : ChangedFiles \cup {Everything}, audit : Audits]
    /\ stage \in ToSet(Stages) \cup {"error", "exit 0", "exit 1"}
    /\ StoreInv /\ DecisionsInv /\ RecordsInv /\ FiltersInv /\ EndInv

-----------------------------------------------------------------------------
(* Finite sets *)

LEMMA ImageFinite ==
    ASSUME NEW S, IsFiniteSet(S), NEW f, DOMAIN f = S
    PROVE  IsFiniteSet({f[x] : x \in S})
<1> DEFINE T == {f[x] : x \in S}
           g == [x \in S |-> f[x]]
<1>1. g \in Surjection(S, T)
    BY DEF Surjection
<1> HIDE DEF g, T
<1>2. IsFiniteSet(T)
    BY <1>1, FS_Surjection
<1> QED  BY <1>2 DEF T

LEMMA SequenceFinite ==
    ASSUME NEW s, IsSequence(s)
    PROVE  IsFiniteSet(DOMAIN s) /\ IsFiniteSet(ToSet(s))
<1>1. DOMAIN s = 1..Len(s) /\ Len(s) \in Nat
    BY SequenceProperties
<1>2. IsFiniteSet(DOMAIN s)
    BY <1>1, FS_Interval
<1>3. IsFiniteSet({s[i] : i \in DOMAIN s})
    BY <1>2, ImageFinite
<1> QED  BY <1>2, <1>3 DEF ToSet

LEMMA TaggedFinite ==
    ASSUME NEW S, IsFiniteSet(S), NEW tag
    PROVE  IsFiniteSet({<<tag, x>> : x \in S})
<1> DEFINE f == [x \in S |-> <<tag, x>>]
<1>1. DOMAIN f = S /\ {<<tag, x>> : x \in S} = {f[x] : x \in DOMAIN f}
    OBVIOUS
<1> HIDE DEF f
<1>2. IsFiniteSet({f[x] : x \in DOMAIN f})
    BY <1>1, ImageFinite
<1> QED  BY <1>1, <1>2

LEMMA LegacyCodesFinite ==
    ASSUME NEW findings, IsSequence(findings)
    PROVE  IsFiniteSet(LegacyCodes(findings))
<1> DEFINE owner == [i \in DOMAIN findings |-> findings[i].owner]
           owners == {owner[i] : i \in DOMAIN findings}
<1>1. IsFiniteSet(DOMAIN findings) /\ DOMAIN owner = DOMAIN findings
    BY SequenceFinite
<1>2. LegacyCodes(findings) \in SUBSET owners
    BY DEF LegacyCodes
<1>3. IsFiniteSet(owners)
  <2> HIDE DEF owner
  <2> QED  BY <1>1, ImageFinite
<1> HIDE DEF owners
<1> QED  BY <1>2, <1>3, FS_Subset

LEMMA DriftsFinite ==
    ASSUME NEW arch \in Archs
    PROVE  IsFiniteSet(Drifts(arch))
<1> DEFINE undeclared(s) == {<<"not declared", p>> : p \in s}
           unregistered(s) == {<<"not registered", p>> : p \in s}
           rule == [r \in {s \in Registered : ParadigmOf[s] \notin Paradigm} |-> <<"unknown paradigm", r>>]
           listed == [l \in {k \in Listed : k[1] \in Paradigm /\ k[2] \notin Registered}
                        |-> <<"unknown rule", l[1], l[2]>>]
<1>1. \A s : IsFiniteSet(s) => IsFiniteSet(undeclared(s)) /\ IsFiniteSet(unregistered(s))
    BY TaggedFinite
<1> DEFINE first == CASE arch.status = "missing" -> {<<"declaration", "missing">>}
                      [] arch.status = "invalid" -> {<<"declaration", "unparseable">>}
                      [] arch.status = "present" ->
                            unregistered(arch.policies \ PolicyIds) \cup undeclared(PolicyIds \ arch.policies)
           second == {rule[r] : r \in DOMAIN rule}
           third == {listed[l] : l \in DOMAIN listed}
<1>2. Drifts(arch) = (first \cup second) \cup third
    BY DEF Drifts
<1>3. IsFiniteSet(second)
  <2>1. DOMAIN rule \in SUBSET Registered /\ IsFiniteSet(Registered)
      BY RegistryAssumption
  <2>2. IsFiniteSet(DOMAIN rule)
      BY <2>1, FS_Subset
  <2> HIDE DEF rule
  <2> QED  BY <2>2, ImageFinite
<1>4. IsFiniteSet(third)
  <2>1. DOMAIN listed \in SUBSET Listed /\ IsFiniteSet(Listed)
      BY RegistryAssumption
  <2>2. IsFiniteSet(DOMAIN listed)
      BY <2>1, FS_Subset
  <2> HIDE DEF listed
  <2> QED  BY <2>2, ImageFinite
<1> HIDE DEF second, third, undeclared, unregistered
<1>5. IsFiniteSet(first)
  <2>1. CASE arch.status = "missing"
      BY <2>1, FS_Singleton
  <2>2. CASE arch.status = "invalid"
      BY <2>2, FS_Singleton
  <2>3. CASE arch.status = "present"
    <3>1. IsFiniteSet(arch.policies) /\ arch.policies \ PolicyIds \in SUBSET arch.policies
        BY <2>3, ArchsAssumption
    <3>2. IsFiniteSet(PolicyIds) /\ PolicyIds \ arch.policies \in SUBSET PolicyIds
      <4>1. Policies = [i \in 1..4 |-> Policies[i]]
          BY DEF Policies
      <4>2. IsFiniteSet(ToSet(Policies))
          BY <4>1, PolicyNames, SequenceOf, SequenceFinite
      <4> QED  BY <4>2 DEF PolicyIds
    <3>3. IsFiniteSet(arch.policies \ PolicyIds) /\ IsFiniteSet(PolicyIds \ arch.policies)
        BY <3>1, <3>2, FS_Subset
    <3>4. IsFiniteSet(unregistered(arch.policies \ PolicyIds)) /\ IsFiniteSet(undeclared(PolicyIds \ arch.policies))
        BY <1>1, <3>3
    <3>5. IsFiniteSet(unregistered(arch.policies \ PolicyIds) \cup undeclared(PolicyIds \ arch.policies))
        BY <3>4, FS_Union
    <3> QED  BY <2>3, <3>5
  <2> QED  BY <2>1, <2>2, <2>3, ArchsAssumption
<1> HIDE DEF first
<1>6. IsFiniteSet(first \cup second)
    BY <1>3, <1>5, FS_Union
<1>7. IsFiniteSet((first \cup second) \cup third)
    BY <1>4, <1>6, FS_Union
<1> QED  BY <1>2, <1>7

LEMMA BypassesFinite ==
    ASSUME NEW findings, IsSequence(findings), NEW concepts, IsSequence(concepts)
    PROVE  IsFiniteSet(Bypasses(findings, concepts))
<1> DEFINE pairs == (DOMAIN concepts) \X (DOMAIN findings)
           known == [p \in pairs |-> <<concepts[p[1]], Bypass(concepts[p[1]].id, findings[p[2]])>>]
           unknown == [k \in DOMAIN concepts |-> <<concepts[k], "<declaration>">>]
           knowns == {known[p] : p \in DOMAIN known}
           unknowns == {unknown[k] : k \in DOMAIN unknown}
<1>1. IsFiniteSet(knowns)
  <2>1. IsFiniteSet(pairs)
      BY SequenceFinite, FS_Product
  <2>2. DOMAIN known = pairs
      OBVIOUS
  <2> HIDE DEF known, pairs
  <2> QED  BY <2>1, <2>2, ImageFinite
<1>2. IsFiniteSet(unknowns)
  <2>1. IsFiniteSet(DOMAIN unknown)
      BY SequenceFinite
  <2> HIDE DEF unknown
  <2> QED  BY <2>1, ImageFinite
<1>3. Bypasses(findings, concepts) \in SUBSET (knowns \cup unknowns)
  <2> SUFFICES ASSUME NEW b \in Bypasses(findings, concepts)
               PROVE  b \in knowns \/ b \in unknowns
      OBVIOUS
  <2>1. PICK k \in DOMAIN concepts :
            \/ \E i \in DOMAIN findings : b = <<concepts[k], Bypass(concepts[k].id, findings[i])>>
            \/ b = <<concepts[k], "<declaration>">>
    <3> DEFINE keys(c) == IF c.id \in Concepts
                          THEN {Bypass(c.id, findings[i]) : i \in DOMAIN findings} \ {""}
                          ELSE {"<declaration>"}
               first == {k \in DOMAIN concepts : \A j \in 1..(k - 1) : concepts[j].id # concepts[k].id}
    <3>1. Bypasses(findings, concepts) = UNION {{concepts[k]} \X keys(concepts[k]) : k \in first}
        BY Zenon DEF Bypasses
    <3>2. PICK k \in first : b \in {concepts[k]} \X keys(concepts[k])
      <4> HIDE DEF first, keys
      <4> QED  BY <3>1
    <3>3. PICK key \in keys(concepts[k]) : b = <<concepts[k], key>>
      <4> HIDE DEF keys
      <4> QED  BY <3>2
    <3>4. k \in DOMAIN concepts
        OBVIOUS
    <3> QED  BY <3>3, <3>4
  <2>2. ASSUME NEW i \in DOMAIN findings, b = <<concepts[k], Bypass(concepts[k].id, findings[i])>>
        PROVE  b \in knowns
    <3>1. <<k, i>> \in DOMAIN known /\ known[<<k, i>>] = b
        BY <2>2
    <3> HIDE DEF known
    <3> QED  BY <3>1
  <2>3. b = <<concepts[k], "<declaration>">> => b \in unknowns
      OBVIOUS
  <2> QED  BY <2>1, <2>2, <2>3
<1> HIDE DEF knowns, unknowns
<1>4. IsFiniteSet(knowns \cup unknowns)
    BY <1>1, <1>2, FS_Union
<1> QED  BY <1>3, <1>4, FS_Subset

LEMMA AnnouncedFinite ==
    ASSUME IsSequence(records), IsFiniteSet(input.sup)
    PROVE  IsFiniteSet(Announced)
<1> DEFINE tree == {records[i].diag : i \in DOMAIN records}
           diag == [i \in DOMAIN records |-> records[i].diag]
           pairs == input.sup \X tree
           notice == [p \in pairs |-> Notice(p[1], p[2])]
           notices == {notice[p] : p \in DOMAIN notice}
           all == Notices(tree, input.sup, Today)
           entry == [n \in all |-> [rule |-> "LOCUS001", file |-> n.file, first |-> n.first,
                                    last |-> n.first, severity |-> "warning",
                                    text |-> <<n.source, n.rule, n.expired>>]]
<1>1. IsFiniteSet(tree)
  <2>1. IsFiniteSet(DOMAIN diag) /\ tree = {diag[i] : i \in DOMAIN diag}
      BY SequenceFinite
  <2> HIDE DEF diag, tree
  <2> QED  BY <2>1, ImageFinite
<1>2. Announced = {entry[n] : n \in DOMAIN entry}
    BY DEF Announced
<1> HIDE DEF tree
<1>3. IsFiniteSet(notices)
  <2>1. IsFiniteSet(DOMAIN notice)
      BY <1>1, FS_Product
  <2> HIDE DEF notice
  <2> QED  BY <2>1, ImageFinite
<1>4. all \in SUBSET notices
  <2> SUFFICES ASSUME NEW n \in all PROVE n \in notices
      OBVIOUS
  <2>1. PICK d \in tree, s \in input.sup : n = Notice(s, d)
      BY DEF Notices, Lapsed
  <2>2. <<s, d>> \in DOMAIN notice /\ notice[<<s, d>>] = n
      BY <2>1
  <2> HIDE DEF notice
  <2> QED  BY <2>2
<1> HIDE DEF notices, all
<1>5. IsFiniteSet(all) /\ DOMAIN entry = all
    BY <1>3, <1>4, FS_Subset
<1> HIDE DEF entry
<1> QED  BY <1>2, <1>5, ImageFinite

-----------------------------------------------------------------------------
(* The policies *)

\* What a policy may put out: findings with a code, and decisions about findings that are not
\* yet decided.
Proceeds(out, findings, prior) ==
    /\ IsSequence(out.findings) /\ IsSequence(out.decisions)
    /\ \A i \in DOMAIN out.findings : IsFinding(out.findings[i]) /\ out.findings[i].code \in Minted
    /\ \A k \in DOMAIN out.decisions :
            /\ IsDecision(out.decisions[k], findings \o out.findings)
            /\ \A j \in DOMAIN prior : prior[j].finding # out.decisions[k].finding
    /\ \A j, k \in DOMAIN out.decisions :
            out.decisions[j].finding = out.decisions[k].finding => j = k

Finishes(out, findings, prior) ==
    \A i \in DOMAIN (findings \o out.findings) :
        \/ \E j \in DOMAIN prior : prior[j].finding = i
        \/ \E k \in DOMAIN out.decisions : out.decisions[k].finding = i

LEMMA StatusesShow ==
    /\ "known_transition_debt" \notin Suppressing
    /\ \A s : StatusFor(s) \notin Suppressing
BY DEF StatusFor, Suppressing

\* A policy that decides about its own findings.
LEMMA AnnouncingProceeds ==
    ASSUME NEW findings, IsSequence(findings),
           NEW prior, \A j \in DOMAIN prior : prior[j].finding \in DOMAIN findings,
           NEW out, IsSequence(out.findings), IsSequence(out.decisions),
           \A i \in DOMAIN out.findings : IsFinding(out.findings[i]) /\ out.findings[i].code \in Minted,
           DOMAIN out.decisions = DOMAIN out.findings,
           \A i \in DOMAIN out.findings :
                /\ out.decisions[i].finding = Len(findings) + i
                /\ out.decisions[i].policy \in PolicyIds
                /\ out.decisions[i].severity = out.findings[i].severity
                /\ out.decisions[i].status \notin Suppressing
    PROVE  Proceeds(out, findings, prior)
<1> DEFINE all == findings \o out.findings
<1>1. /\ Len(findings) \in Nat /\ DOMAIN findings = 1..Len(findings)
      /\ Len(out.findings) \in Nat /\ DOMAIN out.findings = 1..Len(out.findings)
    BY SequenceProperties
<1>2. \A i \in DOMAIN out.findings :
            Len(findings) + i \in DOMAIN all /\ all[Len(findings) + i] = out.findings[i]
    BY JoinedBack
<1> HIDE DEF all
<1>3. \A k \in DOMAIN out.decisions : IsDecision(out.decisions[k], all)
    BY <1>1, <1>2 DEF IsDecision
<1>4. ASSUME NEW k \in DOMAIN out.decisions, NEW j \in DOMAIN prior
      PROVE  prior[j].finding # out.decisions[k].finding
    BY <1>1
<1>5. ASSUME NEW j \in DOMAIN out.decisions, NEW k \in DOMAIN out.decisions,
             out.decisions[j].finding = out.decisions[k].finding
      PROVE  j = k
    BY <1>1, <1>5
<1> QED  BY <1>3, <1>4, <1>5 DEF Proceeds, all

LEMMA PolicyFindings ==
    ASSUME NEW policy, NEW code \in Minted, NEW span, NEW severity \in Severities, NEW text
    PROVE  LET f == PolicyFinding(policy, code, span, severity, text)
           IN  IsFinding(f) /\ f.code \in Minted
<1>1. "" \notin Minted
    BY DEF Minted
<1> QED  BY <1>1 DEF IsFinding, PolicyFinding

LEMMA BypassSeverities ==
    ASSUME NEW c, NEW mode
    PROVE  BypassSeverity(c, mode) \in Severities
BY DEF BypassSeverity, Elevate, Severities

LEMMA IntegrityProceeds ==
    ASSUME NEW findings, IsSequence(findings),
           NEW prior, \A j \in DOMAIN prior : prior[j].finding \in DOMAIN findings,
           NEW arch \in Archs, NEW mode
    PROVE  Proceeds(Decide("registry-integrity", findings, prior, arch, mode), findings, prior)
<1> DEFINE out == Decide("registry-integrity", findings, prior, arch, mode)
           new == IntegrityFindings(findings)
           found == LegacyCodes(findings)
           order == SetToSeq(found)
           Status(s) == "known_transition_debt"
<1>1. /\ out.findings = new
      /\ out.decisions = [i \in DOMAIN new |->
            Decision(Len(findings) + i, "registry-integrity", new[i].severity, Status(new[i].severity))]
    BY DEF Decide, Announce
<1>2. IsFiniteSet(found)
    BY LegacyCodesFinite
<1> HIDE DEF found
<1>3. Cardinality(found) \in Nat /\ DOMAIN order = 1..Cardinality(found)
    BY <1>2, SetToSeqProperties
<1>4. new = [i \in DOMAIN order |->
                PolicyFinding("registry-integrity", "LOCUS003", SyntheticSpan, "advisory",
                              <<"legacy", order[i]>>)]
    BY DEF IntegrityFindings, found
<1> HIDE DEF order, out
<1>5. IsSequence(new) /\ \A i \in DOMAIN new : IsFinding(new[i]) /\ new[i].code \in Minted
  <2>1. IsSequence(new)
      BY <1>3, <1>4, SequenceOf
  <2>2. "LOCUS003" \in Minted /\ "advisory" \in Severities
      BY DEF Minted, Severities
  <2>3. ASSUME NEW i \in DOMAIN new
        PROVE  IsFinding(new[i]) /\ new[i].code \in Minted
      BY <1>4, <2>2, PolicyFindings
  <2> HIDE DEF new
  <2> QED  BY <2>1, <2>3
<1> HIDE DEF new
<1>6. IsSequence(out.findings) /\ IsSequence(out.decisions) /\ DOMAIN out.decisions = DOMAIN out.findings
    BY <1>1, <1>5, SequenceProperties, SequenceOf
<1>7. \A i \in DOMAIN out.findings :
            /\ out.decisions[i].finding = Len(findings) + i
            /\ out.decisions[i].policy \in PolicyIds
            /\ out.decisions[i].severity = out.findings[i].severity
            /\ out.decisions[i].status \notin Suppressing
    BY <1>1, PolicyNames, StatusesShow DEF Decision
<1>8. Proceeds(out, findings, prior)
    BY <1>1, <1>5, <1>6, <1>7, AnnouncingProceeds
<1> QED  BY <1>8 DEF out

LEMMA CoherenceProceeds ==
    ASSUME NEW findings, IsSequence(findings),
           NEW prior, \A j \in DOMAIN prior : prior[j].finding \in DOMAIN findings,
           NEW arch \in Archs, NEW mode
    PROVE  Proceeds(Decide("registry-coherence", findings, prior, arch, mode), findings, prior)
<1> DEFINE out == Decide("registry-coherence", findings, prior, arch, mode)
           new == CoherenceFindings(arch)
           found == Drifts(arch)
           order == SetToSeq(found)
           Status(s) == "known_transition_debt"
<1>1. /\ out.findings = new
      /\ out.decisions = [i \in DOMAIN new |->
            Decision(Len(findings) + i, "registry-coherence", new[i].severity, Status(new[i].severity))]
    BY DEF Decide, Announce
<1>2. IsFiniteSet(found)
    BY DriftsFinite
<1> HIDE DEF found
<1>3. Cardinality(found) \in Nat /\ DOMAIN order = 1..Cardinality(found)
    BY <1>2, SetToSeqProperties
<1>4. new = [i \in DOMAIN order |->
                PolicyFinding("registry-coherence", "LOCUS004", SyntheticSpan, "advisory", order[i])]
    BY DEF CoherenceFindings, found
<1> HIDE DEF order, out
<1>5. IsSequence(new) /\ \A i \in DOMAIN new : IsFinding(new[i]) /\ new[i].code \in Minted
  <2>1. IsSequence(new)
      BY <1>3, <1>4, SequenceOf
  <2>2. "LOCUS004" \in Minted /\ "advisory" \in Severities
      BY DEF Minted, Severities
  <2>3. ASSUME NEW i \in DOMAIN new
        PROVE  IsFinding(new[i]) /\ new[i].code \in Minted
      BY <1>4, <2>2, PolicyFindings
  <2> HIDE DEF new
  <2> QED  BY <2>1, <2>3
<1> HIDE DEF new
<1>6. IsSequence(out.findings) /\ IsSequence(out.decisions) /\ DOMAIN out.decisions = DOMAIN out.findings
    BY <1>1, <1>5, SequenceProperties, SequenceOf
<1>7. \A i \in DOMAIN out.findings :
            /\ out.decisions[i].finding = Len(findings) + i
            /\ out.decisions[i].policy \in PolicyIds
            /\ out.decisions[i].severity = out.findings[i].severity
            /\ out.decisions[i].status \notin Suppressing
    BY <1>1, PolicyNames, StatusesShow DEF Decision
<1>8. Proceeds(out, findings, prior)
    BY <1>1, <1>5, <1>6, <1>7, AnnouncingProceeds
<1> QED  BY <1>8 DEF out

LEMMA ConceptsProceeds ==
    ASSUME NEW findings, IsSequence(findings),
           NEW prior, \A j \in DOMAIN prior : prior[j].finding \in DOMAIN findings,
           NEW arch \in Archs, NEW mode
    PROVE  Proceeds(Decide("concept-source-of-truth", findings, prior, arch, mode), findings, prior)
<1> DEFINE out == Decide("concept-source-of-truth", findings, prior, arch, mode)
           new == ConceptFindings(findings, arch, mode)
           found == IF arch.status = "present" THEN Bypasses(findings, arch.concepts) ELSE {}
           order == SetToSeq(found)
           Status(s) == StatusFor(s)
<1>1. /\ out.findings = new
      /\ out.decisions = [i \in DOMAIN new |->
            Decision(Len(findings) + i, "concept-source-of-truth", new[i].severity, Status(new[i].severity))]
    BY DEF Decide, Announce
<1>2. IsFiniteSet(found)
  <2>1. CASE arch.status = "present"
    <3>1. arch.concepts \in Seq([id : STRING, enforcement : {"enforced", "advisory"}])
        BY <2>1, ArchsAssumption
    <3>2. IsSequence(arch.concepts)
        BY <3>1, TypedSequence
    <3> QED  BY <2>1, <3>2, BypassesFinite
  <2>2. CASE arch.status # "present"
      BY <2>2, FS_EmptySet
  <2> QED  BY <2>1, <2>2
<1> HIDE DEF found
<1>3. Cardinality(found) \in Nat /\ DOMAIN order = 1..Cardinality(found)
    BY <1>2, SetToSeqProperties
<1>4. new = [k \in DOMAIN order |->
                PolicyFinding("concept-source-of-truth", "LOCUS005",
                              BypassSpan(findings, order[k][1], order[k][2]),
                              BypassSeverity(order[k][1], mode), <<order[k][1].id, order[k][2]>>)]
    BY DEF ConceptFindings, found
<1> HIDE DEF order, out
<1>5. IsSequence(new) /\ \A i \in DOMAIN new : IsFinding(new[i]) /\ new[i].code \in Minted
  <2>1. IsSequence(new)
      BY <1>3, <1>4, SequenceOf
  <2>2. "LOCUS005" \in Minted /\ "advisory" \in Severities
      BY DEF Minted, Severities
  <2>3. ASSUME NEW i \in DOMAIN new
        PROVE  IsFinding(new[i]) /\ new[i].code \in Minted
      BY <1>4, <2>2, PolicyFindings, BypassSeverities
  <2> HIDE DEF new
  <2> QED  BY <2>1, <2>3
<1> HIDE DEF new
<1>6. IsSequence(out.findings) /\ IsSequence(out.decisions) /\ DOMAIN out.decisions = DOMAIN out.findings
    BY <1>1, <1>5, SequenceProperties, SequenceOf
<1>7. \A i \in DOMAIN out.findings :
            /\ out.decisions[i].finding = Len(findings) + i
            /\ out.decisions[i].policy \in PolicyIds
            /\ out.decisions[i].severity = out.findings[i].severity
            /\ out.decisions[i].status \notin Suppressing
    BY <1>1, PolicyNames, StatusesShow DEF Decision
<1>8. Proceeds(out, findings, prior)
    BY <1>1, <1>5, <1>6, <1>7, AnnouncingProceeds
<1> QED  BY <1>8 DEF out

\* The last policy decides what is left.
LEMMA PassThroughProceeds ==
    ASSUME NEW findings, IsSequence(findings), \A i \in DOMAIN findings : IsFinding(findings[i]),
           NEW prior, NEW arch, NEW mode
    PROVE  LET out == Decide("default-pass-through", findings, prior, arch, mode)
           IN  Proceeds(out, findings, prior) /\ Finishes(out, findings, prior)
<1> DEFINE out == Decide("default-pass-through", findings, prior, arch, mode)
           left == Undecided(findings, prior)
           ids == InOrder(left)
           n == Cardinality(left)
           all == findings \o <<>>
<1>1. /\ out.findings = <<>>
      /\ out.decisions = [k \in DOMAIN ids |->
            Decision(ids[k], "default-pass-through", findings[ids[k]].severity,
                     StatusFor(findings[ids[k]].severity))]
    BY DEF Decide, PassThrough
<1>2. left \in SUBSET DOMAIN findings /\ \A i \in DOMAIN findings \ left :
            \E j \in DOMAIN prior : prior[j].finding = i
    BY DEF Undecided
<1>3. left \in SUBSET Nat /\ IsFiniteSet(left)
  <2> HIDE DEF left
  <2> QED  BY <1>2, PickedProperties
<1> HIDE DEF left
<1>4. /\ n \in Nat /\ DOMAIN ids = 1..n
      /\ \A k \in 1..n : ids[k] \in left
      /\ \A k, l \in 1..n : k < l => ids[k] < ids[l]
      /\ \A i \in left : \E k \in 1..n : ids[k] = i
    BY <1>3, InOrderProperties
<1>5. IsSequence(<<>>) /\ DOMAIN <<>> = {}
    BY EmptySequence
<1>6. DOMAIN all = DOMAIN findings /\ \A i \in DOMAIN findings : all[i] = findings[i]
  <2>1. DOMAIN all = 1..(Len(findings) + Len(<<>>)) /\ Len(findings) \in Nat /\ DOMAIN findings = 1..Len(findings)
      BY <1>5, JoinedSequence, SequenceProperties
  <2>2. Len(<<>>) = 0
      OBVIOUS
  <2>3. \A i \in DOMAIN findings : all[i] = findings[i]
      BY <1>5, JoinedFront
  <2> HIDE DEF all
  <2> QED  BY <2>1, <2>2, <2>3
<1> HIDE DEF ids, n, out, all
<1>7. IsSequence(out.decisions) /\ DOMAIN out.decisions = 1..n
    BY <1>1, <1>4, SequenceOf
<1>8. \A k \in 1..n : /\ out.decisions[k].finding = ids[k]
                     /\ out.decisions[k].policy = "default-pass-through"
                     /\ out.decisions[k].severity = findings[ids[k]].severity
                     /\ out.decisions[k].status \notin Suppressing
    BY <1>1, <1>4, StatusesShow DEF Decision
<1>9. \A k \in DOMAIN out.decisions : IsDecision(out.decisions[k], all)
    BY <1>2, <1>4, <1>6, <1>7, <1>8, PolicyNames DEF IsDecision
<1>10. \A k \in DOMAIN out.decisions, j \in DOMAIN prior : prior[j].finding # out.decisions[k].finding
  <2>1. \A i \in left, j \in DOMAIN prior : prior[j].finding # i
      BY DEF left, Undecided
  <2> QED  BY <1>4, <1>7, <1>8, <2>1
<1>11. ASSUME NEW j \in DOMAIN out.decisions, NEW k \in DOMAIN out.decisions,
              out.decisions[j].finding = out.decisions[k].finding
       PROVE  j = k
  <2>1. j \in 1..n /\ k \in 1..n /\ ids[j] = ids[k]
      BY <1>7, <1>8, <1>11
  <2>2. ids[j] \in Nat
      BY <1>3, <1>4, <2>1
  <2>3. ~(j < k) /\ ~(k < j)
      BY <1>4, <2>1, <2>2
  <2> QED  BY <1>4, <2>1, <2>3
<1>12. Proceeds(out, findings, prior)
  <2>1. \A i \in DOMAIN out.findings : IsFinding(out.findings[i]) /\ out.findings[i].code \in Minted
      BY <1>1, <1>5
  <2>2. findings \o out.findings = all /\ IsSequence(out.findings)
      BY <1>1, <1>5 DEF all
  <2> QED  BY <1>7, <1>9, <1>10, <1>11, <2>1, <2>2 DEF Proceeds
<1>13. \A i \in DOMAIN all : \/ \E j \in DOMAIN prior : prior[j].finding = i
                            \/ \E k \in DOMAIN out.decisions : out.decisions[k].finding = i
    BY <1>2, <1>4, <1>6, <1>7, <1>8
<1>14. findings \o out.findings = all
    BY <1>1 DEF all
<1>15. Finishes(out, findings, prior)
    BY <1>13, <1>14 DEF Finishes
<1> QED  BY <1>12, <1>15 DEF out

-----------------------------------------------------------------------------
(* What is collected *)

\* The legacy violation behind a finding that no registered rule observed.
LegacyPlace(scan, i) ==
    InOrder({b \in DOMAIN scan.legacy : Adapted(scan.legacy[b])})[i - Len(scan.observed)]

LEMMA ScanTypes ==
    ASSUME NEW scan \in Scans
    PROVE  /\ IsSequence(scan.observed) /\ IsSequence(scan.legacy)
           /\ \A a \in DOMAIN scan.observed :
                scan.observed[a] \in Violation /\ scan.observed[a].rule \in Rule \ {"LOCUS001"}
           /\ \A b \in DOMAIN scan.legacy :
                scan.legacy[b] \in Violation /\ scan.legacy[b].rule \in Rule \ {"LOCUS001"}
<1>1. /\ scan.observed \in Seq(Violation) /\ scan.legacy \in Seq(Violation)
      /\ \A v \in ToSet(scan.observed) \cup ToSet(scan.legacy) : v.rule # "LOCUS001"
    BY ScansAssumption
<1>2. /\ IsSequence(scan.observed) /\ IsSequence(scan.legacy)
      /\ \A a \in DOMAIN scan.observed : scan.observed[a] \in Violation
      /\ \A b \in DOMAIN scan.legacy : scan.legacy[b] \in Violation
    BY <1>1, TypedSequence
<1>3. \A v \in Violation : v.rule \in Rule
    BY DEF Violation
<1>4. /\ \A a \in DOMAIN scan.observed : scan.observed[a].rule # "LOCUS001"
      /\ \A b \in DOMAIN scan.legacy : scan.legacy[b].rule # "LOCUS001"
    BY <1>1 DEF ToSet
<1> QED  BY <1>2, <1>3, <1>4

LEMMA FindingFields ==
    ASSUME NEW v
    PROVE  /\ Observed(v).code = "" /\ Observed(v).owner = v.rule /\ Observed(v).text = v.text
           /\ Observed(v).severity = v.severity /\ Observed(v).span = v.span
           /\ Synthesize(v).code = "" /\ Synthesize(v).owner = v.rule /\ Synthesize(v).text = v.text
           /\ Synthesize(v).severity = v.severity /\ Synthesize(v).span = v.span
BY DEF Observed, Synthesize

LEMMA ViolationsBecomeFindings ==
    ASSUME NEW v \in Violation, v.rule # "LOCUS001"
    PROVE  /\ Observed(v).code = "" /\ IsFinding(Observed(v))
           /\ Synthesize(v).code = "" /\ IsFinding(Synthesize(v))
<1>1. v.rule \in Rule /\ v.severity \in Severities
    BY DEF Violation
<1> QED  BY <1>1, FindingFields DEF IsFinding

LEMMA CollectedFindings ==
    ASSUME NEW scan \in Scans
    PROVE  LET base == Collect(scan.observed, scan.legacy)
           IN  /\ IsSequence(base)
               /\ \A i \in DOMAIN base : base[i].code = "" /\ IsFinding(base[i])
               /\ \A a \in DOMAIN scan.observed : a \in DOMAIN base /\ base[a] = Observed(scan.observed[a])
               /\ \A i \in DOMAIN base \ DOMAIN scan.observed :
                    /\ LegacyPlace(scan, i) \in DOMAIN scan.legacy
                    /\ base[i] = Synthesize(scan.legacy[LegacyPlace(scan, i)])
                    /\ Adapted(scan.legacy[LegacyPlace(scan, i)])
               /\ \A i, j \in DOMAIN base \ DOMAIN scan.observed :
                    LegacyPlace(scan, i) = LegacyPlace(scan, j) => i = j
               /\ \A b \in DOMAIN scan.legacy : Adapted(scan.legacy[b]) =>
                    \E i \in DOMAIN base : base[i] = Synthesize(scan.legacy[b])
<1> DEFINE base == Collect(scan.observed, scan.legacy)
           places == {b \in DOMAIN scan.legacy : Adapted(scan.legacy[b])}
           e == InOrder(places)
           n == Cardinality(places)
           front == [a \in DOMAIN scan.observed |-> Observed(scan.observed[a])]
           kept == Picked(scan.legacy, places)
           back == [k \in DOMAIN kept |-> Synthesize(kept[k])]
           m == Len(scan.observed)
<1>1. /\ m \in Nat /\ DOMAIN scan.observed = 1..m
      /\ IsSequence(scan.legacy)
    BY ScanTypes, SequenceProperties
<1>2. places \in SUBSET DOMAIN scan.legacy /\ \A b \in places : Adapted(scan.legacy[b])
    OBVIOUS
<1>3. base = front \o back
    BY DEF Collect
<1>4. IsSequence(front) /\ Len(front) = m /\ DOMAIN front = 1..m
    BY <1>1, SequenceOf
<1>5. \A b \in DOMAIN scan.legacy : Adapted(scan.legacy[b]) => b \in places
    OBVIOUS
<1>6. \A i : LegacyPlace(scan, i) = e[i - m]
    BY DEF LegacyPlace
<1> HIDE DEF places
<1>7. /\ n \in Nat
      /\ places \in SUBSET Nat
      /\ \A k \in 1..n : e[k] \in places
      /\ \A k, l \in 1..n : k < l => e[k] < e[l]
      /\ \A b \in places : \E k \in 1..n : e[k] = b
    BY <1>1, <1>2, PickedProperties, InOrderProperties
<1>8. DOMAIN kept = 1..n /\ \A k \in 1..n : kept[k] = scan.legacy[e[k]]
    BY <1>1, <1>2, PickedProperties
<1> HIDE DEF e, n, kept, base, m
<1>9. IsSequence(back) /\ DOMAIN back = 1..n /\ Len(back) = n
    BY <1>7, <1>8, SequenceOf
<1>10. \A k \in 1..n : back[k] = Synthesize(scan.legacy[e[k]])
    BY <1>8
<1>11. \A a \in 1..m : front[a] = Observed(scan.observed[a])
    BY <1>1
<1> HIDE DEF front, back
<1>12. IsSequence(base) /\ DOMAIN base = 1..(m + n)
    BY <1>3, <1>4, <1>9, JoinedSequence
<1>13. \A a \in 1..m : a \in DOMAIN base /\ base[a] = Observed(scan.observed[a])
    BY <1>3, <1>4, <1>9, <1>11, JoinedFront
<1>14. \A k \in 1..n : m + k \in DOMAIN base /\ base[m + k] = Synthesize(scan.legacy[e[k]])
    BY <1>3, <1>4, <1>9, <1>10, JoinedBack
<1>15. \A i \in DOMAIN base \ (1..m) : i - m \in 1..n /\ m + (i - m) = i
    BY <1>1, <1>7, <1>12
<1>16. \A i \in DOMAIN base \ (1..m) :
            /\ LegacyPlace(scan, i) \in places
            /\ base[i] = Synthesize(scan.legacy[LegacyPlace(scan, i)])
    BY <1>6, <1>7, <1>14, <1>15
<1>17. ASSUME NEW i \in DOMAIN base \ (1..m), NEW j \in DOMAIN base \ (1..m),
              LegacyPlace(scan, i) = LegacyPlace(scan, j)
       PROVE  i = j
  <2>1. i - m \in 1..n /\ j - m \in 1..n /\ e[i - m] = e[j - m] /\ e[i - m] \in Nat
      BY <1>6, <1>7, <1>15, <1>17
  <2>2. ~(i - m < j - m) /\ ~(j - m < i - m)
      BY <1>7, <2>1
  <2> QED  BY <1>1, <1>7, <1>12, <2>2
<1>18. \A b \in places : \E i \in DOMAIN base : base[i] = Synthesize(scan.legacy[b])
    BY <1>7, <1>14
<1>19. ASSUME NEW i \in DOMAIN base
       PROVE  base[i].code = "" /\ IsFinding(base[i])
  <2>1. \E v : /\ base[i] = Observed(v) \/ base[i] = Synthesize(v)
               /\ v \in Violation /\ v.rule \in Rule \ {"LOCUS001"}
    <3>1. CASE i \in 1..m
        BY <1>1, <1>13, <3>1, ScanTypes
    <3>2. CASE i \notin 1..m
        BY <1>2, <1>16, <3>2, ScanTypes
    <3> QED  BY <3>1, <3>2
  <2>2. PICK v : /\ base[i] = Observed(v) \/ base[i] = Synthesize(v)
                 /\ v \in Violation /\ v.rule # "LOCUS001"
      BY <2>1
  <2> QED  BY <2>2, ViolationsBecomeFindings
<1> QED  BY <1>1, <1>2, <1>5, <1>12, <1>13, <1>16, <1>17, <1>18, <1>19 DEF base

-----------------------------------------------------------------------------
(* The steps of the findings and the decisions *)

LEMMA StoreStays ==
    ASSUME StoreInv, UNCHANGED <<input, store>>, stage # "collect", stage' # "collect"
    PROVE  StoreInv'
BY DEF StoreInv, Base

LEMMA DecisionsStay ==
    ASSUME DecisionsInv, UNCHANGED <<store, decisions>>,
           stage \notin {"collect"} \cup PolicyIds, stage' # "collect"
    PROVE  DecisionsInv'
BY DEF DecisionsInv

LEMMA CollectStep ==
    ASSUME IInv, CollectFindings
    PROVE  IInv'
<1>1. stage = "collect" /\ stage' = "registry-integrity" /\ UNCHANGED <<input, decisions, records>>
      /\ store' = Base
    BY StageOrder DEF CollectFindings, Base
<1>2. input.scan \in Scans /\ decisions = <<>> /\ records = <<>>
    BY <1>1 DEF IInv, DecisionsInv, FiltersInv
<1>3. /\ IsSequence(Base)
      /\ \A i \in DOMAIN Base : Base[i].code = "" /\ IsFinding(Base[i])
    BY <1>2, CollectedFindings DEF Base
<1>4. StoreInv'
  <2>1. Base' = Base
      BY <1>1 DEF Base
  <2> QED  BY <1>1, <1>3, <2>1 DEF StoreInv
<1>5. DecisionsInv'
    BY <1>1, <1>2, EmptySequence, PolicyNames DEF DecisionsInv
<1>6. RecordsInv' /\ FiltersInv' /\ EndInv'
    BY <1>1, <1>2, EmptySequence, PolicyNames DEF RecordsInv, FiltersInv, EndInv, Ordered
<1> QED  BY <1>1, <1>4, <1>5, <1>6, StageOrder, PolicyNames DEF IInv

LEMMA PolicyProceeds ==
    ASSUME IInv, NEW policy \in PolicyIds
    PROVE  Proceeds(Decide(policy, store, decisions, input.arch, input.mode), store, decisions)
<1>1. /\ IsSequence(store) /\ \A i \in DOMAIN store : IsFinding(store[i])
      /\ \A j \in DOMAIN decisions : decisions[j].finding \in DOMAIN store
      /\ input.arch \in Archs
    BY DEF IInv, StoreInv, DecisionsInv, IsDecision
<1>2. CASE policy = "registry-integrity"
    BY <1>1, <1>2, IntegrityProceeds
<1>3. CASE policy = "registry-coherence"
    BY <1>1, <1>3, CoherenceProceeds
<1>4. CASE policy = "concept-source-of-truth"
    BY <1>1, <1>4, ConceptsProceeds
<1>5. CASE policy = "default-pass-through"
    BY <1>1, <1>5, PassThroughProceeds
<1> QED  BY <1>2, <1>3, <1>4, <1>5, PolicyNames

\* The findings and the decisions of a policy keep every finding decided at most once.
LEMMA ProceedingKeeps ==
    ASSUME IsSequence(store), \A i \in DOMAIN store : IsFinding(store[i]),
           IsSequence(decisions), \A k \in DOMAIN decisions : IsDecision(decisions[k], store),
           \A j, k \in DOMAIN decisions : decisions[j].finding = decisions[k].finding => j = k,
           NEW out, Proceeds(out, store, decisions)
    PROVE  LET findings == store \o out.findings
               decided == decisions \o out.decisions
           IN  /\ IsSequence(findings) /\ DOMAIN store \subseteq DOMAIN findings
               /\ \A i \in DOMAIN findings : IsFinding(findings[i])
               /\ \A i \in DOMAIN store : findings[i] = store[i]
               /\ \A i \in DOMAIN findings \ DOMAIN store : findings[i].code \in Minted
               /\ IsSequence(decided) /\ \A k \in DOMAIN decided : IsDecision(decided[k], findings)
               /\ \A j, k \in DOMAIN decided : decided[j].finding = decided[k].finding => j = k
               /\ \A j \in DOMAIN decisions : j \in DOMAIN decided /\ decided[j] = decisions[j]
               /\ \A k \in DOMAIN out.decisions : \E j \in DOMAIN decided : decided[j] = out.decisions[k]
<1> DEFINE findings == store \o out.findings
           decided == decisions \o out.decisions
<1>1. /\ IsSequence(out.findings) /\ IsSequence(out.decisions)
      /\ \A i \in DOMAIN out.findings : IsFinding(out.findings[i]) /\ out.findings[i].code \in Minted
      /\ \A k \in DOMAIN out.decisions :
            /\ IsDecision(out.decisions[k], findings)
            /\ \A j \in DOMAIN decisions : decisions[j].finding # out.decisions[k].finding
      /\ \A j, k \in DOMAIN out.decisions :
            out.decisions[j].finding = out.decisions[k].finding => j = k
    BY DEF Proceeds
<1>2. IsSequence(findings) /\ IsSequence(decided)
    BY <1>1, JoinedSequence
<1>3. \A i \in DOMAIN store : i \in DOMAIN findings /\ findings[i] = store[i]
    BY <1>1, JoinedFront
<1>4. \A i \in DOMAIN findings : i \in DOMAIN store \/ \E a \in DOMAIN out.findings : findings[i] = out.findings[a]
    BY <1>1, JoinedPlace, JoinedBack
<1>5. \A j \in DOMAIN decisions : j \in DOMAIN decided /\ decided[j] = decisions[j]
    BY <1>1, JoinedFront
<1>6. \A a \in DOMAIN out.decisions :
            Len(decisions) + a \in DOMAIN decided /\ decided[Len(decisions) + a] = out.decisions[a]
    BY <1>1, JoinedBack
<1>7. \A k \in DOMAIN decided : \/ k \in DOMAIN decisions
                               \/ \E a \in DOMAIN out.decisions : k = Len(decisions) + a
    BY <1>1, JoinedPlace
<1> HIDE DEF findings, decided
<1>8. \A k \in DOMAIN decided : IsDecision(decided[k], findings)
  <2> SUFFICES ASSUME NEW k \in DOMAIN decided PROVE IsDecision(decided[k], findings)
      OBVIOUS
  <2>1. CASE k \in DOMAIN decisions
      BY <1>3, <1>5, <2>1 DEF IsDecision
  <2>2. ASSUME NEW a \in DOMAIN out.decisions, k = Len(decisions) + a
        PROVE  IsDecision(decided[k], findings)
      BY <1>1, <1>6, <2>2
  <2> QED  BY <1>7, <2>1, <2>2
<1>9. ASSUME NEW j \in DOMAIN decided, NEW k \in DOMAIN decided, decided[j].finding = decided[k].finding
      PROVE  j = k
  <2>1. CASE j \in DOMAIN decisions /\ k \in DOMAIN decisions
      BY <1>5, <1>9, <2>1
  <2>2. CASE j \in DOMAIN decisions /\ k \notin DOMAIN decisions
      BY <1>1, <1>5, <1>6, <1>7, <1>9, <2>2
  <2>3. CASE j \notin DOMAIN decisions /\ k \in DOMAIN decisions
      BY <1>1, <1>5, <1>6, <1>7, <1>9, <2>3
  <2>4. CASE j \notin DOMAIN decisions /\ k \notin DOMAIN decisions
      BY <1>1, <1>6, <1>7, <1>9, <2>4
  <2> QED  BY <2>1, <2>2, <2>3, <2>4
<1>10. \A i \in DOMAIN findings : IsFinding(findings[i])
    BY <1>1, <1>3, <1>4
<1>11. \A i \in DOMAIN findings \ DOMAIN store : findings[i].code \in Minted
    BY <1>1, <1>4
<1>12. \A k \in DOMAIN out.decisions : \E j \in DOMAIN decided : decided[j] = out.decisions[k]
    BY <1>6
<1> QED  BY <1>2, <1>3, <1>5, <1>8, <1>9, <1>10, <1>11, <1>12 DEF findings, decided

LEMMA PolicyStep ==
    ASSUME IInv, NEW policy \in PolicyIds, RunPolicy(policy)
    PROVE  IInv'
<1> DEFINE out == Decide(policy, store, decisions, input.arch, input.mode)
<1>1. /\ stage = policy /\ stage' = StageAfter(policy) /\ UNCHANGED <<input, records>>
      /\ store' = store \o out.findings /\ decisions' = decisions \o out.decisions
    BY DEF RunPolicy
<1>2. Proceeds(out, store, decisions)
    BY PolicyProceeds
<1>3. stage \in PolicyIds /\ stage # "collect" /\ stage' \in (PolicyIds \cup {"materialize"})
      /\ stage' # "collect" /\ (stage' = "materialize" => policy = "default-pass-through")
    BY <1>1, StageOrder, PolicyNames
<1> HIDE DEF out
<1>4. /\ IsSequence(store) /\ \A i \in DOMAIN store : IsFinding(store[i])
      /\ DOMAIN Base \subseteq DOMAIN store
      /\ \A i \in DOMAIN Base : store[i] = Base[i] /\ store[i].code = ""
      /\ \A i \in DOMAIN store \ DOMAIN Base : store[i].code \in Minted
    BY <1>3 DEF IInv, StoreInv
<1>5. /\ IsSequence(decisions) /\ \A k \in DOMAIN decisions : IsDecision(decisions[k], store)
      /\ \A j, k \in DOMAIN decisions : decisions[j].finding = decisions[k].finding => j = k
    BY DEF IInv, DecisionsInv
<1>6. /\ IsSequence(store') /\ DOMAIN store \subseteq DOMAIN store'
      /\ \A i \in DOMAIN store' : IsFinding(store'[i])
      /\ \A i \in DOMAIN store : store'[i] = store[i]
      /\ \A i \in DOMAIN store' \ DOMAIN store : store'[i].code \in Minted
      /\ IsSequence(decisions') /\ \A k \in DOMAIN decisions' : IsDecision(decisions'[k], store')
      /\ \A j, k \in DOMAIN decisions' : decisions'[j].finding = decisions'[k].finding => j = k
      /\ \A j \in DOMAIN decisions : j \in DOMAIN decisions' /\ decisions'[j] = decisions[j]
      /\ \A k \in DOMAIN out.decisions : \E j \in DOMAIN decisions' : decisions'[j] = out.decisions[k]
  <2> DEFINE findings == store \o out.findings
             decided == decisions \o out.decisions
  <2>1. /\ IsSequence(findings) /\ DOMAIN store \subseteq DOMAIN findings
        /\ \A i \in DOMAIN findings : IsFinding(findings[i])
        /\ \A i \in DOMAIN store : findings[i] = store[i]
        /\ \A i \in DOMAIN findings \ DOMAIN store : findings[i].code \in Minted
        /\ IsSequence(decided) /\ \A k \in DOMAIN decided : IsDecision(decided[k], findings)
        /\ \A j, k \in DOMAIN decided : decided[j].finding = decided[k].finding => j = k
        /\ \A j \in DOMAIN decisions : j \in DOMAIN decided /\ decided[j] = decisions[j]
        /\ \A k \in DOMAIN out.decisions : \E j \in DOMAIN decided : decided[j] = out.decisions[k]
      BY <1>2, <1>4, <1>5, ProceedingKeeps
  <2>2. store' = findings /\ decisions' = decided
      BY <1>1
  <2> HIDE DEF findings, decided
  <2> QED  BY <2>1, <2>2
<1>7. Base' = Base
    BY <1>1 DEF Base
<1>8. StoreInv'
  <2>1. /\ DOMAIN Base \subseteq DOMAIN store'
        /\ \A i \in DOMAIN Base : store'[i] = Base[i] /\ store'[i].code = ""
        /\ \A i \in DOMAIN store' \ DOMAIN Base : store'[i].code \in Minted
      BY <1>4, <1>6
  <2> QED  BY <1>3, <1>6, <1>7, <2>1 DEF StoreInv
<1>9. DecisionsInv'
  <2>1. ASSUME stage' = "materialize" PROVE Undecided(store', decisions') = {}
    <3>1. policy = "default-pass-through"
        BY <1>3, <2>1
    <3>2. \A i \in DOMAIN store' : \/ \E j \in DOMAIN decisions : decisions[j].finding = i
                                  \/ \E k \in DOMAIN out.decisions : out.decisions[k].finding = i
      <4> DEFINE last == Decide("default-pass-through", store, decisions, input.arch, input.mode)
      <4>1. Finishes(last, store, decisions)
          BY <1>4, PassThroughProceeds
      <4>2. out = last
          BY <3>1 DEF out
      <4> HIDE DEF last
      <4> QED  BY <1>1, <4>1, <4>2 DEF Finishes
    <3>3. \A i \in DOMAIN store' : \E j \in DOMAIN decisions' : decisions'[j].finding = i
        BY <1>6, <3>2
    <3> QED  BY <3>3 DEF Undecided
  <2> QED  BY <1>3, <1>6, <2>1 DEF DecisionsInv
<1>10. records = <<>> /\ records' = <<>>
    BY <1>1, <1>3 DEF IInv, FiltersInv
<1>11. RecordsInv' /\ FiltersInv' /\ EndInv'
    BY <1>3, <1>10, EmptySequence, PolicyNames DEF RecordsInv, FiltersInv, EndInv, Ordered
<1>12. input' = input /\ stage' \in ToSet(Stages)
    BY <1>1, <1>3, StageOrder
<1> QED  BY <1>8, <1>9, <1>11, <1>12 DEF IInv

-----------------------------------------------------------------------------
(* The steps of the records *)

\* What was decided once and for all is valid: the program does not panic.
LEMMA DecidedIsValid ==
    ASSUME IInv, stage = "materialize"
    PROVE  Valid(store, decisions)
BY PolicyNames DEF IInv, DecisionsInv, Valid

LEMMA RecordsOfDecisions ==
    ASSUME NEW findings, NEW decided, IsSequence(decided),
           \A k \in DOMAIN decided : decided[k].status \notin Suppressing
    PROVE  LET recs == Records(findings, decided)
           IN  /\ IsSequence(recs)
               /\ \A i \in DOMAIN recs : /\ recs[i].decision \in DOMAIN decided
                                        /\ recs[i] = Emitted(findings, decided, recs[i].decision)
               /\ \A i, j \in DOMAIN recs : i < j => recs[i].decision < recs[j].decision
               /\ \A k \in DOMAIN decided : Shows(recs, k)
<1> DEFINE recs == Records(findings, decided)
           places == {k \in DOMAIN decided : decided[k].status \notin Suppressing}
           e == InOrder(places)
           n == Cardinality(places)
<1>1. places = DOMAIN decided
    OBVIOUS
<1>2. recs = [i \in DOMAIN e |-> [diag |-> Materialize(findings, decided[e[i]]), decision |-> e[i]]]
    BY DEF Records
<1> HIDE DEF places
<1>3. places \in SUBSET DOMAIN decided
    BY <1>1
<1>4. /\ n \in Nat /\ DOMAIN e = 1..n
      /\ \A k \in 1..n : e[k] \in places
      /\ \A k, l \in 1..n : k < l => e[k] < e[l]
      /\ \A i \in places : \E k \in 1..n : e[k] = i
    BY <1>3, PickedProperties, InOrderProperties
<1> HIDE DEF e, n, recs
<1>5. IsSequence(recs) /\ DOMAIN recs = 1..n
    BY <1>2, <1>4, SequenceOf
<1>6. \A i \in 1..n : recs[i].decision = e[i] /\ recs[i] = Emitted(findings, decided, e[i])
    BY <1>2, <1>4 DEF Emitted
<1>7. \A k \in DOMAIN decided : Shows(recs, k)
    BY <1>1, <1>4, <1>5, <1>6 DEF Shows
<1> QED  BY <1>1, <1>4, <1>5, <1>6, <1>7 DEF recs

LEMMA MaterializeStep ==
    ASSUME IInv, MaterializeDecisions
    PROVE  IInv'
<1>1. /\ stage = "materialize" /\ stage' = "exceptions" /\ UNCHANGED <<input, store, decisions>>
      /\ records' = Records(store, decisions)
    BY DecidedIsValid, StageOrder DEF MaterializeDecisions
<1>2. StoreInv' /\ DecisionsInv'
    BY <1>1, StoreStays, DecisionsStay, PolicyNames DEF IInv
<1> DEFINE recs == Records(store, decisions)
<1>3. IsSequence(decisions) /\ \A k \in DOMAIN decisions : decisions[k].status \notin Suppressing
    BY DEF IInv, DecisionsInv, IsDecision
<1>4. /\ IsSequence(recs)
      /\ \A i \in DOMAIN recs : /\ recs[i].decision \in DOMAIN decisions
                               /\ recs[i] = Emitted(store, decisions, recs[i].decision)
      /\ \A i, j \in DOMAIN recs : i < j => recs[i].decision < recs[j].decision
      /\ \A k \in DOMAIN decisions : Shows(recs, k)
    BY <1>3, RecordsOfDecisions
<1>5. records' = recs
    BY <1>1
<1> HIDE DEF recs
<1>6. RecordsInv'
    BY <1>1, <1>4, <1>5 DEF RecordsInv, IsRecord, Ordered
<1>7. 0 \notin DOMAIN decisions
    BY <1>3, SequenceProperties
<1>8. FiltersInv' /\ EndInv'
    BY <1>1, <1>4, <1>5, <1>7, PolicyNames DEF FiltersInv, EndInv
<1> QED  BY <1>1, <1>2, <1>6, <1>8, StageOrder DEF IInv

LEMMA NoDecisionZero ==
    ASSUME IInv
    PROVE  0 \notin DOMAIN decisions
<1>1. IsSequence(decisions)
    BY DEF IInv, DecisionsInv
<1>2. DOMAIN decisions = 1..Len(decisions)
    BY <1>1, SequenceProperties
<1> QED  BY <1>2

\* Records picked in order, with records that have no decision after them.
Selects(out, recs, S, more) ==
    /\ DOMAIN out = 1..(Cardinality(S) + Len(more))
    /\ \A k \in 1..Cardinality(S) : out[k] = recs[InOrder(S)[k]]
    /\ \A a \in DOMAIN more : out[Cardinality(S) + a] = more[a] /\ more[a].decision = 0

LEMMA SelectedRecords ==
    ASSUME NEW recs, IsSequence(recs), Ordered(recs), NEW S \in SUBSET DOMAIN recs,
           NEW more, IsSequence(more), NEW out, Selects(out, recs, S, more)
    PROVE  /\ Ordered(out)
           /\ \A i \in DOMAIN out : \/ \E a \in S : out[i] = recs[a]
                                   \/ \E a \in DOMAIN more : out[i] = more[a]
           /\ \A a \in S : \E i \in DOMAIN out : out[i] = recs[a]
<1> DEFINE n == Cardinality(S)
           e == InOrder(S)
<1>1. /\ n \in Nat
      /\ \A k \in 1..n : e[k] \in S
      /\ \A k, l \in 1..n : k < l => e[k] < e[l]
      /\ \A a \in S : \E k \in 1..n : e[k] = a
    BY PickedProperties, InOrderProperties
<1>2. Len(more) \in Nat /\ DOMAIN more = 1..Len(more)
    BY SequenceProperties
<1>3. /\ DOMAIN out = 1..(n + Len(more))
      /\ \A k \in 1..n : out[k] = recs[e[k]]
      /\ \A a \in DOMAIN more : out[n + a] = more[a] /\ more[a].decision = 0
    BY DEF Selects
<1> HIDE DEF n, e
<1> DEFINE m == Len(more)
<1> HIDE DEF m
<1>4. n \in Nat /\ m \in Nat /\ DOMAIN more = 1..m /\ DOMAIN out = 1..(n + m)
    BY <1>1, <1>2, <1>3 DEF m
<1>5. /\ \A i \in DOMAIN out :
            i \in 1..n \/ (i - n \in DOMAIN more /\ n + (i - n) = i /\ i \in Nat /\ ~(i <= n))
      /\ \A k \in 1..n : k \in DOMAIN out
    BY ONLY <1>4
<1>6. ASSUME NEW i \in DOMAIN out, NEW j \in DOMAIN out, i < j, out[j].decision # 0
      PROVE  out[i].decision < out[j].decision
  <2>1. j \in 1..n
      BY <1>3, <1>5, <1>6
  <2>2. i \in 1..n
      BY <1>1, <1>5, <1>6, <2>1
  <2>3. e[i] < e[j] /\ e[i] \in DOMAIN recs /\ e[j] \in DOMAIN recs
      BY <1>1, <1>6, <2>1, <2>2
  <2> QED  BY <1>3, <1>6, <2>1, <2>2, <2>3 DEF Ordered
<1>7. ASSUME NEW i \in DOMAIN out
      PROVE  (\E a \in S : out[i] = recs[a]) \/ (\E a \in DOMAIN more : out[i] = more[a])
  <2>1. CASE i \in 1..n
      BY <1>1, <1>3, <2>1
  <2>2. CASE i \notin 1..n
      BY <1>3, <1>5, <2>2
  <2> QED  BY <2>1, <2>2
<1>8. \A a \in S : \E i \in DOMAIN out : out[i] = recs[a]
    BY <1>1, <1>3, <1>5
<1> QED  BY <1>6, <1>7, <1>8 DEF Ordered

LEMMA ShownRule ==
    ASSUME NEW findings, NEW d, IsFinding(findings[d.finding])
    PROVE  /\ Materialize(findings, d).rule \in Rule \ {"LOCUS001"}
           /\ Materialize(findings, d).severity = d.severity
<1>1. \A code \in Minted : code \in Rule \ {"LOCUS001"}
    BY CodesAssumption DEF Minted
<1>2. Materialize(findings, d).severity = d.severity
    BY DEF Materialize
<1>3. Materialize(findings, d).rule =
        IF findings[d.finding].code # "" THEN findings[d.finding].code ELSE findings[d.finding].owner
    BY DEF Materialize
<1> QED  BY <1>1, <1>2, <1>3 DEF IsFinding

LEMMA FilterStep ==
    ASSUME IInv, FilterChanged
    PROVE  IInv'
<1> DEFINE S == {i \in DOMAIN records : InChange(records[i])}
           out == Picked(records, S)
<1>1. /\ stage = "changed" /\ stage' = "guard" /\ UNCHANGED <<input, store, decisions>>
      /\ records' = out
    BY StageOrder DEF FilterChanged
<1>2. StoreInv' /\ DecisionsInv'
    BY <1>1, StoreStays, DecisionsStay, PolicyNames DEF IInv
<1>3. /\ IsSequence(records) /\ Ordered(records)
      /\ \A i \in DOMAIN records : IsRecord(records[i], store, decisions, input.audit)
      /\ \A k \in DOMAIN decisions : Shows(records, k) <=> ~Silenced(Emitted(store, decisions, k))
    BY <1>1 DEF IInv, RecordsInv, FiltersInv
<1>4. S \in SUBSET DOMAIN records /\ (\A i \in DOMAIN records : i \in S <=> InChange(records[i]))
    OBVIOUS
<1> HIDE DEF S
<1>5. /\ IsSequence(out) /\ DOMAIN out = 1..Cardinality(S)
      /\ \A k \in 1..Cardinality(S) : out[k] = records[InOrder(S)[k]]
      /\ S \in SUBSET Nat /\ IsFiniteSet(S)
    BY <1>3, <1>4, PickedProperties
<1> HIDE DEF out
<1>6. /\ Ordered(out)
      /\ \A i \in DOMAIN out : \E a \in S : out[i] = records[a]
      /\ \A a \in S : \E i \in DOMAIN out : out[i] = records[a]
  <2>1. IsSequence(<<>>) /\ DOMAIN <<>> = {} /\ Len(<<>>) = 0
      BY EmptySequence
  <2>2. Cardinality(S) \in Nat
      BY <1>5, FS_CardinalityType
  <2>3. DOMAIN out = 1..(Cardinality(S) + Len(<<>>))
      BY <1>5, <2>1, <2>2
  <2>4. \A a \in DOMAIN <<>> : <<>>[a].decision = 0 /\ out[Cardinality(S) + a] = <<>>[a]
      BY <2>1
  <2>5. Selects(out, records, S, <<>>)
      BY <1>5, <2>3, <2>4 DEF Selects
  <2>6. /\ Ordered(out)
        /\ \A i \in DOMAIN out : \/ \E a \in S : out[i] = records[a]
                                \/ \E a \in DOMAIN <<>> : out[i] = <<>>[a]
        /\ \A a \in S : \E i \in DOMAIN out : out[i] = records[a]
      BY <1>3, <1>4, <2>1, <2>5, SelectedRecords
  <2> QED  BY <2>1, <2>6
<1>7. RecordsInv'
  <2>1. \A i \in DOMAIN out : IsRecord(out[i], store, decisions, input.audit)
      BY <1>3, <1>4, <1>6
  <2> QED  BY <1>1, <1>5, <1>6, <2>1 DEF RecordsInv
<1>8. 0 \notin DOMAIN decisions
    BY NoDecisionZero
<1>9. ASSUME NEW k \in DOMAIN decisions
      PROVE  Shows(out, k) <=> (~Silenced(Emitted(store, decisions, k)) /\ InChange(Emitted(store, decisions, k)))
  <2>1. ASSUME NEW i \in DOMAIN records, records[i].decision = k
        PROVE  records[i] = Emitted(store, decisions, k)
      BY <1>3, <1>8, <2>1 DEF IsRecord
  <2>2. Shows(out, k) <=> \E a \in S : records[a].decision = k
      BY <1>6 DEF Shows
  <2>3. (\E a \in S : records[a].decision = k) <=> (Shows(records, k) /\ InChange(Emitted(store, decisions, k)))
      BY <1>4, <2>1 DEF Shows
  <2> QED  BY <1>3, <2>2, <2>3
<1>10. \A k \in DOMAIN decisions' : Shows(records', k) <=> Kept(k)'
    BY <1>1, <1>9 DEF Kept, Emitted, Silenced, InChange
<1>11. FiltersInv' /\ EndInv'
    BY <1>1, <1>10, PolicyNames DEF FiltersInv, EndInv
<1> QED  BY <1>1, <1>2, <1>7, <1>11, StageOrder DEF IInv

LEMMA AnnouncedEntries ==
    ASSUME NEW d \in Announced
    PROVE  d.rule = "LOCUS001" /\ d.severity = "warning"
<1> DEFINE tree == {records[i].diag : i \in DOMAIN records}
           all == Notices(tree, input.sup, Today)
<1>1. d \in {[rule |-> "LOCUS001", file |-> n.file, first |-> n.first, last |-> n.first,
              severity |-> "warning", text |-> <<n.source, n.rule, n.expired>>] : n \in all}
    BY Zenon DEF Announced
<1> HIDE DEF all
<1> QED  BY <1>1

LEMMA ExceptionsStep ==
    ASSUME IInv, ApplyExceptions
    PROVE  IInv'
<1> DEFINE S == {i \in DOMAIN records : ~Silenced(records[i])}
           survivors == Picked(records, S)
           shown == [i \in DOMAIN survivors |-> survivors[i].diag]
           new == SetToSeq(Announced)
           post == shown \o new
           more == [a \in DOMAIN new |-> [diag |-> new[a], decision |-> 0]]
           out == Paired(records, post)
           e == InOrder(S)
           n == Cardinality(S)
<1>1. /\ stage = "exceptions" /\ stage' = "changed" /\ UNCHANGED <<input, store, decisions>>
      /\ records' = out
    BY StageOrder DEF ApplyExceptions
<1>2. StoreInv' /\ DecisionsInv'
    BY <1>1, StoreStays, DecisionsStay, PolicyNames DEF IInv
<1>3. /\ IsSequence(records) /\ Ordered(records)
      /\ \A i \in DOMAIN records : IsRecord(records[i], store, decisions, input.audit)
      /\ \A i \in DOMAIN records : records[i].decision # 0
      /\ \A k \in DOMAIN decisions : Shows(records, k)
    BY <1>1 DEF IInv, RecordsInv, FiltersInv
<1>4. S \in SUBSET DOMAIN records /\ (\A i \in DOMAIN records : i \in S <=> ~Silenced(records[i]))
    OBVIOUS
<1>5. \A i \in DOMAIN records :
            /\ records[i].decision \in DOMAIN decisions
            /\ records[i] = Emitted(store, decisions, records[i].decision)
            /\ records[i].diag = Materialize(store, decisions[records[i].decision])
    BY <1>3 DEF IsRecord, Emitted
<1>6. \A i \in DOMAIN records : records[i].diag.rule # "LOCUS001"
  <2>1. \A k \in DOMAIN decisions : IsFinding(store[decisions[k].finding])
      BY DEF IInv, StoreInv, DecisionsInv, IsDecision
  <2> QED  BY <1>5, <2>1, ShownRule
<1>7. \A i \in S, j \in DOMAIN records \ S : records[i].diag # records[j].diag
    BY <1>4 DEF Silenced
<1> HIDE DEF S
<1>8. /\ n \in Nat /\ DOMAIN survivors = 1..n
      /\ \A k \in 1..n : survivors[k] = records[e[k]]
    BY <1>3, <1>4, PickedProperties, FS_CardinalityType
<1> HIDE DEF survivors, n, e
<1>9. IsSequence(shown) /\ DOMAIN shown = 1..n /\ Len(shown) = n
      /\ \A k \in 1..n : shown[k] = records[e[k]].diag
    BY <1>8, SequenceOf
<1>10. /\ IsSequence(new) /\ \A a \in DOMAIN new : new[a].rule = "LOCUS001" /\ new[a].severity = "warning"
  <2>1. IsFiniteSet(input.sup)
      BY LockfilesAssumption DEF IInv
  <2>2. IsFiniteSet(Announced)
      BY <1>3, <2>1, AnnouncedFinite
  <2>3. \A d \in Announced : d.rule = "LOCUS001" /\ d.severity = "warning"
      BY AnnouncedEntries
  <2> QED  BY <2>2, <2>3, SetToSeqProperties
<1> HIDE DEF shown, new
<1>11. /\ IsSequence(post) /\ Len(post) = n + Len(new)
       /\ \A k \in 1..n : post[k] = records[e[k]].diag
       /\ \A a \in DOMAIN new : post[n + a] = new[a]
  <2>1. IsSequence(post) /\ Len(post) = Len(shown) + Len(new)
      BY <1>9, <1>10, JoinedSequence
  <2>2. \A k \in DOMAIN shown : post[k] = shown[k]
      BY <1>9, <1>10, JoinedFront
  <2>3. \A a \in DOMAIN new : post[Len(shown) + a] = new[a]
      BY <1>9, <1>10, JoinedBack
  <2> HIDE DEF post
  <2> QED  BY <1>9, <2>1, <2>2, <2>3
<1>12. \A a \in DOMAIN new, j \in DOMAIN records \ S : new[a] # records[j].diag
    BY <1>6, <1>10
<1> HIDE DEF post
<1>13. /\ DOMAIN out = 1..(n + Len(new)) /\ IsSequence(out)
       /\ \A k \in 1..n : out[k] = records[e[k]]
       /\ \A a \in DOMAIN new : out[n + a] = [diag |-> new[a], decision |-> 0]
    BY <1>3, <1>4, <1>7, <1>10, <1>11, <1>12, PairedSurvivors DEF n, e
<1> HIDE DEF out
<1>14. /\ IsSequence(more) /\ Len(more) = Len(new) /\ DOMAIN more = DOMAIN new
       /\ \A a \in DOMAIN more : more[a].decision = 0 /\ more[a].diag = new[a] /\ out[n + a] = more[a]
  <2>1. Len(new) \in Nat /\ DOMAIN new = 1..Len(new)
      BY <1>10, SequenceProperties
  <2>2. IsSequence(more) /\ Len(more) = Len(new)
      BY <2>1, SequenceOf
  <2> QED  BY <1>13, <2>2
<1> HIDE DEF more
<1>15. /\ Ordered(out)
       /\ \A i \in DOMAIN out : \/ \E a \in S : out[i] = records[a]
                               \/ \E a \in DOMAIN more : out[i] = more[a]
       /\ \A a \in S : \E i \in DOMAIN out : out[i] = records[a]
  <2>1. DOMAIN out = 1..(Cardinality(S) + Len(more))
      BY <1>13, <1>14 DEF n
  <2>2. \A k \in 1..Cardinality(S) : out[k] = records[InOrder(S)[k]]
      BY <1>13 DEF n, e
  <2>3. \A a \in DOMAIN more : more[a].decision = 0
      BY <1>14
  <2>4. \A a \in DOMAIN more : out[Cardinality(S) + a] = more[a]
      BY <1>14 DEF n
  <2>5. Selects(out, records, S, more)
      BY <2>1, <2>2, <2>3, <2>4 DEF Selects
  <2> QED  BY <1>3, <1>4, <1>14, <2>5, SelectedRecords
<1>16. RecordsInv'
  <2>1. \A i \in DOMAIN out : IsRecord(out[i], store, decisions, input.audit)
    <3>1. \A a \in DOMAIN more : IsRecord(more[a], store, decisions, input.audit)
        BY <1>10, <1>14 DEF IsRecord
    <3> QED  BY <1>3, <1>4, <1>15, <3>1
  <2> QED  BY <1>1, <1>13, <1>15, <2>1 DEF RecordsInv
<1>17. ASSUME NEW k \in DOMAIN decisions
       PROVE  Shows(out, k) <=> ~Silenced(Emitted(store, decisions, k))
  <2>1. k # 0
      BY NoDecisionZero
  <2>2. Shows(out, k) <=> \E a \in S : records[a].decision = k
      BY <1>14, <1>15, <2>1 DEF Shows
  <2>3. (\E a \in S : records[a].decision = k) <=> ~Silenced(Emitted(store, decisions, k))
      BY <1>3, <1>4, <1>5 DEF Shows
  <2> QED  BY <2>2, <2>3
<1>18. \A k \in DOMAIN decisions' : Shows(records', k) <=> ~Silenced(Emitted(store, decisions, k))'
    BY <1>1, <1>17 DEF Emitted, Silenced
<1>19. FiltersInv' /\ EndInv'
    BY <1>1, <1>18, PolicyNames DEF FiltersInv, EndInv
<1> QED  BY <1>1, <1>2, <1>16, <1>19, StageOrder DEF IInv

LEMMA FailStep ==
    ASSUME IInv, FailToDiff
    PROVE  IInv'
<1>1. stage = "changed" /\ stage' = "error" /\ UNCHANGED <<input, store, decisions, records>>
    BY DEF FailToDiff
<1>2. StoreInv' /\ DecisionsInv'
    BY <1>1, StoreStays, DecisionsStay, PolicyNames DEF IInv
<1>3. RecordsInv' /\ FiltersInv' /\ EndInv'
    BY <1>1, PolicyNames DEF IInv, RecordsInv, FiltersInv, EndInv
<1> QED  BY <1>1, <1>2, <1>3 DEF IInv

LEMMA GuardStep ==
    ASSUME IInv, AppendGuard
    PROVE  IInv'
<1> DEFINE more == [i \in DOMAIN input.audit |-> [diag |-> input.audit[i], decision |-> 0]]
           out == records \o more
<1>1. /\ stage = "guard" /\ stage' = "exit" /\ UNCHANGED <<input, store, decisions>>
      /\ records' = out
    BY StageOrder DEF AppendGuard
<1>2. StoreInv' /\ DecisionsInv'
    BY <1>1, StoreStays, DecisionsStay, PolicyNames DEF IInv
<1>3. /\ IsSequence(records) /\ Ordered(records)
      /\ \A i \in DOMAIN records : IsRecord(records[i], store, decisions, input.audit)
      /\ \A k \in DOMAIN decisions : Shows(records, k) <=> Kept(k)
    BY <1>1 DEF IInv, RecordsInv, FiltersInv
<1>4. IsSequence(input.audit) /\ Len(input.audit) \in Nat /\ DOMAIN input.audit = 1..Len(input.audit)
  <2>1. input.audit \in Seq(Diagnostic)
      BY AuditsAssumption DEF IInv
  <2> QED  BY <2>1, TypedSequence
<1>5. /\ IsSequence(more) /\ DOMAIN more = DOMAIN input.audit
      /\ \A a \in DOMAIN more : more[a].decision = 0 /\ more[a].diag = input.audit[a]
    BY <1>4, SequenceOf
<1> HIDE DEF more
<1>6. /\ IsSequence(out)
      /\ \A i \in DOMAIN records : i \in DOMAIN out /\ out[i] = records[i]
      /\ \A a \in DOMAIN more : Len(records) + a \in DOMAIN out /\ out[Len(records) + a] = more[a]
      /\ \A i \in DOMAIN out : i \in DOMAIN records \/ \E a \in DOMAIN more : i = Len(records) + a
    BY <1>3, <1>5, JoinedSequence, JoinedFront, JoinedBack, JoinedPlace
<1> HIDE DEF out
<1>7. /\ Len(records) \in Nat /\ DOMAIN records = 1..Len(records)
      /\ Len(more) \in Nat /\ DOMAIN more = 1..Len(more)
    BY <1>3, <1>5, SequenceProperties
<1>8. \A i \in DOMAIN out : i \notin DOMAIN records =>
            \E a \in DOMAIN more : i = Len(records) + a /\ out[i] = more[a] /\ out[i].decision = 0
    BY <1>5, <1>6
<1>9. Ordered(out)
  <2> SUFFICES ASSUME NEW i \in DOMAIN out, NEW j \in DOMAIN out, i < j, out[j].decision # 0
               PROVE  out[i].decision < out[j].decision
      BY DEF Ordered
  <2>1. j \in DOMAIN records
      BY <1>8
  <2>2. i \in DOMAIN records
      BY <1>7, <1>8, <2>1
  <2> QED  BY <1>3, <1>6, <2>1, <2>2 DEF Ordered
<1>10. RecordsInv'
  <2>1. \A a \in DOMAIN more : IsRecord(more[a], store, decisions, input.audit)
      BY <1>5 DEF IsRecord, ToSet
  <2>2. \A i \in DOMAIN out : IsRecord(out[i], store, decisions, input.audit)
      BY <1>3, <1>6, <1>8, <2>1
  <2> QED  BY <1>1, <1>6, <1>9, <2>2 DEF RecordsInv
<1>11. ASSUME NEW k \in DOMAIN decisions
       PROVE  Shows(out, k) <=> Kept(k)
  <2>1. k # 0
      BY NoDecisionZero
  <2>2. Shows(out, k) <=> Shows(records, k)
      BY <1>6, <1>8, <2>1 DEF Shows
  <2> QED  BY <1>3, <2>2
<1>12. \A k \in DOMAIN decisions' : Shows(records', k) <=> Kept(k)'
    BY <1>1, <1>11 DEF Kept, Silenced, InChange
<1>13. \A d \in DOMAIN input.audit : \E i \in DOMAIN out : out[i].diag = input.audit[d]
    BY <1>5, <1>6
<1>14. FiltersInv' /\ EndInv'
    BY <1>1, <1>12, <1>13, PolicyNames DEF FiltersInv, EndInv
<1> QED  BY <1>1, <1>2, <1>10, <1>14, StageOrder DEF IInv

LEMMA ExitStep ==
    ASSUME IInv, Exit
    PROVE  IInv'
<1>1. /\ stage = "exit" /\ UNCHANGED <<input, store, decisions, records>>
      /\ \/ stage' = "exit 1"
         \/ stage' = "exit 0" /\ \A i \in DOMAIN records : ~IsFatal(records[i])
    BY DEF Exit
<1>2. StoreInv' /\ DecisionsInv'
    BY <1>1, StoreStays, DecisionsStay, PolicyNames DEF IInv
<1>3. RecordsInv'
    BY <1>1 DEF IInv, RecordsInv
<1>4. \A k \in DOMAIN decisions' : Shows(records', k) <=> Kept(k)'
    BY <1>1 DEF IInv, FiltersInv, Kept, Silenced, InChange
<1>5. FiltersInv'
    BY <1>1, <1>4, PolicyNames DEF FiltersInv
<1>6. EndInv'
    BY <1>1 DEF IInv, EndInv, IsFatal
<1> QED  BY <1>1, <1>2, <1>3, <1>5, <1>6 DEF IInv

-----------------------------------------------------------------------------
(* The invariant holds *)

LEMMA InitInv ==
    ASSUME Init
    PROVE  IInv
<1>1. /\ stage = "collect" /\ store = <<>> /\ decisions = <<>> /\ records = <<>>
      /\ input \in [mode    : {"human", "agent_strict"}, scan : Scans, arch : Archs,
                    sup     : Lockfiles,
                    changed : ChangedFiles \cup {Everything}, audit : Audits]
    BY DEF Init
<1>2. StoreInv /\ DecisionsInv
    BY <1>1, EmptySequence, PolicyNames DEF StoreInv, DecisionsInv
<1>3. RecordsInv /\ FiltersInv /\ EndInv
    BY <1>1, EmptySequence, PolicyNames DEF RecordsInv, FiltersInv, EndInv, Ordered
<1> QED  BY <1>1, <1>2, <1>3, StageOrder DEF IInv

LEMMA StutterInv ==
    ASSUME IInv, UNCHANGED vars
    PROVE  IInv'
<1>1. UNCHANGED <<stage, input, store, decisions, records>>
    BY DEF vars
<1>2. StoreInv' /\ DecisionsInv'
    BY <1>1 DEF IInv, StoreInv, DecisionsInv, Base
<1>3. RecordsInv' /\ EndInv'
    BY <1>1 DEF IInv, RecordsInv, EndInv, IsFatal
<1>4. FiltersInv'
    BY <1>1 DEF IInv, FiltersInv, Kept, Silenced, InChange
<1> QED  BY <1>1, <1>2, <1>3, <1>4 DEF IInv

\* Stage by stage, findings, decisions and records belong together.
THEOREM InvariantHolds == Spec => []IInv
<1>1. Init => IInv
    BY InitInv
<1>2. IInv /\ [Next]_vars => IInv'
  <2> SUFFICES ASSUME IInv, [Next]_vars PROVE IInv'
      OBVIOUS
  <2>1. CASE CollectFindings
      BY <2>1, CollectStep
  <2>2. ASSUME NEW policy \in PolicyIds, RunPolicy(policy) PROVE IInv'
      BY <2>2, PolicyStep
  <2>3. CASE MaterializeDecisions
      BY <2>3, MaterializeStep
  <2>4. CASE ApplyExceptions
      BY <2>4, ExceptionsStep
  <2>5. CASE FilterChanged
      BY <2>5, FilterStep
  <2>6. CASE FailToDiff
      BY <2>6, FailStep
  <2>7. CASE AppendGuard
      BY <2>7, GuardStep
  <2>8. CASE Exit
      BY <2>8, ExitStep
  <2>9. CASE UNCHANGED vars
      BY <2>9, StutterInv
  <2> QED  BY <2>1, <2>2, <2>3, <2>4, <2>5, <2>6, <2>7, <2>8, <2>9 DEF Next
<1> QED  BY <1>1, <1>2, PTL DEF Spec

-----------------------------------------------------------------------------
(* What follows from it *)

LEMMA EmittedRecords ==
    ASSUME IInv, NEW i \in DOMAIN records
    PROVE  \/ /\ records[i].decision \in DOMAIN decisions
              /\ records[i] = Emitted(store, decisions, records[i].decision)
              /\ records[i].diag = Materialize(store, decisions[records[i].decision])
              /\ records[i].decision # 0
           \/ records[i].decision = 0 /\ records[i].diag.rule = "LOCUS001" /\ records[i].diag.severity = "warning"
           \/ records[i].decision = 0 /\ records[i].diag \in ToSet(input.audit)
<1>1. IsRecord(records[i], store, decisions, input.audit)
    BY DEF IInv, RecordsInv
<1> QED  BY <1>1, NoDecisionZero DEF IsRecord, Emitted

LEMMA AuditTypes ==
    ASSUME IInv, NEW d \in ToSet(input.audit)
    PROVE  d \in Diagnostic
<1>1. input.audit \in Seq(Diagnostic)
    BY AuditsAssumption DEF IInv
<1> QED  BY <1>1, TypedSequence DEF ToSet

\* Every variable stays in its type, and what is shown has the id of a rule.
THEOREM TypeCorrect == Spec => []TypeOK
<1>1. IInv => TypeOK
  <2> SUFFICES ASSUME IInv PROVE TypeOK
      OBVIOUS
  <2>1. stage \in ToSet(Stages) \cup Outcomes
      BY DEF IInv, Outcomes
  <2>2. /\ IsSequence(decisions)
        /\ \A k \in DOMAIN decisions : IsDecision(decisions[k], store)
        /\ \A k \in DOMAIN store : IsFinding(store[k])
      BY DEF IInv, StoreInv, DecisionsInv
  <2>3. DOMAIN decisions = 1..Len(decisions) /\ Len(decisions) \in Nat
      BY <2>2, SequenceProperties
  <2>4. \A k \in DOMAIN decisions :
            decisions[k].finding \in DOMAIN store /\ decisions[k].policy \in PolicyIds
      BY <2>2 DEF IsDecision
  <2>5. ASSUME NEW i \in DOMAIN records
        PROVE  /\ records[i].decision \in 0..Len(decisions)
               /\ records[i].diag.rule \in Rule
               /\ records[i].diag.severity \in Severities
    <3>1. ASSUME NEW k \in DOMAIN decisions
          PROVE  /\ Materialize(store, decisions[k]).rule \in Rule
                 /\ Materialize(store, decisions[k]).severity \in Severities
      <4>1. IsFinding(store[decisions[k].finding])
            /\ decisions[k].severity = store[decisions[k].finding].severity
          BY <2>2 DEF IsDecision
      <4> QED  BY <4>1, ShownRule DEF IsFinding
    <3>2. \A d \in Diagnostic : d.rule \in Rule /\ d.severity \in Severities
        BY DEF Diagnostic
    <3>3. "LOCUS001" \in Rule /\ "warning" \in Severities
        BY CodesAssumption DEF Severities
    <3> QED  BY <2>3, <3>1, <3>2, <3>3, EmittedRecords, AuditTypes
  <2> QED  BY <2>1, <2>4, <2>5 DEF TypeOK
<1> QED  BY <1>1, InvariantHolds, PTL

\* Whatever was observed and declared, validate_decisions never makes the program panic.
THEOREM PoliciesDecideEverything == Spec => []NeverPanics
<1>1. IInv => NeverPanics
    BY StageOrder, PolicyNames DEF IInv, NeverPanics
<1> QED  BY <1>1, InvariantHolds, PTL

\* The re-pairing gives every diagnostic its own decision again, and the filters lose only
\* what they are there to take.
THEOREM PairingSurvives == Spec => []DecisionsStayPaired
<1>1. IInv => DecisionsStayPaired
  <2> SUFFICES ASSUME IInv PROVE DecisionsStayPaired
      OBVIOUS
  <2>1. \A i \in DOMAIN records : records[i].decision # 0 =>
            /\ records[i].decision \in DOMAIN decisions
            /\ records[i].diag = Materialize(store, decisions[records[i].decision])
      BY EmittedRecords
  <2>2. Ordered(records)
      BY DEF IInv, RecordsInv
  <2>3. ASSUME stage \in {"guard", "exit", "exit 0"}
        PROVE  {records[i].decision : i \in DOMAIN records} \ {0} = {k \in DOMAIN decisions : Kept(k)}
    <3>1. \A k \in DOMAIN decisions : Shows(records, k) <=> Kept(k)
        BY <2>3 DEF IInv, FiltersInv
    <3> QED  BY <2>1, <3>1, NoDecisionZero DEF Shows
  <2> QED  BY <2>1, <2>2, <2>3 DEF DecisionsStayPaired, Ordered
<1> QED  BY <1>1, InvariantHolds, PTL

LEMMA SuppressedByPlace ==
    ASSUME NEW sup, NEW d, NEW e,
           d.rule = e.rule, d.file = e.file, d.first = e.first, d.last = e.last
    PROVE  Suppressed(sup, d, Today) <=> Suppressed(sup, e, Today)
<1>1. \A s \in sup : Covers(s, d) <=> Covers(s, e)
  <2> SUFFICES ASSUME NEW s \in sup PROVE Covers(s, d) <=> Covers(s, e)
      OBVIOUS
  <2>1. TargetMatches(s, d) = TargetMatches(s, e)
      BY DEF TargetMatches
  <2> QED  BY <2>1 DEF Covers
<1> QED  BY <1>1 DEF Suppressed, Live

\* When the run succeeds, whatever became a fatal finding was excused.
LEMMA FatalIsExcused ==
    ASSUME IInv, stage = "exit 0", NEW v, v.severity = "fatal",
           NEW i \in DOMAIN store, store[i] = Observed(v) \/ store[i] = Synthesize(v)
    PROVE  Excused(v)
<1>1. /\ store[i].code = "" /\ store[i].owner = v.rule
      /\ store[i].severity = v.severity /\ store[i].span = v.span
    BY FindingFields
<1>2. Undecided(store, decisions) = {}
    BY PolicyNames DEF IInv, DecisionsInv
<1>3. PICK k \in DOMAIN decisions : decisions[k].finding = i
    BY <1>2 DEF Undecided
<1>4. decisions[k].severity = "fatal"
    BY <1>1, <1>3 DEF IInv, DecisionsInv, IsDecision
<1> DEFINE d == Materialize(store, decisions[k])
           r == [diag |-> d, decision |-> k]
           place == [rule |-> v.rule, file |-> v.span.file, first |-> v.span.first, last |-> v.span.last]
<1>5. d.rule = place.rule /\ d.file = place.file /\ d.first = place.first /\ d.last = place.last
      /\ d.severity = "fatal"
    BY <1>1, <1>3, <1>4 DEF Materialize
<1>6. ~Kept(k)
  <2> SUFFICES ASSUME Kept(k) PROVE FALSE
      OBVIOUS
  <2>1. Shows(records, k)
      BY DEF IInv, FiltersInv
  <2>2. PICK j \in DOMAIN records : records[j].decision = k
      BY <2>1 DEF Shows
  <2>3. records[j].diag = d
      BY <2>2, EmittedRecords, NoDecisionZero
  <2>4. ~IsFatal(records[j])
      BY DEF IInv, EndInv
  <2> QED  BY <1>5, <2>3, <2>4 DEF IsFatal
<1>7. Silenced(r) \/ ~InChange(r)
    BY <1>6 DEF Kept
<1> HIDE DEF d
<1>8. r.diag = d /\ place.file = d.file
    BY <1>5
<1>9. Silenced(r) => Silenced([diag |-> place])
  <2> HIDE DEF r, place
  <2> QED  BY <1>5, <1>8, SuppressedByPlace DEF Silenced
<1>10. ~InChange(r) => ~InChange([diag |-> place])
  <2> HIDE DEF r, place
  <2> QED  BY <1>8 DEF InChange
<1> QED  BY <1>7, <1>9, <1>10 DEF Excused

\* The run reports success only if Policy Guard has nothing fatal to say and every fatal
\* violation was excused.
THEOREM SuccessIsEarned == Spec => []SuccessMeansExcused
<1>1. IInv => SuccessMeansExcused
  <2> SUFFICES ASSUME IInv, stage = "exit 0"
               PROVE  /\ \A i \in DOMAIN input.audit : input.audit[i].severity # "fatal"
                      /\ \A a \in DOMAIN input.scan.observed :
                            input.scan.observed[a].severity = "fatal" => Excused(input.scan.observed[a])
                      /\ \A b \in DOMAIN input.scan.legacy :
                            input.scan.legacy[b].severity = "fatal"
                                /\ input.scan.legacy[b].rule \notin Registered => Excused(input.scan.legacy[b])
      BY DEF SuccessMeansExcused
  <2>1. /\ \A i \in DOMAIN input.audit : \E j \in DOMAIN records : records[j].diag = input.audit[i]
        /\ \A j \in DOMAIN records : records[j].diag.severity # "fatal"
      BY DEF IInv, EndInv, IsFatal
  <2>2. input.scan \in Scans
      BY DEF IInv
  <2>3. DOMAIN Base \subseteq DOMAIN store /\ \A i \in DOMAIN Base : store[i] = Base[i]
      BY DEF IInv, StoreInv
  <2>4. ASSUME NEW a \in DOMAIN input.scan.observed, input.scan.observed[a].severity = "fatal"
        PROVE  Excused(input.scan.observed[a])
    <3>1. a \in DOMAIN Base /\ Base[a] = Observed(input.scan.observed[a])
        BY <2>2, CollectedFindings DEF Base
    <3> QED  BY <2>3, <2>4, <3>1, FatalIsExcused
  <2>5. ASSUME NEW b \in DOMAIN input.scan.legacy, input.scan.legacy[b].severity = "fatal",
               input.scan.legacy[b].rule \notin Registered
        PROVE  Excused(input.scan.legacy[b])
    <3>1. PICK i \in DOMAIN Base : Base[i] = Synthesize(input.scan.legacy[b])
        BY <2>2, <2>5, CollectedFindings DEF Base, Adapted
    <3> QED  BY <2>3, <2>5, <3>1, FatalIsExcused
  <2> QED  BY <2>1, <2>4, <2>5
<1> QED  BY <1>1, InvariantHolds, PTL

\* Two findings of the same kind and the same words come from the same violation.
LEMMA SameWords ==
    ASSUME NEW scan \in Scans,
           NEW v \in ToSet(scan.observed) \cup ToSet(scan.legacy),
           NEW w \in ToSet(scan.observed) \cup ToSet(scan.legacy),
           v.rule = w.rule, v.text = w.text, v.severity = w.severity,
           v.span.file = w.span.file, v.span.first = w.span.first, v.span.last = w.span.last
    PROVE  v = w
<1>1. v \in Violation /\ w \in Violation
    BY ScanTypes DEF ToSet
<1>2. v.paradigm = w.paradigm
    BY ScansAssumption
<1>3. v.span = w.span
    BY <1>1 DEF Violation
<1> QED  BY <1>1, <1>2, <1>3 DEF Violation

\* Collected findings that show the same are one finding, if nothing was reported twice.
LEMMA SameFinding ==
    ASSUME NEW scan \in Scans, IsInjective(scan.observed), IsInjective(scan.legacy),
           NEW base, base = Collect(scan.observed, scan.legacy),
           NEW i \in DOMAIN base, NEW j \in DOMAIN base,
           base[i].owner = base[j].owner, base[i].text = base[j].text,
           base[i].severity = base[j].severity, base[i].span.file = base[j].span.file,
           base[i].span.first = base[j].span.first, base[i].span.last = base[j].span.last
    PROVE  i = j
<1> DEFINE m == DOMAIN scan.observed
           p(k) == LegacyPlace(scan, k)
           behind(k) == IF k \in m THEN scan.observed[k] ELSE scan.legacy[p(k)]
<1>1. /\ \A a \in m : a \in DOMAIN base /\ base[a] = Observed(scan.observed[a])
      /\ \A k \in DOMAIN base \ m : /\ p(k) \in DOMAIN scan.legacy
                                   /\ base[k] = Synthesize(scan.legacy[p(k)])
                                   /\ Adapted(scan.legacy[p(k)])
      /\ \A k, l \in DOMAIN base \ m : p(k) = p(l) => k = l
    BY CollectedFindings
<1>2. ASSUME NEW k \in DOMAIN base
      PROVE  /\ behind(k) \in ToSet(scan.observed) \cup ToSet(scan.legacy)
             /\ base[k].owner = behind(k).rule /\ base[k].text = behind(k).text
             /\ base[k].severity = behind(k).severity /\ base[k].span = behind(k).span
  <2>1. behind(k) \in ToSet(scan.observed) \cup ToSet(scan.legacy)
      BY <1>1 DEF ToSet
  <2>2. base[k] = Observed(behind(k)) \/ base[k] = Synthesize(behind(k))
      BY <1>1
  <2> HIDE DEF behind
  <2>3. PICK v : v = behind(k)
      OBVIOUS
  <2>4. base[k] = Observed(v) \/ base[k] = Synthesize(v)
      BY <2>2, <2>3
  <2>5. /\ base[k].owner = v.rule /\ base[k].text = v.text
        /\ base[k].severity = v.severity /\ base[k].span = v.span
      BY ONLY <2>4, FindingFields
  <2> QED  BY <2>1, <2>3, <2>5
<1>3. behind(i) = behind(j)
  <2> HIDE DEF behind
  <2> QED  BY <1>2, SameWords
<1>4. CASE i \in m /\ j \in m
    BY <1>3, <1>4 DEF IsInjective
<1>5. CASE i \notin m /\ j \notin m
    BY <1>1, <1>3, <1>5 DEF IsInjective
<1>6. ASSUME NEW k \in m, NEW l \in DOMAIN base \ m, behind(k) = behind(l)
      PROVE  FALSE
  <2>1. scan.observed[k] \in ToSet(scan.observed) /\ scan.legacy[p(l)] \in ToSet(scan.legacy)
      BY <1>1, <1>6 DEF ToSet
  <2>2. scan.observed[k].rule = scan.legacy[p(l)].rule
      BY <1>6
  <2>3. scan.observed[k].rule \in Registered
      BY <2>1, <2>2, ScansAssumption
  <2> QED  BY <1>1, <2>2, <2>3 DEF Adapted
<1> QED  BY <1>3, <1>4, <1>5, <1>6

LEMMA ReportedRule ==
    ASSUME NEW scan \in Scans, NEW i \in DOMAIN Collect(scan.observed, scan.legacy)
    PROVE  \E v \in ToSet(scan.observed) \cup ToSet(scan.legacy) :
                v.rule = Collect(scan.observed, scan.legacy)[i].owner
<1> DEFINE base == Collect(scan.observed, scan.legacy)
<1>1. PICK v \in ToSet(scan.observed) \cup ToSet(scan.legacy) :
            base[i] = Observed(v) \/ base[i] = Synthesize(v)
  <2>1. CASE i \in DOMAIN scan.observed
      BY <2>1, CollectedFindings DEF ToSet
  <2>2. CASE i \notin DOMAIN scan.observed
    <3>1. /\ LegacyPlace(scan, i) \in DOMAIN scan.legacy
          /\ base[i] = Synthesize(scan.legacy[LegacyPlace(scan, i)])
        BY <2>2, CollectedFindings
    <3> HIDE DEF base
    <3> QED  BY <3>1 DEF ToSet
  <2> QED  BY <2>1, <2>2
<1> HIDE DEF base
<1>2. base[i].owner = v.rule
    BY ONLY <1>1, FindingFields
<1> QED  BY <1>2 DEF base

\* A record that shows no code of the pipeline's own is that of a collected finding.
LEMMA CollectedRecord ==
    ASSUME IInv, NEW i \in DOMAIN records, records[i].decision # 0,
           records[i].diag.rule \notin GovernanceCode
    PROVE  LET place == decisions[records[i].decision].finding
               diag == records[i].diag
           IN  /\ records[i].decision \in DOMAIN decisions /\ place \in DOMAIN Base
               /\ diag.rule = Base[place].owner /\ diag.text = Base[place].text
               /\ diag.severity = Base[place].severity /\ diag.file = Base[place].span.file
               /\ diag.first = Base[place].span.first /\ diag.last = Base[place].span.last
<1>1. PICK d, p, diag : /\ d = decisions[records[i].decision] /\ p = d.finding
                       /\ diag = records[i].diag
    OBVIOUS
<1>2. records[i].decision \in DOMAIN decisions /\ diag = Materialize(store, d)
    BY <1>1, EmittedRecords
<1>3. p \in DOMAIN store /\ d.severity = store[p].severity
    BY <1>1, <1>2 DEF IInv, DecisionsInv, IsDecision
<1>4. /\ diag.rule = (IF store[p].code # "" THEN store[p].code ELSE store[p].owner)
      /\ diag.text = store[p].text /\ diag.severity = store[p].severity /\ diag.file = store[p].span.file
      /\ diag.first = store[p].span.first /\ diag.last = store[p].span.last
  <2>1. p = d.finding
      BY <1>1
  <2>2. diag = [rule |-> IF store[p].code # "" THEN store[p].code ELSE store[p].owner,
                file |-> store[p].span.file, first |-> store[p].span.first, last |-> store[p].span.last,
                severity |-> d.severity, text |-> store[p].text]
      BY <1>2, <2>1 DEF Materialize
  <2> QED  BY ONLY <1>3, <2>2
<1>5. \A code \in Minted : code \in GovernanceCode /\ code # ""
    BY RegistryAssumption DEF Minted
<1>6. stage # "collect"
    BY EmptySequence DEF IInv, FiltersInv
<1>7. /\ \A k \in DOMAIN Base : store[k] = Base[k] /\ store[k].code = ""
      /\ \A k \in DOMAIN store \ DOMAIN Base : store[k].code \in Minted
    BY <1>6 DEF IInv, StoreInv
<1>8. p \in DOMAIN Base
    BY <1>1, <1>3, <1>4, <1>5, <1>7
<1> QED  BY <1>1, <1>2, <1>4, <1>7, <1>8

\* While rules migrate, a violation that both the registered rule and its legacy paradigm
\* report is shown once.
THEOREM MigratedRulesShowOnce == Spec => []ShownOnce
<1>1. IInv => ShownOnce
  <2> SUFFICES ASSUME IInv, IsInjective(input.scan.observed), IsInjective(input.scan.legacy),
                      NEW i \in DOMAIN records, NEW j \in DOMAIN records,
                      records[i].diag = records[j].diag, records[i].decision # 0,
                      records[i].diag.rule \notin GovernanceCode
               PROVE  i = j
      BY DEF ShownOnce
  <2>1. input.scan \in Scans /\ input.audit \in Audits
      BY DEF IInv
  <2> DEFINE p == decisions[records[i].decision].finding
             q == decisions[records[j].decision].finding
             diag == records[i].diag
  <2>2. /\ records[i].decision \in DOMAIN decisions /\ p \in DOMAIN Base
        /\ diag.rule = Base[p].owner /\ diag.text = Base[p].text
        /\ diag.severity = Base[p].severity /\ diag.file = Base[p].span.file
        /\ diag.first = Base[p].span.first /\ diag.last = Base[p].span.last
      BY CollectedRecord
  <2>3. ASSUME records[j].decision = 0
        PROVE  FALSE
    <3>1. "LOCUS001" \in GovernanceCode
        BY RegistryAssumption
    <3>2. diag \in ToSet(input.audit)
        BY <2>3, <3>1, EmittedRecords
    <3>3. \E v \in ToSet(input.scan.observed) \cup ToSet(input.scan.legacy) : v.rule = diag.rule
      <4> HIDE DEF p, diag
      <4> QED  BY <2>1, <2>2, ReportedRule DEF Base
    <3> HIDE DEF diag
    <3> QED  BY <2>1, <3>2, <3>3, AuditsAssumption
  <2>4. /\ records[j].decision \in DOMAIN decisions /\ q \in DOMAIN Base
        /\ diag.rule = Base[q].owner /\ diag.text = Base[q].text
        /\ diag.severity = Base[q].severity /\ diag.file = Base[q].span.file
        /\ diag.first = Base[q].span.first /\ diag.last = Base[q].span.last
      BY <2>3, CollectedRecord
  <2>5. p = q
    <3> HIDE DEF p, q, diag
    <3>1. /\ Base[p].owner = Base[q].owner /\ Base[p].text = Base[q].text
          /\ Base[p].severity = Base[q].severity /\ Base[p].span.file = Base[q].span.file
          /\ Base[p].span.first = Base[q].span.first /\ Base[p].span.last = Base[q].span.last
        BY <2>2, <2>4
    <3> QED  BY <2>1, <2>2, <2>4, <3>1, SameFinding DEF Base
  <2>6. records[i].decision = records[j].decision
      BY <2>2, <2>4, <2>5 DEF IInv, DecisionsInv
  <2>7. Ordered(records) /\ IsSequence(records) /\ IsSequence(decisions)
      BY DEF IInv, RecordsInv, DecisionsInv
  <2>8. i \in Nat /\ j \in Nat /\ records[i].decision \in Nat
      BY <2>2, <2>7, SequenceProperties
  <2>9. ~(i < j) /\ ~(j < i)
      BY <2>6, <2>7, <2>8 DEF Ordered
  <2> QED  BY <2>8, <2>9
<1> QED  BY <1>1, InvariantHolds, PTL

=============================================================================
