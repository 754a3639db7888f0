---------------------------- MODULE SignalProofs ----------------------------
(***************************************************************************)
(* Laws of the operations of pkg/signal, for every set of coverage points  *)
(* and every number of priorities: signals with Merge are a join           *)
(* semilattice ordered by Covers, Diff is empty exactly when nothing is    *)
(* new, and Minimize keeps, for every element, an item with the largest    *)
(* priority.                                                               *)
(***************************************************************************)
EXTENDS Signal, TLAPS, FiniteSetTheorems, WellFoundedInduction

LEMMA SignalValues ==
  ASSUME NEW s \in Signals, NEW e \in Elems
  PROVE  s[e] \in Int /\ s[e] >= Absent /\ s[e] <= MaxPrio
BY MaxPrioAssumption DEF Signals, Prios, Absent

LEMMA NoSignalType == NoSignal \in Signals
BY DEF NoSignal, Signals

\* A nonempty set of natural numbers has a least element: what the provers
\* need of the well-foundedness of < to find the item Minimize keeps.
LEMMA LeastNumber ==
  ASSUME NEW T \in SUBSET Nat, T # {}
  PROVE  \E n \in T : \A m \in T : n <= m
<1> DEFINE F == {0 .. n : n \in T}
<1>1. F \subseteq FiniteSubsetsOf(Nat) /\ F # {}
  <2>1. \A n \in T : IsFiniteSet(0 .. n) /\ 0 .. n \subseteq Nat
    BY FS_Interval
  <2> QED
    BY <2>1 DEF FiniteSubsetsOf
<1>2. PICK S \in F : \A U \in F : ~(<<U, S>> \in StrictSubsetOrdering(Nat))
  BY <1>1, FS_StrictSubsetOrderingWellFounded, WFMin
<1>3. PICK n \in T : S = 0 .. n
  BY <1>2
<1>4. ASSUME NEW m \in T, ~(n <= m) PROVE FALSE
  <2>1. 0 .. m \subseteq 0 .. n /\ 0 .. m # 0 .. n
    <3>1. m < n /\ n \in 0 .. n /\ n \notin 0 .. m
      BY <1>4
    <3> QED
      BY <3>1
  <2>2. <<0 .. m, S>> \in StrictSubsetOrdering(Nat)
    BY <2>1, <1>1, <1>3 DEF StrictSubsetOrdering, FiniteSubsetsOf
  <2> QED
    BY <2>2, <1>2
<1> QED
  BY <1>4

\* Merge (Signal.Merge, which updates its receiver) computes the least signal
\* that gives no less than either argument.
THEOREM MergeIsJoin ==
  ASSUME NEW s \in Signals, NEW s1 \in Signals
  PROVE  /\ Merge(s, s1) \in Signals
         /\ Covers(Merge(s, s1), s) /\ Covers(Merge(s, s1), s1)
         /\ \A t \in Signals : Covers(t, s) /\ Covers(t, s1) => Covers(t, Merge(s, s1))
<1>1. Merge(s, s1) \in Signals
  BY DEF Merge, Signals
<1>2. Covers(Merge(s, s1), s) /\ Covers(Merge(s, s1), s1)
  BY SignalValues DEF Merge, Covers, Absent
<1>3. ASSUME NEW t \in Signals, Covers(t, s), Covers(t, s1)
      PROVE  Covers(t, Merge(s, s1))
  BY <1>3, SignalValues DEF Merge, Covers
<1> QED
  BY <1>1, <1>2, <1>3

\* Signal.Diff finds nothing exactly when the first signal covers the second,
\* and merging only the difference is as good as merging everything: what
\* NewInput, Poll and checkNewCallSignal rely on.
THEOREM DiffIsComplement ==
  ASSUME NEW s \in Signals, NEW s1 \in Signals
  PROVE  /\ Diff(s, s1) \in Signals
         /\ Empty(Diff(s, s1)) <=> Covers(s, s1)
         /\ Merge(s, Diff(s, s1)) = Merge(s, s1)
<1>1. Diff(s, s1) \in Signals
  BY DEF Diff, Signals
<1>2. ASSUME Empty(Diff(s, s1)) PROVE Covers(s, s1)
  <2> SUFFICES ASSUME NEW e \in Elems PROVE s[e] >= s1[e]
    BY DEF Covers
  <2>1. Diff(s, s1)[e] = Absent
    BY <1>2 DEF Empty, NoSignal
  <2> QED
    BY <2>1, SignalValues DEF Diff, Absent
<1>3. ASSUME Covers(s, s1) PROVE Empty(Diff(s, s1))
  <2>1. \A e \in Elems : Diff(s, s1)[e] = Absent
    BY <1>3, SignalValues DEF Covers, Diff, Absent
  <2> QED
    BY <2>1 DEF Empty, NoSignal, Diff
<1>4. Merge(s, Diff(s, s1)) = Merge(s, s1)
  BY SignalValues DEF Merge, Diff, Absent
<1> QED
  BY <1>1, <1>2, <1>3, <1>4

\* Deserialize undoes Serialize, whatever order the map was iterated in, and
\* never panics on what it wrote: the slices are parallel and name every element
\* once.
THEOREM SerializeRoundTrip ==
  ASSUME NEW s \in Signals, NEW ser \in Serializations(s)
  PROVE  Deserialize(ser) = s
<1> DEFINE n == Size(s)
<1>1. IsFiniteSet(Support(s)) /\ n \in Nat
  BY ElemsAssumption, FS_Subset, FS_CardinalityType DEF Support, Size
<1>2. PICK o \in [1 .. n -> Support(s)] :
        /\ \A e \in Support(s) : \E i \in DOMAIN o : o[i] = e
        /\ ser = [elems |-> o, prios |-> [i \in DOMAIN o |-> s[o[i]]]]
  BY DEF Serializations
<1>3. o \in Injection(1 .. n, Support(s))
  <2>1. IsFiniteSet(1 .. n) /\ Cardinality(1 .. n) = n
    BY <1>1, FS_Interval
  <2>2. o \in Surjection(1 .. n, Support(s))
    BY <1>2 DEF Surjection
  <2> QED
    BY <2>1, <2>2, FS_SurjSameCardinalityImpliesInj DEF Size
<1> DEFINE read == [e \in Elems |->
                      LET at == {i \in DOMAIN ser.elems : ser.elems[i] = e} IN
                      IF at = {} THEN Absent
                      ELSE ser.prios[CHOOSE i \in at : \A j \in at : j <= i]]
<1>4. Deserialize(ser) = read
  <2>1. DOMAIN ser.elems = DOMAIN ser.prios
    BY <1>2
  <2> QED
    BY <2>1 DEF Deserialize
<1>5. ASSUME NEW e \in Elems PROVE read[e] = s[e]
  <2> DEFINE at == {i \in DOMAIN ser.elems : ser.elems[i] = e}
  <2>1. CASE e \in Support(s)
    <3>1. PICK i \in 1 .. n : o[i] = e
      BY <2>1, <1>2
    <3>2. at = {i}
      BY <3>1, <1>2, <1>3 DEF Injection, IsInjective
    <3>3. (CHOOSE k \in at : \A j \in at : j <= k) = i
      BY <3>2
    <3>4. ser.prios[i] = s[e]
      BY <3>1, <1>2
    <3> QED
      BY <3>2, <3>3, <3>4
  <2>2. CASE e \notin Support(s)
    <3>1. at = {}
      BY <2>2, <1>2
    <3>2. s[e] = Absent
      BY <2>2 DEF Support
    <3> QED
      BY <3>1, <3>2
  <2> QED
    BY <2>1, <2>2
<1>6. read = [e \in Elems |-> s[e]]
  BY <1>5
<1> QED
  BY <1>4, <1>6 DEF Signals

\* For every element that an item has, Minimize keeps an item that gives it at
\* least the same priority, in whatever order the items are visited.
THEOREM MinimizeKeepsSignal ==
  ASSUME NEW keys, IsFiniteSet(keys), NEW item,
         \A k \in keys : item[k] \in Signals,
         NEW rank \in Orders(keys),
         NEW k \in keys, NEW e \in Elems, item[k][e] # Absent
  PROVE  \E w \in Minimize(keys, item, rank) : item[w][e] >= item[k][e]
<1> DEFINE Gap(j) == MaxPrio - item[j][e]
<1>1. \A j \in keys : Gap(j) \in Nat /\ item[j][e] \in Int
  BY SignalValues, MaxPrioAssumption
<1>2. PICK top \in keys : \A j \in keys : Gap(top) <= Gap(j)
  <2> DEFINE T == {Gap(j) : j \in keys}
  <2>1. T \in SUBSET Nat /\ T # {}
    BY <1>1
  <2>2. PICK g \in T : \A m \in T : g <= m
    BY <2>1, LeastNumber
  <2> QED
    BY <2>2
<1>3. \A j \in keys : item[j][e] <= item[top][e]
  BY <1>1, <1>2, MaxPrioAssumption
<1> DEFINE best == {j \in keys : item[j][e] = item[top][e]}
<1>4. \A j \in keys : rank[j] \in Nat
  BY FS_CardinalityType DEF Orders
<1>5. PICK w \in best : \A j \in best : rank[w] <= rank[j]
  <2> DEFINE T == {rank[j] : j \in best}
  <2>1. T \in SUBSET Nat /\ T # {}
    BY <1>4
  <2>2. PICK r \in T : \A m \in T : r <= m
    BY <2>1, LeastNumber
  <2> QED
    BY <2>2
<1>6. item[w][e] # Absent
  BY <1>1, <1>3, <1>5, SignalValues DEF Absent
<1>7. Wins(w, e, keys, item, rank)
  BY <1>1, <1>3, <1>5, <1>6 DEF Wins
<1>8. w \in Minimize(keys, item, rank)
  BY <1>7, <1>5 DEF Minimize
<1> QED
  BY <1>8, <1>3, <1>5, <1>1
-----------------------------------------------------------------------------
(***************************************************************************)
(* Element by element: what the proofs about the modules that keep signals *)
(* use of the operations.                                                  *)
(***************************************************************************)

LEMMA MergeValue ==
  ASSUME NEW s \in Signals, NEW s1 \in Signals, NEW e \in Elems
  PROVE  /\ Merge(s, s1)[e] = s[e] \/ Merge(s, s1)[e] = s1[e]
         /\ Merge(s, s1)[e] >= s[e] /\ Merge(s, s1)[e] >= s1[e]
BY SignalValues DEF Merge, Absent

LEMMA CoversOrder ==
  /\ \A s \in Signals : Covers(s, s)
  /\ \A s \in Signals : Covers(s, NoSignal)
  /\ \A s, t, u \in Signals : Covers(s, t) /\ Covers(t, u) => Covers(s, u)
<1>1. \A s \in Signals : Covers(s, s)
  BY SignalValues DEF Covers
<1>2. \A s \in Signals : Covers(s, NoSignal)
  BY SignalValues DEF Covers, NoSignal
<1>3. ASSUME NEW s \in Signals, NEW t \in Signals, NEW u \in Signals,
             Covers(s, t), Covers(t, u)
      PROVE  Covers(s, u)
  BY <1>3, SignalValues DEF Covers
<1> QED
  BY <1>1, <1>2, <1>3

\* Merging cannot lose what either side covered.
LEMMA MergeMonotone ==
  ASSUME NEW s \in Signals, NEW t \in Signals, NEW u \in Signals
  PROVE  /\ Covers(s, t) => Covers(Merge(s, u), t) /\ Covers(Merge(u, s), t)
         /\ Covers(s, t) => Covers(Merge(s, u), Merge(t, u))
<1>1. ASSUME Covers(s, t) PROVE Covers(Merge(s, u), t) /\ Covers(Merge(u, s), t)
  BY <1>1, MergeIsJoin, CoversOrder
<1>2. ASSUME Covers(s, t) PROVE Covers(Merge(s, u), Merge(t, u))
  BY <1>1, <1>2, MergeIsJoin
<1> QED
  BY <1>1, <1>2

LEMMA PartTypes ==
  ASSUME NEW s \in Signals, NEW t \in Signals, NEW es
  PROVE  /\ Without(s, es) \in Signals /\ Only(s, es) \in Signals
         /\ Intersection(s, t) \in Signals
BY DEF Without, Only, Intersection, Signals

\* MergeAll gives every element the largest priority it has anywhere.
LEMMA MergeAllIsJoin ==
  ASSUME NEW sigs \in SUBSET Signals
  PROVE  /\ MergeAll(sigs) \in Signals
         /\ \A s \in sigs : Covers(MergeAll(sigs), s)
         /\ \A e \in Elems : \/ MergeAll(sigs)[e] = Absent
                              \/ \E s \in sigs : s[e] = MergeAll(sigs)[e]
<1>1. ASSUME NEW e \in Elems, sigs # {}
      PROVE  \E s \in sigs : /\ MergeAll(sigs)[e] = s[e]
                             /\ \A t \in sigs : t[e] <= s[e]
  <2> DEFINE ps == {s[e] : s \in sigs}
             T == {MaxPrio - s[e] : s \in sigs}
  <2>1. T \in SUBSET Nat /\ T # {}
    <3>1. \A s \in sigs : MaxPrio - s[e] \in Nat
      BY SignalValues, MaxPrioAssumption
    <3> QED
      BY <3>1, <1>1
  <2>2. PICK g \in T : \A m \in T : g <= m
    BY <2>1, LeastNumber
  <2>3. PICK top \in sigs : g = MaxPrio - top[e]
    BY <2>2
  <2>4. \A t \in sigs : t[e] <= top[e] /\ t[e] \in Int /\ top[e] \in Int
    <3>1. \A t \in sigs : t[e] \in Int
      BY SignalValues
    <3>2. \A t \in sigs : g <= MaxPrio - t[e]
      BY <2>2
    <3> QED
      BY <2>3, <3>1, <3>2, MaxPrioAssumption
  <2>5. \A q \in ps : q <= top[e]
    BY <2>4
  <2>6. top[e] \in ps
    BY <2>3
  <2> DEFINE c == CHOOSE p \in ps : \A q \in ps : q <= p
  <2>7. c \in ps /\ \A q \in ps : q <= c
    BY <2>5, <2>6
  <2>8. MergeAll(sigs)[e] = c
    BY <1>1 DEF MergeAll
  <2>9. PICK s \in sigs : c = s[e]
    BY <2>7
  <2>10. \A t \in sigs : t[e] <= s[e]
    BY <2>7, <2>9
  <2> QED
    BY <2>8, <2>9, <2>10
<1>2. CASE sigs = {}
  <2>1. \A e \in Elems : MergeAll(sigs)[e] = Absent
    BY <1>2 DEF MergeAll
  <2>2. MergeAll(sigs) = [e \in Elems |-> MergeAll(sigs)[e]]
    BY DEF MergeAll
  <2> QED
    BY <1>2, <2>1, <2>2 DEF Signals
<1>3. CASE sigs # {}
  <2>1. \A e \in Elems : MergeAll(sigs)[e] \in Prios \cup {Absent}
    BY <1>1, <1>3 DEF Signals
  <2>2. MergeAll(sigs) = [e \in Elems |-> MergeAll(sigs)[e]]
    BY DEF MergeAll
  <2>3. MergeAll(sigs) \in Signals
    BY <2>1, <2>2 DEF Signals
  <2>4. \A s \in sigs, e \in Elems : MergeAll(sigs)[e] >= s[e]
    BY <1>1, <1>3, SignalValues
  <2>5. \A e \in Elems : \E s \in sigs : s[e] = MergeAll(sigs)[e]
    BY <1>1, <1>3
  <2> QED
    BY <2>3, <2>4, <2>5 DEF Covers
<1> QED
  BY <1>2, <1>3

\* What it takes for the merge of a set of signals to cover another signal.
LEMMA MergeAllCovers ==
  ASSUME NEW sigs \in SUBSET Signals, NEW f \in Signals
  PROVE  Covers(MergeAll(sigs), f) <=>
           \A e \in Elems : f[e] = Absent \/ \E s \in sigs : s[e] >= f[e]
<1>1. /\ MergeAll(sigs) \in Signals
      /\ \A s \in sigs : Covers(MergeAll(sigs), s)
      /\ \A e \in Elems : \/ MergeAll(sigs)[e] = Absent
                          \/ \E s \in sigs : s[e] = MergeAll(sigs)[e]
  BY MergeAllIsJoin
<1>2. ASSUME NEW e \in Elems
      PROVE  MergeAll(sigs)[e] >= f[e] <=> f[e] = Absent \/ \E s \in sigs : s[e] >= f[e]
  <2>1. /\ f[e] \in Int /\ f[e] >= Absent /\ MergeAll(sigs)[e] \in Int
        /\ MergeAll(sigs)[e] >= Absent
        /\ \A s \in sigs : s[e] \in Int /\ MergeAll(sigs)[e] >= s[e]
    BY <1>1, SignalValues DEF Covers
  <2>2. MergeAll(sigs)[e] = Absent \/ \E s \in sigs : s[e] = MergeAll(sigs)[e]
    BY <1>1
  <2> QED
    BY <2>1, <2>2 DEF Absent
<1> QED
  BY <1>2 DEF Covers
=============================================================================
