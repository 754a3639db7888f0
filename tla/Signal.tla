------------------------------- MODULE Signal -------------------------------
(***************************************************************************)
(* pkg/signal/signal.go: feedback signal, a map from elements to           *)
(* priorities.  A Signal is a function on Elems in which Absent stands for *)
(* a missing key, so nil and empty maps, which no operation tells apart,   *)
(* are one value.  Operations that mutate the receiver return it.          *)
(*                                                                         *)
(* Priorities are 0 .. 3 in the program (signalPrio of syz-fuzzer), far    *)
(* from the bounds of prioType (int8).                                     *)
(***************************************************************************)
EXTENDS Integers, FiniteSets, Sequences

CONSTANTS
  Elems,    \* elemType: coverage points
  MaxPrio   \* the largest priority an input can have

ASSUME ElemsAssumption == IsFiniteSet(Elems)
ASSUME MaxPrioAssumption == MaxPrio \in Nat

Absent == -1
Prios == 0 .. MaxPrio

Signals == [Elems -> Prios \cup {Absent}]

NoSignal == [e \in Elems |-> Absent]

\* The keys of the map.
Support(s) == {e \in Elems : s[e] # Absent}

Size(s) == Cardinality(Support(s))      \* Len

Empty(s) == s = NoSignal

\* s gives no less than s1, element by element.
Covers(s, s1) == \A e \in Elems : s[e] >= s1[e]

FromRaw(raw, prio) == [e \in Elems |-> IF e \in raw THEN prio ELSE Absent]

\* What of s1 is new, or stronger, with respect to s.
Diff(s, s1) ==
  [e \in Elems |-> IF s[e] # Absent /\ s[e] >= s1[e] THEN Absent ELSE s1[e]]

DiffRaw(s, raw, prio) ==
  [e \in Elems |-> IF e \in raw /\ ~(s[e] # Absent /\ s[e] >= prio)
                   THEN prio ELSE Absent]

Intersection(s, s1) ==
  [e \in Elems |-> IF s1[e] # Absent /\ s1[e] >= s[e] THEN s[e] ELSE Absent]

\* A slip: a stronger priority of an element that is already there is lost.
MergeKeepsOld(s, s1) == [e \in Elems |-> IF s[e] = Absent THEN s1[e] ELSE s[e]]

Merge(s, s1) ==
  [e \in Elems |-> IF s[e] = Absent \/ s[e] < s1[e] THEN s1[e] ELSE s[e]]

\* Merging a set of signals, one after the other in any order.
MergeAll(sigs) ==
  [e \in Elems |->
     LET ps == {s[e] : s \in sigs} IN
     IF ps = {} THEN Absent ELSE CHOOSE p \in ps : \A q \in ps : q <= p]

\* delete(s, e) for every element of a set.
Without(s, es) == [e \in Elems |-> IF e \in es THEN Absent ELSE s[e]]

Only(s, es) == [e \in Elems |-> IF e \in es THEN s[e] ELSE Absent]

(***************************************************************************)
(* Split(n): the element sets the loop can move out of s, one per map      *)
(* iteration order.  It stops when n reaches 0 after a decrement, so       *)
(* Split(0) never stops early: it moves everything.                        *)
(***************************************************************************)
SplitTakes(s, n) ==
  IF n = 0 \/ n >= Size(s)
  THEN {Support(s)}
  ELSE {es \in SUBSET Support(s) : Cardinality(es) = n}

(***************************************************************************)
(* Serialize and Deserialize: parallel slices in map iteration order; a    *)
(* repeated element keeps its last priority, and slices of different       *)
(* length make Deserialize panic.                                          *)
(***************************************************************************)
Serializations(s) ==
  {[elems |-> order, prios |-> [i \in DOMAIN order |-> s[order[i]]]] :
     order \in {o \in [1 .. Size(s) -> Support(s)] :
                  \A e \in Support(s) : \E i \in DOMAIN o : o[i] = e}}

Panic == "corrupted Serial"

Deserialize(ser) ==
  IF DOMAIN ser.elems # DOMAIN ser.prios THEN Panic
  ELSE [e \in Elems |->
          LET at == {i \in DOMAIN ser.elems : ser.elems[i] = e} IN
          IF at = {} THEN Absent
          ELSE ser.prios[CHOOSE i \in at : \A j \in at : j <= i]]

(***************************************************************************)
(* Minimize.  keys are the corpus items in the order rank gives them (the  *)
(* caller's map iteration), item their signals.  For every element the     *)
(* first item with the largest priority is kept; the rest go.              *)
(***************************************************************************)

\* A slip: the first item that has the element is kept, whatever its priority.
WinsIfFirst(k, e, keys, item, rank) ==
  /\ item[k][e] # Absent
  /\ \A j \in keys : item[j][e] # Absent => rank[k] <= rank[j]

Wins(k, e, keys, item, rank) ==
  /\ item[k][e] # Absent
  /\ \A j \in keys :
       \/ item[j][e] < item[k][e]
       \/ item[j][e] = item[k][e] /\ rank[k] <= rank[j]

Minimize(keys, item, rank) ==
  {k \in keys : \E e \in Elems : Wins(k, e, keys, item, rank)}

\* The orders in which a map with these keys may be iterated.
Orders(keys) ==
  {r \in [keys -> 1 .. Cardinality(keys)] :
     \A j, k \in keys : r[j] = r[k] => j = k}

\* Every item of keys gives no more than s, and s no more than they together.
IsUnion(s, keys, item) ==
  \A e \in Elems :
    /\ \A k \in keys : item[k][e] <= s[e]
    /\ s[e] # Absent => \E k \in keys : item[k][e] = s[e]
=============================================================================
