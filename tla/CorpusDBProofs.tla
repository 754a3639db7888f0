--------------------------- MODULE CorpusDBProofs ---------------------------
(***************************************************************************)
(* The corpus database keeps its counters and its file consistent, and     *)
(* implements KVStore: a crash loses only a suffix of unflushed updates.   *)
(* For any number of keys, values and pending records, as long as a write  *)
(* that fails has written nothing (~ShortWrites).                          *)
(***************************************************************************)
EXTENDS CorpusDB, TLAPS, FiniteSetTheorems, FunctionTheorems, SequenceTheorems, WellFoundedInduction

Recs == [Keys -> Vals \cup {NoVal}]

-----------------------------------------------------------------------------
(* Indices of a log.                                                       *)

LEMMA SmallestIndex ==
  ASSUME NEW T \in SUBSET Nat, T # {}
  PROVE  \E n \in T : \A k \in T : n <= k
<1> DEFINE Below == {0 .. n : n \in T}
<1>1. ASSUME NEW n \in T PROVE IsFiniteSet(0 .. n) /\ 0 .. n \in SUBSET Nat
  BY FS_Interval
<1>2. Below \subseteq FiniteSubsetsOf(Nat) /\ Below # {}
  BY <1>1 DEF FiniteSubsetsOf
<1>3. PICK n \in T : \A U \in Below : <<U, 0 .. n>> \notin StrictSubsetOrdering(Nat)
  <2>1. PICK S \in Below : \A U \in Below : ~(<<U, S>> \in StrictSubsetOrdering(Nat))
    BY <1>2, FS_StrictSubsetOrderingWellFounded, WFMin
  <2> QED
    BY <2>1
<1>4. ASSUME NEW k \in T, k < n PROVE FALSE
  <2>1. n \in 0 .. n /\ n \notin 0 .. k /\ 0 .. k \subseteq 0 .. n
    BY <1>4
  <2>2. <<0 .. k, 0 .. n>> \in StrictSubsetOrdering(Nat)
    BY <1>2, <2>1 DEF StrictSubsetOrdering, FiniteSubsetsOf
  <2> QED
    BY <1>3, <2>2
<1>5. \A k \in T : k \in Nat /\ n \in Nat
  OBVIOUS
<1> QED
  BY <1>4, <1>5

\* The last of the records about a key.
LEMMA LastIndex ==
  ASSUME NEW n \in Nat, NEW T \in SUBSET (1 .. n), T # {}
  PROVE  \E k \in T : Max(T) = k /\ \A j \in T : k >= j
<1> DEFINE Gaps == {n - k : k \in T}
<1>1. \A k \in T : k \in Nat /\ n - k \in Nat
  OBVIOUS
<1>2. Gaps \in SUBSET Nat /\ Gaps # {}
  BY <1>1
<1>3. PICK g \in Gaps : \A h \in Gaps : g <= h
  BY <1>2, SmallestIndex
<1>4. PICK top \in T : g = n - top
  BY <1>3
<1>5. \A k \in T : n - top <= n - k
  BY <1>3, <1>4
<1>6. \A k \in T : top >= k
  BY <1>1, <1>5
<1> QED
  BY <1>6 DEF Max

\* The last index is the only one that is not below another.
LEMMA LastIndexIs ==
  ASSUME NEW n \in Nat, NEW T \in SUBSET (1 .. n), NEW k \in T, \A j \in T : k >= j
  PROVE  Max(T) = k
<1>1. PICK m \in T : Max(T) = m /\ \A j \in T : m >= j
  BY LastIndex
<1>2. m >= k /\ k >= m /\ m \in Nat /\ k \in Nat
  BY <1>1
<1> QED
  BY <1>1, <1>2

-----------------------------------------------------------------------------
(* What replaying a log gives.                                             *)

About(log, k) == {i \in DOMAIN log : log[i].key = k}

\* The two cases of Replay.
LEMMA ReplayAt ==
  ASSUME NEW recs \in Recs, NEW log \in Seq(Entries), NEW k \in Keys
  PROVE  /\ About(log, k) = {} => Replay(recs, log)[k] = recs[k]
         /\ \A i \in About(log, k) : (\A j \in About(log, k) : i >= j)
                                       => Replay(recs, log)[k] = log[i].val
<1>1. Replay(recs, log)[k] = IF About(log, k) = {} THEN recs[k] ELSE log[Max(About(log, k))].val
  BY DEF Replay, About
<1>2. Len(log) \in Nat /\ About(log, k) \in SUBSET (1 .. Len(log))
  BY DEF About
<1> HIDE DEF About
<1>3. ASSUME NEW i \in About(log, k), \A j \in About(log, k) : i >= j
      PROVE  Max(About(log, k)) = i
  BY <1>2, <1>3, LastIndexIs
<1> QED
  BY <1>1, <1>3

\* A value after the replay is the one before it, or that of the last record.
LEMMA ReplayCases ==
  ASSUME NEW recs \in Recs, NEW log \in Seq(Entries), NEW k \in Keys
  PROVE  \/ About(log, k) = {} /\ Replay(recs, log)[k] = recs[k]
         \/ \E i \in About(log, k) : /\ \A j \in About(log, k) : i >= j
                                     /\ Replay(recs, log)[k] = log[i].val
<1>1. Len(log) \in Nat /\ About(log, k) \in SUBSET (1 .. Len(log))
  BY DEF About
<1> HIDE DEF About
<1>2. CASE About(log, k) # {}
  <2>1. PICK i \in About(log, k) : \A j \in About(log, k) : i >= j
    BY <1>1, <1>2, LastIndex
  <2> QED
    BY <2>1, ReplayAt
<1> QED
  BY <1>2, ReplayAt

LEMMA ReplayType ==
  ASSUME NEW recs \in Recs, NEW log \in Seq(Entries)
  PROVE  Replay(recs, log) \in Recs
<1>1. Replay(recs, log) = [k \in Keys |-> Replay(recs, log)[k]]
  BY DEF Replay
<1>2. ASSUME NEW k \in Keys PROVE Replay(recs, log)[k] \in Vals \cup {NoVal}
  <2>1. \A i \in About(log, k) : log[i].val \in Vals \cup {NoVal}
    <3>1. \A i \in About(log, k) : log[i] \in Entries
      BY DEF About
    <3> QED
      BY <3>1 DEF Entries
  <2>2. recs[k] \in Vals \cup {NoVal}
    BY DEF Recs
  <2> QED
    BY <2>1, <2>2, ReplayCases
<1> QED
  BY <1>1, <1>2 DEF Recs

\* Two maps are equal if they are at every key.
LEMMA SameRecs ==
  ASSUME NEW r \in Recs, NEW s \in Recs, \A k \in Keys : r[k] = s[k]
  PROVE  r = s
BY DEF Recs

\* deserializeDB's loop: nothing read, nothing changed; and one record more is
\* one Apply more.
LEMMA ReplayNothing ==
  ASSUME NEW recs \in Recs
  PROVE  Replay(recs, <<>>) = recs
<1>1. <<>> \in Seq(Entries)
  OBVIOUS
<1>2. \A k \in Keys : About(<<>>, k) = {}
  BY DEF About
<1> QED
  BY <1>1, <1>2, ReplayAt, ReplayType, SameRecs

LEMMA ApplyDoes ==
  ASSUME NEW recs \in Recs, NEW e \in Entries
  PROVE  /\ Apply(recs, e) \in Recs
         /\ \A k \in Keys : Apply(recs, e)[k] = IF k = e.key THEN e.val ELSE recs[k]
BY DEF Apply, Entries, Recs

\* Replaying two logs one after the other is replaying both together.
LEMMA ReplayJoined ==
  ASSUME NEW recs \in Recs, NEW s \in Seq(Entries), NEW t \in Seq(Entries)
  PROVE  Replay(recs, s \o t) = Replay(Replay(recs, s), t)
<1>1. /\ s \o t \in Seq(Entries) /\ Len(s) \in Nat /\ Len(t) \in Nat
      /\ DOMAIN s = 1 .. Len(s) /\ DOMAIN t = 1 .. Len(t) /\ DOMAIN (s \o t) = 1 .. Len(s) + Len(t)
  OBVIOUS
<1>2. \A i \in 1 .. Len(s) : (s \o t)[i] = s[i]
  OBVIOUS
<1>3. \A i \in 1 .. Len(t) : (s \o t)[i + Len(s)] = t[i]
  OBVIOUS
<1>4. \A i \in 1 .. Len(s) + Len(t) :
        i \in 1 .. Len(s) \/ (i - Len(s) \in 1 .. Len(t) /\ (i - Len(s)) + Len(s) = i)
  BY <1>1
<1> DEFINE mid == Replay(recs, s)
<1>5. mid \in Recs
  BY ReplayType
<1> DEFINE st == s \o t
<1>6. /\ st \in Seq(Entries) /\ DOMAIN st = 1 .. Len(s) + Len(t)
      /\ \A i \in 1 .. Len(s) : st[i] = s[i]
      /\ \A i \in 1 .. Len(t) : st[i + Len(s)] = t[i]
  BY <1>1, <1>2, <1>3
<1> HIDE DEF st
<1>7. ASSUME NEW k \in Keys
      PROVE  Replay(recs, st)[k] = Replay(mid, t)[k]
  <2>1. CASE About(t, k) = {}
    <3>1. About(st, k) = About(s, k)
      <4> SUFFICES ASSUME NEW i PROVE i \in About(st, k) <=> i \in About(s, k)
        OBVIOUS
      <4>1. CASE i \in 1 .. Len(s)
        BY <4>1, <1>1, <1>6 DEF About
      <4>2. CASE i \in 1 .. Len(s) + Len(t) /\ i \notin 1 .. Len(s)
        <5>1. i - Len(s) \in DOMAIN t /\ st[i] = t[i - Len(s)]
          BY <4>2, <1>1, <1>4, <1>6
        <5>2. t[i - Len(s)].key # k
          BY <5>1, <2>1 DEF About
        <5> QED
          BY <5>1, <5>2, <4>2, <1>1 DEF About
      <4>3. CASE i \notin 1 .. Len(s) + Len(t)
        BY <4>3, <1>1, <1>6 DEF About
      <4> QED
        BY <4>1, <4>2, <4>3
    <3>2. \A i \in About(s, k) : st[i] = s[i]
      BY <1>1, <1>6 DEF About
    <3>3. Replay(recs, st)[k] = Replay(recs, s)[k]
      BY <3>1, <3>2, <1>6, ReplayAt, ReplayCases
    <3> QED
      BY <3>3, <2>1, <1>5, ReplayAt
  <2>2. CASE About(t, k) # {}
    <3>1. PICK i \in About(t, k) : /\ \A j \in About(t, k) : i >= j
                                   /\ Replay(mid, t)[k] = t[i].val
      BY <2>2, <1>5, ReplayCases
    <3>2. i \in 1 .. Len(t) /\ t[i].key = k
      BY <1>1 DEF About
    <3>3. i + Len(s) \in About(st, k) /\ st[i + Len(s)] = t[i]
      <4>1. i + Len(s) \in DOMAIN st
        BY <3>2, <1>1, <1>6
      <4>2. st[i + Len(s)] = t[i]
        BY <3>2, <1>6
      <4> QED
        BY <4>1, <4>2, <3>2 DEF About
    <3>4. ASSUME NEW j \in About(st, k) PROVE i + Len(s) >= j
      <4>1. j \in 1 .. Len(s) + Len(t) /\ st[j].key = k
        BY <1>6 DEF About
      <4>2. CASE j \in 1 .. Len(s)
        BY <4>2, <3>2, <1>1
      <4>3. CASE j - Len(s) \in 1 .. Len(t) /\ (j - Len(s)) + Len(s) = j
        <5>1. t[j - Len(s)] = st[j]
          BY <4>3, <1>6
        <5>2. j - Len(s) \in About(t, k)
          BY <5>1, <4>1, <4>3, <1>1 DEF About
        <5>3. i >= j - Len(s)
          BY <5>2, <3>1
        <5> QED
          BY <5>3, <4>1, <3>2, <1>1
      <4> QED
        BY <4>1, <4>2, <4>3, <1>4
    <3>5. Replay(recs, st)[k] = st[i + Len(s)].val
      BY <3>3, <3>4, <1>6, ReplayAt
    <3> QED
      BY <3>1, <3>3, <3>5
  <2> QED
    BY <2>1, <2>2
<1>8. Replay(recs, st) \in Recs /\ Replay(mid, t) \in Recs
  BY <1>5, <1>6, ReplayType
<1>9. Replay(recs, st) = Replay(mid, t)
  BY <1>7, <1>8, SameRecs
<1> QED
  BY <1>9 DEF st

\* One more record in the log is one more Apply.
LEMMA ReplayOne ==
  ASSUME NEW recs \in Recs, NEW s \in Seq(Entries), NEW e \in Entries
  PROVE  Replay(recs, Append(s, e)) = Apply(Replay(recs, s), e)
<1> DEFINE one == <<e>>
           mid == Replay(recs, s)
<1>1. one \in Seq(Entries) /\ Append(s, e) = s \o one
  OBVIOUS
<1>2. DOMAIN one = {1} /\ one[1] = e
  OBVIOUS
<1>3. mid \in Recs
  BY ReplayType
<1> HIDE DEF one, mid
<1>4. ASSUME NEW k \in Keys
      PROVE  Replay(mid, one)[k] = Apply(mid, e)[k]
  <2>1. CASE k = e.key
    <3>1. About(one, k) = {1}
      BY <2>1, <1>2 DEF About
    <3>2. 1 \in About(one, k) /\ \A j \in About(one, k) : 1 >= j
      BY <3>1
    <3>3. Replay(mid, one)[k] = one[1].val
      BY <3>2, <1>1, <1>3, ReplayAt
    <3> QED
      BY <3>3, <2>1, <1>2, <1>3, ApplyDoes
  <2>2. CASE k # e.key
    <3>1. About(one, k) = {}
      BY <2>2, <1>2 DEF About
    <3> QED
      BY <3>1, <2>2, <1>1, <1>3, ReplayAt, ApplyDoes
  <2> QED
    BY <2>1, <2>2
<1>5. Replay(mid, one) = Apply(mid, e)
  BY <1>1, <1>3, <1>4, ReplayType, ApplyDoes, SameRecs
<1> QED
  BY <1>1, <1>5, ReplayJoined DEF mid

-----------------------------------------------------------------------------
(* Reading the file, and writing it.                                       *)

LEMMA MissingType == Missing \in Recs
BY DEF Missing, Recs

\* A log without a torn record is read to its end.
LEMMA ReadWhole ==
  ASSUME NEW log \in Seq(Entries)
  PROVE  Readable(log) = log
<1>1. \A i \in DOMAIN log : log[i] \in Entries
  OBVIOUS
<1> QED
  BY <1>1, DBAssumption DEF Readable

\* A log that ends in a torn record is read up to it.
LEMMA ReadTorn ==
  ASSUME NEW log \in Seq(Entries)
  PROVE  Readable(log \o <<Torn>>) = log
<1> DEFINE torn == log \o <<Torn>>
           bad == {i \in DOMAIN torn : torn[i] = Torn}
<1>1. /\ Len(log) \in Nat /\ DOMAIN torn = 1 .. Len(log) + 1 /\ torn[Len(log) + 1] = Torn
      /\ torn \in Seq(Entries \cup {Torn})
  OBVIOUS
<1>2. \A i \in 1 .. Len(log) : torn[i] = log[i] /\ log[i] \in Entries
  OBVIOUS
<1>3. bad = {Len(log) + 1}
  <2>1. \A i \in 1 .. Len(log) : torn[i] # Torn
    BY <1>2, DBAssumption
  <2>2. \A i \in 1 .. Len(log) + 1 : i \in 1 .. Len(log) \/ i = Len(log) + 1
    BY <1>1
  <2>3. Len(log) + 1 \in 1 .. Len(log) + 1
    BY <1>1
  <2> HIDE DEF torn
  <2> QED
    BY <1>1, <2>1, <2>2, <2>3
<1>4. (CHOOSE i \in bad : \A j \in bad : i <= j) = Len(log) + 1
  <2> HIDE DEF bad
  <2>1. \A i \in bad : i = Len(log) + 1
    BY <1>3
  <2>2. \E i \in bad : \A j \in bad : i <= j
    BY <1>1, <1>3
  <2> QED
    BY <2>1, <2>2
<1>5. Readable(torn) = SubSeq(torn, 1, (Len(log) + 1) - 1)
  <2> HIDE DEF torn
  <2> QED
    BY <1>3, <1>4 DEF Readable
<1>6. SubSeq(torn, 1, Len(log)) = log
  <2> DEFINE cut == SubSeq(torn, 1, Len(log))
  <2>1. cut \in Seq(Entries \cup {Torn}) /\ Len(cut) = Len(log)
    BY <1>1
  <2>2. \A i \in 1 .. Len(log) : cut[i] = log[i]
    BY <1>1, <1>2
  <2>3. log \in Seq(Entries \cup {Torn})
    OBVIOUS
  <2> HIDE DEF cut
  <2>4. cut = log
    BY <2>1, <2>2, <2>3, SeqEqual
  <2> QED
    BY <2>4 DEF cut
<1> QED
  BY <1>1, <1>5, <1>6

\* Whatever a file holds, what can be read of it are whole records.
LEMMA ReadableType ==
  ASSUME NEW log \in Seq(Entries \cup {Torn})
  PROVE  Readable(log) \in Seq(Entries) /\ Contents(log) \in Recs
<1> DEFINE bad == {i \in DOMAIN log : log[i] = Torn}
           first == CHOOSE i \in bad : \A j \in bad : i <= j
<1>1. Readable(log) \in Seq(Entries)
  <2>0. Len(log) \in Nat /\ DOMAIN log = 1 .. Len(log)
    OBVIOUS
  <2>1. CASE bad = {}
    <3>1. \A i \in 1 .. Len(log) : log[i] \in Entries
      BY <2>0, <2>1
    <3>2. log \in Seq(Entries)
      BY <3>1, <2>0
    <3> QED
      BY <3>2, <2>1 DEF Readable
  <2>2. CASE bad # {}
    <3>1. bad \in SUBSET Nat /\ bad \subseteq 1 .. Len(log)
      BY <2>0
    <3>2. \E i \in bad : \A j \in bad : i <= j
      BY <3>1, <2>2, SmallestIndex
    <3>3. first \in bad /\ \A j \in bad : first <= j
      BY <3>2
    <3>4. Readable(log) = SubSeq(log, 1, first - 1)
      BY <2>2 DEF Readable
    <3> HIDE DEF first
    <3>5. first \in 1 .. Len(log)
      BY <3>1, <3>3
    <3>6. ASSUME NEW i \in 1 .. first - 1 PROVE log[i] \in Entries
      <4>1. i \in DOMAIN log /\ ~(first <= i)
        BY <3>5, <2>0
      <4>2. i \notin bad
        BY <4>1, <3>3
      <4> QED
        BY <4>1, <4>2
    <3>7. first - 1 \in Nat /\ first - 1 <= Len(log)
      BY <3>5, <2>0
    <3> DEFINE m == first - 1
    <3>8. m \in Nat /\ \A i \in 1 .. m : log[i] \in Entries
      BY <3>6, <3>7
    <3> HIDE DEF m
    <3>9. SubSeq(log, 1, m) \in Seq(Entries)
      BY <3>8, SubSeqProperties
    <3> QED
      BY <3>4, <3>9 DEF m
  <2> QED
    BY <2>1, <2>2
<1> QED
  BY <1>1, MissingType, ReplayType DEF Contents

\* compact writes every record once, in any order: reading the file gives the
\* records back.
LEMMA CompactLog ==
  ASSUME NEW recs \in Recs, NEW log \in LogsOf(recs)
  PROVE  /\ log \in Seq(Entries)
         /\ Len(log) = Cardinality(Present(recs)) /\ Cardinality(Present(recs)) \in Nat
         /\ Contents(log) = recs
<1> DEFINE P == Present(recs)
           n == Cardinality(P)
<1>1. IsFiniteSet(P) /\ n \in Nat
  <2>1. P \in SUBSET Keys
    BY DEF Present
  <2> QED
    BY <2>1, DBAssumption, FS_Subset, FS_CardinalityType
<1>2. PICK order \in [1 .. n -> P] :
         /\ \A i, j \in 1 .. n : i # j => order[i] # order[j]
         /\ log = [i \in DOMAIN order |-> [key |-> order[i], val |-> recs[order[i]]]]
  BY DEF LogsOf, SetToSeqs
<1>3. P \subseteq Keys /\ \A k \in Keys : recs[k] # NoVal <=> k \in P
  BY DEF Present
<1> HIDE DEF P, n
<1>4. \A k \in P : \E i \in 1 .. n : order[i] = k
  <2>1. order \in Injection(1 .. n, P)
    BY <1>2 DEF Injection, IsInjective
  <2>2. Cardinality(1 .. n) = n
    <3>1. Cardinality(1 .. n) = IF 1 > n THEN 0 ELSE n - 1 + 1
      BY <1>1, FS_Interval
    <3> QED
      BY <3>1, <1>1
  <2>3. order \in Surjection(1 .. n, P)
    BY <2>1, <2>2, <1>1, FS_Injection DEF n
  <2> QED
    BY <2>3 DEF Surjection
<1>5. /\ DOMAIN log = 1 .. n
      /\ \A i \in 1 .. n : log[i] = [key |-> order[i], val |-> recs[order[i]]]
  BY <1>2
<1>6. \A i \in 1 .. n : /\ order[i] \in P /\ log[i].key = order[i] /\ log[i].val = recs[order[i]]
                        /\ log[i] \in Entries
  BY <1>2, <1>3, <1>5 DEF Recs, Entries
<1>7. log \in Seq(Entries) /\ Len(log) = n
  <2>1. log \in [1 .. n -> Entries]
    BY <1>2, <1>5, <1>6
  <2> QED
    BY <2>1, <1>1
<1>8. ASSUME NEW k \in Keys PROVE Replay(Missing, log)[k] = recs[k]
  <2>1. CASE k \notin P
    <3>1. About(log, k) = {}
      BY <2>1, <1>5, <1>6 DEF About
    <3>2. Replay(Missing, log)[k] = Missing[k]
      BY <3>1, <1>7, MissingType, ReplayAt
    <3> QED
      BY <3>2, <2>1, <1>3 DEF Missing
  <2>2. CASE k \in P
    <3>1. PICK i \in 1 .. n : order[i] = k
      BY <2>2, <1>4
    <3>2. \A j \in About(log, k) : j = i
      BY <3>1, <1>2, <1>5, <1>6 DEF About
    <3>3. i \in About(log, k) /\ \A j \in About(log, k) : i >= j
      BY <3>1, <3>2, <1>1, <1>5, <1>6 DEF About
    <3>4. Replay(Missing, log)[k] = log[i].val
      BY <3>3, <1>7, MissingType, ReplayAt
    <3> QED
      BY <3>1, <3>4, <1>6
  <2> QED
    BY <2>1, <2>2
<1>9. Replay(Missing, log) = recs
  BY <1>7, <1>8, MissingType, ReplayType, SameRecs
<1> QED
  BY <1>1, <1>7, <1>9, ReadWhole DEF Contents, P, n

-----------------------------------------------------------------------------
(* Types.                                                                  *)

\* The constants' assumptions, one by one.
LEMMA DBConstants ==
  /\ CompactRatio \in Nat /\ CompactRatio >= 2
  /\ 0 \in Versions /\ IsFiniteSet(Keys) /\ NoVal \notin Vals /\ Torn \notin Entries
BY DBAssumption

\* What a write in the middle of a record leaves, as a log.
LEMMA PartialType ==
  ASSUME TypeOK, NEW n \in 0 .. Len(pending), NEW inside \in BOOLEAN
  PROVE  /\ SubSeq(pending, 1, n) \in Seq(Entries)
         /\ Len(SubSeq(pending, 1, n)) = n
         /\ Partial(n, inside) = fileLog \o SubSeq(pending, 1, n) \o (IF inside THEN <<Torn>> ELSE <<>>)
         /\ Partial(n, inside) \in Seq(Entries \cup {Torn})
<1>1. pending \in Seq(Entries) /\ fileLog \in Seq(Entries \cup {Torn})
  BY DEF TypeOK
<1>2. SubSeq(pending, 1, n) \in Seq(Entries) /\ Len(SubSeq(pending, 1, n)) = n
  BY <1>1
<1> DEFINE sub == SubSeq(pending, 1, n)
           end == IF inside THEN <<Torn>> ELSE <<>>
<1>3. sub \in Seq(Entries \cup {Torn})
  BY <1>1
<1>4. end \in Seq(Entries \cup {Torn})
  <2>1. <<Torn>> \in Seq(Entries \cup {Torn}) /\ <<>> \in Seq(Entries \cup {Torn})
    OBVIOUS
  <2> QED
    BY <2>1
<1>5. Partial(n, inside) = fileLog \o sub \o end
  BY DEF Partial
<1> HIDE DEF sub, end
<1>6. fileLog \o sub \o end \in Seq(Entries \cup {Torn})
  BY <1>1, <1>3, <1>4
<1> QED
  BY <1>2, <1>5, <1>6 DEF sub, end

\* compact keeps the types.
LEMMA compactTypes ==
  ASSUME NEW v \in Versions, NEW recs \in Recs, compact(v, recs)
  PROVE  /\ fileLog' \in Seq(Entries) /\ fileLog' \in Seq(Entries \cup {Torn})
         /\ fileVersion' \in Versions
         /\ uncompacted' \in Nat /\ pending' = <<>> /\ pending' \in Seq(Entries)
         /\ Len(fileLog') = uncompacted' /\ uncompacted' = Cardinality(Present(recs))
         /\ Contents(fileLog') = recs
<1>1. /\ fileLog' \in LogsOf(recs) /\ fileVersion' = v /\ pending' = <<>>
      /\ uncompacted' = Cardinality(Present(recs))
  BY DEF compact
<1>2. /\ fileLog' \in Seq(Entries) /\ Len(fileLog') = Cardinality(Present(recs))
      /\ Cardinality(Present(recs)) \in Nat /\ Contents(fileLog') = recs
  BY <1>1, CompactLog
<1>3. fileLog' \in Seq(Entries \cup {Torn})
  BY <1>2
<1> QED
  BY <1>1, <1>2, <1>3

LEMMA FlushTypes ==
  ASSUME TypeOK, Flush
  PROVE  TypeOK'
<1> USE DEF Recs
<1>1. CASE FlushCompacts
  BY <1>1, compactTypes DEF FlushCompacts, TypeOK
<1>2. CASE FlushAppends
  <2>1. fileLog \o pending \in Seq(Entries \cup {Torn})
    BY DEF TypeOK
  <2> QED
    BY <1>2, <2>1 DEF FlushAppends, TypeOK
<1>3. CASE FlushFails
  BY <1>3 DEF FlushFails, TypeOK, memVars, fileVars
<1>4. CASE FlushShort
  <2>1. PICK n \in 0 .. Len(pending) - 1, inside \in BOOLEAN : fileLog' = Partial(n, inside)
    BY <1>4 DEF FlushShort
  <2>2. n \in 0 .. Len(pending)
    BY DEF TypeOK
  <2>3. fileLog' \in Seq(Entries \cup {Torn})
    BY <2>1, <2>2, PartialType
  <2> QED
    BY <1>4, <2>3 DEF FlushShort, TypeOK, memVars
<1> QED
  BY <1>1, <1>2, <1>3, <1>4 DEF Flush

LEMMA TypeStep ==
  ASSUME TypeOK, [Next]_vars
  PROVE  TypeOK'
<1> USE DEF Recs
<1>1. CASE Open
  <2>1. Contents(fileLog) \in Recs
    BY ReadableType DEF TypeOK
  <2> QED
    BY <1>1, <2>1, compactTypes DEF Open, TypeOK
<1>2. ASSUME NEW k \in Keys, NEW v \in Vals, Save(k, v) PROVE TypeOK'
  <2>1. [key |-> k, val |-> v] \in Entries
    BY DEF Entries
  <2> QED
    BY <1>2, <2>1 DEF Save, serialize, TypeOK, fileVars
<1>3. ASSUME NEW k \in Keys, Delete(k) PROVE TypeOK'
  <2>1. [key |-> k, val |-> NoVal] \in Entries
    BY DEF Entries
  <2> QED
    BY <1>3, <2>1 DEF Delete, serialize, TypeOK, fileVars
<1>4. CASE Flush
  BY <1>4, FlushTypes
<1>5. ASSUME NEW v \in Versions, BumpVersion(v) PROVE TypeOK'
  <2>1. CASE Flush
    BY <2>1, FlushTypes
  <2>2. CASE Version' = v /\ compact(v, Records) /\ result' = "ok" /\ UNCHANGED <<up, Records>>
    BY <2>2, compactTypes DEF TypeOK
  <2>3. CASE /\ Version' = v /\ result' = "error" /\ UNCHANGED <<uncompacted, pending, fileVars>>
             /\ UNCHANGED <<up, Records>>
    BY <2>3 DEF TypeOK, fileVars
  <2> QED
    BY <1>5, <2>1, <2>2, <2>3 DEF BumpVersion
<1>6. ASSUME Dead, fileLog' \in Seq(Entries \cup {Torn}) PROVE TypeOK'
  <2>1. <<>> \in Seq(Entries) /\ Missing \in [Keys -> Vals \cup {NoVal}]
    BY MissingType
  <2> QED
    BY <1>6, <2>1, DBConstants DEF Dead, TypeOK
<1>7. CASE Crash
  BY <1>7, <1>6 DEF Crash, TypeOK
<1>8. CASE CrashInFlush
  <2>1. PICK n \in 0 .. Len(pending), inside \in BOOLEAN : fileLog' = Partial(n, inside)
    BY <1>8 DEF CrashInFlush
  <2> QED
    BY <1>6, <1>8, <2>1, PartialType DEF CrashInFlush
<1>9. CASE UNCHANGED vars
  BY <1>9 DEF vars, TypeOK
<1> QED
  BY <1>1, <1>2, <1>3, <1>4, <1>5, <1>7, <1>8, <1>9 DEF Next

LEMMA InitTypes == Init => TypeOK
<1>1. Missing \in [Keys -> Vals \cup {NoVal}]
  BY MissingType DEF Recs
<1>2. <<>> \in Seq(Entries) /\ <<>> \in Seq(Entries \cup {Torn})
  OBVIOUS
<1>3. 0 \in Versions
  BY DBConstants
<1>4. ASSUME Init PROVE TypeOK
  <2>1. /\ up = FALSE /\ Version = 0 /\ Records = Missing /\ uncompacted = 0 /\ pending = <<>>
        /\ fileVersion = 0 /\ fileLog = <<>> /\ result = "ok"
    BY <1>4 DEF Init
  <2> QED
    BY <1>1, <1>2, <1>3, <2>1 DEF TypeOK
<1> QED
  BY <1>4

\* The state of the database and of its file has its type, whatever fails.
THEOREM DatabaseTypes == Spec => []TypeOK
<1>1. TypeOK /\ [Next]_vars => TypeOK'
  BY TypeStep
<1> QED
  BY <1>1, InitTypes, PTL DEF Spec

-----------------------------------------------------------------------------
(* Memory and file agree.                                                  *)

\* A compacted file is small enough.
LEMMA CompactedIsBounded ==
  ASSUME NEW n \in Nat
  PROVE  (n \div CompactRatio) * (CompactRatio - 1) <= n
<1> DEFINE q == n \div CompactRatio
<1>1. CompactRatio \in Nat /\ CompactRatio >= 2
  BY DBConstants
<1>2. q \in Nat /\ q * CompactRatio <= n
  BY <1>1
<1> HIDE DEF q
<1>3. q * (CompactRatio - 1) = q * CompactRatio - q
  BY <1>1, <1>2
<1>4. q * CompactRatio \in Nat
  BY <1>1, <1>2
<1>5. q * (CompactRatio - 1) <= n
  BY <1>2, <1>3, <1>4
<1> QED
  BY <1>5 DEF q

\* What an open database's file holds, and holds after more records are written.
LEMMA OpenFile ==
  ASSUME DBInv, up
  PROVE  /\ fileLog \in Seq(Entries) /\ pending \in Seq(Entries) /\ Records \in Recs
         /\ Contents(fileLog) \in Recs /\ Records = Replay(Contents(fileLog), pending)
         /\ \A more \in Seq(Entries) :
              /\ Contents(fileLog \o more) = Replay(Contents(fileLog), more)
              /\ Contents(fileLog \o more \o <<Torn>>) = Replay(Contents(fileLog), more)
<1>1. /\ fileLog \in Seq(Entries) /\ pending \in Seq(Entries) /\ Records \in Recs
      /\ fileLog \in Seq(Entries \cup {Torn}) /\ Records = Replay(Contents(fileLog), pending)
  BY DEF DBInv, CountExact, TypeOK, Recs
<1>2. Contents(fileLog) \in Recs /\ Contents(fileLog) = Replay(Missing, fileLog)
  BY <1>1, ReadableType, ReadWhole DEF Contents
<1>3. ASSUME NEW more \in Seq(Entries)
      PROVE  /\ Contents(fileLog \o more) = Replay(Contents(fileLog), more)
             /\ Contents(fileLog \o more \o <<Torn>>) = Replay(Contents(fileLog), more)
  <2> DEFINE all == fileLog \o more
  <2>1. all \in Seq(Entries)
    BY <1>1
  <2>2. Replay(Missing, all) = Replay(Contents(fileLog), more)
    BY <1>1, <1>2, MissingType, ReplayJoined
  <2> HIDE DEF all
  <2>3. Readable(all) = all /\ Readable(all \o <<Torn>>) = all
    BY <2>1, ReadWhole, ReadTorn
  <2>4. Contents(all) = Replay(Missing, all) /\ Contents(all \o <<Torn>>) = Replay(Missing, all)
    BY <2>3 DEF Contents
  <2> QED
    BY <2>2, <2>4 DEF all
<1> QED
  BY <1>1, <1>2, <1>3

\* compact establishes the invariant.
LEMMA compactInv ==
  ASSUME NEW v \in Versions, compact(v, Records'), TypeOK'
  PROVE  DBInv'
<1>1. Records' \in Recs
  BY DEF TypeOK, Recs
<1>2. /\ fileLog' \in Seq(Entries) /\ pending' = <<>> /\ uncompacted' \in Nat
      /\ Len(fileLog') = uncompacted' /\ uncompacted' = Cardinality(Present(Records'))
      /\ Contents(fileLog') = Records'
  BY <1>1, compactTypes
<1>3. CountExact'
  <2>1. Len(pending') = 0
    BY <1>2
  <2> QED
    BY <1>2, <2>1 DEF CountExact
<1>4. FileBounded'
  BY <1>2, CompactedIsBounded DEF FileBounded
<1>5. Replay(Contents(fileLog'), pending') = Records'
  BY <1>1, <1>2, ReplayNothing
<1> QED
  BY <1>2, <1>3, <1>4, <1>5 DEF DBInv

\* Save and Delete: one record more.
LEMMA UpdateInv ==
  ASSUME DBInv, TypeOK', up, NEW k \in Keys, NEW v \in Vals \cup {NoVal},
         Records' = [Records EXCEPT ![k] = v], serialize(k, v),
         uncompacted' = uncompacted + 1, UNCHANGED <<up, fileVars>>
  PROVE  DBInv' /\ Records' = Replay(Contents(fileLog), pending')
<1> DEFINE e == [key |-> k, val |-> v]
<1>1. e \in Entries /\ e.key = k /\ e.val = v
  BY DEF Entries
<1>2. pending' = Append(pending, e)
  BY DEF serialize
<1> HIDE DEF e
<1>3. /\ fileLog \in Seq(Entries) /\ pending \in Seq(Entries) /\ Records \in Recs
      /\ Contents(fileLog) \in Recs /\ Records = Replay(Contents(fileLog), pending)
  BY OpenFile
<1>4. Records' = Apply(Records, e)
  BY <1>1 DEF Apply
<1>5. Records' = Replay(Contents(fileLog), pending')
  BY <1>1, <1>2, <1>3, <1>4, ReplayOne
<1>6. Len(pending') = Len(pending) + 1 /\ pending' # <<>> /\ Len(pending) \in Nat /\ Len(fileLog) \in Nat
  BY <1>1, <1>2, <1>3
<1>7. CountExact'
  BY <1>6 DEF DBInv, CountExact, fileVars
<1>8. FileBounded'
  BY <1>6 DEF FileBounded
<1>9. fileLog' = fileLog /\ up' = up
  BY DEF fileVars
<1> QED
  BY <1>3, <1>5, <1>7, <1>8, <1>9 DEF DBInv

LEMMA FlushInv ==
  ASSUME ~ShortWrites, DBInv, Flush
  PROVE  DBInv'
<1>0. TypeOK /\ TypeOK' /\ up
  BY FlushTypes DEF DBInv, CountExact, Flush
<1>1. CASE FlushCompacts
  BY <1>0, <1>1, compactInv DEF FlushCompacts, TypeOK
<1>2. CASE FlushAppends
  <2>1. /\ fileLog' = fileLog \o pending /\ pending' = <<>> /\ up' = up /\ Records' = Records
        /\ uncompacted' = uncompacted /\ ~NeedsCompaction
    BY <1>2 DEF FlushAppends
  <2>2. fileLog \in Seq(Entries) /\ pending \in Seq(Entries) /\ Records \in Recs
    BY <1>0, OpenFile
  <2>3. /\ fileLog' \in Seq(Entries) /\ Len(fileLog') = Len(fileLog) + Len(pending)
        /\ Len(fileLog) \in Nat /\ Len(pending) \in Nat /\ Len(pending') = 0
    BY <2>1, <2>2
  <2>4. Len(fileLog') = uncompacted
    BY <1>0, <2>3 DEF DBInv, CountExact
  <2>5. CountExact'
    BY <1>0, <2>1, <2>3, <2>4 DEF CountExact
  <2>6. FileBounded'
    <3>1. Cardinality(Present(Records)) \in Nat
      <4>1. Present(Records) \in SUBSET Keys
        BY DEF Present
      <4> QED
        BY <4>1, DBConstants, FS_Subset, FS_CardinalityType
    <3>2. uncompacted \in Nat /\ CompactRatio \in Nat /\ CompactRatio >= 2
      BY <1>0, DBConstants DEF TypeOK
    <3>3. uncompacted \div CompactRatio \in Nat
      BY <3>2
    <3>4. (uncompacted \div CompactRatio) * (CompactRatio - 1) \in Int
      BY <3>2, <3>3
    <3>5. (uncompacted \div CompactRatio) * (CompactRatio - 1) <= Cardinality(Present(Records))
      BY <2>1, <3>1, <3>4 DEF NeedsCompaction
    <3> QED
      BY <2>1, <2>4, <3>5 DEF FileBounded
  <2>7. Records' = Replay(Contents(fileLog'), pending')
    BY <1>0, <2>1, <2>2, OpenFile, ReplayNothing
  <2> QED
    BY <1>0, <2>1, <2>3, <2>5, <2>6, <2>7 DEF DBInv
<1>3. CASE FlushFails
  BY <1>0, <1>3 DEF FlushFails, memVars, fileVars, DBInv, CountExact, FileBounded
<1> QED
  BY <1>1, <1>2, <1>3 DEF Flush, FlushShort

LEMMA NextInv ==
  ASSUME ~ShortWrites, DBInv, [Next]_vars
  PROVE  DBInv'
<1>0. TypeOK /\ TypeOK'
  BY TypeStep DEF DBInv, CountExact
<1>1. CASE Open
  BY <1>0, <1>1, compactInv DEF Open, TypeOK
<1>2. ASSUME NEW k \in Keys, NEW v \in Vals, Save(k, v) PROVE DBInv'
  BY <1>0, <1>2, UpdateInv DEF Save
<1>3. ASSUME NEW k \in Keys, Delete(k) PROVE DBInv'
  BY <1>0, <1>3, UpdateInv DEF Delete
<1>4. CASE Flush
  BY <1>4, FlushInv
<1>5. ASSUME NEW v \in Versions, BumpVersion(v) PROVE DBInv'
  <2>1. CASE Flush
    BY <2>1, FlushInv
  <2>2. CASE compact(v, Records) /\ UNCHANGED <<up, Records>>
    BY <1>0, <2>2, compactInv
  <2>3. CASE UNCHANGED <<uncompacted, pending, fileVars>> /\ UNCHANGED <<up, Records>>
    BY <1>0, <2>3 DEF fileVars, DBInv, CountExact, FileBounded
  <2> QED
    BY <1>5, <2>1, <2>2, <2>3 DEF BumpVersion
<1>6. ASSUME Dead PROVE DBInv'
  BY <1>0, <1>6 DEF Dead, DBInv, CountExact, FileBounded
<1>7. CASE Crash \/ CrashInFlush
  BY <1>6, <1>7 DEF Crash, CrashInFlush
<1>8. CASE UNCHANGED vars
  BY <1>0, <1>8 DEF vars, DBInv, CountExact, FileBounded
<1> QED
  BY <1>1, <1>2, <1>3, <1>4, <1>5, <1>7, <1>8 DEF Next

LEMMA InitInv == Init => DBInv
BY InitTypes DEF Init, DBInv, CountExact, FileBounded

\* As long as no write fails in the middle, DBInv holds in every reachable state.
THEOREM DatabaseIsSound ==
  ASSUME ~ShortWrites
  PROVE  Spec => []DBInv
<1>1. DBInv /\ [Next]_vars => DBInv'
  BY NextInv
<1> QED
  BY <1>1, InitInv, PTL DEF Spec

\* db.uncompacted counts exactly the records of the file and the pending ones,
\* so that Flush's decision about compaction is about the file there really is.
THEOREM CountIsExact ==
  ASSUME ~ShortWrites
  PROVE  Spec => []CountExact
<1>1. DBInv => CountExact
  BY DEF DBInv
<1> QED
  BY <1>1, DatabaseIsSound, PTL

\* Flush keeps the file from growing beyond what the compaction ratio allows.
THEOREM FileIsBounded ==
  ASSUME ~ShortWrites
  PROVE  Spec => []FileBounded
<1>1. DBInv => FileBounded
  BY DEF DBInv
<1> QED
  BY <1>1, DatabaseIsSound, PTL

\* With nothing pending, opening the file would give the records in memory, as
\* the package comment promises.
THEOREM RecordsAreMirrored ==
  ASSUME ~ShortWrites
  PROVE  Spec => []RecordsMirrored
<1>1. DBInv => RecordsMirrored
  <2> SUFFICES ASSUME DBInv, up, pending = <<>> PROVE Contents(fileLog) = Records
    BY DEF RecordsMirrored
  <2> QED
    BY OpenFile, ReplayNothing
<1> QED
  BY <1>1, DatabaseIsSound, PTL

-----------------------------------------------------------------------------
(* The database implements KVStore.                                        *)

\* The moments of an open database: the file's contents first, the contents
\* after each pending record, the records in memory last.
LEMMA MomentsAre ==
  ASSUME DBInv
  PROVE  /\ Len(pending) \in Nat /\ DOMAIN Moments = 1 .. Len(pending) + 1
         /\ Moments \in Seq(Recs) /\ Len(Moments) = Len(pending) + 1
         /\ \A n \in 0 .. Len(pending) :
              Moments[n + 1] = Replay(Contents(fileLog), SubSeq(pending, 1, n))
<1>1. pending \in Seq(Entries) /\ Len(pending) \in Nat /\ Contents(fileLog) \in Recs
  BY ReadableType DEF DBInv, CountExact, TypeOK
<1>2. \A n \in 0 .. Len(pending) : SubSeq(pending, 1, n) \in Seq(Entries)
  BY <1>1
<1>3. \A i \in 1 .. Len(pending) + 1 : i - 1 \in 0 .. Len(pending)
  BY <1>1
<1>4. \A i \in 1 .. Len(pending) + 1 : Replay(Contents(fileLog), SubSeq(pending, 1, i - 1)) \in Recs
  BY <1>1, <1>2, <1>3, ReplayType
<1>5. Moments \in [1 .. Len(pending) + 1 -> Recs]
  BY <1>4 DEF Moments
<1>6. Len(pending) + 1 \in Nat
  BY <1>1
<1>7. Moments \in Seq(Recs) /\ Len(Moments) = Len(pending) + 1
  BY <1>5, <1>6
<1>8. ASSUME NEW n \in 0 .. Len(pending)
      PROVE  Moments[n + 1] = Replay(Contents(fileLog), SubSeq(pending, 1, n))
  <2>1. n + 1 \in 1 .. Len(pending) + 1 /\ (n + 1) - 1 = n
    BY <1>1
  <2> QED
    BY <2>1 DEF Moments
<1> QED
  BY <1>1, <1>5, <1>7, <1>8

\* With nothing pending there is one moment: what the file holds.
LEMMA OneMoment ==
  ASSUME NEW c \in Recs
  PROVE  [i \in 1 .. Len(<<>>) + 1 |-> Replay(c, SubSeq(<<>>, 1, i - 1))] = <<c>>
<1>1. 1 .. Len(<<>>) + 1 = {1}
  OBVIOUS
<1>2. SubSeq(<<>>, 1, 1 - 1) = <<>>
  OBVIOUS
<1>3. Replay(c, SubSeq(<<>>, 1, 1 - 1)) = c
  BY <1>2, ReplayNothing
<1>4. [i \in {1} |-> Replay(c, SubSeq(<<>>, 1, i - 1))] = <<c>>
  BY <1>3
<1> QED
  BY <1>1, <1>4

\* The moments after a flush, a compaction or a crash.
LEMMA EmptyMoments ==
  ASSUME pending' = <<>>, Contents(fileLog') \in Recs
  PROVE  Moments' = <<Contents(fileLog')>>
BY OneMoment DEF Moments

\* Save and Delete add a moment.
LEMMA UpdateMoments ==
  ASSUME DBInv, TypeOK', up, NEW k \in Keys, NEW v \in Vals \cup {NoVal},
         Records' = [Records EXCEPT ![k] = v], serialize(k, v),
         uncompacted' = uncompacted + 1, UNCHANGED <<up, fileVars>>
  PROVE  Moments' = Append(Moments, Records')
<1>1. DBInv' /\ Records' = Replay(Contents(fileLog), pending')
  BY UpdateInv
<1> DEFINE e == [key |-> k, val |-> v]
<1>2. e \in Entries /\ pending' = Append(pending, e) /\ pending \in Seq(Entries) /\ fileLog' = fileLog
  BY DEF serialize, Entries, DBInv, CountExact, TypeOK, fileVars
<1> HIDE DEF e
<1>3. /\ Len(pending) \in Nat /\ Len(pending') = Len(pending) + 1
      /\ pending' \in Seq(Entries)
  BY <1>2
<1>4. \A n \in 0 .. Len(pending) : SubSeq(pending', 1, n) = SubSeq(pending, 1, n)
  <2> SUFFICES ASSUME NEW n \in 0 .. Len(pending)
               PROVE  SubSeq(pending', 1, n) = SubSeq(pending, 1, n)
    OBVIOUS
  <2> DEFINE a == SubSeq(pending', 1, n)
             b == SubSeq(pending, 1, n)
  <2>1. n \in Nat /\ n <= Len(pending) /\ n <= Len(pending')
    BY <1>3
  <2>2. \A i \in 1 .. n : pending'[i] = pending[i]
    BY <1>2, <2>1
  <2>3. a \in Seq(Entries) /\ Len(a) = n /\ \A i \in 1 .. n : a[i] = pending'[i]
    BY <1>3, <2>1
  <2>4. b \in Seq(Entries) /\ Len(b) = n /\ \A i \in 1 .. n : b[i] = pending[i]
    BY <1>2, <2>1
  <2> HIDE DEF a, b
  <2>5. a = b
    BY <2>2, <2>3, <2>4, SeqEqual
  <2> QED
    BY <2>5 DEF a, b
<1>5. SubSeq(pending', 1, Len(pending')) = pending'
  BY <1>3
<1> DEFINE old == Moments
           new == Moments'
           last == Records'
<1>6. /\ old \in Seq(Recs) /\ Len(old) = Len(pending) + 1
      /\ \A n \in 0 .. Len(pending) : old[n + 1] = Replay(Contents(fileLog), SubSeq(pending, 1, n))
  BY MomentsAre
<1>7. new = [i \in 1 .. Len(pending') + 1 |-> Replay(Contents(fileLog), SubSeq(pending', 1, i - 1))]
  BY <1>2 DEF Moments
<1>8. last \in Recs
  BY DEF TypeOK, Recs
<1> HIDE DEF old, new, last
<1>9. Append(old, last) = [i \in 1 .. Len(pending) + 2 |-> IF i = Len(pending) + 2 THEN last ELSE old[i]]
  <2> DEFINE app == Append(old, last)
  <2>1. /\ app \in Seq(Recs) /\ Len(app) = Len(old) + 1
        /\ app[Len(old) + 1] = last /\ \A i \in 1 .. Len(old) : app[i] = old[i]
    BY <1>6, <1>8
  <2> HIDE DEF app
  <2>2. app = [i \in 1 .. Len(app) |-> app[i]]
    BY <2>1
  <2>3. Len(app) = Len(pending) + 2 /\ Len(old) + 1 = Len(pending) + 2
    BY <2>1, <1>3, <1>6
  <2>4. \A i \in 1 .. Len(app) : app[i] = IF i = Len(pending) + 2 THEN last ELSE old[i]
    <3>1. \A i \in 1 .. Len(app) : i = Len(pending) + 2 \/ i \in 1 .. Len(old)
      BY <2>3, <1>3, <1>6
    <3> QED
      BY <3>1, <2>1, <2>3
  <2> QED
    BY <2>2, <2>3, <2>4 DEF app
<1>10. ASSUME NEW i \in 1 .. Len(pending) + 2
       PROVE  Replay(Contents(fileLog), SubSeq(pending', 1, i - 1))
                = IF i = Len(pending) + 2 THEN last ELSE old[i]
  <2>1. CASE i = Len(pending) + 2
    <3>1. i - 1 = Len(pending')
      BY <2>1, <1>3
    <3> QED
      BY <3>1, <2>1, <1>1, <1>5 DEF last
  <2>2. CASE i # Len(pending) + 2
    <3>1. i - 1 \in 0 .. Len(pending) /\ (i - 1) + 1 = i
      BY <2>2, <1>3
    <3>2. old[i] = Replay(Contents(fileLog), SubSeq(pending, 1, i - 1))
      BY <3>1, <1>6
    <3>3. SubSeq(pending', 1, i - 1) = SubSeq(pending, 1, i - 1)
      BY <3>1, <1>4
    <3> QED
      BY <2>2, <3>2, <3>3
  <2> QED
    BY <2>1, <2>2
<1>11. Len(pending') + 1 = Len(pending) + 2
  BY <1>3
<1>12. new = Append(old, last)
  BY <1>7, <1>9, <1>10, <1>11
<1> QED
  BY <1>12 DEF old, new, last

\* A write that makes everything durable leaves one moment.
LEMMA SyncStep ==
  ASSUME up, up' = up, Records' = Records, Records \in Recs, pending' = <<>>,
         Contents(fileLog') = Records
  PROVE  Store!KVSync
<1>1. Moments' = <<Records>>
  BY EmptyMoments
<1> QED
  BY <1>1 DEF Store!KVSync

\* A crash leaves one of the moments there were.
LEMMA CrashStep ==
  ASSUME DBInv, up, Dead, NEW n \in 0 .. Len(pending),
         Contents(fileLog') = Replay(Contents(fileLog), SubSeq(pending, 1, n))
  PROVE  Store!KVCrash
<1>1. Len(pending) \in Nat /\ Len(Moments) = Len(pending) + 1 /\ Moments \in Seq(Recs)
  BY MomentsAre
<1>2. n + 1 \in 1 .. Len(Moments)
  BY <1>1
<1>3. Contents(fileLog') = Moments[n + 1]
  BY MomentsAre
<1>4. Contents(fileLog') \in Recs
  BY <1>1, <1>2, <1>3
<1>5. Moments' = <<Contents(fileLog')>>
  BY <1>4, EmptyMoments DEF Dead
<1>6. ~up'
  BY DEF Dead
<1> QED
  BY <1>2, <1>3, <1>5, <1>6 DEF Store!KVCrash, Dead

LEMMA FlushStep ==
  ASSUME ~ShortWrites, DBInv, Flush
  PROVE  Store!KVNext \/ UNCHANGED Store!kvVars
<1>0. up /\ Version \in Versions /\ Records \in Recs /\ DBInv'
  BY FlushInv DEF Flush, DBInv, CountExact, TypeOK, Recs
<1>1. CASE FlushCompacts
  <2>1. Contents(fileLog') = Records /\ pending' = <<>>
    BY <1>0, <1>1, compactTypes DEF FlushCompacts
  <2>2. Store!KVSync
    BY <1>0, <1>1, <2>1, SyncStep DEF FlushCompacts
  <2> QED
    BY <2>2 DEF Store!KVNext
<1>2. CASE FlushAppends
  <2>1. Contents(fileLog') = Records /\ pending' = <<>>
    BY <1>0, <1>2, OpenFile DEF FlushAppends
  <2>2. Store!KVSync
    BY <1>0, <1>2, <2>1, SyncStep DEF FlushAppends
  <2> QED
    BY <2>2 DEF Store!KVNext
<1>3. CASE FlushFails
  BY <1>3 DEF FlushFails, memVars, fileVars, Store!kvVars, Moments
<1> QED
  BY <1>1, <1>2, <1>3 DEF Flush, FlushShort

LEMMA StoreStep ==
  ASSUME ~ShortWrites, DBInv, [Next]_vars
  PROVE  Store!KVNext \/ UNCHANGED Store!kvVars
<1>0. TypeOK /\ TypeOK' /\ DBInv'
  BY NextInv, TypeStep DEF DBInv, CountExact
<1>1. CASE Open
  <2>1. Contents(fileLog) \in Recs /\ fileVersion \in Versions /\ pending = <<>> /\ ~up /\ up'
    BY <1>0, <1>1, ReadableType DEF Open, TypeOK, DBInv
  <2>2. Contents(fileLog') = Contents(fileLog) /\ pending' = <<>> /\ Records' = Contents(fileLog)
    BY <1>1, <2>1, compactTypes DEF Open
  <2>3. Moments' = Moments
    BY <2>1, <2>2 DEF Moments
  <2>4. Store!KVRecover
    BY <2>1, <2>2, <2>3 DEF Store!KVRecover
  <2> QED
    BY <2>4 DEF Store!KVNext
<1>2. ASSUME NEW k \in Keys, NEW v \in Vals, Save(k, v) PROVE Store!KVNext
  <2>1. Moments' = Append(Moments, Records')
    BY <1>0, <1>2, UpdateMoments DEF Save
  <2>2. Store!KVUpdate(k, v)
    BY <1>2, <2>1 DEF Save, Store!KVUpdate
  <2> QED
    BY <2>2 DEF Store!KVNext
<1>3. ASSUME NEW k \in Keys, Delete(k) PROVE Store!KVNext
  <2>1. Moments' = Append(Moments, Records')
    BY <1>0, <1>3, UpdateMoments DEF Delete
  <2>2. Store!KVUpdate(k, NoVal)
    BY <1>3, <2>1 DEF Delete, Store!KVUpdate
  <2> QED
    BY <2>2 DEF Store!KVNext
<1>4. CASE Flush
  BY <1>4, FlushStep
<1>5. ASSUME NEW v \in Versions, BumpVersion(v)
      PROVE  Store!KVNext \/ UNCHANGED Store!kvVars
  <2>0. up /\ Records \in Recs
    BY <1>0, <1>5 DEF BumpVersion, TypeOK, Recs
  <2>1. CASE Flush
    BY <2>1, FlushStep
  <2>2. CASE compact(v, Records) /\ UNCHANGED <<up, Records>>
    <3>1. Contents(fileLog') = Records /\ pending' = <<>>
      BY <2>0, <2>2, compactTypes
    <3>2. Store!KVSync
      BY <2>0, <2>2, <3>1, SyncStep
    <3> QED
      BY <3>2 DEF Store!KVNext
  <2>3. CASE UNCHANGED <<uncompacted, pending, fileVars>> /\ UNCHANGED <<up, Records>>
    BY <2>3 DEF fileVars, Store!kvVars, Moments
  <2> QED
    BY <1>5, <2>1, <2>2, <2>3 DEF BumpVersion
<1>6. CASE Crash
  <2>1. up /\ Dead /\ fileLog' = fileLog /\ Len(pending) \in Nat /\ 0 \in 0 .. Len(pending)
    BY <1>6, MomentsAre DEF Crash
  <2>2. SubSeq(pending, 1, 0) = <<>>
    BY <1>0 DEF TypeOK
  <2>3. Contents(fileLog') = Replay(Contents(fileLog), SubSeq(pending, 1, 0))
    BY <2>1, <2>2, OpenFile, ReplayNothing
  <2>4. Store!KVCrash
    BY <2>1, <2>3, CrashStep
  <2> QED
    BY <2>4 DEF Store!KVNext
<1>7. CASE CrashInFlush
  <2>1. PICK n \in 0 .. Len(pending), inside \in BOOLEAN : fileLog' = Partial(n, inside)
    BY <1>7 DEF CrashInFlush
  <2>2. up /\ Dead
    BY <1>7 DEF CrashInFlush
  <2> DEFINE part == SubSeq(pending, 1, n)
  <2>3. part \in Seq(Entries) /\ fileLog' = fileLog \o part \o (IF inside THEN <<Torn>> ELSE <<>>)
    BY <1>0, <2>1, PartialType
  <2> HIDE DEF part
  <2>4. Contents(fileLog') = Replay(Contents(fileLog), part)
    <3>1. CASE inside
      BY <3>1, <2>2, <2>3, OpenFile
    <3>2. CASE ~inside
      <4> DEFINE all == fileLog \o part
      <4>1. all \in Seq(Entries)
        BY <2>2, <2>3, OpenFile
      <4>2. Contents(all) = Replay(Contents(fileLog), part)
        BY <2>2, <2>3, OpenFile
      <4>3. fileLog' = all \o <<>>
        BY <3>2, <2>3
      <4> HIDE DEF all
      <4>4. all \o <<>> = all
        BY <4>1
      <4> QED
        BY <4>2, <4>3, <4>4
    <3> QED
      BY <3>1, <3>2
  <2>5. Store!KVCrash
    BY <2>2, <2>4, CrashStep DEF part
  <2> QED
    BY <2>5 DEF Store!KVNext
<1>8. CASE UNCHANGED vars
  BY <1>8 DEF vars, Store!kvVars, Moments
<1> QED
  BY <1>1, <1>2, <1>3, <1>4, <1>5, <1>6, <1>7, <1>8 DEF Next

LEMMA StoreStarts == Init => Store!KVInit
<1> SUFFICES ASSUME Init PROVE Store!KVInit
  OBVIOUS
<1>1. ~up /\ up = FALSE /\ pending = <<>> /\ fileLog = <<>>
  BY DEF Init
<1>2. Contents(fileLog) = Missing
  <2>1. <<>> \in Seq(Entries)
    OBVIOUS
  <2> QED
    BY <1>1, <2>1, ReadWhole, MissingType, ReplayNothing DEF Contents
<1>3. Moments = <<Missing>>
  BY <1>1, <1>2, MissingType, OneMoment DEF Moments
<1> QED
  BY <1>1, <1>2, <1>3 DEF Store!KVInit, Missing

\* The database is a KVStore: Flush and compact make every update durable, and
\* after a crash at any point, inside a write too, Open comes back with the
\* contents of the last flush or of a moment since: no update is lost that was
\* flushed, none is applied out of order.
THEOREM DatabaseImplementsStore ==
  ASSUME ~ShortWrites
  PROVE  Spec => ImplementsStore
<1>1. DBInv /\ [Next]_vars => [Store!KVNext]_(Store!kvVars)
  BY StoreStep
<1> QED
  BY <1>1, StoreStarts, DatabaseIsSound, PTL DEF Spec, ImplementsStore, Store!KVSpec
=============================================================================
