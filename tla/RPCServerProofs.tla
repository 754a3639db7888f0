-------------------------- MODULE RPCServerProofs ---------------------------
(***************************************************************************)
(* Proofs about the manager's corpus and corpus.db (module Manager) and    *)
(* about the RPC server on top of it (module RPCServer), for every set of  *)
(* programs, calls, signals and VMs, with and without a hub, with and      *)
(* without failing writes: the corpus is persisted and keeps its coverage, *)
(* the server drives the manager only through the manager's own steps,     *)
(* serv.corpusSignal is exactly the signal of mgr.corpus, and what is      *)
(* shared reaches every VM that is not rotated.                            *)
(***************************************************************************)
EXTENDS RPCServer, SignalProofs

USE DEF phaseInit, phaseLoadedCorpus, phaseTriagedCorpus, phaseQueriedHub,
        phaseTriagedHub

-----------------------------------------------------------------------------
(***************************************************************************)
(* The manager.                                                            *)
(***************************************************************************)

\* What MgrTypeOK says, in the pieces the leaves below need.
LEMMA FiniteProgs ==
  ASSUME NEW S \in SUBSET Progs
  PROVE  IsFiniteSet(S) /\ Cardinality(S) \in Nat
BY ProgsAssumption, FS_Subset, FS_CardinalityType

\* What a write leaves, whether it succeeds, fails or stops half way.
LEMMA WriteDBFacts ==
  ASSUME NEW recs, WriteDB(recs), MgrTypeOK, ~torn => records \ unwritten \subseteq disk
  PROVE  /\ records' = recs
         /\ torn' \in BOOLEAN /\ flushed' \in BOOLEAN
         /\ unwritten' \subseteq Unwritten(recs)
         /\ flushed' => unwritten' = {}
         /\ ~torn' => recs \ unwritten' \subseteq disk'
         /\ disk' \subseteq disk \cup recs \cup Unwritten(recs)
         /\ disk \ disk' \subseteq (disk \ recs) \cup Unwritten(recs)
<1>0. records' = recs /\ torn \in BOOLEAN /\ flushed \in BOOLEAN
  BY DEF WriteDB, MgrTypeOK
<1>1. CASE Compacts(recs)
  BY <1>0, <1>1 DEF Compacts
<1>2. CASE Appends(recs)
  BY <1>0, <1>2 DEF Appends
<1>3. CASE WriteFails(recs)
  BY <1>0, <1>3 DEF WriteFails, Unwritten
<1>4. CASE WriteStops(recs)
  <2>1. torn' \in BOOLEAN /\ flushed' = FALSE /\ unwritten' = Unwritten(recs) /\ (torn => torn')
    <3>1. torn' \in {torn, TRUE} /\ flushed' = FALSE /\ unwritten' = Unwritten(recs)
      BY <1>4 DEF WriteStops
    <3>2. torn' \in BOOLEAN /\ (torn => torn')
      BY <1>0, <3>1, Zenon
    <3> QED
      BY <3>1, <3>2
  <2>2. PICK done \in SUBSET Unwritten(recs) :
          disk' = IF torn THEN disk ELSE (disk \ Unwritten(recs)) \cup done
    BY <1>4 DEF WriteStops
  <2>3. ~torn' => recs \ unwritten' \subseteq disk'
    BY <2>1, <2>2 DEF Unwritten
  <2> QED
    BY <1>0, <2>1, <2>2, <2>3
<1> QED
  BY <1>1, <1>2, <1>3, <1>4 DEF WriteDB

\* A reason once given stays one while the machine check's result stands.
LEMMA MayGoStays ==
  ASSUME NEW k, MayGo(k), disabled' = disabled,
         offered \subseteq offered', accepted \subseteq accepted'
  PROVE  MayGo(k)'
BY DEF MayGo, Runnable

LEMMA InitEstablishes == MgrInit => MgrInv
<1> SUFFICES ASSUME MgrInit PROVE MgrInv
  OBVIOUS
<1> USE DEF MgrInit
<1>1. disk \subseteq Progs /\ records = disk /\ unwritten = {} /\ torn = FALSE
  BY ProgsAssumption
<1>2. MgrTypeOK
  <2>1. torn \in BOOLEAN /\ flushed \in BOOLEAN
    BY <1>1, Zenon
  <2> QED
    BY <1>1, <2>1, NoSignalType DEF MgrTypeOK, EmptyBag, NoCall
<1>3. StartsClean
  BY DEF StartsClean
<1>4. DBInSync
  BY <1>1 DEF DBInSync
<1>5. DisabledKept
  BY DEF DisabledKept
<1>6. RecordsOffered
  BY DEF RecordsOffered
<1> QED
  BY <1>2, <1>3, <1>4, <1>5, <1>6 DEF MgrInv

LEMMA LoadedType ==
  ASSUME NEW recs \in SUBSET Progs, NEW dis \in SUBSET Disableable
  PROVE  /\ Loaded(recs, dis) \in [Progs -> Nat]
         /\ \A k \in recs : k \notin Broken /\ k \notin dis => Loaded(recs, dis)[k] > 0
<1> DEFINE R(p) == {k \in recs : Candidate(k, dis) = p}
           S(p) == {k \in Seeds : Candidate(k, dis) = p}
<1>1. \A p \in Progs : Cardinality(R(p)) \in Nat /\ Cardinality(S(p)) \in Nat
  BY FiniteProgs, ProgsAssumption
<1>2. \A p \in Progs : Loaded(recs, dis)[p] = 2 * (Cardinality(R(p)) + Cardinality(S(p)))
  BY DEF Loaded
<1>3. ASSUME NEW k \in recs, k \notin Broken, k \notin dis
      PROVE  Cardinality(R(k)) # 0
  <2>1. k \in R(k)
    BY <1>3 DEF Candidate
  <2>2. IsFiniteSet(R(k))
    BY FiniteProgs
  <2> QED
    BY <2>1, <2>2, FS_EmptySet
<1> HIDE DEF R, S
<1>4. Loaded(recs, dis) \in [Progs -> Nat]
  <2>1. \A p \in Progs : Loaded(recs, dis)[p] \in Nat
    BY <1>1, <1>2
  <2> QED
    BY <2>1 DEF Loaded
<1>5. ASSUME NEW k \in recs, k \notin Broken, k \notin dis
      PROVE  Loaded(recs, dis)[k] > 0
  <2>1. k \in Progs /\ Cardinality(R(k)) # 0
    BY <1>3, <1>5
  <2> QED
    BY <1>1, <1>2, <2>1
<1> QED
  BY <1>4, <1>5

LEMMA machineCheckedKeeps ==
  ASSUME MgrInv, NEW dis \in SUBSET Disableable, machineChecked(dis)
  PROVE  MgrInv'
<1> USE DEF machineChecked
<1> MgrTypeOK /\ StartsClean /\ DBInSync
  BY DEF MgrInv
<1>1. corpus = {} /\ records = disk /\ records \subseteq Progs /\ unwritten = {} /\ torn = FALSE
  BY DEF StartsClean, MgrTypeOK
<1>2. MgrTypeOK'
  <2>1. candidates' \in [Progs -> Nat]
    BY <1>1, LoadedType
  <2>2. disabledHashes' \subseteq disabled'
    OBVIOUS
  <2>3. corpus' = corpus /\ item' = item /\ callOf' = callOf
        /\ lastMinCorpus' = lastMinCorpus /\ saturatedCalls' = saturatedCalls
    BY DEF corpusVars
  <2>4. offered' = offered /\ accepted' = accepted /\ flushed' = flushed
        /\ unwritten' \subseteq Progs /\ torn' = FALSE
    BY <1>1 DEF historyVars
  <2> QED
    BY <1>1, <2>1, <2>2, <2>3, <2>4 DEF MgrTypeOK
<1>3. StartsClean'
  BY DEF StartsClean
<1>4. DBInSync'
  <2>1. corpus' \subseteq records'
    BY <1>1 DEF corpusVars
  <2>2. records' \subseteq disk' /\ unwritten' \cap records' = {}
    BY <1>1
  <2>3. \A k \in (disk' \ records') \cup unwritten' : MayGo(k)'
    BY <1>1 DEF MayGo
  <2> QED
    BY <2>1, <2>2, <2>3 DEF DBInSync
<1>5. DisabledKept'
  BY DEF DisabledKept
<1>6. RecordsOffered'
  <2> SUFFICES ASSUME NEW k \in records' \cap Runnable'
               PROVE  candidates'[k] > 0 /\ ~(phase' >= phaseTriagedCorpus)
    BY DEF RecordsOffered
  <2>1. k \in records /\ k \notin Broken /\ k \notin dis
    BY DEF Runnable
  <2> QED
    BY <2>1, <1>1, LoadedType
<1> QED
  BY <1>2, <1>3, <1>4, <1>5, <1>6 DEF MgrInv

\* minimizeCorpus when it has something to do.
LEMMA MinimizeDBFacts ==
  ASSUME MgrInv, NEW kept \in SUBSET corpus, MinimizeDB(kept),
         UNCHANGED <<phase, candidates, checkVars, historyVars>>
  PROVE  /\ records' \subseteq records /\ disk' \subseteq disk \cup records \cup unwritten
         /\ unwritten' \subseteq unwritten \cup records
         /\ kept \subseteq records'
         /\ torn' \in BOOLEAN /\ flushed' \in BOOLEAN
         /\ ~torn' => records' \ unwritten' \subseteq disk'
         /\ flushed' => unwritten' \cap records' = {}
         /\ \A k \in (disk' \ records') \cup (disk \ disk') \cup unwritten' : MayGo(k)
<1> MgrTypeOK /\ DBInSync /\ DisabledKept /\ RecordsOffered
  BY DEF MgrInv
<1>1. CASE phase < phaseTriagedCorpus
  <2>1. records' = records /\ disk' = disk /\ flushed' = flushed /\ unwritten' = unwritten
        /\ torn' = torn
    BY <1>1 DEF MinimizeDB, dbVars
  <2>2. torn' \in BOOLEAN /\ flushed' \in BOOLEAN
    BY <2>1 DEF MgrTypeOK
  <2>3. kept \subseteq records'
    BY <2>1 DEF DBInSync
  <2>4. /\ ~torn' => records' \ unwritten' \subseteq disk'
        /\ flushed' => unwritten' \cap records' = {}
        /\ \A k \in (disk' \ records') \cup unwritten' : MayGo(k)
    BY <2>1 DEF DBInSync
  <2> QED
    BY <2>1, <2>2, <2>3, <2>4
<1>2. CASE ~(phase < phaseTriagedCorpus)
  <2> DEFINE recs == records \cap (kept \cup disabledHashes)
  <2>1. WriteDB(recs)
    BY <1>2 DEF MinimizeDB
  <2>2. /\ records' = recs
        /\ torn' \in BOOLEAN /\ flushed' \in BOOLEAN
        /\ unwritten' \subseteq Unwritten(recs)
        /\ flushed' => unwritten' = {}
        /\ ~torn' => recs \ unwritten' \subseteq disk'
        /\ disk' \subseteq disk \cup recs \cup Unwritten(recs)
        /\ disk \ disk' \subseteq (disk \ recs) \cup Unwritten(recs)
    BY <2>1, WriteDBFacts DEF DBInSync
  <2>3. ASSUME NEW k \in records, k \notin kept \cup disabledHashes
        PROVE  MayGo(k)
    <3>1. k \in Progs /\ phase >= phaseTriagedCorpus /\ phase # phaseInit
      BY <1>2 DEF MgrTypeOK
    <3>2. CASE k \in Broken
      BY <3>2 DEF MayGo
    <3>3. CASE k \notin Broken /\ k \in disabled
      BY <3>1, <3>3, <2>3 DEF MayGo, DisabledKept
    <3>4. CASE k \notin Broken /\ k \notin disabled
      BY <3>1, <3>4 DEF MayGo, RecordsOffered, Runnable
    <3> QED
      BY <3>2, <3>3, <3>4
  <2>4. \A k \in (disk \ records) \cup unwritten : MayGo(k)
    BY DEF DBInSync
  <2>5. kept \subseteq records'
    BY <2>2 DEF DBInSync
  <2>6. Unwritten(recs) = unwritten \cup (records \ recs)
    BY DEF Unwritten
  <2>7. \A k \in records \ recs : MayGo(k)
    BY <2>3
  <2> HIDE DEF recs
  <2>8. recs \subseteq records
    BY DEF recs
  <2>9. \A k \in (disk' \ records') \cup (disk \ disk') \cup unwritten' : MayGo(k)
    BY <2>2, <2>4, <2>6, <2>7, <2>8
  <2> QED
    BY <2>2, <2>5, <2>6, <2>8, <2>9
<1> QED
  BY <1>1, <1>2

LEMMA minimizeCorpusKeeps ==
  ASSUME MgrInv, minimizeCorpus
  PROVE  MgrInv'
<1> MgrTypeOK /\ StartsClean /\ DBInSync /\ DisabledKept /\ RecordsOffered
  BY DEF MgrInv
<1>1. /\ phase' = phase /\ candidates' = candidates /\ disabled' = disabled
      /\ disabledHashes' = disabledHashes /\ hubPool' = hubPool /\ held' = held
      /\ offered' = offered /\ accepted' = accepted
  BY DEF minimizeCorpus, checkVars, historyVars
<1>2. CASE UNCHANGED <<corpusVars, dbVars>>
  <2>1. mgrVars' = mgrVars
    BY <1>1, <1>2 DEF mgrVars, checkVars, historyVars
  <2> QED
    BY <2>1 DEF mgrVars, corpusVars, dbVars, checkVars, historyVars, MgrInv, MgrTypeOK,
                StartsClean, DBInSync, DisabledKept, RecordsOffered, MayGo, Runnable
<1>3. CASE ~(phase < phaseLoadedCorpus) /\
           \E rank \in Orders(corpus) :
             LET kept == Minimize(corpus, item, rank) IN
             /\ corpus' = kept
             /\ item' = [p \in Progs |-> IF p \in kept THEN item[p] ELSE NoSignal]
             /\ callOf' = [p \in Progs |-> IF p \in kept THEN callOf[p] ELSE NoCall]
             /\ lastMinCorpus' = Cardinality(kept)
             /\ Saturate(kept)
             /\ MinimizeDB(kept)
  <2>1. PICK kept \in SUBSET corpus :
             /\ corpus' = kept
             /\ item' = [p \in Progs |-> IF p \in kept THEN item[p] ELSE NoSignal]
             /\ callOf' = [p \in Progs |-> IF p \in kept THEN callOf[p] ELSE NoCall]
             /\ lastMinCorpus' = Cardinality(kept)
             /\ Saturate(kept)
             /\ MinimizeDB(kept)
    BY <1>3 DEF Minimize
  <2>2. UNCHANGED <<phase, candidates, checkVars, historyVars>>
    BY <1>1 DEF checkVars, historyVars
  <2>3. /\ records' \subseteq records /\ disk' \subseteq disk \cup records \cup unwritten
        /\ unwritten' \subseteq unwritten \cup records
        /\ kept \subseteq records'
        /\ torn' \in BOOLEAN /\ flushed' \in BOOLEAN
        /\ ~torn' => records' \ unwritten' \subseteq disk'
        /\ flushed' => unwritten' \cap records' = {}
        /\ \A k \in (disk' \ records') \cup (disk \ disk') \cup unwritten' : MayGo(k)
    BY <2>1, <2>2, MinimizeDBFacts
  <2>4. MgrTypeOK'
    <3>1. corpus' \subseteq Progs /\ lastMinCorpus' \in Nat
      BY <2>1, FiniteProgs DEF MgrTypeOK
    <3>2. item' \in [Progs -> Signals] /\ callOf' \in [Progs -> Calls \cup {NoCall}]
      BY <2>1, NoSignalType DEF MgrTypeOK
    <3>3. \A p \in Progs : p \in corpus' <=> item'[p] # NoSignal
      BY <2>1 DEF MgrTypeOK
    <3>4. saturatedCalls' \subseteq Calls
      BY <2>1 DEF Saturate, MgrTypeOK
    <3> QED
      BY <1>1, <2>3, <3>1, <3>2, <3>3, <3>4 DEF MgrTypeOK
  <2>5. StartsClean'
    BY <1>1, <1>3 DEF StartsClean
  <2>6. DBInSync'
    <3>1. \A k \in (disk' \ records') \cup unwritten' : MayGo(k)'
      BY <1>1, <2>3, MayGoStays
    <3> QED
      BY <2>1, <2>3, <3>1 DEF DBInSync
  <2>7. DisabledKept'
    BY <1>1, <2>3 DEF DisabledKept
  <2>8. RecordsOffered'
    BY <1>1, <2>3 DEF RecordsOffered, Runnable
  <2> QED
    BY <2>4, <2>5, <2>6, <2>7, <2>8 DEF MgrInv
<1> QED
  BY <1>2, <1>3 DEF minimizeCorpus

\* Merging with a signal that has something gives one that has something.
LEMMA MergedSignalType ==
  ASSUME MgrTypeOK, NEW p \in Progs, NEW s \in InputSignals
  PROVE  MergedSignal(p, s) \in Signals /\ MergedSignal(p, s) # NoSignal
<1>1. s \in Signals /\ s # NoSignal /\ item[p] \in Signals
  BY InputAssumption DEF MgrTypeOK
<1>2. PICK e \in Elems : s[e] # Absent
  BY <1>1 DEF Signals, NoSignal
<1>3. MergedSignal(p, s) \in Signals
  BY <1>1, MergeIsJoin DEF MergedSignal
<1>4. MergedSignal(p, s)[e] # Absent
  <2>1. Covers(Merge(s, item[p]), s)
    BY <1>1, MergeIsJoin
  <2>2. Merge(s, item[p])[e] >= s[e] /\ Merge(s, item[p]) \in Signals
    BY <2>1, <1>1, MergeIsJoin DEF Covers
  <2>3. Merge(s, item[p])[e] # Absent
    BY <2>2, <1>1, <1>2, SignalValues DEF Absent
  <2> QED
    BY <2>3, <1>2 DEF MergedSignal
<1> QED
  BY <1>3, <1>4 DEF NoSignal

LEMMA newInputKeeps ==
  ASSUME MgrInv, NEW p \in Runnable, NEW c \in Calls, NEW s \in InputSignals,
         phase >= phaseLoadedCorpus, newInput(p, c, s)
  PROVE  MgrInv'
<1> MgrTypeOK /\ StartsClean /\ DBInSync /\ DisabledKept /\ RecordsOffered
  BY DEF MgrInv
<1>0. p \in Progs /\ p \notin disabled
  BY DEF Runnable
<1>1. /\ phase' = phase /\ candidates' = candidates /\ disabled' = disabled
      /\ disabledHashes' = disabledHashes /\ hubPool' = hubPool /\ held' = held
      /\ lastMinCorpus' = lastMinCorpus /\ saturatedCalls' = saturatedCalls
      /\ offered' = offered /\ accepted' = accepted \cup {p}
      /\ item' = [item EXCEPT ![p] = MergedSignal(p, s)]
  BY DEF newInput, checkVars
<1>2. /\ corpus' = corpus \cup {p}
      /\ callOf' \in [Progs -> Calls \cup {NoCall}]
      /\ records \subseteq records' /\ records' \subseteq records \cup {p} /\ p \in records'
      /\ torn' \in BOOLEAN /\ flushed' \in BOOLEAN
      /\ ~torn' => records' \ unwritten' \subseteq disk'
      /\ flushed' => unwritten' \cap records' = {}
      /\ unwritten' \subseteq unwritten \cup {p}
      /\ disk' \subseteq disk \cup records' \cup unwritten
  <2>1. CASE p \in corpus
    <3>1. corpus' = corpus /\ callOf' = callOf /\ records' = records /\ disk' = disk
          /\ flushed' = flushed /\ unwritten' = unwritten /\ torn' = torn
      BY <2>1 DEF newInput, dbVars
    <3>2. /\ ~torn' => records' \ unwritten' \subseteq disk'
          /\ flushed' => unwritten' \cap records' = {}
      BY <3>1 DEF DBInSync
    <3>3. torn' \in BOOLEAN /\ flushed' \in BOOLEAN
      BY <3>1 DEF MgrTypeOK
    <3> QED
      BY <2>1, <3>1, <3>2, <3>3 DEF MgrTypeOK, DBInSync
  <2>2. CASE p \notin corpus
    <3>1. corpus' = corpus \cup {p} /\ callOf' = [callOf EXCEPT ![p] = c]
          /\ WriteDB(records \cup {p})
      BY <2>2 DEF newInput, SaveAndFlush
    <3> DEFINE recs == records \cup {p}
    <3>4. Unwritten(recs) \subseteq unwritten \cup {p}
      BY DEF Unwritten
    <3> HIDE DEF recs
    <3>2. /\ records' = recs
          /\ torn' \in BOOLEAN /\ flushed' \in BOOLEAN
          /\ unwritten' \subseteq Unwritten(recs)
          /\ flushed' => unwritten' = {}
          /\ ~torn' => recs \ unwritten' \subseteq disk'
          /\ disk' \subseteq disk \cup recs \cup Unwritten(recs)
      BY <3>1, WriteDBFacts DEF DBInSync, recs
    <3>5. p \in recs /\ records \subseteq recs /\ recs \subseteq records \cup {p}
      BY DEF recs
    <3>3. callOf' \in [Progs -> Calls \cup {NoCall}]
      BY <3>1 DEF MgrTypeOK
    <3> QED
      BY <3>1, <3>2, <3>3, <3>4, <3>5
  <2> QED
    BY <2>1, <2>2
<1>3. MgrTypeOK'
  <2>1. item' \in [Progs -> Signals]
    BY <1>0, <1>1, MergedSignalType DEF MgrTypeOK
  <2>2. \A q \in Progs : q \in corpus' <=> item'[q] # NoSignal
    BY <1>0, <1>1, <1>2, MergedSignalType DEF MgrTypeOK
  <2>3. disk' \subseteq Progs /\ records' \subseteq Progs /\ corpus' \subseteq Progs
        /\ unwritten' \subseteq Progs
    BY <1>0, <1>2 DEF MgrTypeOK
  <2> QED
    BY <1>0, <1>1, <1>2, <2>1, <2>2, <2>3 DEF MgrTypeOK
<1>4. StartsClean'
  BY <1>1 DEF StartsClean
<1>5. DBInSync'
  <2>1. \A k \in (disk' \ records') \cup unwritten' : MayGo(k) \/ k = p
    BY <1>2 DEF DBInSync
  <2>2. \A k \in (disk' \ records') \cup unwritten' : MayGo(k)'
    <3>1. MayGo(p)'
      BY <1>1 DEF MayGo, Runnable
    <3> QED
      BY <2>1, <3>1, <1>1, MayGoStays
  <2>3. corpus' \subseteq records'
    BY <1>2 DEF DBInSync
  <2> QED
    BY <2>2, <2>3, <1>2 DEF DBInSync
<1>6. DisabledKept'
  BY <1>0, <1>1, <1>2 DEF DisabledKept
<1>7. RecordsOffered'
  BY <1>1, <1>2 DEF RecordsOffered, Runnable
<1> QED
  BY <1>3, <1>4, <1>5, <1>6, <1>7 DEF MgrInv

LEMMA candidateBatchKeeps ==
  ASSUME MgrInv, NEW v \in VMs, NEW b \in Batches,
         phase >= phaseLoadedCorpus, candidateBatch(v, b)
  PROVE  MgrInv'
<1> DEFINE rest == [p \in Progs |-> candidates[p] - b[p]]
           got  == {p \in Progs : b[p] > 0}
<1> MgrTypeOK /\ StartsClean /\ DBInSync /\ DisabledKept /\ RecordsOffered
  BY DEF MgrInv
<1>1. /\ candidates' = rest
      /\ phase' = PhaseAfterBatch(rest)
      /\ held' = [held EXCEPT ![v] = @ \cup got]
      /\ offered' = offered \cup got
      /\ corpus' = corpus /\ item' = item /\ callOf' = callOf
      /\ lastMinCorpus' = lastMinCorpus /\ saturatedCalls' = saturatedCalls
      /\ disabled' = disabled /\ disabledHashes' = disabledHashes
      /\ records' = records /\ disk' = disk /\ flushed' = flushed
      /\ unwritten' = unwritten /\ torn' = torn
      /\ hubPool' = hubPool /\ accepted' = accepted
  BY DEF candidateBatch, corpusVars, checkVars, dbVars
<1>2. \A p \in Progs : b[p] \in Nat /\ candidates[p] \in Nat /\ b[p] <= candidates[p]
  BY BoundsAssumption DEF candidateBatch, Batches, MgrTypeOK
<1>3. /\ phase \in 1 .. 4 /\ phase' \in 1 .. 4
      /\ phase' >= phaseTriagedCorpus => phase >= phaseTriagedCorpus \/ rest = EmptyBag
  BY <1>1 DEF MgrTypeOK, PhaseAfterBatch
<1>4. MgrTypeOK'
  <2>1. rest \in [Progs -> Nat]
    BY <1>2
  <2>2. held' \in [VMs -> SUBSET Progs] /\ offered' \subseteq Progs
    BY <1>1 DEF MgrTypeOK
  <2>3. torn' \in BOOLEAN /\ flushed' \in BOOLEAN
    BY <1>1 DEF MgrTypeOK
  <2> QED
    BY <1>1, <1>3, <2>1, <2>2, <2>3 DEF MgrTypeOK
<1>5. StartsClean'
  BY <1>3 DEF StartsClean
<1>6. DBInSync'
  <2>1. /\ ~torn' => records' \ unwritten' \subseteq disk'
        /\ flushed' => unwritten' \cap records' = {}
    BY <1>1 DEF DBInSync
  <2> QED
    BY <1>1, <2>1, MayGoStays DEF DBInSync
<1>7. DisabledKept'
  BY <1>1, <1>3 DEF DisabledKept
<1>8. RecordsOffered'
  <2> SUFFICES ASSUME NEW k \in records \cap Runnable
               PROVE  /\ k \in offered' \cup accepted' \/ candidates'[k] > 0
                      /\ phase' >= phaseTriagedCorpus => k \in offered' \cup accepted'
    BY <1>1 DEF RecordsOffered, Runnable
  <2>1. k \in Progs
    BY DEF Runnable
  <2>2. k \in offered \cup accepted \/ candidates[k] > 0
    BY <1>3 DEF RecordsOffered
  <2>3. k \in offered' \cup accepted' \/ rest[k] > 0
    BY <1>1, <1>2, <2>1, <2>2
  <2>4. rest = EmptyBag => ~(rest[k] > 0)
    BY <2>1 DEF EmptyBag
  <2>5. phase >= phaseTriagedCorpus => k \in offered' \cup accepted'
    BY <1>1 DEF RecordsOffered
  <2> QED
    BY <1>1, <1>3, <2>3, <2>4, <2>5
<1> QED
  BY <1>4, <1>5, <1>6, <1>7, <1>8 DEF MgrInv

\* The steps that touch neither the database nor the corpus.
LEMMA OtherStepsKeep ==
  ASSUME MgrInv,
         \/ \E ps \in SUBSET HubProgs : addNewCandidates(ps)
         \/ hubIsUnreachable
         \/ \E v \in VMs, p \in Progs : triageDone(v, p)
         \/ \E v \in VMs : vmCrash(v)
  PROVE  MgrInv'
<1> MgrTypeOK /\ StartsClean /\ DBInSync /\ DisabledKept /\ RecordsOffered
  BY DEF MgrInv
<1>1. /\ corpus' = corpus /\ item' = item /\ callOf' = callOf
      /\ lastMinCorpus' = lastMinCorpus /\ saturatedCalls' = saturatedCalls
      /\ disabled' = disabled /\ disabledHashes' = disabledHashes
      /\ records' = records /\ disk' = disk /\ flushed' = flushed
      /\ unwritten' = unwritten /\ torn' = torn
      /\ offered' = offered /\ accepted' = accepted
  BY DEF addNewCandidates, hubIsUnreachable, triageDone, vmCrash, corpusVars, checkVars,
         dbVars, historyVars
<1>2. /\ phase' \in 0 .. 4
      /\ \/ phase' = phase
         \/ phase >= phaseTriagedCorpus /\ phase' >= phaseTriagedCorpus
  <2> phase \in 0 .. 4
    BY DEF MgrTypeOK
  <2>1. CASE \E ps \in SUBSET HubProgs : addNewCandidates(ps)
    BY <2>1 DEF addNewCandidates, PhaseAfterHub
  <2>2. CASE hubIsUnreachable
    BY <2>2 DEF hubIsUnreachable
  <2>3. CASE \E v \in VMs, p \in Progs : triageDone(v, p)
    BY <2>3 DEF triageDone
  <2>4. CASE \E v \in VMs : vmCrash(v)
    BY <2>4 DEF vmCrash
  <2> QED
    BY <2>1, <2>2, <2>3, <2>4
<1>3. /\ candidates' \in [Progs -> Nat]
      /\ \A k \in Progs : candidates[k] > 0 => candidates'[k] > 0
  BY DEF addNewCandidates, hubIsUnreachable, triageDone, vmCrash, MgrTypeOK
<1>4. hubPool' \subseteq HubProgs /\ held' \in [VMs -> SUBSET Progs]
  <2> hubPool \subseteq HubProgs /\ held \in [VMs -> SUBSET Progs]
    BY DEF MgrTypeOK
  <2>1. CASE \E ps \in SUBSET HubProgs : addNewCandidates(ps)
    BY <2>1 DEF addNewCandidates
  <2>2. CASE hubIsUnreachable
    BY <2>2 DEF hubIsUnreachable
  <2>3. CASE \E v \in VMs, p \in Progs : triageDone(v, p)
    BY <2>3 DEF triageDone
  <2>4. CASE \E v \in VMs : vmCrash(v)
    BY <2>4 DEF vmCrash
  <2> QED
    BY <2>1, <2>2, <2>3, <2>4
<1>5. MgrTypeOK'
  <2>1. torn' \in BOOLEAN /\ flushed' \in BOOLEAN
    BY <1>1 DEF MgrTypeOK
  <2> QED
    BY <1>1, <1>2, <1>3, <1>4, <2>1 DEF MgrTypeOK
<1>6. StartsClean'
  BY <1>1, <1>2 DEF StartsClean, MgrTypeOK
<1>7. DBInSync'
  <2>1. /\ ~torn' => records' \ unwritten' \subseteq disk'
        /\ flushed' => unwritten' \cap records' = {}
    BY <1>1 DEF DBInSync
  <2> QED
    BY <1>1, <2>1, MayGoStays DEF DBInSync
<1>8. DisabledKept'
  BY <1>1, <1>2 DEF DisabledKept, MgrTypeOK
<1>9. RecordsOffered'
  BY <1>1, <1>2, <1>3 DEF RecordsOffered, Runnable, MgrTypeOK
<1> QED
  BY <1>5, <1>6, <1>7, <1>8, <1>9 DEF MgrInv

LEMMA restartKeeps ==
  ASSUME MgrInv, restart
  PROVE  MgrInv'
<1> USE DEF restart
<1>1. disk' = disk /\ disk \subseteq Progs /\ records' = disk /\ hubPool' = hubPool
      /\ unwritten' = {} /\ torn' = FALSE
      /\ hubPool \subseteq HubProgs
  BY DEF MgrInv, MgrTypeOK
<1>2. MgrTypeOK'
  <2>1. torn' \in BOOLEAN /\ flushed' \in BOOLEAN
    BY <1>1, Zenon
  <2> QED
    BY <1>1, <2>1, NoSignalType DEF MgrTypeOK, EmptyBag
<1>3. StartsClean'
  BY <1>1 DEF StartsClean
<1>4. DBInSync'
  BY <1>1 DEF DBInSync
<1>5. DisabledKept'
  BY DEF DisabledKept
<1>6. RecordsOffered'
  BY DEF RecordsOffered
<1> QED
  BY <1>2, <1>3, <1>4, <1>5, <1>6 DEF MgrInv

LEMMA StutterKeeps ==
  ASSUME MgrInv, UNCHANGED mgrVars
  PROVE  MgrInv'
BY DEF mgrVars, corpusVars, dbVars, checkVars, historyVars, MgrInv, MgrTypeOK,
       StartsClean, DBInSync, DisabledKept, RecordsOffered, MayGo, Runnable

LEMMA NextKeeps ==
  ASSUME MgrInv, [MgrNext]_mgrVars
  PROVE  MgrInv'
<1>1. CASE \E dis \in SUBSET Disableable : machineChecked(dis)
  BY <1>1, machineCheckedKeeps
<1>2. CASE minimizeCorpus
  BY <1>2, minimizeCorpusKeeps
<1>3. CASE \E p \in Runnable, c \in Calls, s \in InputSignals :
             phase >= phaseLoadedCorpus /\ newInput(p, c, s)
  BY <1>3, newInputKeeps
<1>4. CASE phase >= phaseLoadedCorpus /\ \E v \in VMs, b \in Batches : candidateBatch(v, b)
  BY <1>4, candidateBatchKeeps
<1>5. CASE restart
  BY <1>5, restartKeeps
<1>6. CASE UNCHANGED mgrVars
  BY <1>6, StutterKeeps
<1> QED
  BY <1>1, <1>2, <1>3, <1>4, <1>5, <1>6, OtherStepsKeep DEF MgrNext

\* MgrInv is an invariant of the manager: memory and file differ only by what a
\* failed write left out, and every record that may be deleted was offered,
\* accepted, broken or disabled.
THEOREM ManagerIsSound == MgrSpec => []MgrInv
BY InitEstablishes, NextKeeps, PTL DEF MgrSpec

\* While the file has no torn record, mgr.corpus is on disk whenever the last
\* write succeeded and otherwise on disk or still to be written, with any number
\* of writes that fail or stop half way.
THEOREM CorpusIsPersisted == MgrSpec => []CorpusPersisted
<1>1. MgrInv => CorpusPersisted
  <2> SUFFICES ASSUME MgrInv, ~torn
               PROVE  /\ flushed => corpus \subseteq disk
                      /\ corpus \subseteq disk \cup unwritten
    BY DEF CorpusPersisted
  <2>1. DBInSync
    BY DEF MgrInv
  <2>2. corpus \subseteq records /\ records \subseteq disk \cup unwritten
    BY <2>1 DEF DBInSync
  <2>3. flushed => records \subseteq disk
    BY <2>1, <2>2 DEF DBInSync
  <2> QED
    BY <2>2, <2>3
<1> QED
  BY <1>1, ManagerIsSound, PTL

\* Nothing leaves corpus.db without one of the reasons of MayGo: newInput
\* and minimizeCorpus are the only operations that write, and what they leave
\* out was dropped from memory for such a reason or is dropped now.
THEOREM DeletionAwaitsOffer == MgrSpec => DeletedOnlyOnceOffered
<1>1. ASSUME MgrInv, [MgrNext]_mgrVars
      PROVE  [\A k \in disk \ disk' : MayGo(k)]_mgrVars
  <2> MgrTypeOK /\ DBInSync
    BY <1>1 DEF MgrInv
  <2>1. CASE minimizeCorpus
    <3>1. CASE UNCHANGED <<corpusVars, dbVars>>
      BY <3>1 DEF dbVars
    <3>2. CASE \E kept \in SUBSET corpus : MinimizeDB(kept)
      <4>1. UNCHANGED <<phase, candidates, checkVars, historyVars>>
        BY <2>1 DEF minimizeCorpus
      <4>2. \A k \in disk \ disk' : MayGo(k)
        BY <1>1, <3>2, <4>1, MinimizeDBFacts
      <4> QED
        BY <4>2
    <3> QED
      BY <2>1, <3>1, <3>2 DEF minimizeCorpus, Minimize
  <2>2. CASE \E p \in Runnable, c \in Calls, s \in InputSignals : newInput(p, c, s)
    <3>1. PICK p \in Runnable, c \in Calls, s \in InputSignals : newInput(p, c, s)
      BY <2>2
    <3>2. CASE disk' = disk
      BY <3>2
    <3>3. CASE WriteDB(records \cup {p})
      <4> DEFINE recs == records \cup {p}
      <4>1. Unwritten(recs) \subseteq unwritten \cup (recs \ records) /\ records \subseteq recs
        BY DEF Unwritten
      <4>2. disk \ disk' \subseteq (disk \ recs) \cup Unwritten(recs)
        BY <3>3, WriteDBFacts DEF DBInSync
      <4> HIDE DEF recs
      <4> QED
        BY <4>1, <4>2 DEF DBInSync
    <3> QED
      BY <3>1, <3>2, <3>3 DEF newInput, SaveAndFlush, dbVars
  <2>3. CASE disk' = disk
    BY <2>3
  <2>4. \/ minimizeCorpus
        \/ \E p \in Runnable, c \in Calls, s \in InputSignals : newInput(p, c, s)
        \/ disk' = disk
    <3>1. CASE UNCHANGED mgrVars
      BY <3>1 DEF mgrVars, dbVars
    <3>2. CASE \E dis \in SUBSET Disableable : machineChecked(dis)
      BY <3>2 DEF machineChecked
    <3>3. CASE \E v \in VMs, b \in Batches : candidateBatch(v, b)
      BY <3>3 DEF candidateBatch, dbVars
    <3>4. CASE (\E ps \in SUBSET HubProgs : addNewCandidates(ps)) \/ hubIsUnreachable
      BY <3>4 DEF addNewCandidates, hubIsUnreachable, dbVars
    <3>5. CASE (\E v \in VMs, p \in Progs : triageDone(v, p)) \/ \E v \in VMs : vmCrash(v)
      BY <3>5 DEF triageDone, vmCrash, dbVars
    <3>6. CASE restart
      BY <3>6 DEF restart
    <3> QED
      BY <1>1, <3>1, <3>2, <3>3, <3>4, <3>5, <3>6 DEF MgrNext
  <2> QED
    BY <2>1, <2>2, <2>3, <2>4
<1> QED
  BY <1>1, ManagerIsSound, PTL DEF MgrSpec, DeletedOnlyOnceOffered

\* No signal is lost while the manager runs: newInput merges into the old item,
\* and minimizeCorpus keeps a best item for every element.
THEOREM CoverageIsKept == MgrSpec => CoverageKept
<1> DEFINE Kept == \/ phase' = phaseInit
                   \/ \A p \in corpus, e \in Elems :
                        item[p][e] # Absent => \E q \in corpus' : item'[q][e] >= item[p][e]
<1>1. ASSUME MgrInv, [MgrNext]_mgrVars
      PROVE  Kept \/ UNCHANGED mgrVars
  <2> MgrTypeOK
    BY <1>1 DEF MgrInv
  <2>0. /\ \A p \in corpus : p \in Progs /\ item[p] \in Signals
        /\ \A p \in corpus, e \in Elems : item[p][e] \in Int
    BY SignalValues DEF MgrTypeOK
  <2>1. CASE corpus' = corpus /\ item' = item
    BY <2>0, <2>1
  <2>2. CASE \E p \in Runnable, c \in Calls, s \in InputSignals : newInput(p, c, s)
    <3>1. PICK p \in Runnable, c \in Calls, s \in InputSignals : newInput(p, c, s)
      BY <2>2
    <3>2. corpus \subseteq corpus' /\ item' = [item EXCEPT ![p] = MergedSignal(p, s)]
      BY <3>1 DEF newInput
    <3>3. p \in Progs /\ item \in [Progs -> Signals] /\ s \in Signals
      BY InputAssumption DEF Runnable, MgrTypeOK
    <3>4. ASSUME NEW q \in corpus, NEW e \in Elems
          PROVE  item'[q][e] >= item[q][e]
      <4>1. CASE q # p
        BY <4>1, <3>2, <3>3, <2>0
      <4>2. CASE q = p
        <5>1. item'[q] = Merge(s, item[q])
          BY <4>2, <3>2, <3>3 DEF MergedSignal
        <5>2. Covers(Merge(s, item[q]), item[q])
          BY <2>0, <3>3, MergeIsJoin
        <5> QED
          BY <5>1, <5>2 DEF Covers
      <4> QED
        BY <4>1, <4>2
    <3> QED
      BY <3>2, <3>4
  <2>3. CASE minimizeCorpus
    <3>1. CASE UNCHANGED corpusVars
      BY <3>1, <2>1 DEF corpusVars
    <3>2. CASE \E rank \in Orders(corpus) :
                 LET kept == Minimize(corpus, item, rank) IN
                 /\ corpus' = kept
                 /\ item' = [p \in Progs |-> IF p \in kept THEN item[p] ELSE NoSignal]
      <4>1. PICK rank \in Orders(corpus) :
                 /\ corpus' = Minimize(corpus, item, rank)
                 /\ item' = [p \in Progs |-> IF p \in Minimize(corpus, item, rank)
                                            THEN item[p] ELSE NoSignal]
        BY <3>2
      <4>2. IsFiniteSet(corpus) /\ Minimize(corpus, item, rank) \subseteq corpus
        BY FiniteProgs DEF Minimize, MgrTypeOK
      <4>3. ASSUME NEW p \in corpus, NEW e \in Elems, item[p][e] # Absent
            PROVE  \E q \in corpus' : item'[q][e] >= item[p][e]
        <5>1. PICK w \in Minimize(corpus, item, rank) : item[w][e] >= item[p][e]
          BY <2>0, <4>2, <4>3, MinimizeKeepsSignal
        <5>2. item'[w] = item[w] /\ w \in corpus'
          BY <4>1, <4>2, <5>1, <2>0
        <5> QED
          BY <5>1, <5>2
      <4> QED
        BY <4>3
    <3> QED
      BY <2>3, <3>1, <3>2 DEF minimizeCorpus
  <2>4. \/ UNCHANGED mgrVars
        \/ phase' = phaseInit
        \/ corpus' = corpus /\ item' = item
        \/ \E p \in Runnable, c \in Calls, s \in InputSignals : newInput(p, c, s)
        \/ minimizeCorpus
    <3>1. CASE \E dis \in SUBSET Disableable : machineChecked(dis)
      BY <3>1 DEF machineChecked, corpusVars
    <3>2. CASE \E v \in VMs, b \in Batches : candidateBatch(v, b)
      BY <3>2 DEF candidateBatch, corpusVars
    <3>3. CASE (\E ps \in SUBSET HubProgs : addNewCandidates(ps)) \/ hubIsUnreachable
      BY <3>3 DEF addNewCandidates, hubIsUnreachable, corpusVars
    <3>4. CASE (\E v \in VMs, p \in Progs : triageDone(v, p)) \/ \E v \in VMs : vmCrash(v)
      BY <3>4 DEF triageDone, vmCrash, corpusVars
    <3>5. CASE restart
      BY <3>5 DEF restart
    <3> QED
      BY <1>1, <3>1, <3>2, <3>3, <3>4, <3>5 DEF MgrNext
  <2> QED
    BY <2>1, <2>2, <2>3, <2>4
<1> QED
  BY <1>1, ManagerIsSound, PTL DEF MgrSpec, CoverageKept

-----------------------------------------------------------------------------
(***************************************************************************)
(* The RPC server.                                                         *)
(***************************************************************************)

\* UnionSig of a set of inputs, element by element.
LEMMA UnionSigFacts ==
  ASSUME NEW ins \in SUBSET Inputs
  PROVE  /\ UnionSig(ins) \in Signals
         /\ \A i \in ins : i.sig \in Signals /\ Covers(UnionSig(ins), i.sig)
         /\ \A e \in Elems : \/ UnionSig(ins)[e] = Absent
                             \/ \E i \in ins : i.sig[e] = UnionSig(ins)[e]
<1> DEFINE sigs == {i.sig : i \in ins}
<1>1. sigs \in SUBSET Signals
  BY DEF Inputs
<1>2. UnionSig(ins) = MergeAll(sigs)
  BY DEF UnionSig
<1> HIDE DEF sigs
<1>3. /\ MergeAll(sigs) \in Signals
      /\ \A s \in sigs : Covers(MergeAll(sigs), s)
      /\ \A e \in Elems : \/ MergeAll(sigs)[e] = Absent
                          \/ \E s \in sigs : s[e] = MergeAll(sigs)[e]
  BY <1>1, MergeAllIsJoin
<1>4. (\A i \in ins : i.sig \in sigs) /\ \A s \in sigs : \E i \in ins : i.sig = s
  BY DEF sigs
<1> QED
  BY <1>1, <1>2, <1>3, <1>4

\* What "sent, queued or missed" means for one element: Reaches(own, ins, miss,
\* sig) is the statement of InputsReach and of SnapshotReaches.
LEMMA ReachesMeans ==
  ASSUME NEW own \in Signals, NEW ins \in SUBSET Inputs, NEW miss \in Signals,
         NEW sig \in Signals
  PROVE  /\ Covers(Merge(Merge(own, UnionSig(ins)), miss), sig) <=>
              \A e \in Elems : \/ own[e] >= sig[e] \/ miss[e] >= sig[e]
                               \/ \E i \in ins : i.sig[e] >= sig[e]
         /\ Covers(Merge(UnionSig(ins), miss), sig) <=>
              \A e \in Elems : \/ sig[e] = Absent \/ miss[e] >= sig[e]
                               \/ \E i \in ins : i.sig[e] >= sig[e]
<1> DEFINE un == UnionSig(ins)
           both == Merge(own, un)
           all == Merge(both, miss)
           snap == Merge(un, miss)
<1>1. un \in Signals /\ both \in Signals /\ all \in Signals /\ snap \in Signals
  BY UnionSigFacts, MergeIsJoin
<1> HIDE DEF un
<1>2. ASSUME NEW e \in Elems
      PROVE  /\ own[e] \in Int /\ un[e] \in Int /\ miss[e] \in Int /\ sig[e] \in Int
             /\ own[e] >= Absent /\ un[e] >= Absent /\ miss[e] >= Absent /\ sig[e] >= Absent
             /\ all[e] >= sig[e] <=> own[e] >= sig[e] \/ un[e] >= sig[e] \/ miss[e] >= sig[e]
             /\ snap[e] >= sig[e] <=> un[e] >= sig[e] \/ miss[e] >= sig[e]
  <2>1. /\ own[e] \in Int /\ un[e] \in Int /\ miss[e] \in Int /\ sig[e] \in Int
        /\ own[e] >= Absent /\ un[e] >= Absent /\ miss[e] >= Absent /\ sig[e] >= Absent
        /\ both[e] \in Int /\ all[e] \in Int /\ snap[e] \in Int
    BY <1>1, SignalValues
  <2>2. /\ both[e] = own[e] \/ both[e] = un[e]
        /\ both[e] >= own[e] /\ both[e] >= un[e]
    BY <1>1, MergeValue
  <2>3. /\ all[e] = both[e] \/ all[e] = miss[e]
        /\ all[e] >= both[e] /\ all[e] >= miss[e]
    BY <1>1, MergeValue
  <2>4. /\ snap[e] = un[e] \/ snap[e] = miss[e]
        /\ snap[e] >= un[e] /\ snap[e] >= miss[e]
    BY <1>1, MergeValue
  <2> HIDE DEF both, all, snap
  <2> QED
    BY <2>1, <2>2, <2>3, <2>4
<1>3. ASSUME NEW e \in Elems
      PROVE  un[e] >= sig[e] <=> sig[e] = Absent \/ \E i \in ins : i.sig[e] >= sig[e]
  <2>1. /\ \A i \in ins : i.sig[e] \in Int /\ un[e] >= i.sig[e]
        /\ un[e] = Absent \/ \E i \in ins : i.sig[e] = un[e]
    BY UnionSigFacts, SignalValues DEF un, Covers
  <2> QED
    BY <1>2, <2>1 DEF Absent
<1>4. Covers(all, sig) <=> \A e \in Elems : all[e] >= sig[e]
  BY DEF Covers
<1>5. Covers(snap, sig) <=> \A e \in Elems : snap[e] >= sig[e]
  BY DEF Covers
<1>6. Covers(all, sig) <=> \A e \in Elems : \/ own[e] >= sig[e] \/ miss[e] >= sig[e]
                                            \/ \E i \in ins : i.sig[e] >= sig[e]
  BY <1>2, <1>3, <1>4 DEF Absent
<1>7. Covers(snap, sig) <=> \A e \in Elems : \/ sig[e] = Absent \/ miss[e] >= sig[e]
                                             \/ \E i \in ins : i.sig[e] >= sig[e]
  BY <1>2, <1>3, <1>5
<1> QED
  BY <1>6, <1>7 DEF un

-----------------------------------------------------------------------------
(***************************************************************************)
(* Every step of the server is, for the manager, a step of its own.        *)
(***************************************************************************)

LEMMA StepsOfManager ==
  ASSUME TypeOK, RequestsRunnable, [Next]_vars
  PROVE  [MgrNext]_mgrVars
<1> USE DEF MgrNext
<1>0. phase \in 0 .. 4 /\ held \in [VMs -> SUBSET Progs]
  BY DEF TypeOK, MgrTypeOK
<1>1. CASE \E v \in VMs : ConnectSnapshot(v)
  BY <1>1 DEF ConnectSnapshot
<1>2. CASE \E v \in VMs : ConnectRegister(v) \/ CheckAgain(v) \/ CheckFails(v)
  BY <1>2 DEF ConnectRegister, CheckAgain, CheckFails
<1>3. CASE \E v \in VMs : Check(v)
  BY <1>3 DEF Check
<1>4. CASE \E v \in VMs : CheckFailsForGood(v)
  BY <1>4 DEF CheckFailsForGood
<1>5. CASE \E v \in VMs, p \in Progs, c \in Calls, s \in InputSignals : SendInput(v, p, c, s)
  BY <1>5 DEF SendInput
<1>6. CASE \E v \in VMs : PollRotated(v) \/ shutdownInstance(v)
  BY <1>6 DEF PollRotated, shutdownInstance
<1>7. ASSUME NEW v \in VMs, NEW b \in Batches, PollCandidates(v, b)
      PROVE  MgrNext
  <2>1. phase >= phaseLoadedCorpus
    BY <1>0, <1>7 DEF PollCandidates, RequestsRunnable
  <2>2. candidateBatch(v, b)
    BY <1>7 DEF PollCandidates
  <2> QED
    BY <2>1, <2>2
<1>8. ASSUME NEW v \in VMs, NEW need \in BOOLEAN, PollInputs(v, need)
      PROVE  [MgrNext]_mgrVars
  <2>1. phase >= phaseLoadedCorpus
    BY <1>0, <1>8 DEF PollInputs, RequestsRunnable
  <2>2. candidateBatch(v, EmptyBag) \/ UNCHANGED mgrVars
    BY <1>8 DEF PollInputs
  <2>3. candidateBatch(v, EmptyBag) => EmptyBag \in Batches
    BY DEF candidateBatch
  <2> QED
    BY <2>1, <2>2, <2>3
<1>9. CASE \E v \in VMs : TriageDone(v)
  BY <1>0, <1>9 DEF TriageDone
<1>10. CASE \E v \in VMs : VMCrash(v)
  BY <1>10 DEF VMCrash
<1>11. ASSUME NEW r \in requests, NewInput(r)
       PROVE  MgrNext
  <2>1. r.prog \in Runnable /\ r.call \in Calls /\ r.sig \in InputSignals
    BY DEF RequestsRunnable, TypeOK
  <2>2. phase >= phaseLoadedCorpus
    BY <1>0 DEF RequestsRunnable
  <2>3. newInput(r.prog, r.call, r.sig)
    BY <1>11 DEF NewInput
  <2> QED
    BY <2>1, <2>2, <2>3
<1>12. CASE \E r \in requests : NewInputDropped(r)
  BY <1>12 DEF NewInputDropped
<1>13. CASE HubLoop
  BY <1>13 DEF HubLoop
<1>14. CASE UNCHANGED vars
  BY <1>14 DEF vars
<1> HIDE DEF MgrNext
<1> QED
  BY <1>1, <1>2, <1>3, <1>4, <1>5, <1>6, <1>7, <1>8, <1>9, <1>10, <1>11, <1>12, <1>13,
     <1>14 DEF Next, Poll, HandleInput

-----------------------------------------------------------------------------
(***************************************************************************)
(* Types.                                                                  *)
(***************************************************************************)

LEMMA InitTypeOK == Init => TypeOK
<1> SUFFICES ASSUME Init PROVE TypeOK
  OBVIOUS
<1>1. MgrTypeOK
  BY InitEstablishes DEF Init, MgrInv
<1> QED
  BY <1>1, NoSignalType, ServAssumption DEF Init, NoneOf, TypeOK, VMStates, Inputs

LEMMA RequestTypes ==
  ASSUME TypeOK, NEW r \in requests
  PROVE  /\ r.vm \in VMs /\ r.prog \in Progs /\ r.call \in Calls
         /\ r.sig \in InputSignals /\ r.sig \in Signals
         /\ MergedSignal(r.prog, r.sig) \in Signals
<1>1. /\ r.vm \in VMs /\ r.prog \in Progs /\ r.call \in Calls
      /\ r.sig \in InputSignals /\ r.sig \in Signals
  BY InputAssumption DEF TypeOK
<1>2. MgrTypeOK
  BY DEF TypeOK
<1> QED
  BY <1>1, <1>2, MergedSignalType

\* The steps of Connect and Check.
LEMMA ConnectTypes ==
  ASSUME TypeOK, MgrTypeOK', NEW v \in VMs,
         \/ ConnectSnapshot(v) \/ ConnectRegister(v)
         \/ CheckAgain(v) \/ Check(v) \/ CheckFails(v) \/ CheckFailsForGood(v)
  PROVE  TypeOK'
<1>1. CASE ConnectSnapshot(v)
  <2>1. snapshot' \in [VMs -> SUBSET Inputs]
    <3>1. {[prog |-> p, sig |-> item'[p]] : p \in corpus'} \subseteq Inputs
      BY DEF MgrTypeOK, Inputs
    <3> QED
      BY <1>1, <3>1 DEF ConnectSnapshot, TypeOK
  <2>2. /\ vm' \in [VMs -> VMStates]
        /\ fuzzers' = {u \in VMs : vm'[u] \in {"checking", "fuzzing", "crashed"}}
    BY <1>1 DEF ConnectSnapshot, TypeOK, VMStates, servVars
  <2> QED
    BY <1>1, <2>1, <2>2 DEF ConnectSnapshot, TypeOK, servVars
<1>2. CASE ConnectRegister(v)
  <2>1. /\ inputs' \in [VMs -> SUBSET Inputs]
        /\ newMaxSignal' \in [VMs -> Signals]
        /\ rotatedSignal' \in [VMs -> Signals]
        /\ rotated' \in [VMs -> BOOLEAN]
    <3>1. CASE RegisterPlain(v)
      BY <3>1, NoSignalType DEF RegisterPlain, TypeOK
    <3>2. CASE RegisterRotated(v)
      <4>1. PICK dropped, taken :
              LET rest == SignalWithout(dropped)
                  sig == Without(rest, taken) IN
              /\ inputs' = [inputs EXCEPT ![v] = snapshot[v] \ dropped]
              /\ newMaxSignal' = [newMaxSignal EXCEPT ![v] = sig]
              /\ rotatedSignal' = [rotatedSignal EXCEPT ![v] = RotatedFrom(sig)]
        BY <3>2 DEF RegisterRotated
      <4> DEFINE sig == Without(SignalWithout(dropped), taken)
      <4>2. sig \in Signals /\ RotatedFrom(sig) \in Signals
        BY PartTypes DEF SignalWithout, RotatedFrom, TypeOK
      <4>3. rotated' = [rotated EXCEPT ![v] = TRUE]
        BY <3>2 DEF RegisterRotated
      <4> HIDE DEF sig
      <4>4. rotatedSignal' \in [VMs -> Signals] /\ newMaxSignal' \in [VMs -> Signals]
        BY <4>1, <4>2 DEF TypeOK, sig
      <4>5. inputs' \in [VMs -> SUBSET Inputs] /\ rotated' \in [VMs -> BOOLEAN]
        BY <4>1, <4>3 DEF TypeOK
      <4> QED
        BY <4>4, <4>5
    <3> QED
      BY <1>2, <3>1, <3>2 DEF ConnectRegister
  <2>2. /\ vm' \in [VMs -> VMStates]
        /\ fuzzers' = {u \in VMs : vm'[u] \in {"checking", "fuzzing", "crashed"}}
    BY <1>2 DEF ConnectRegister, TypeOK, VMStates
  <2>3. /\ maxSignal' = maxSignal /\ corpusSignal' = corpusSignal
        /\ checkFailures' = checkFailures /\ requests' = requests
        /\ ownCorpus' = ownCorpus /\ ownMax' = ownMax /\ ownNew' = ownNew
        /\ missed' = missed /\ snapshot' \in [VMs -> SUBSET Inputs]
    BY <1>2 DEF ConnectRegister, TypeOK
  <2> QED
    BY <2>1, <2>2, <2>3 DEF TypeOK
<1>3. CASE CheckAgain(v) \/ Check(v) \/ CheckFails(v)
  <2>1. /\ vm' \in [VMs -> VMStates]
        /\ fuzzers' = {u \in VMs : vm'[u] \in {"checking", "fuzzing", "crashed"}}
    BY <1>3 DEF CheckAgain, Check, CheckFails, TypeOK, VMStates, servVars
  <2>2. checkFailures' \in 0 .. MaxCheckFailures - 1
    BY <1>3, ServAssumption DEF CheckAgain, Check, CheckFails, TypeOK, servVars
  <2>3. /\ rotated' = rotated /\ inputs' = inputs /\ newMaxSignal' = newMaxSignal
        /\ rotatedSignal' = rotatedSignal /\ maxSignal' = maxSignal
        /\ corpusSignal' = corpusSignal /\ snapshot' = snapshot /\ requests' = requests
        /\ ownCorpus' = ownCorpus /\ ownMax' = ownMax /\ ownNew' = ownNew
        /\ missed' = missed
    BY <1>3 DEF CheckAgain, Check, CheckFails, servVars
  <2> QED
    BY <2>1, <2>2, <2>3 DEF TypeOK
<1>4. CASE CheckFailsForGood(v)
  BY <1>4, NoSignalType, ServAssumption
  DEF CheckFailsForGood, NoneOf, TypeOK, VMStates, Inputs
<1> QED
  BY <1>1, <1>2, <1>3, <1>4

\* The fuzzer sends an input, and the server takes or drops it.
LEMMA InputTypes ==
  ASSUME TypeOK, MgrTypeOK',
         \/ \E v \in VMs, p \in Progs, c \in Calls, s \in InputSignals : SendInput(v, p, c, s)
         \/ \E r \in requests : HandleInput(r)
  PROVE  TypeOK'
<1>1. ASSUME NEW v \in VMs, NEW p \in Progs, NEW c \in Calls, NEW s \in InputSignals,
             SendInput(v, p, c, s)
      PROVE  TypeOK'
  <2>1. s \in Signals /\ ownCorpus[v] \in Signals /\ ownMax[v] \in Signals /\ ownNew[v] \in Signals
    BY InputAssumption DEF TypeOK
  <2>2. /\ Merge(ownCorpus[v], s) \in Signals /\ Merge(ownMax[v], s) \in Signals
        /\ Merge(ownNew[v], Diff(ownMax[v], s)) \in Signals
    BY <2>1, MergeIsJoin, DiffIsComplement
  <2>3. /\ ownCorpus' \in [VMs -> Signals] /\ ownMax' \in [VMs -> Signals]
        /\ ownNew' \in [VMs -> Signals]
    BY <1>1, <2>2 DEF SendInput, TypeOK
  <2>4. requests' \subseteq [vm : VMs, prog : Progs, call : Calls, sig : InputSignals]
    BY <1>1 DEF SendInput, TypeOK
  <2>5. UNCHANGED <<servVars, vm, snapshot, missed>>
    BY <1>1 DEF SendInput
  <2> QED
    BY <2>3, <2>4, <2>5 DEF TypeOK, servVars
<1>2. ASSUME NEW r \in requests, NewInputDropped(r)
      PROVE  TypeOK'
  BY <1>2 DEF NewInputDropped, TypeOK, servVars
<1>3. ASSUME NEW r \in requests, NewInput(r)
      PROVE  TypeOK'
  <2> DEFINE s == MergedSignal(r.prog, r.sig)
  <2>1. /\ r.vm \in VMs /\ r.prog \in Progs /\ r.sig \in Signals /\ s \in Signals
    BY RequestTypes
  <2> HIDE DEF s
  <2>2. rotatedSignal' \in [VMs -> Signals]
    <3>1. Merge(rotatedSignal[r.vm], s) \in Signals
      BY <2>1, MergeIsJoin DEF TypeOK
    <3> QED
      BY <1>3, <2>1, <3>1 DEF NewInput, TypeOK, s
  <2>3. corpusSignal' \in Signals
    <3>1. Merge(corpusSignal, s) \in Signals
      BY <2>1, MergeIsJoin DEF TypeOK
    <3> QED
      BY <1>3, <3>1 DEF NewInput, MergeGenuine, TypeOK, s
  <2>4. inputs' \in [VMs -> SUBSET Inputs]
    BY <1>3, <2>1 DEF NewInput, BroadcastInput, TypeOK, Inputs
  <2>5. missed' \in [VMs -> Signals]
    <3>1. \A v \in VMs : Merge(missed[v], r.sig) \in Signals
      BY <2>1, MergeIsJoin DEF TypeOK
    <3> QED
      BY <1>3, <3>1 DEF NewInput, TypeOK
  <2>6. requests' \subseteq requests
    BY <1>3 DEF NewInput
  <2>7. UNCHANGED <<fuzzers, rotated, newMaxSignal, maxSignal, checkFailures, vm,
                    snapshot, ownCorpus, ownMax, ownNew>>
    BY <1>3 DEF NewInput
  <2> QED
    BY <2>2, <2>3, <2>4, <2>5, <2>6, <2>7 DEF TypeOK
<1> QED
  BY <1>1, <1>2, <1>3 DEF HandleInput

\* What a poll does to the signals, whatever its reply carries.
LEMMA PollSignalFacts ==
  ASSUME TypeOK, NEW v \in VMs, PollSignal(v)
  PROVE  /\ Diff(maxSignal, ownNew[v]) \in Signals
         /\ maxSignal' \in Signals
         /\ maxSignal' = Merge(maxSignal, Diff(maxSignal, ownNew[v]))
         /\ maxSignal' = Merge(maxSignal, ownNew[v])
         /\ ownNew' = [ownNew EXCEPT ![v] = NoSignal]
         /\ BroadcastSignal(v, Diff(maxSignal, ownNew[v])) \in [VMs -> Signals]
<1>1. maxSignal \in Signals /\ ownNew[v] \in Signals /\ newMaxSignal \in [VMs -> Signals]
  BY DEF TypeOK
<1> DEFINE d == Diff(maxSignal, ownNew[v])
<1>2. d \in Signals /\ Merge(maxSignal, d) = Merge(maxSignal, ownNew[v])
  BY <1>1, DiffIsComplement
<1>3. Merge(maxSignal, d) \in Signals /\ \A u \in VMs : Merge(newMaxSignal[u], d) \in Signals
  BY <1>1, <1>2, MergeIsJoin
<1>4. maxSignal' = Merge(maxSignal, d) /\ ownNew' = [ownNew EXCEPT ![v] = NoSignal]
  BY DEF PollSignal
<1> HIDE DEF d
<1>5. BroadcastSignal(v, d) \in [VMs -> Signals]
  BY <1>1, <1>3 DEF BroadcastSignal
<1> QED
  BY <1>2, <1>3, <1>4, <1>5 DEF d

LEMMA PollTypes ==
  ASSUME TypeOK, MgrTypeOK', NEW v \in VMs, Poll(v)
  PROVE  TypeOK'
<1> DEFINE bs == BroadcastSignal(v, Diff(maxSignal, ownNew[v]))
<1>0. PollSignal(v)
  BY DEF Poll, PollRotated, PollCandidates, PollInputs
<1>1. maxSignal' \in Signals /\ ownNew' \in [VMs -> Signals] /\ bs \in [VMs -> Signals]
  BY <1>0, PollSignalFacts, NoSignalType DEF TypeOK
<1>2. /\ newMaxSignal[v] \in Signals /\ ownMax[v] \in Signals /\ ownCorpus[v] \in Signals
  BY DEF TypeOK
<1> HIDE DEF bs
<1>3. CASE PollRotated(v)
  <2>1. newMaxSignal' = bs
    BY <1>3 DEF PollRotated, bs
  <2> QED
    BY <1>1, <1>3, <2>1 DEF PollRotated, TypeOK
<1>4. ASSUME NEW b \in Batches, PollCandidates(v, b) PROVE TypeOK'
  <2>1. PICK taken : /\ newMaxSignal' = [bs EXCEPT ![v] = Without(@, taken)]
                     /\ ownMax' = [ownMax EXCEPT ![v] = Merge(@, Only(newMaxSignal[v], taken))]
    BY <1>4 DEF PollCandidates, bs
  <2>2. Without(bs[v], taken) \in Signals /\ Merge(ownMax[v], Only(newMaxSignal[v], taken)) \in Signals
    BY <1>1, <1>2, PartTypes, MergeIsJoin
  <2>3. newMaxSignal' \in [VMs -> Signals] /\ ownMax' \in [VMs -> Signals]
    BY <1>1, <2>1, <2>2 DEF TypeOK
  <2> QED
    BY <1>1, <1>4, <2>3 DEF PollCandidates, TypeOK
<1>5. ASSUME NEW need \in BOOLEAN, PollInputs(v, need) PROVE TypeOK'
  <2>1. PICK got, taken :
          /\ got \in InputBatches(v)
          /\ inputs' = [inputs EXCEPT ![v] = @ \ got]
          /\ newMaxSignal' = [bs EXCEPT ![v] = Without(@, taken)]
          /\ ownCorpus' = [ownCorpus EXCEPT ![v] = Merge(@, UnionSig(got))]
          /\ ownMax' = [ownMax EXCEPT ![v] =
                          Merge(Merge(@, Only(newMaxSignal[v], taken)), UnionSig(got))]
    BY <1>5 DEF PollInputs, bs
  <2>2. got \in SUBSET Inputs
    <3>1. got \subseteq inputs[v]
      BY <2>1 DEF InputBatches
    <3> QED
      BY <3>1 DEF TypeOK
  <2>3. /\ Without(bs[v], taken) \in Signals
        /\ Merge(ownCorpus[v], UnionSig(got)) \in Signals
        /\ Merge(Merge(ownMax[v], Only(newMaxSignal[v], taken)), UnionSig(got)) \in Signals
    <3>1. UnionSig(got) \in Signals
      BY <2>2, UnionSigFacts
    <3>2. Merge(ownMax[v], Only(newMaxSignal[v], taken)) \in Signals
      BY <1>2, PartTypes, MergeIsJoin
    <3> QED
      BY <1>1, <1>2, <3>1, <3>2, PartTypes, MergeIsJoin
  <2>4. /\ newMaxSignal' \in [VMs -> Signals] /\ ownMax' \in [VMs -> Signals]
        /\ ownCorpus' \in [VMs -> Signals] /\ inputs' \in [VMs -> SUBSET Inputs]
    BY <1>1, <2>1, <2>3 DEF TypeOK
  <2>5. UNCHANGED <<fuzzers, rotated, rotatedSignal, corpusSignal, checkFailures, vm,
                    snapshot, requests, missed>>
    BY <1>5 DEF PollInputs
  <2> QED
    BY <1>1, <2>4, <2>5 DEF TypeOK
<1> QED
  BY <1>3, <1>4, <1>5 DEF Poll

LEMMA TypesKept ==
  ASSUME TypeOK, MgrTypeOK', [Next]_vars
  PROVE  TypeOK'
<1>1. ASSUME NEW v \in VMs, VMCrash(v) PROVE TypeOK'
  BY <1>1, NoSignalType DEF VMCrash, TypeOK, VMStates, servVars
<1>2. ASSUME NEW v \in VMs, shutdownInstance(v) PROVE TypeOK'
  BY <1>2, NoSignalType DEF shutdownInstance, TypeOK, VMStates
<1>3. CASE \E v \in VMs : TriageDone(v)
  BY <1>3 DEF TriageDone, TypeOK, servVars, vmVars
<1>4. CASE HubLoop
  BY <1>4 DEF HubLoop, TypeOK, servVars, vmVars
<1>5. CASE UNCHANGED vars
  BY <1>5 DEF vars, TypeOK, servVars, vmVars
<1> QED
  BY <1>1, <1>2, <1>3, <1>4, <1>5, ConnectTypes, InputTypes, PollTypes DEF Next

-----------------------------------------------------------------------------
(***************************************************************************)
(* serv.corpusSignal and mgr.corpus.                                       *)
(***************************************************************************)

\* What NewInput does to serv.corpusSignal: the old item of a program adds
\* nothing, since the signal of the corpus covers it already.
LEMMA NewInputSignal ==
  ASSUME CorpusSignalExact, NEW r \in requests, NewInput(r)
  PROVE  /\ corpusSignal' \in Signals
         /\ Covers(corpusSignal', MergedSignal(r.prog, r.sig))
         /\ Covers(corpusSignal', corpusSignal)
         /\ \A e \in Elems : \/ corpusSignal'[e] = corpusSignal[e]
                             \/ Genuine(r) /\ corpusSignal'[e] = r.sig[e]
         /\ \A e \in Elems : \/ corpusSignal'[e] = corpusSignal[e]
                             \/ corpusSignal'[e] = MergedSignal(r.prog, r.sig)[e]
<1> DEFINE s == MergedSignal(r.prog, r.sig)
<1> TypeOK /\ MgrTypeOK
  BY DEF CorpusSignalExact, TypeOK
<1>1. /\ r.prog \in Progs /\ r.sig \in Signals /\ s \in Signals
      /\ corpusSignal \in Signals /\ item[r.prog] \in Signals
  BY RequestTypes DEF TypeOK, MgrTypeOK
<1>2. ASSUME NEW e \in Elems
      PROVE  /\ corpusSignal[e] \in Int /\ s[e] \in Int /\ r.sig[e] \in Int
             /\ s[e] >= r.sig[e]
             /\ s[e] = r.sig[e] \/ s[e] <= corpusSignal[e]
  <2>1. corpusSignal[e] \in Int /\ s[e] \in Int /\ r.sig[e] \in Int /\ item[r.prog][e] \in Int
    BY <1>1, SignalValues
  <2>2. CASE r.prog \in corpus
    <3>1. item[r.prog][e] <= corpusSignal[e]
      BY <2>2 DEF CorpusSignalExact, IsUnion
    <3>2. s = Merge(r.sig, item[r.prog])
      BY <2>2 DEF MergedSignal
    <3>3. /\ s[e] = r.sig[e] \/ s[e] = item[r.prog][e]
          /\ s[e] >= r.sig[e]
      BY <1>1, <3>2, MergeValue
    <3> QED
      BY <2>1, <3>1, <3>3
  <2>3. CASE r.prog \notin corpus
    BY <2>1, <2>3 DEF MergedSignal
  <2> QED
    BY <2>2, <2>3, <2>1
<1> HIDE DEF s
<1>3. CASE Genuine(r)
  <2>1. corpusSignal' = Merge(corpusSignal, s)
    BY <1>3 DEF NewInput, MergeGenuine, s
  <2>2. corpusSignal' \in Signals /\ Covers(corpusSignal', s) /\ Covers(corpusSignal', corpusSignal)
    BY <1>1, <2>1, MergeIsJoin
  <2>3. ASSUME NEW e \in Elems
        PROVE  /\ corpusSignal'[e] = corpusSignal[e] \/ corpusSignal'[e] = s[e]
               /\ corpusSignal'[e] = corpusSignal[e] \/ corpusSignal'[e] = r.sig[e]
    <3>1. /\ corpusSignal'[e] = corpusSignal[e] \/ corpusSignal'[e] = s[e]
          /\ corpusSignal'[e] >= corpusSignal[e] /\ corpusSignal'[e] \in Int
      BY <1>1, <2>1, <2>2, MergeValue, SignalValues
    <3> QED
      BY <3>1, <1>2
  <2> QED
    BY <1>3, <2>2, <2>3 DEF s
<1>4. CASE ~Genuine(r)
  <2>1. corpusSignal' = corpusSignal
    BY <1>4 DEF NewInput
  <2>2. Covers(corpusSignal, r.sig)
    BY <1>1, <1>4, DiffIsComplement DEF Genuine
  <2>3. Covers(corpusSignal, s)
    <3> SUFFICES ASSUME NEW e \in Elems PROVE corpusSignal[e] >= s[e]
      BY DEF Covers
    <3>1. corpusSignal[e] >= r.sig[e]
      BY <2>2 DEF Covers
    <3> QED
      BY <3>1, <1>2
  <2>4. Covers(corpusSignal, corpusSignal)
    BY <1>1, CoversOrder
  <2> QED
    BY <1>1, <2>1, <2>3, <2>4 DEF s
<1> QED
  BY <1>3, <1>4

LEMMA minimizeCorpusExact ==
  ASSUME CorpusSignalExact, minimizeCorpus, corpusSignal' = corpusSignal
  PROVE  IsUnion(corpusSignal, corpus, item)'
<1> MgrTypeOK /\ corpusSignal \in Signals /\ IsUnion(corpusSignal, corpus, item)
  BY DEF CorpusSignalExact, TypeOK
<1>1. CASE UNCHANGED corpusVars
  BY <1>1 DEF corpusVars, IsUnion
<1>2. CASE \E rank \in Orders(corpus) :
             LET kept == Minimize(corpus, item, rank) IN
             /\ corpus' = kept
             /\ item' = [p \in Progs |-> IF p \in kept THEN item[p] ELSE NoSignal]
  <2>1. PICK rank \in Orders(corpus) :
             /\ corpus' = Minimize(corpus, item, rank)
             /\ item' = [p \in Progs |-> IF p \in Minimize(corpus, item, rank)
                                        THEN item[p] ELSE NoSignal]
    BY <1>2
  <2>2. /\ IsFiniteSet(corpus) /\ corpus' \subseteq corpus
        /\ \A k \in corpus : k \in Progs /\ item[k] \in Signals
        /\ \A k \in corpus' : item'[k] = item[k]
    BY <2>1, FiniteProgs DEF Minimize, MgrTypeOK
  <2> SUFFICES ASSUME NEW e \in Elems
               PROVE  /\ \A k \in corpus' : item'[k][e] <= corpusSignal[e]
                      /\ corpusSignal[e] # Absent => \E k \in corpus' : item'[k][e] = corpusSignal[e]
    BY DEF IsUnion
  <2>3. \A k \in corpus : item[k][e] <= corpusSignal[e] /\ item[k][e] \in Int
    BY <2>2, SignalValues DEF IsUnion
  <2>4. ASSUME corpusSignal[e] # Absent
        PROVE  \E k \in corpus' : item'[k][e] = corpusSignal[e]
    <3>1. PICK k \in corpus : item[k][e] = corpusSignal[e]
      BY <2>4 DEF IsUnion
    <3>2. PICK w \in corpus' : item[w][e] >= item[k][e]
      BY <2>1, <2>2, <2>4, <3>1, MinimizeKeepsSignal
    <3>3. item[w][e] = corpusSignal[e]
      BY <2>2, <2>3, <3>1, <3>2, SignalValues
    <3> QED
      BY <2>2, <3>3
  <2> QED
    BY <2>2, <2>3, <2>4
<1> QED
  BY <1>1, <1>2 DEF minimizeCorpus

LEMMA NewInputExact ==
  ASSUME CorpusSignalExact, NEW r \in requests, NewInput(r)
  PROVE  IsUnion(corpusSignal, corpus, item)'
<1> DEFINE s == MergedSignal(r.prog, r.sig)
           p == r.prog
<1> TypeOK /\ MgrTypeOK /\ IsUnion(corpusSignal, corpus, item)
  BY DEF CorpusSignalExact, TypeOK
<1>1. /\ p \in Progs /\ r.sig \in Signals /\ s \in Signals /\ corpusSignal \in Signals
      /\ item \in [Progs -> Signals] /\ corpus \subseteq Progs
  BY RequestTypes DEF TypeOK, MgrTypeOK
<1>2. corpus' = corpus \cup {p} /\ item' = [item EXCEPT ![p] = s]
  BY DEF NewInput, newInput
<1>3. p \in corpus => Covers(s, item[p])
  BY <1>1, MergeIsJoin DEF MergedSignal
<1>4. /\ corpusSignal' \in Signals
      /\ Covers(corpusSignal', s)
      /\ Covers(corpusSignal', corpusSignal)
      /\ \A e \in Elems : corpusSignal'[e] = corpusSignal[e] \/ corpusSignal'[e] = s[e]
  BY NewInputSignal
<1> HIDE DEF s, p
<1> SUFFICES ASSUME NEW e \in Elems
             PROVE  /\ \A k \in corpus' : item'[k][e] <= corpusSignal'[e]
                    /\ corpusSignal'[e] # Absent =>
                         \E k \in corpus' : item'[k][e] = corpusSignal'[e]
  BY DEF IsUnion
<1>5. /\ corpusSignal[e] \in Int /\ corpusSignal'[e] \in Int /\ s[e] \in Int
      /\ \A k \in corpus : item[k][e] \in Int
      /\ corpusSignal'[e] >= s[e] /\ corpusSignal'[e] >= corpusSignal[e]
      /\ p \in corpus => s[e] >= item[p][e]
      /\ corpusSignal'[e] = corpusSignal[e] \/ corpusSignal'[e] = s[e]
  BY <1>1, <1>3, <1>4, SignalValues DEF Covers
<1>6. /\ \A k \in corpus : item[k][e] <= corpusSignal[e]
      /\ corpusSignal[e] # Absent => \E k \in corpus : item[k][e] = corpusSignal[e]
  BY DEF IsUnion
<1>7. item'[p] = s /\ \A k \in corpus : k # p => item'[k] = item[k]
  BY <1>1, <1>2
<1>8. ASSUME NEW k \in corpus' PROVE item'[k][e] <= corpusSignal'[e]
  <2>1. CASE k = p
    BY <2>1, <1>5, <1>7
  <2>2. CASE k # p
    BY <2>2, <1>2, <1>5, <1>6, <1>7
  <2> QED
    BY <2>1, <2>2
<1>9. ASSUME corpusSignal'[e] # Absent
      PROVE  \E k \in corpus' : item'[k][e] = corpusSignal'[e]
  <2>1. CASE corpusSignal'[e] = s[e]
    BY <2>1, <1>2, <1>7
  <2>2. CASE corpusSignal'[e] = corpusSignal[e]
    <3>1. PICK k \in corpus : item[k][e] = corpusSignal[e]
      BY <1>6, <1>9, <2>2
    <3>2. CASE k = p
      BY <3>1, <3>2, <2>2, <1>2, <1>5, <1>7
    <3>3. CASE k # p
      BY <3>1, <3>3, <2>2, <1>2, <1>7
    <3> QED
      BY <3>2, <3>3
  <2> QED
    BY <2>1, <2>2, <1>5
<1> QED
  BY <1>8, <1>9

LEMMA SignalStaysExact ==
  ASSUME CorpusSignalExact, [Next]_vars
  PROVE  IsUnion(corpusSignal, corpus, item)'
<1> IsUnion(corpusSignal, corpus, item)
  BY DEF CorpusSignalExact
<1>1. CASE corpusSignal' = corpusSignal /\ corpus' = corpus /\ item' = item
  BY <1>1
<1>2. CASE minimizeCorpus /\ corpusSignal' = corpusSignal
  BY <1>2, minimizeCorpusExact
<1>3. CASE \E r \in requests : NewInput(r)
  BY <1>3, NewInputExact
<1>4. ASSUME NEW v \in VMs, CheckFailsForGood(v)
      PROVE  IsUnion(corpusSignal, corpus, item)'
  BY <1>4 DEF CheckFailsForGood, restart, IsUnion, NoSignal
<1>5. CASE \E v \in VMs : ConnectSnapshot(v)
  BY <1>2, <1>5 DEF ConnectSnapshot, servVars
<1>6. CASE HubLoop
  <2>1. corpusSignal' = corpusSignal
    BY <1>6 DEF HubLoop, servVars
  <2>2. CASE minimizeCorpus
    BY <1>2, <2>1, <2>2
  <2>3. CASE (\E ps \in SUBSET HubProgs : addNewCandidates(ps)) \/ hubIsUnreachable
    BY <1>1, <2>1, <2>3 DEF addNewCandidates, hubIsUnreachable, corpusVars
  <2> QED
    BY <1>6, <2>2, <2>3 DEF HubLoop
<1>7. CASE \E v \in VMs : ConnectRegister(v) \/ CheckAgain(v) \/ CheckFails(v)
                          \/ PollRotated(v) \/ shutdownInstance(v)
  BY <1>1, <1>7 DEF ConnectRegister, CheckAgain, CheckFails, PollRotated, shutdownInstance,
                    mgrVars, corpusVars, servVars
<1>8. CASE \E v \in VMs : Check(v)
  BY <1>1, <1>8 DEF Check, machineChecked, corpusVars, servVars
<1>9. CASE \E v \in VMs, p \in Progs, c \in Calls, s \in InputSignals : SendInput(v, p, c, s)
  BY <1>1, <1>9 DEF SendInput, mgrVars, corpusVars, servVars
<1>10. CASE \E v \in VMs, b \in Batches : PollCandidates(v, b)
  BY <1>1, <1>10 DEF PollCandidates, candidateBatch, corpusVars
<1>11. CASE \E v \in VMs, need \in BOOLEAN : PollInputs(v, need)
  BY <1>1, <1>11 DEF PollInputs, candidateBatch, mgrVars, corpusVars
<1>12. CASE \E v \in VMs : TriageDone(v) \/ VMCrash(v)
  BY <1>1, <1>12 DEF TriageDone, VMCrash, triageDone, vmCrash, corpusVars, servVars
<1>13. CASE \E r \in requests : NewInputDropped(r)
  BY <1>1, <1>13 DEF NewInputDropped, mgrVars, corpusVars, servVars
<1>14. CASE UNCHANGED vars
  BY <1>1, <1>14 DEF vars, mgrVars, corpusVars, servVars
<1> QED
  BY <1>3, <1>4, <1>5, <1>6, <1>7, <1>8, <1>9, <1>10, <1>11, <1>12, <1>13, <1>14
  DEF Next, Poll, HandleInput

-----------------------------------------------------------------------------
(***************************************************************************)
(* Requests and what a VM knows of itself.                                 *)
(***************************************************************************)

LEMMA PhaseNeverBack ==
  ASSUME MgrTypeOK, phase # phaseInit, [MgrNext]_mgrVars, ~restart
  PROVE  phase' # phaseInit /\ disabled' = disabled
<1> phase \in 0 .. 4
  BY DEF MgrTypeOK
<1>1. CASE \E dis \in SUBSET Disableable : machineChecked(dis)
  BY <1>1 DEF machineChecked
<1>2. CASE minimizeCorpus
  BY <1>2 DEF minimizeCorpus, checkVars
<1>3. CASE \E p \in Runnable, c \in Calls, s \in InputSignals : newInput(p, c, s)
  BY <1>3 DEF newInput, checkVars
<1>4. CASE \E v \in VMs, b \in Batches : candidateBatch(v, b)
  BY <1>4 DEF candidateBatch, PhaseAfterBatch, checkVars
<1>5. CASE (\E ps \in SUBSET HubProgs : addNewCandidates(ps)) \/ hubIsUnreachable
  BY <1>5 DEF addNewCandidates, PhaseAfterHub, hubIsUnreachable, checkVars
<1>6. CASE (\E v \in VMs, p \in Progs : triageDone(v, p)) \/ \E v \in VMs : vmCrash(v)
  BY <1>6 DEF triageDone, vmCrash, checkVars
<1>7. CASE UNCHANGED mgrVars
  BY <1>7 DEF mgrVars, checkVars
<1> QED
  BY <1>1, <1>2, <1>3, <1>4, <1>5, <1>6, <1>7 DEF MgrNext

\* The manager starts again only when the machine check fails for good: every
\* other step leaves the result of the check alone.
LEMMA RestartClears ==
  ASSUME [Next]_vars, restart, TypeOK, RequestsRunnable
  PROVE  phase = phaseInit \/ \E v \in VMs : CheckFailsForGood(v)
<1> phase \in 0 .. 4
  BY DEF TypeOK, MgrTypeOK
<1> SUFFICES ASSUME phase # phaseInit PROVE \E v \in VMs : CheckFailsForGood(v)
  OBVIOUS
<1>0. phase' = phaseInit
  BY DEF restart
<1>1. CASE \E v \in VMs : ConnectSnapshot(v)
  BY <1>0, <1>1 DEF ConnectSnapshot, minimizeCorpus
<1>2. CASE \E v \in VMs : ConnectRegister(v) \/ CheckAgain(v) \/ CheckFails(v)
                          \/ PollRotated(v) \/ shutdownInstance(v)
  BY <1>0, <1>2 DEF ConnectRegister, CheckAgain, CheckFails, PollRotated, shutdownInstance,
                    mgrVars
<1>3. CASE \E v \in VMs : Check(v)
  BY <1>3 DEF Check
<1>4. CASE \E v \in VMs, p \in Progs, c \in Calls, s \in InputSignals : SendInput(v, p, c, s)
  BY <1>0, <1>4 DEF SendInput, mgrVars
<1>5. CASE \E v \in VMs, b \in Batches : PollCandidates(v, b)
  BY <1>0, <1>5 DEF PollCandidates, candidateBatch, PhaseAfterBatch
<1>6. CASE \E v \in VMs, need \in BOOLEAN : PollInputs(v, need)
  BY <1>0, <1>6 DEF PollInputs, candidateBatch, PhaseAfterBatch, mgrVars
<1>7. CASE \E v \in VMs : TriageDone(v) \/ VMCrash(v)
  BY <1>0, <1>7 DEF TriageDone, VMCrash, triageDone, vmCrash
<1>8. CASE \E r \in requests : HandleInput(r)
  BY <1>0, <1>8 DEF HandleInput, NewInput, newInput, NewInputDropped, mgrVars
<1>9. CASE HubLoop
  BY <1>0, <1>9 DEF HubLoop, minimizeCorpus, addNewCandidates, hubIsUnreachable, PhaseAfterHub
<1>10. CASE UNCHANGED vars
  BY <1>0, <1>10 DEF vars, mgrVars
<1> QED
  BY <1>1, <1>2, <1>3, <1>4, <1>5, <1>6, <1>7, <1>8, <1>9, <1>10 DEF Next, Poll

\* How a VM starts to fuzz, and where requests come from.
LEMMA WhoFuzzes ==
  ASSUME TypeOK, [Next]_vars
  PROVE  /\ \A v \in VMs : vm'[v] = "fuzzing" => vm[v] = "fuzzing" \/ phase' # phaseInit
         /\ \A r \in requests' :
              \/ r \in requests
              \/ r.prog \in Runnable /\ vm[r.vm] = "fuzzing" /\ r.vm \in VMs
<1> vm \in [VMs -> VMStates] /\ phase \in 0 .. 4
  BY DEF TypeOK, MgrTypeOK
<1>1. CASE \E v \in VMs : ConnectSnapshot(v)
  BY <1>1 DEF ConnectSnapshot
<1>2. CASE \E v \in VMs : ConnectRegister(v)
  BY <1>2 DEF ConnectRegister, mgrVars
<1>3. CASE \E v \in VMs : CheckAgain(v) \/ CheckFails(v)
  BY <1>3 DEF CheckAgain, CheckFails, mgrVars
<1>4. CASE \E v \in VMs : Check(v)
  BY <1>4 DEF Check, machineChecked
<1>5. CASE \E v \in VMs : CheckFailsForGood(v)
  BY <1>5 DEF CheckFailsForGood, NoneOf
<1>6. CASE \E v \in VMs, p \in Progs, c \in Calls, s \in InputSignals : SendInput(v, p, c, s)
  BY <1>6 DEF SendInput
<1>7. CASE \E v \in VMs : Poll(v)
  BY <1>7 DEF Poll, PollRotated, PollCandidates, PollInputs
<1>8. CASE \E v \in VMs : TriageDone(v) \/ VMCrash(v) \/ shutdownInstance(v)
  BY <1>8 DEF TriageDone, VMCrash, shutdownInstance, vmVars
<1>9. CASE \E r \in requests : HandleInput(r)
  BY <1>9 DEF HandleInput, NewInput, NewInputDropped
<1>10. CASE HubLoop \/ UNCHANGED vars
  BY <1>10 DEF HubLoop, vmVars, vars
<1> QED
  BY <1>1, <1>2, <1>3, <1>4, <1>5, <1>6, <1>7, <1>8, <1>9, <1>10 DEF Next

LEMMA RequestsStayRunnable ==
  ASSUME TypeOK, RequestsRunnable, [Next]_vars
  PROVE  RequestsRunnable'
<1> phase \in 0 .. 4 /\ MgrTypeOK
  BY DEF TypeOK, MgrTypeOK
<1>1. CASE \E v \in VMs : CheckFailsForGood(v)
  BY <1>1 DEF CheckFailsForGood, NoneOf, RequestsRunnable
<1>2. CASE ~ \E v \in VMs : CheckFailsForGood(v)
  <2>1. [MgrNext]_mgrVars
    BY StepsOfManager
  <2>2. phase # phaseInit => ~restart
    BY <1>2, RestartClears
  <2>3. phase # phaseInit => phase' # phaseInit /\ Runnable' = Runnable
    BY <2>1, <2>2, PhaseNeverBack DEF Runnable
  <2>4. /\ \A v \in VMs : vm'[v] = "fuzzing" => vm[v] = "fuzzing" \/ phase' # phaseInit
        /\ \A r \in requests' :
             \/ r \in requests
             \/ r.prog \in Runnable /\ vm[r.vm] = "fuzzing" /\ r.vm \in VMs
    BY WhoFuzzes
  <2>5. \A v \in VMs : vm'[v] = "fuzzing" => phase' # phaseInit
    BY <2>3, <2>4 DEF RequestsRunnable
  <2>6. \A r \in requests' : phase # phaseInit /\ r.prog \in Runnable
    BY <2>4 DEF RequestsRunnable
  <2> QED
    BY <2>3, <2>5, <2>6 DEF RequestsRunnable
<1> QED
  BY <1>1, <1>2

LEMMA RequestsStayOfOwner ==
  ASSUME TypeOK, RequestsOfOwner, [Next]_vars
  PROVE  RequestsOfOwner'
<1>0. /\ vm \in [VMs -> VMStates] /\ ownCorpus \in [VMs -> Signals]
      /\ \A r \in requests : r.vm \in VMs /\ r.sig \in Signals
  BY RequestTypes DEF TypeOK
<1>1. ASSUME NEW v \in VMs, ConnectSnapshot(v) PROVE RequestsOfOwner'
  BY <1>0, <1>1 DEF ConnectSnapshot, RequestsOfOwner
<1>2. ASSUME NEW v \in VMs,
             ConnectRegister(v) \/ CheckAgain(v) \/ Check(v) \/ CheckFails(v)
      PROVE  RequestsOfOwner'
  BY <1>0, <1>2 DEF ConnectRegister, CheckAgain, Check, CheckFails, RequestsOfOwner
<1>3. CASE \E v \in VMs : CheckFailsForGood(v)
  BY <1>3 DEF CheckFailsForGood, RequestsOfOwner
<1>4. ASSUME NEW v \in VMs, NEW p \in Progs, NEW c \in Calls, NEW s \in InputSignals,
             SendInput(v, p, c, s)
      PROVE  RequestsOfOwner'
  <2>1. s \in Signals /\ vm' = vm /\ vm[v] = "fuzzing"
        /\ ownCorpus' = [ownCorpus EXCEPT ![v] = Merge(@, s)]
        /\ requests' = requests \cup {[vm |-> v, prog |-> p, call |-> c, sig |-> s]}
    BY <1>4, InputAssumption DEF SendInput
  <2>2. Covers(Merge(ownCorpus[v], s), s)
    BY <1>0, <2>1, MergeIsJoin
  <2>3. ASSUME NEW r \in requests
        PROVE  Covers(ownCorpus[r.vm], r.sig) => Covers(ownCorpus'[r.vm], r.sig)
    <3>1. CASE r.vm = v
      BY <1>0, <2>1, <3>1, MergeMonotone
    <3>2. CASE r.vm # v
      BY <1>0, <2>1, <3>2
    <3> QED
      BY <3>1, <3>2
  <2>4. ownCorpus'[v] = Merge(ownCorpus[v], s)
    BY <1>0, <2>1
  <2>5. \A r \in requests : /\ vm'[r.vm] \notin {"connecting", "checking"}
                            /\ vm'[r.vm] = "fuzzing" => Covers(ownCorpus'[r.vm], r.sig)
    BY <2>1, <2>3 DEF RequestsOfOwner
  <2> QED
    BY <2>1, <2>2, <2>4, <2>5 DEF RequestsOfOwner
<1>5. ASSUME NEW v \in VMs, PollRotated(v) \/ \E b \in Batches : PollCandidates(v, b)
      PROVE  RequestsOfOwner'
  BY <1>5 DEF PollRotated, PollCandidates, RequestsOfOwner
<1>6. ASSUME NEW v \in VMs, NEW need \in BOOLEAN, PollInputs(v, need)
      PROVE  RequestsOfOwner'
  <2>1. PICK got \in InputBatches(v) :
          ownCorpus' = [ownCorpus EXCEPT ![v] = Merge(@, UnionSig(got))]
    BY <1>6 DEF PollInputs
  <2>2. UnionSig(got) \in Signals
    <3>1. got \subseteq inputs[v] /\ inputs[v] \subseteq Inputs
      BY <2>1 DEF InputBatches, TypeOK
    <3> QED
      BY <3>1, UnionSigFacts
  <2>3. ASSUME NEW r \in requests
        PROVE  Covers(ownCorpus[r.vm], r.sig) => Covers(ownCorpus'[r.vm], r.sig)
    <3>1. CASE r.vm = v
      BY <1>0, <2>1, <2>2, <3>1, MergeMonotone
    <3>2. CASE r.vm # v
      BY <1>0, <2>1, <3>2
    <3> QED
      BY <3>1, <3>2
  <2>4. vm' = vm /\ requests' = requests
    BY <1>6 DEF PollInputs
  <2> QED
    BY <2>3, <2>4 DEF RequestsOfOwner
<1>7. ASSUME NEW v \in VMs, VMCrash(v) \/ shutdownInstance(v) PROVE RequestsOfOwner'
  BY <1>0, <1>7 DEF VMCrash, shutdownInstance, RequestsOfOwner
<1>8. CASE \E r \in requests : HandleInput(r)
  BY <1>8 DEF HandleInput, NewInput, NewInputDropped, RequestsOfOwner
<1>9. CASE (\E v \in VMs : TriageDone(v)) \/ HubLoop \/ UNCHANGED vars
  BY <1>9 DEF TriageDone, HubLoop, vars, vmVars, RequestsOfOwner
<1> QED
  BY <1>1, <1>2, <1>3, <1>4, <1>5, <1>6, <1>7, <1>8, <1>9 DEF Next, Poll

LEMMA OwnNewStaysKnown ==
  ASSUME TypeOK, OwnNewKnown, [Next]_vars
  PROVE  OwnNewKnown'
<1>0. ownMax \in [VMs -> Signals] /\ ownNew \in [VMs -> Signals]
  BY DEF TypeOK
<1>1. CASE UNCHANGED <<ownMax, ownNew>>
  BY <1>1 DEF OwnNewKnown
<1>2. ASSUME NEW v \in VMs, NEW p \in Progs, NEW c \in Calls, NEW s \in InputSignals,
             SendInput(v, p, c, s)
      PROVE  OwnNewKnown'
  <2>1. /\ s \in Signals
        /\ ownMax' = [ownMax EXCEPT ![v] = Merge(@, s)]
        /\ ownNew' = [ownNew EXCEPT ![v] = Merge(@, Diff(ownMax[v], s))]
    BY <1>2, InputAssumption DEF SendInput
  <2>2. Covers(Merge(ownMax[v], s), Merge(ownNew[v], Diff(ownMax[v], s)))
    <3>1. /\ Merge(ownMax[v], s) = Merge(ownMax[v], Diff(ownMax[v], s))
          /\ Diff(ownMax[v], s) \in Signals
      BY <1>0, <2>1, DiffIsComplement
    <3>2. Covers(ownMax[v], ownNew[v])
      BY DEF OwnNewKnown
    <3> QED
      BY <1>0, <3>1, <3>2, MergeMonotone
  <2> QED
    BY <1>0, <2>1, <2>2 DEF OwnNewKnown
<1>3. ASSUME NEW v \in VMs, Poll(v) PROVE OwnNewKnown'
  <2>1. ownNew' = [ownNew EXCEPT ![v] = NoSignal]
    BY <1>3 DEF Poll, PollRotated, PollCandidates, PollInputs, PollSignal
  <2>2. \A u \in VMs : u # v => ownMax'[u] = ownMax[u]
    BY <1>0, <1>3 DEF Poll, PollRotated, PollCandidates, PollInputs
  <2>3. ownMax'[v] \in Signals
    <3>1. CASE PollRotated(v)
      BY <1>0, <3>1 DEF PollRotated
    <3>2. CASE \E b \in Batches : PollCandidates(v, b)
      <4>1. PICK taken : ownMax' = [ownMax EXCEPT ![v] = Merge(@, Only(newMaxSignal[v], taken))]
        BY <3>2 DEF PollCandidates
      <4>2. Merge(ownMax[v], Only(newMaxSignal[v], taken)) \in Signals
        BY <1>0, PartTypes, MergeIsJoin DEF TypeOK
      <4> QED
        BY <1>0, <4>1, <4>2
    <3>3. CASE \E need \in BOOLEAN : PollInputs(v, need)
      <4>1. PICK got, taken :
              /\ got \in InputBatches(v)
              /\ ownMax' = [ownMax EXCEPT ![v] =
                              Merge(Merge(@, Only(newMaxSignal[v], taken)), UnionSig(got))]
        BY <3>3 DEF PollInputs
      <4>2. got \subseteq inputs[v] /\ inputs[v] \subseteq Inputs
        BY <4>1 DEF InputBatches, TypeOK
      <4>3. UnionSig(got) \in Signals /\ Merge(ownMax[v], Only(newMaxSignal[v], taken)) \in Signals
        BY <1>0, <4>2, PartTypes, MergeIsJoin, UnionSigFacts DEF TypeOK
      <4> QED
        BY <1>0, <4>1, <4>3, MergeIsJoin
    <3> QED
      BY <1>3, <3>1, <3>2, <3>3 DEF Poll
  <2>4. Covers(ownMax'[v], NoSignal)
    BY <2>3, CoversOrder
  <2> QED
    BY <1>0, <2>1, <2>2, <2>4 DEF OwnNewKnown
<1>4. ASSUME NEW v \in VMs, VMCrash(v) PROVE OwnNewKnown'
  BY <1>0, <1>4, NoSignalType, CoversOrder DEF VMCrash, OwnNewKnown
<1>5. CASE \E v \in VMs : CheckFailsForGood(v)
  BY <1>5, NoSignalType, CoversOrder DEF CheckFailsForGood, NoneOf, OwnNewKnown
<1>6. CASE \E v \in VMs : \/ ConnectSnapshot(v) \/ ConnectRegister(v) \/ CheckAgain(v)
                          \/ Check(v) \/ CheckFails(v) \/ TriageDone(v) \/ shutdownInstance(v)
  BY <1>1, <1>6 DEF ConnectSnapshot, ConnectRegister, CheckAgain, Check, CheckFails,
                    TriageDone, shutdownInstance, vmVars
<1>7. CASE (\E r \in requests : HandleInput(r)) \/ HubLoop \/ UNCHANGED vars
  BY <1>1, <1>7 DEF HandleInput, NewInput, NewInputDropped, HubLoop, vars, vmVars
<1> QED
  BY <1>2, <1>3, <1>4, <1>5, <1>6, <1>7 DEF Next

-----------------------------------------------------------------------------
(***************************************************************************)
(* What rotated VMs are held to, and what reaches the others.              *)
(***************************************************************************)

LEMMA RotatedStaysWithin ==
  ASSUME CorpusSignalExact, RotatedWithinCorpus, [Next]_vars
  PROVE  RotatedWithinCorpus'
<1> TypeOK
  BY DEF CorpusSignalExact
<1>0. rotatedSignal \in [VMs -> Signals] /\ corpusSignal \in Signals
  BY DEF TypeOK
<1>1. CASE UNCHANGED <<corpusSignal, rotatedSignal>>
  BY <1>1 DEF RotatedWithinCorpus
<1>2. ASSUME NEW v \in VMs, ConnectRegister(v) PROVE RotatedWithinCorpus'
  <2>1. corpusSignal' = corpusSignal
    BY <1>2 DEF ConnectRegister
  <2>2. PICK t : rotatedSignal' = [rotatedSignal EXCEPT ![v] = t] /\ Covers(corpusSignal, t)
    <3>1. CASE RegisterPlain(v)
      BY <1>0, <3>1, CoversOrder DEF RegisterPlain
    <3>2. CASE RegisterRotated(v)
      <4>1. PICK sig : rotatedSignal' = [rotatedSignal EXCEPT ![v] = RotatedFrom(sig)]
        BY <3>2 DEF RegisterRotated
      <4>2. Covers(corpusSignal, RotatedFrom(sig))
        BY <1>0, SignalValues DEF RotatedFrom, Intersection, Covers
      <4> QED
        BY <4>1, <4>2
    <3> QED
      BY <1>2, <3>1, <3>2 DEF ConnectRegister
  <2> QED
    BY <1>0, <2>1, <2>2 DEF RotatedWithinCorpus
<1>3. ASSUME NEW r \in requests, NewInput(r) PROVE RotatedWithinCorpus'
  <2> DEFINE s == MergedSignal(r.prog, r.sig)
  <2>1. r.vm \in VMs /\ s \in Signals
    BY RequestTypes
  <2>2. corpusSignal' \in Signals /\ Covers(corpusSignal', s) /\ Covers(corpusSignal', corpusSignal)
    BY <1>3, NewInputSignal
  <2>3. \/ rotatedSignal' = rotatedSignal
        \/ rotatedSignal' = [rotatedSignal EXCEPT ![r.vm] = Merge(@, s)]
    BY <1>3 DEF NewInput
  <2> HIDE DEF s
  <2>4. \A v \in VMs : Covers(corpusSignal', rotatedSignal[v])
    BY <1>0, <2>2, CoversOrder DEF RotatedWithinCorpus
  <2>5. Covers(corpusSignal', Merge(rotatedSignal[r.vm], s))
    BY <1>0, <2>1, <2>2, <2>4, MergeIsJoin
  <2> QED
    BY <1>0, <2>1, <2>3, <2>4, <2>5 DEF RotatedWithinCorpus
<1>4. ASSUME NEW v \in VMs, shutdownInstance(v) PROVE RotatedWithinCorpus'
  BY <1>0, <1>4, CoversOrder DEF shutdownInstance, RotatedWithinCorpus
<1>5. CASE \E v \in VMs : CheckFailsForGood(v)
  BY <1>5, NoSignalType, CoversOrder DEF CheckFailsForGood, NoneOf, RotatedWithinCorpus
<1>6. CASE \E v \in VMs : \/ ConnectSnapshot(v) \/ CheckAgain(v) \/ Check(v) \/ CheckFails(v)
                          \/ TriageDone(v) \/ VMCrash(v)
  BY <1>1, <1>6 DEF ConnectSnapshot, CheckAgain, Check, CheckFails, TriageDone, VMCrash,
                    servVars
<1>7. CASE \E v \in VMs : Poll(v)
  BY <1>1, <1>7 DEF Poll, PollRotated, PollCandidates, PollInputs
<1>8. CASE \E v \in VMs, p \in Progs, c \in Calls, s \in InputSignals : SendInput(v, p, c, s)
  BY <1>1, <1>8 DEF SendInput, servVars
<1>9. CASE (\E r \in requests : NewInputDropped(r)) \/ HubLoop \/ UNCHANGED vars
  BY <1>1, <1>9 DEF NewInputDropped, HubLoop, vars, servVars
<1> QED
  BY <1>2, <1>3, <1>4, <1>5, <1>6, <1>7, <1>8, <1>9 DEF Next, HandleInput

LEMMA SnapshotStillReaches ==
  ASSUME CorpusSignalExact, CorpusSignalExact', SnapshotReaches, [Next]_vars
  PROVE  SnapshotReaches'
<1> TypeOK /\ TypeOK'
  BY DEF CorpusSignalExact
<1>0. /\ vm \in [VMs -> VMStates] /\ missed \in [VMs -> Signals]
      /\ snapshot \in [VMs -> SUBSET Inputs] /\ corpusSignal \in Signals
      /\ missed' \in [VMs -> Signals] /\ snapshot' \in [VMs -> SUBSET Inputs]
      /\ corpusSignal' \in Signals
  BY DEF TypeOK
<1>1. CASE /\ corpusSignal' = corpusSignal
           /\ \A u \in VMs : vm'[u] = "connecting" =>
                vm[u] = "connecting" /\ snapshot'[u] = snapshot[u] /\ missed'[u] = missed[u]
  BY <1>1 DEF SnapshotReaches
<1>2. ASSUME NEW v \in VMs, ConnectSnapshot(v) PROVE SnapshotReaches'
  <2>1. /\ corpusSignal' = corpusSignal
        /\ snapshot'[v] = {[prog |-> p, sig |-> item'[p]] : p \in corpus'}
        /\ \A u \in VMs : u # v => vm'[u] = vm[u] /\ snapshot'[u] = snapshot[u]
        /\ missed' = missed
    BY <1>0, <1>2 DEF ConnectSnapshot, servVars
  <2>2. Covers(Merge(UnionSig(snapshot'[v]), missed'[v]), corpusSignal')
    <3> DEFINE ins == snapshot'[v]
               miss == missed'[v]
               cs == corpusSignal'
    <3>1. ins \in SUBSET Inputs /\ miss \in Signals /\ cs \in Signals
      BY <1>0
    <3>2. ASSUME NEW e \in Elems, cs[e] # Absent
          PROVE  \E i \in ins : i.sig[e] >= cs[e]
      <4>1. PICK k \in corpus' : item'[k][e] = cs[e]
        BY <3>2 DEF CorpusSignalExact, IsUnion
      <4>2. [prog |-> k, sig |-> item'[k]] \in ins
        BY <2>1, <4>1
      <4>3. cs[e] \in Int
        BY <3>1, SignalValues
      <4> QED
        BY <4>1, <4>2, <4>3
    <3> HIDE DEF ins, miss, cs
    <3>3. Covers(Merge(UnionSig(ins), miss), cs)
      BY <3>1, <3>2, ReachesMeans
    <3> QED
      BY <3>3 DEF ins, miss, cs
  <2>3. ASSUME NEW u \in VMs, u # v, vm'[u] = "connecting"
        PROVE  Covers(Merge(UnionSig(snapshot'[u]), missed'[u]), corpusSignal')
    BY <2>1, <2>3 DEF SnapshotReaches
  <2> QED
    BY <2>2, <2>3 DEF SnapshotReaches
<1>3. ASSUME NEW r \in requests, NewInput(r) PROVE SnapshotReaches'
  <2>1. /\ vm' = vm /\ snapshot' = snapshot
        /\ Genuine(r) => \A u \in VMs : vm[u] = "connecting" => missed'[u] = Merge(missed[u], r.sig)
        /\ ~Genuine(r) => missed' = missed
    BY <1>3 DEF NewInput
  <2>2. /\ \A e \in Elems : \/ corpusSignal'[e] = corpusSignal[e]
                            \/ Genuine(r) /\ corpusSignal'[e] = r.sig[e]
        /\ r.sig \in Signals
    BY <1>3, NewInputSignal, RequestTypes
  <2>3. ASSUME NEW u \in VMs, vm[u] = "connecting"
        PROVE  Covers(Merge(UnionSig(snapshot[u]), missed'[u]), corpusSignal')
    <3> DEFINE ins == snapshot[u]
               miss == missed[u]
               miss1 == missed'[u]
               cs == corpusSignal
               cs1 == corpusSignal'
    <3>1. /\ ins \in SUBSET Inputs /\ miss \in Signals /\ cs \in Signals
          /\ miss1 \in Signals /\ cs1 \in Signals
      BY <1>0
    <3>2. /\ miss1 = Merge(miss, r.sig) \/ miss1 = miss
          /\ Genuine(r) => miss1 = Merge(miss, r.sig)
      BY <2>1, <2>3
    <3>3. Covers(Merge(UnionSig(ins), miss), cs)
      BY <2>3 DEF SnapshotReaches
    <3>4. \A e \in Elems : cs1[e] = cs[e] \/ (Genuine(r) /\ cs1[e] = r.sig[e])
      BY <2>2
    <3> HIDE DEF ins, miss, miss1, cs, cs1
    <3>5. ASSUME NEW e \in Elems
          PROVE  \/ cs1[e] = Absent \/ miss1[e] >= cs1[e]
                 \/ \E i \in ins : i.sig[e] >= cs1[e]
      <4>1. /\ miss1[e] >= miss[e]
            /\ Genuine(r) => miss1[e] >= r.sig[e]
            /\ miss1[e] \in Int /\ miss[e] \in Int /\ cs[e] \in Int /\ cs1[e] \in Int
        BY <2>2, <3>1, <3>2, MergeValue, SignalValues
      <4>2. cs[e] = Absent \/ miss[e] >= cs[e] \/ \E i \in ins : i.sig[e] >= cs[e]
        BY <3>1, <3>3, ReachesMeans, NoSignalType
      <4> QED
        BY <3>4, <4>1, <4>2
    <3>6. Covers(Merge(UnionSig(ins), miss1), cs1)
      BY <3>1, <3>5, ReachesMeans, NoSignalType
    <3> QED
      BY <3>6 DEF ins, miss1, cs1
  <2> QED
    BY <2>1, <2>3 DEF SnapshotReaches
<1>4. ASSUME NEW v \in VMs,
             \/ ConnectRegister(v) \/ CheckAgain(v) \/ Check(v) \/ CheckFails(v)
             \/ VMCrash(v) \/ shutdownInstance(v)
      PROVE  SnapshotReaches'
  <2>1. CASE ConnectRegister(v)
    BY <1>0, <1>1, <2>1 DEF ConnectRegister
  <2>2. CASE CheckAgain(v) \/ Check(v) \/ CheckFails(v)
    BY <1>0, <1>1, <2>2 DEF CheckAgain, Check, CheckFails, servVars
  <2>3. CASE VMCrash(v) \/ shutdownInstance(v)
    BY <1>0, <1>1, <2>3 DEF VMCrash, shutdownInstance, servVars
  <2> QED
    BY <1>4, <2>1, <2>2, <2>3
<1>5. CASE \E v \in VMs : CheckFailsForGood(v)
  BY <1>5 DEF CheckFailsForGood, NoneOf, SnapshotReaches
<1>6. CASE \E v \in VMs : Poll(v) \/ TriageDone(v)
  BY <1>1, <1>6 DEF Poll, PollRotated, PollCandidates, PollInputs, TriageDone, vmVars, servVars
<1>7. CASE \E v \in VMs, p \in Progs, c \in Calls, s \in InputSignals : SendInput(v, p, c, s)
  BY <1>1, <1>7 DEF SendInput, servVars
<1>8. CASE (\E r \in requests : NewInputDropped(r)) \/ HubLoop \/ UNCHANGED vars
  BY <1>1, <1>8 DEF NewInputDropped, HubLoop, vars, servVars, vmVars
<1> QED
  BY <1>2, <1>3, <1>4, <1>5, <1>6, <1>7, <1>8 DEF Next, HandleInput

\* Element by element: ReachedAfter(u) is what InputsReach' says of a live VM u.
LEMMA InputsStillReach ==
  ASSUME CorpusSignalExact, CorpusSignalExact', RequestsOfOwner, SnapshotReaches,
         InputsReach, [Next]_vars
  PROVE  InputsReach'
<1> TypeOK /\ TypeOK'
  BY DEF CorpusSignalExact
<1> DEFINE Live(u) == u \in fuzzers /\ ~rotated[u] /\ vm[u] # "crashed"
           Reached(u) == \A e \in Elems : \/ ownCorpus[u][e] >= corpusSignal[e]
                                          \/ missed[u][e] >= corpusSignal[e]
                                          \/ \E i \in inputs[u] : i.sig[e] >= corpusSignal[e]
           LiveAfter(u) == u \in fuzzers' /\ ~rotated'[u] /\ vm'[u] # "crashed"
           ReachedAfter(u) ==
             \A e \in Elems : \/ ownCorpus'[u][e] >= corpusSignal'[e]
                              \/ missed'[u][e] >= corpusSignal'[e]
                              \/ \E i \in inputs'[u] : i.sig[e] >= corpusSignal'[e]
<1>0. /\ vm \in [VMs -> VMStates] /\ missed \in [VMs -> Signals] /\ fuzzers \subseteq VMs
      /\ inputs \in [VMs -> SUBSET Inputs] /\ corpusSignal \in Signals
      /\ ownCorpus \in [VMs -> Signals] /\ rotated \in [VMs -> BOOLEAN]
      /\ snapshot \in [VMs -> SUBSET Inputs]
  BY DEF TypeOK
<1>1. /\ missed' \in [VMs -> Signals] /\ inputs' \in [VMs -> SUBSET Inputs]
      /\ corpusSignal' \in Signals /\ ownCorpus' \in [VMs -> Signals] /\ fuzzers' \subseteq VMs
  BY DEF TypeOK
<1>2. \A u \in VMs : Live(u) => Reached(u)
  <2> SUFFICES ASSUME NEW u \in VMs, Live(u) PROVE Reached(u)
    OBVIOUS
  <2>1. Covers(Merge(Merge(ownCorpus[u], UnionSig(inputs[u])), missed[u]), corpusSignal)
    BY DEF InputsReach
  <2>2. ownCorpus[u] \in Signals /\ inputs[u] \in SUBSET Inputs /\ missed[u] \in Signals
    BY <1>0
  <2> QED
    BY <1>0, <2>1, <2>2, ReachesMeans
<1>3. SUFFICES ASSUME NEW u \in VMs, LiveAfter(u) PROVE ReachedAfter(u)
  <2>1. ASSUME NEW u \in VMs, LiveAfter(u)
        PROVE  Covers(Merge(Merge(ownCorpus'[u], UnionSig(inputs'[u])), missed'[u]), corpusSignal')
    <3>1. ownCorpus'[u] \in Signals /\ inputs'[u] \in SUBSET Inputs /\ missed'[u] \in Signals
      BY <1>1
    <3>2. ReachedAfter(u)
      BY <1>3, <2>1
    <3> QED
      BY <1>1, <3>1, <3>2, ReachesMeans
  <2> QED
    BY <1>1, <2>1 DEF InputsReach
<1>4. CASE /\ corpusSignal' = corpusSignal /\ Live(u)
           /\ ownCorpus'[u] = ownCorpus[u] /\ missed'[u] = missed[u] /\ inputs'[u] = inputs[u]
  BY <1>2, <1>4
<1>5. ASSUME NEW v \in VMs, ConnectRegister(v) PROVE ReachedAfter(u)
  <2>1. /\ corpusSignal' = corpusSignal /\ ownCorpus' = ownCorpus /\ missed' = missed
        /\ fuzzers' = fuzzers \cup {v} /\ vm[v] = "connecting"
        /\ \A w \in VMs : w # v => vm'[w] = vm[w]
    BY <1>0, <1>5 DEF ConnectRegister
  <2>2. CASE u # v
    <3>1. inputs'[u] = inputs[u] /\ rotated'[u] = rotated[u]
      BY <1>0, <1>5, <2>2 DEF ConnectRegister, RegisterPlain, RegisterRotated
    <3> QED
      BY <1>4, <1>3, <2>1, <2>2, <3>1
  <2>3. CASE u = v
    <3>1. RegisterPlain(v)
      BY <1>0, <1>3, <1>5, <2>3 DEF ConnectRegister, RegisterRotated
    <3>2. inputs'[v] = snapshot[v]
      BY <1>0, <3>1 DEF RegisterPlain
    <3>3. Covers(Merge(UnionSig(snapshot[v]), missed[v]), corpusSignal)
      BY <2>1 DEF SnapshotReaches
    <3>4. snapshot[v] \in SUBSET Inputs /\ missed[v] \in Signals /\ ownCorpus[v] \in Signals
      BY <1>0
    <3>5. \A e \in Elems : \/ corpusSignal[e] = Absent \/ missed[v][e] >= corpusSignal[e]
                           \/ \E i \in snapshot[v] : i.sig[e] >= corpusSignal[e]
      BY <1>0, <3>3, <3>4, ReachesMeans
    <3>6. \A e \in Elems : ownCorpus[v][e] >= Absent
      BY <3>4, SignalValues
    <3> QED
      BY <2>1, <2>3, <3>2, <3>5, <3>6
  <2> QED
    BY <2>2, <2>3
<1>6. ASSUME NEW v \in VMs, NEW p \in Progs, NEW c \in Calls, NEW s \in InputSignals,
             SendInput(v, p, c, s)
      PROVE  ReachedAfter(u)
  <2>1. /\ s \in Signals
        /\ ownCorpus' = [ownCorpus EXCEPT ![v] = Merge(@, s)]
        /\ UNCHANGED <<servVars, vm, missed>>
    BY <1>6, InputAssumption DEF SendInput
  <2>2. Live(u) /\ corpusSignal' = corpusSignal /\ missed' = missed /\ inputs' = inputs
    BY <1>3, <2>1 DEF servVars
  <2>3. CASE u # v
    BY <1>0, <1>4, <2>1, <2>2, <2>3
  <2>4. CASE u = v
    <3>1. ownCorpus'[u] = Merge(ownCorpus[u], s) /\ ownCorpus[u] \in Signals
      BY <1>0, <2>1, <2>4
    <3>2. \A e \in Elems : /\ ownCorpus'[u][e] >= ownCorpus[u][e]
                           /\ ownCorpus'[u][e] \in Int /\ ownCorpus[u][e] \in Int
                           /\ corpusSignal[e] \in Int
      BY <1>0, <1>1, <2>1, <3>1, MergeValue, SignalValues
    <3>3. Reached(u)
      BY <1>2, <2>2
    <3> QED
      BY <2>2, <3>2, <3>3
  <2> QED
    BY <2>3, <2>4
<1>7. ASSUME NEW v \in VMs, NEW need \in BOOLEAN, PollInputs(v, need)
      PROVE  ReachedAfter(u)
  <2>1. PICK got \in InputBatches(v) :
          /\ inputs' = [inputs EXCEPT ![v] = @ \ got]
          /\ ownCorpus' = [ownCorpus EXCEPT ![v] = Merge(@, UnionSig(got))]
    BY <1>7 DEF PollInputs
  <2>2. Live(u) /\ corpusSignal' = corpusSignal /\ missed' = missed
    BY <1>3, <1>7 DEF PollInputs
  <2>3. CASE u # v
    BY <1>0, <1>4, <2>1, <2>2, <2>3
  <2>4. CASE u = v
    <3>1. got \in SUBSET Inputs
      BY <1>0, <2>1 DEF InputBatches
    <3>2. /\ UnionSig(got) \in Signals
          /\ \A i \in got : i.sig \in Signals /\ Covers(UnionSig(got), i.sig)
      BY <3>1, UnionSigFacts
    <3>3. /\ ownCorpus'[u] = Merge(ownCorpus[u], UnionSig(got)) /\ ownCorpus[u] \in Signals
          /\ inputs'[u] = inputs[u] \ got
      BY <1>0, <2>1, <2>4
    <3>4. \A e \in Elems : /\ ownCorpus'[u][e] >= ownCorpus[u][e]
                           /\ ownCorpus'[u][e] >= UnionSig(got)[e]
                           /\ ownCorpus'[u][e] \in Int /\ ownCorpus[u][e] \in Int
                           /\ corpusSignal[e] \in Int /\ UnionSig(got)[e] \in Int
      BY <1>0, <1>1, <3>2, <3>3, MergeValue, SignalValues
    <3>5. \A e \in Elems, i \in got : UnionSig(got)[e] >= i.sig[e] /\ i.sig[e] \in Int
      BY <3>2, SignalValues DEF Covers
    <3>6. Reached(u)
      BY <1>2, <2>2
    <3> SUFFICES ASSUME NEW e \in Elems
                 PROVE  \/ ownCorpus'[u][e] >= corpusSignal[e]
                        \/ missed[u][e] >= corpusSignal[e]
                        \/ \E i \in inputs'[u] : i.sig[e] >= corpusSignal[e]
      BY <2>2
    <3>7. CASE ownCorpus[u][e] >= corpusSignal[e]
      BY <3>4, <3>7
    <3>8. ASSUME NEW i \in inputs[u], i.sig[e] >= corpusSignal[e]
          PROVE  \/ ownCorpus'[u][e] >= corpusSignal[e]
                 \/ \E j \in inputs'[u] : j.sig[e] >= corpusSignal[e]
      <4>1. CASE i \in got
        BY <3>4, <3>5, <3>8, <4>1
      <4>2. CASE i \notin got
        BY <3>3, <3>8, <4>2
      <4> QED
        BY <4>1, <4>2
    <3> QED
      BY <3>6, <3>7, <3>8
  <2> QED
    BY <2>3, <2>4
<1>8. ASSUME NEW r \in requests, NewInput(r) PROVE ReachedAfter(u)
  <2>1. /\ r.vm \in VMs /\ r.prog \in Progs /\ r.sig \in Signals
    BY RequestTypes
  <2>2. \A e \in Elems : \/ corpusSignal'[e] = corpusSignal[e]
                         \/ Genuine(r) /\ corpusSignal'[e] = r.sig[e]
    BY <1>8, NewInputSignal
  <2>3. Live(u) /\ ownCorpus' = ownCorpus
    BY <1>3, <1>8 DEF NewInput
  <2>4. /\ inputs[u] \subseteq inputs'[u]
        /\ Genuine(r) /\ u # r.vm => [prog |-> r.prog, sig |-> r.sig] \in inputs'[u]
    BY <1>8, <2>3, <1>0 DEF NewInput, BroadcastInput
  <2>5. missed'[u] = missed[u]
    <3>1. vm[u] # "connecting"
      BY <2>3 DEF TypeOK
    <3> QED
      BY <1>0, <1>8, <3>1 DEF NewInput
  <2>6. u = r.vm => Covers(ownCorpus[u], r.sig)
    <3> SUFFICES ASSUME u = r.vm PROVE vm[u] = "fuzzing"
      BY DEF RequestsOfOwner
    <3>1. vm[u] \in {"checking", "fuzzing", "crashed"}
      BY <2>3 DEF TypeOK
    <3> QED
      BY <2>3, <3>1 DEF RequestsOfOwner
  <2>7. Reached(u)
    BY <1>2, <2>3
  <2> SUFFICES ASSUME NEW e \in Elems
               PROVE  \/ ownCorpus[u][e] >= corpusSignal'[e]
                      \/ missed[u][e] >= corpusSignal'[e]
                      \/ \E i \in inputs'[u] : i.sig[e] >= corpusSignal'[e]
    BY <2>3, <2>5
  <2>8. CASE corpusSignal'[e] = corpusSignal[e]
    BY <2>4, <2>7, <2>8
  <2>9. CASE Genuine(r) /\ corpusSignal'[e] = r.sig[e]
    <3>1. CASE u = r.vm
      BY <2>6, <2>9, <3>1 DEF Covers
    <3>2. CASE u # r.vm
      <4>1. r.sig[e] \in Int
        BY <2>1, SignalValues
      <4>2. [prog |-> r.prog, sig |-> r.sig].sig[e] >= corpusSignal'[e]
        BY <2>9, <4>1
      <4> QED
        BY <2>4, <2>9, <3>2, <4>2
    <3> QED
      BY <3>1, <3>2
  <2> QED
    BY <2>2, <2>8, <2>9
<1>9. CASE \E v \in VMs : CheckFailsForGood(v)
  BY <1>3, <1>9 DEF CheckFailsForGood
<1>10. CASE \E v \in VMs : ConnectSnapshot(v)
  BY <1>0, <1>3, <1>4, <1>10 DEF ConnectSnapshot, servVars, TypeOK
<1>11. ASSUME NEW v \in VMs, CheckAgain(v) \/ Check(v) \/ CheckFails(v) PROVE ReachedAfter(u)
  <2>1. /\ corpusSignal' = corpusSignal /\ ownCorpus' = ownCorpus /\ missed' = missed
        /\ inputs' = inputs /\ fuzzers' = fuzzers /\ rotated' = rotated
        /\ vm[v] = "checking" /\ \A w \in VMs : w # v => vm'[w] = vm[w]
    BY <1>0, <1>11 DEF CheckAgain, Check, CheckFails, servVars
  <2> QED
    BY <1>3, <1>4, <2>1
<1>12. ASSUME NEW v \in VMs, VMCrash(v) \/ shutdownInstance(v) PROVE ReachedAfter(u)
  <2>1. /\ corpusSignal' = corpusSignal /\ fuzzers' \subseteq fuzzers
        /\ \A w \in VMs : w # v => /\ vm'[w] = vm[w] /\ ownCorpus'[w] = ownCorpus[w]
                                   /\ missed'[w] = missed[w] /\ inputs'[w] = inputs[w]
                                   /\ rotated'[w] = rotated[w]
    BY <1>0, <1>12 DEF VMCrash, shutdownInstance, servVars
  <2>2. u # v
    BY <1>0, <1>3, <1>12 DEF VMCrash, shutdownInstance
  <2> QED
    BY <1>3, <1>4, <2>1, <2>2
<1>13. CASE \E v \in VMs : PollRotated(v) \/ (\E b \in Batches : PollCandidates(v, b))
                           \/ TriageDone(v)
  BY <1>3, <1>4, <1>13 DEF PollRotated, PollCandidates, TriageDone, vmVars, servVars
<1>14. CASE (\E r \in requests : NewInputDropped(r)) \/ HubLoop \/ UNCHANGED vars
  BY <1>3, <1>4, <1>14 DEF NewInputDropped, HubLoop, vars, servVars, vmVars
<1> HIDE DEF ReachedAfter, LiveAfter
<1> QED
  BY <1>5, <1>6, <1>7, <1>8, <1>9, <1>10, <1>11, <1>12, <1>13, <1>14
  DEF Next, HandleInput, Poll

LEMMA MergeCovers ==
  ASSUME NEW a \in Signals, NEW b \in Signals, NEW c \in Signals
  PROVE  Covers(Merge(a, b), c) <=> \A e \in Elems : a[e] >= c[e] \/ b[e] >= c[e]
<1>1. \A e \in Elems : /\ a[e] \in Int /\ b[e] \in Int /\ c[e] \in Int
                       /\ Merge(a, b)[e] = a[e] \/ Merge(a, b)[e] = b[e]
                       /\ Merge(a, b)[e] >= a[e] /\ Merge(a, b)[e] >= b[e]
  BY MergeValue, SignalValues
<1> QED
  BY <1>1 DEF Covers

\* The poll of v itself moves signal from its queue to its fuzzer, and to every
\* other VM's queue goes what v's fuzzer found.
LEMMA PollMaxSignal ==
  ASSUME TypeOK, TypeOK', OwnNewKnown, NEW v \in VMs, Poll(v), NEW u \in fuzzers, ~rotated[u],
         Covers(Merge(ownMax[u], newMaxSignal[u]), maxSignal)
  PROVE  Covers(Merge(ownMax'[u], newMaxSignal'[u]), maxSignal')
<1> DEFINE d == Diff(maxSignal, ownNew[v])
<1>0. /\ fuzzers \subseteq VMs /\ ownMax \in [VMs -> Signals] /\ newMaxSignal \in [VMs -> Signals]
      /\ maxSignal \in Signals /\ ownNew \in [VMs -> Signals]
      /\ ownMax' \in [VMs -> Signals] /\ newMaxSignal' \in [VMs -> Signals]
      /\ maxSignal' \in Signals
  BY DEF TypeOK
<1>1. PollSignal(v)
  BY DEF Poll, PollRotated, PollCandidates, PollInputs
<1>2. d \in Signals /\ maxSignal' = Merge(maxSignal, d) /\ maxSignal' = Merge(maxSignal, ownNew[v])
  BY <1>1, PollSignalFacts
<1> HIDE DEF d
<1>3. /\ ownMax[u] \in Signals /\ newMaxSignal[u] \in Signals
      /\ ownMax'[u] \in Signals /\ newMaxSignal'[u] \in Signals
  BY <1>0
<1>4. \A e \in Elems : ownMax[u][e] >= maxSignal[e] \/ newMaxSignal[u][e] >= maxSignal[e]
  BY <1>0, <1>3, MergeCovers
<1> SUFFICES ASSUME NEW e \in Elems
             PROVE  ownMax'[u][e] >= maxSignal'[e] \/ newMaxSignal'[u][e] >= maxSignal'[e]
  BY <1>0, <1>3, MergeCovers
<1>5. /\ ownMax[u][e] \in Int /\ newMaxSignal[u][e] \in Int /\ maxSignal[e] \in Int
      /\ ownMax'[u][e] \in Int /\ newMaxSignal'[u][e] \in Int /\ maxSignal'[e] \in Int
      /\ d[e] \in Int /\ ownNew[v][e] \in Int
  BY <1>0, <1>2, <1>3, SignalValues
<1>6. CASE u # v
  <2>1. ownMax'[u] = ownMax[u]
    BY <1>0, <1>6 DEF Poll, PollRotated, PollCandidates, PollInputs
  <2>2. newMaxSignal'[u] = BroadcastSignal(v, d)[u]
    <3>1. BroadcastSignal(v, d) \in [VMs -> Signals]
      BY <1>1, PollSignalFacts DEF d
    <3>2. CASE PollRotated(v)
      BY <3>2 DEF PollRotated, d
    <3>3. CASE \E b \in Batches : PollCandidates(v, b)
      <4>1. PICK taken : newMaxSignal' = [BroadcastSignal(v, d) EXCEPT ![v] = Without(@, taken)]
        BY <3>3 DEF PollCandidates, d
      <4> QED
        BY <1>0, <1>6, <3>1, <4>1
    <3>4. CASE \E need \in BOOLEAN : PollInputs(v, need)
      <4>1. PICK taken : newMaxSignal' = [BroadcastSignal(v, d) EXCEPT ![v] = Without(@, taken)]
        BY <3>4 DEF PollInputs, d
      <4> QED
        BY <1>0, <1>6, <3>1, <4>1
    <3> QED
      BY <3>2, <3>3, <3>4 DEF Poll
  <2>3. newMaxSignal'[u] = Merge(newMaxSignal[u], d)
    BY <1>0, <1>6, <2>2 DEF BroadcastSignal
  <2>4. newMaxSignal'[u][e] >= newMaxSignal[u][e] /\ newMaxSignal'[u][e] >= d[e]
    BY <1>2, <1>3, <2>3, MergeValue
  <2>5. maxSignal'[e] = maxSignal[e] \/ maxSignal'[e] = d[e]
    BY <1>0, <1>2, MergeValue, ZenonT(60)
  <2> QED
    BY <1>4, <1>5, <2>1, <2>4, <2>5
<1>7. CASE u = v
  <2>1. PICK taken, own :
          /\ own \in Signals
          /\ newMaxSignal' = [BroadcastSignal(v, d) EXCEPT ![v] = Without(@, taken)]
          /\ own = Merge(ownMax[v], Only(newMaxSignal[v], taken))
          /\ Covers(ownMax'[v], own)
    <3>1. CASE \E b \in Batches : PollCandidates(v, b)
      <4>1. PICK taken : /\ newMaxSignal' = [BroadcastSignal(v, d) EXCEPT ![v] = Without(@, taken)]
                         /\ ownMax' = [ownMax EXCEPT ![v] = Merge(@, Only(newMaxSignal[v], taken))]
        BY <3>1 DEF PollCandidates, d
      <4>2. ownMax'[v] = Merge(ownMax[v], Only(newMaxSignal[v], taken))
        BY <1>0, <4>1
      <4>3. Covers(ownMax'[v], ownMax'[v]) /\ ownMax'[v] \in Signals
        BY <1>0, CoversOrder
      <4> QED
        BY <4>1, <4>2, <4>3
    <3>2. CASE \E need \in BOOLEAN : PollInputs(v, need)
      <4>1. PICK got, taken :
              /\ got \in InputBatches(v)
              /\ newMaxSignal' = [BroadcastSignal(v, d) EXCEPT ![v] = Without(@, taken)]
              /\ ownMax' = [ownMax EXCEPT ![v] =
                              Merge(Merge(@, Only(newMaxSignal[v], taken)), UnionSig(got))]
        BY <3>2 DEF PollInputs, d
      <4>2. UnionSig(got) \in Signals
        <5>1. got \subseteq inputs[v] /\ inputs[v] \subseteq Inputs
          BY <4>1 DEF InputBatches, TypeOK
        <5> QED
          BY <5>1, UnionSigFacts
      <4>3. Merge(ownMax[v], Only(newMaxSignal[v], taken)) \in Signals
        BY <1>0, PartTypes, MergeIsJoin
      <4>4. ownMax'[v] = Merge(Merge(ownMax[v], Only(newMaxSignal[v], taken)), UnionSig(got))
        BY <1>0, <4>1
      <4>5. Covers(ownMax'[v], Merge(ownMax[v], Only(newMaxSignal[v], taken)))
        BY <4>2, <4>3, <4>4, MergeIsJoin
      <4> QED
        BY <4>1, <4>3, <4>5
    <3>3. ~PollRotated(v)
      BY <1>7 DEF PollRotated
    <3> QED
      BY <3>1, <3>2, <3>3 DEF Poll
  <2>2. newMaxSignal'[v] = Without(newMaxSignal[v], taken)
    <3>1. BroadcastSignal(v, d) \in [VMs -> Signals] /\ BroadcastSignal(v, d)[v] = newMaxSignal[v]
      BY <1>1, PollSignalFacts DEF d, BroadcastSignal
    <3> QED
      BY <2>1, <3>1
  <2>3. Only(newMaxSignal[v], taken) \in Signals
    BY <1>0, PartTypes
  <2>4. /\ own[e] >= ownMax[v][e] /\ own[e] >= Only(newMaxSignal[v], taken)[e]
        /\ ownMax'[v][e] >= own[e] /\ own[e] \in Int
    BY <1>0, <2>1, <2>3, MergeValue, SignalValues DEF Covers
  <2>5. \/ Only(newMaxSignal[v], taken)[e] = newMaxSignal[v][e]
        \/ newMaxSignal'[v][e] = newMaxSignal[v][e]
    BY <2>2 DEF Only, Without
  <2>6. ownMax[v][e] >= ownNew[v][e]
    BY DEF OwnNewKnown, Covers
  <2>7. maxSignal'[e] = maxSignal[e] \/ maxSignal'[e] = ownNew[v][e]
    BY <1>0, <1>2, MergeValue
  <2>8. ownMax[v][e] >= maxSignal[e] \/ newMaxSignal[v][e] >= maxSignal[e]
    BY <1>4, <1>7
  <2> QED
    BY <1>5, <1>7, <2>4, <2>5, <2>6, <2>7, <2>8
<1> QED
  BY <1>6, <1>7

LEMMA MaxSignalStillReaches ==
  ASSUME TypeOK, TypeOK', OwnNewKnown, MaxSignalReaches, [Next]_vars
  PROVE  MaxSignalReaches'
<1> DEFINE Live(u) == u \in fuzzers /\ ~rotated[u] /\ vm[u] # "crashed"
<1>0. /\ vm \in [VMs -> VMStates] /\ fuzzers \subseteq VMs /\ ownMax \in [VMs -> Signals]
      /\ newMaxSignal \in [VMs -> Signals] /\ maxSignal \in Signals /\ rotated \in [VMs -> BOOLEAN]
  BY DEF TypeOK
<1>1. fuzzers' \subseteq VMs
  BY DEF TypeOK
<1> SUFFICES ASSUME NEW u \in VMs, u \in fuzzers', ~rotated'[u], vm'[u] # "crashed"
             PROVE  Covers(Merge(ownMax'[u], newMaxSignal'[u]), maxSignal')
  BY <1>1 DEF MaxSignalReaches
<1> DEFINE Done == Covers(Merge(ownMax'[u], newMaxSignal'[u]), maxSignal')
<1> SUFFICES Done
  OBVIOUS
<1>2. Live(u) => Covers(Merge(ownMax[u], newMaxSignal[u]), maxSignal)
  BY DEF MaxSignalReaches
<1>3. CASE Live(u) /\ maxSignal' = maxSignal /\ ownMax'[u] = ownMax[u]
           /\ newMaxSignal'[u] = newMaxSignal[u]
  BY <1>2, <1>3
<1>4. ASSUME NEW v \in VMs, Poll(v) PROVE Done
  <2>1. Live(u)
    BY <1>4 DEF Poll, PollRotated, PollCandidates, PollInputs
  <2> QED
    BY <1>2, <1>4, <2>1, PollMaxSignal
<1>5. ASSUME NEW v \in VMs, ConnectRegister(v) PROVE Done
  <2>1. /\ maxSignal' = maxSignal /\ ownMax' = ownMax /\ fuzzers' = fuzzers \cup {v}
        /\ \A w \in VMs : w # v => vm'[w] = vm[w]
    BY <1>0, <1>5 DEF ConnectRegister
  <2>2. CASE u # v
    <3>1. newMaxSignal'[u] = newMaxSignal[u] /\ rotated'[u] = rotated[u]
      BY <1>0, <1>5, <2>2 DEF ConnectRegister, RegisterPlain, RegisterRotated
    <3> QED
      BY <1>3, <2>1, <2>2, <3>1
  <2>3. CASE u = v
    <3>1. RegisterPlain(v)
      BY <1>0, <1>5, <2>3 DEF ConnectRegister, RegisterRotated
    <3>2. newMaxSignal'[v] = maxSignal
      BY <1>0, <3>1 DEF RegisterPlain
    <3> QED
      BY <1>0, <2>1, <2>3, <3>2, MergeIsJoin
  <2> QED
    BY <2>2, <2>3
<1>6. ASSUME NEW v \in VMs, NEW p \in Progs, NEW c \in Calls, NEW s \in InputSignals,
             SendInput(v, p, c, s)
      PROVE  Done
  <2>1. /\ s \in Signals
        /\ ownMax' = [ownMax EXCEPT ![v] = Merge(@, s)]
        /\ UNCHANGED <<servVars, vm>>
    BY <1>6, InputAssumption DEF SendInput
  <2>2. Live(u) /\ maxSignal' = maxSignal /\ newMaxSignal' = newMaxSignal
    BY <2>1 DEF servVars
  <2>3. CASE u # v
    BY <1>0, <1>3, <2>1, <2>2, <2>3
  <2>4. CASE u = v
    <3>1. ownMax'[u] = Merge(ownMax[u], s) /\ ownMax[u] \in Signals /\ newMaxSignal[u] \in Signals
      BY <1>0, <2>1, <2>4
    <3>2. Covers(ownMax'[u], ownMax[u]) /\ ownMax'[u] \in Signals
      BY <2>1, <3>1, MergeIsJoin
    <3>3. /\ Covers(Merge(ownMax'[u], newMaxSignal[u]), Merge(ownMax[u], newMaxSignal[u]))
          /\ Merge(ownMax'[u], newMaxSignal[u]) \in Signals
          /\ Merge(ownMax[u], newMaxSignal[u]) \in Signals
      BY <3>1, <3>2, MergeMonotone, MergeIsJoin
    <3>4. Covers(Merge(ownMax[u], newMaxSignal[u]), maxSignal)
      BY <1>2, <2>2
    <3> QED
      BY <1>0, <2>2, <3>3, <3>4, CoversOrder
  <2> QED
    BY <2>3, <2>4
<1>7. CASE \E v \in VMs : CheckFailsForGood(v)
  BY <1>7 DEF CheckFailsForGood
<1>8. CASE \E v \in VMs : ConnectSnapshot(v)
  BY <1>0, <1>3, <1>8 DEF ConnectSnapshot, servVars, TypeOK
<1>9. ASSUME NEW v \in VMs, CheckAgain(v) \/ Check(v) \/ CheckFails(v) PROVE Done
  <2>1. /\ maxSignal' = maxSignal /\ ownMax' = ownMax /\ newMaxSignal' = newMaxSignal
        /\ fuzzers' = fuzzers /\ rotated' = rotated
        /\ vm[v] = "checking" /\ \A w \in VMs : w # v => vm'[w] = vm[w]
    BY <1>0, <1>9 DEF CheckAgain, Check, CheckFails, servVars
  <2> QED
    BY <1>3, <2>1
<1>10. ASSUME NEW v \in VMs, VMCrash(v) \/ shutdownInstance(v) PROVE Done
  <2>1. /\ maxSignal' = maxSignal /\ fuzzers' \subseteq fuzzers
        /\ \A w \in VMs : w # v => /\ vm'[w] = vm[w] /\ ownMax'[w] = ownMax[w]
                                   /\ newMaxSignal'[w] = newMaxSignal[w]
                                   /\ rotated'[w] = rotated[w]
    BY <1>0, <1>10 DEF VMCrash, shutdownInstance, servVars
  <2>2. u # v
    BY <1>0, <1>10 DEF VMCrash, shutdownInstance
  <2> QED
    BY <1>3, <2>1, <2>2
<1>11. CASE (\E v \in VMs : TriageDone(v)) \/ (\E r \in requests : HandleInput(r))
            \/ HubLoop \/ UNCHANGED vars
  BY <1>3, <1>11 DEF TriageDone, HandleInput, NewInput, NewInputDropped, HubLoop, vars,
                     servVars, vmVars
<1> HIDE DEF Done
<1> QED
  BY <1>4, <1>5, <1>6, <1>7, <1>8, <1>9, <1>10, <1>11 DEF Next

-----------------------------------------------------------------------------
(***************************************************************************)
(* The theorems.                                                           *)
(***************************************************************************)

LEMMA InitServInv == Init => ServInv
<1> SUFFICES ASSUME Init PROVE ServInv
  OBVIOUS
<1>1. MgrInv /\ TypeOK
  BY InitEstablishes, InitTypeOK DEF Init
<1>2. CorpusSignalExact
  BY <1>1 DEF Init, MgrInit, CorpusSignalExact, IsUnion, NoSignal
<1>3. RequestsRunnable /\ RequestsOfOwner /\ SnapshotReaches
  BY DEF Init, NoneOf, RequestsRunnable, RequestsOfOwner, SnapshotReaches
<1>4. OwnNewKnown /\ RotatedWithinCorpus
  BY NoSignalType, CoversOrder DEF Init, NoneOf, OwnNewKnown, RotatedWithinCorpus
<1>5. InputsReach /\ MaxSignalReaches
  BY DEF Init, InputsReach, MaxSignalReaches
<1> QED
  BY <1>1, <1>2, <1>3, <1>4, <1>5 DEF ServInv

LEMMA NextServInv ==
  ASSUME ServInv, [Next]_vars
  PROVE  ServInv'
<1> /\ MgrInv /\ CorpusSignalExact /\ TypeOK /\ RequestsRunnable /\ RequestsOfOwner
    /\ SnapshotReaches /\ OwnNewKnown /\ InputsReach /\ MaxSignalReaches /\ RotatedWithinCorpus
  BY DEF ServInv, CorpusSignalExact
<1>1. MgrInv'
  BY StepsOfManager, NextKeeps
<1>2. TypeOK'
  BY <1>1, TypesKept DEF MgrInv
<1>3. CorpusSignalExact'
  BY <1>2, SignalStaysExact DEF CorpusSignalExact
<1>4. RequestsRunnable' /\ RequestsOfOwner' /\ OwnNewKnown' /\ RotatedWithinCorpus'
  BY RequestsStayRunnable, RequestsStayOfOwner, OwnNewStaysKnown, RotatedStaysWithin
<1>5. SnapshotReaches' /\ InputsReach'
  BY <1>3, SnapshotStillReaches, InputsStillReach
<1>6. MaxSignalReaches'
  BY <1>2, MaxSignalStillReaches
<1> QED
  BY <1>1, <1>3, <1>4, <1>5, <1>6 DEF ServInv

\* ServInv is an invariant of the server and the VMs.
THEOREM ServerIsSound == Spec => []ServInv
BY InitServInv, NextServInv, PTL DEF Spec

\* The server and the VMs use the manager only as its specification allows: a
\* request is handled after the machine check and for a runnable program, and a
\* batch is handed out only to a VM that fuzzes.  So all that is proved of the
\* manager alone holds of the composition.
THEOREM ServerImplementsManager == Spec => MgrSpec
<1>1. Init => MgrInit
  BY DEF Init
<1>2. ServInv /\ [Next]_vars => [MgrNext]_mgrVars
  BY StepsOfManager DEF ServInv, CorpusSignalExact
<1> QED
  BY <1>1, <1>2, ServerIsSound, PTL DEF Spec, MgrSpec

\* serv.corpusSignal is exactly the signal of mgr.corpus: NewInput merges what
\* newInput left in the item, and minimizeCorpus drops no signal.
THEOREM CorpusSignalIsExact == Spec => []CorpusSignalExact
<1>1. ServInv => CorpusSignalExact
  BY DEF ServInv
<1> QED
  BY <1>1, ServerIsSound, PTL

\* The inputs behind the corpus's signal reach every VM that is not rotated, up
\* to what Connect lets slip between its two critical sections.
THEOREM InputsAllReach == Spec => []InputsReach
<1>1. ServInv => InputsReach
  BY DEF ServInv
<1> QED
  BY <1>1, ServerIsSound, PTL

\* The maximal signal reaches every VM that is not rotated.
THEOREM MaxSignalAllReaches == Spec => []MaxSignalReaches
<1>1. ServInv => MaxSignalReaches
  BY DEF ServInv
<1> QED
  BY <1>1, ServerIsSound, PTL

\* rotatedSignal of a VM never exceeds serv.corpusSignal.
THEOREM RotatedIsWithinCorpus == Spec => []RotatedWithinCorpus
<1>1. ServInv => RotatedWithinCorpus
  BY DEF ServInv
<1> QED
  BY <1>1, ServerIsSound, PTL

\* With the RPC server in front of it the manager still deletes nothing from
\* corpus.db without a reason, and loses no signal.
THEOREM ServerKeepsManagerPromises == Spec => DeletedOnlyOnceOffered /\ CoverageKept /\ []CorpusPersisted
BY ServerImplementsManager, DeletionAwaitsOffer, CoverageIsKept, CorpusIsPersisted, PTL
=============================================================================
