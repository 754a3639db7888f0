------------------------------ MODULE Manager -------------------------------
(***************************************************************************)
(* syz-manager/manager.go: the corpus of one syz-manager process - what    *)
(* mgr.mu protects - together with the persistent corpus (corpus.db) and   *)
(* what a crash of the manager or of a test VM does to them.               *)
(*                                                                         *)
(* Every operation here is one critical section of mgr.mu, so it is one    *)
(* action.  A program is identified by its hash, as in mgr.corpus and in   *)
(* corpus.db.  Signal, the feedback of a program, is module Signal's.      *)
(*                                                                         *)
(* The order of mgr.candidates is abstracted: it is a bag, a count for     *)
(* each program (half of the slice is shuffled by the code itself).        *)
(***************************************************************************)
EXTENDS Signal

CONSTANTS
  Progs,           \* programs, by hash
  Calls,           \* syscall names, as in CorpusItem.Call
  VMs,             \* test machines, each running one syz-fuzzer
  InputSignals,    \* the signals a fuzzer may report for a program
  Broken,          \* programs checkProgram calls bad
  Disableable,     \* programs with a syscall a kernel may not support
  Leftover,        \* programLeftover of the above; NoProg when nothing is left
  NoProg,
  Seeds,           \* sys/<os>/test
  HubProgs,        \* programs that syz-hub has for this manager
  HasHub,          \* cfg.HubClient # ""
  PreserveCorpus,  \* cfg.PreserveCorpus
  BatchSize,       \* serv.batchSize
  FlushFails,      \* whether writing corpus.db may fail
  ShortWrites,     \* whether a failing append may have written a part
  SatLow, SatHigh, \* corpus sizes of a call from which it may, and does, saturate
  InitialDisk      \* what corpus.db may hold when the manager first starts

ASSUME ProgsAssumption ==
  /\ IsFiniteSet(Progs)
  /\ NoProg \notin Progs
  /\ Broken \subseteq Progs /\ Disableable \subseteq Progs
  /\ Seeds \subseteq Progs /\ HubProgs \subseteq Progs
  /\ Leftover \in [Disableable -> (Progs \ (Broken \cup Disableable)) \cup {NoProg}]
  /\ InitialDisk \subseteq SUBSET Progs
ASSUME InputAssumption == InputSignals \subseteq Signals \ {NoSignal}
ASSUME FlagsAssumption ==
  /\ HasHub \in BOOLEAN /\ PreserveCorpus \in BOOLEAN /\ FlushFails \in BOOLEAN
  /\ ShortWrites \in BOOLEAN
ASSUME BoundsAssumption ==
  /\ BatchSize \in Nat \ {0}
  /\ SatLow \in Nat \ {0} /\ SatHigh \in Nat /\ SatLow <= SatHigh

\* The phases of a manager's life (the iota of manager.go).
phaseInit == 0
phaseLoadedCorpus == 1
phaseTriagedCorpus == 2
phaseQueriedHub == 3
phaseTriagedHub == 4

VARIABLES
  phase,           \* mgr.phase
  candidates,      \* mgr.candidates, as a bag
  corpus,          \* the keys of mgr.corpus
  item,            \* CorpusItem.Signal of each of them
  callOf,          \* CorpusItem.Call of each of them
  lastMinCorpus,   \* mgr.lastMinCorpus
  saturatedCalls,  \* mgr.saturatedCalls
  disabled,        \* programs that mgr.targetEnabledSyscalls rules out
  disabledHashes,  \* mgr.disabledHashes
  records,         \* mgr.corpusDB.Records
  unwritten,       \* programs that records in mgr.corpusDB.pending are about
  disk,            \* the records a reopened corpus.db would have
  torn,            \* whether a record in the file is cut off, where Open stops
  flushed,         \* whether the last write of corpus.db succeeded
  hubPool,         \* programs the hub has yet to send
  held,            \* candidates a VM's fuzzer has received and not triaged
  offered,         \* history: programs handed out by this process
  accepted         \* history: programs newInput took in this process

dbVars == <<records, unwritten, disk, torn, flushed>>
corpusVars == <<corpus, item, callOf, lastMinCorpus, saturatedCalls>>
checkVars == <<disabled, disabledHashes>>
historyVars == <<offered, accepted>>
mgrVars == <<phase, candidates, corpusVars, checkVars, dbVars, hubPool, held,
             historyVars>>

EmptyBag == [p \in Progs |-> 0]

NoCall == "none"    \* callOf of a program that is not in the corpus

\* Runnable programs: what checkProgram lets through.
Runnable == Progs \ (Broken \cup disabled)

\* preloadCorpus has opened corpus.db.
MgrInit ==
  /\ phase = phaseInit
  /\ candidates = EmptyBag
  /\ corpus = {}
  /\ item = [p \in Progs |-> NoSignal]
  /\ callOf = [p \in Progs |-> NoCall]
  /\ lastMinCorpus = 0
  /\ saturatedCalls = {}
  /\ disabled = {}
  /\ disabledHashes = {}
  /\ held = [v \in VMs |-> {}]
  /\ offered = {}
  /\ accepted = {}
  /\ disk \in InitialDisk
  /\ records = disk
  /\ unwritten = {}
  /\ torn = FALSE
  /\ flushed = TRUE
  /\ hubPool = HubProgs

-----------------------------------------------------------------------------
(***************************************************************************)
(* Save and Delete change corpusDB.Records at once and leave a record      *)
(* pending; Flush and BumpVersion append what is pending, or compact the   *)
(* file.  An error is at most logged and leaves everything pending (module *)
(* CorpusDB has the details; how many records the file holds, which        *)
(* decides about compaction, is left to it).                               *)
(***************************************************************************)

\* Save or Delete of the programs in which the two sets differ.
Unwritten(recs) == unwritten \cup (records \ recs) \cup (recs \ records)

\* compact: the file is replaced as a whole.
Compacts(recs) ==
  /\ disk' = recs /\ torn' = FALSE
  /\ unwritten' = {} /\ flushed' = TRUE

\* The pending records are appended.  Behind a torn record they are not read.
Appends(recs) ==
  /\ disk' = (IF torn THEN disk ELSE recs) /\ UNCHANGED torn
  /\ unwritten' = {} /\ flushed' = TRUE

\* Nothing is written.
WriteFails(recs) ==
  /\ FlushFails
  /\ UNCHANGED <<disk, torn>>
  /\ unwritten' = Unwritten(recs) /\ flushed' = FALSE

\* The append stops half way: some of the pending records took effect, and the
\* last one may be cut off.  Their order is not kept, so any may be the first.
WriteStops(recs) ==
  /\ ShortWrites /\ Unwritten(recs) # {}
  /\ torn' \in {torn, TRUE}
  /\ \E done \in SUBSET Unwritten(recs) :
       disk' = IF torn THEN disk ELSE (disk \ Unwritten(recs)) \cup done
  /\ unwritten' = Unwritten(recs) /\ flushed' = FALSE

WriteDB(recs) ==
  /\ records' = recs
  /\ Compacts(recs) \/ Appends(recs) \/ WriteFails(recs) \/ WriteStops(recs)

-----------------------------------------------------------------------------
(***************************************************************************)
(* minimizeCorpus.                                                         *)
(***************************************************************************)

\* How many corpus items a call has (collectSyscallInfoUnlocked).
CallCount(c, keys) == Cardinality({p \in keys : callOf[p] = c})

\* The sanity check per syscall.  Below SatLow inputs a call never saturates,
\* from SatHigh on it does, and in between its coverage, which is not
\* modelled, decides.
Saturate(kept) ==
  \E unsure \in SUBSET {c \in Calls : /\ CallCount(c, kept) >= SatLow
                                      /\ CallCount(c, kept) < SatHigh} :
    saturatedCalls' =
      saturatedCalls \cup unsure \cup {c \in Calls : CallCount(c, kept) >= SatHigh}

\* A slip: the corpus of programs with disabled calls is forgotten.
ForgetsDisabled(kept) ==
  IF phase < phaseTriagedCorpus
  THEN UNCHANGED dbVars
  ELSE WriteDB(records \cap kept)

\* A slip: the test of the phase is off by one.
MinimizesEarly(kept) ==
  IF phase < phaseLoadedCorpus
  THEN UNCHANGED dbVars
  ELSE WriteDB(records \cap (kept \cup disabledHashes))

\* The persistent part: Delete of every key that is in neither map, then
\* BumpVersion, which flushes.
MinimizeDB(kept) ==
  IF phase < phaseTriagedCorpus
  THEN UNCHANGED dbVars
  ELSE WriteDB(records \cap (kept \cup disabledHashes))

minimizeCorpus ==
  /\ IF \/ phase < phaseLoadedCorpus
        \/ Cardinality(corpus) <= (lastMinCorpus * 103) \div 100
     THEN UNCHANGED <<corpusVars, dbVars>>
     ELSE \E rank \in Orders(corpus) :
            LET kept == Minimize(corpus, item, rank) IN
            /\ corpus' = kept
            /\ item' = [p \in Progs |-> IF p \in kept THEN item[p] ELSE NoSignal]
            /\ callOf' = [p \in Progs |-> IF p \in kept THEN callOf[p] ELSE NoCall]
            /\ lastMinCorpus' = Cardinality(kept)
            /\ Saturate(kept)
            /\ MinimizeDB(kept)
  /\ UNCHANGED <<phase, candidates, checkVars, hubPool, held, historyVars>>

-----------------------------------------------------------------------------
(***************************************************************************)
(* loadCorpus, run once, from machineChecked.                              *)
(***************************************************************************)

\* loadProg: the candidate a stored program becomes, or NoProg.
Candidate(p, dis) ==
  IF p \in Broken THEN NoProg
  ELSE IF p \notin dis THEN p
  ELSE IF PreserveCorpus THEN NoProg
  ELSE Leftover[p]

\* The candidates of records and seeds; the slice is doubled to give each
\* program a second chance.
Loaded(recs, dis) ==
  [p \in Progs |->
     2 * (Cardinality({k \in recs : Candidate(k, dis) = p})
          + Cardinality({k \in Seeds : Candidate(k, dis) = p}))]

\* machineChecked: the machine check found that it cannot run dis.  Deleted
\* broken records are only pending in memory: nothing is flushed.
machineChecked(dis) ==
  /\ phase = phaseInit
  /\ disabled' = dis
  /\ disabledHashes' =
       IF PreserveCorpus THEN ((records \cup Seeds) \cap dis) \ Broken ELSE {}
  /\ records' = records \ Broken
  /\ unwritten' = unwritten \cup (records \cap Broken)
  /\ candidates' = Loaded(records, dis)
  /\ phase' = phaseLoadedCorpus
  /\ UNCHANGED <<disk, torn, flushed, corpusVars, hubPool, held, historyVars>>

-----------------------------------------------------------------------------
(***************************************************************************)
(* newInput, for an input the RPC server found worth keeping.              *)
(***************************************************************************)

newInputRefuses(c) == c \in saturatedCalls

\* A slip: the new item is saved but the database is not flushed.
SaveNoFlush(p) ==
  /\ records' = records \cup {p}
  /\ unwritten' = Unwritten(records \cup {p})
  /\ UNCHANGED <<disk, torn, flushed>>

\* corpusDB.Save and Flush.
SaveAndFlush(p) == WriteDB(records \cup {p})

\* A slip: the old item's signal is replaced instead of merged with.
ReplacesSignal(p, s) == s

\* The signal the caller is left with: sign.Merge(old) updates its map.
MergedSignal(p, s) == IF p \in corpus THEN Merge(s, item[p]) ELSE s

newInput(p, c, s) ==
  /\ ~newInputRefuses(c)
  /\ item' = [item EXCEPT ![p] = MergedSignal(p, s)]
  /\ IF p \in corpus
     THEN UNCHANGED <<corpus, callOf, dbVars>>
     ELSE /\ corpus' = corpus \cup {p}
          /\ callOf' = [callOf EXCEPT ![p] = c]
          /\ SaveAndFlush(p)
  /\ accepted' = accepted \cup {p}
  /\ UNCHANGED <<phase, candidates, lastMinCorpus, saturatedCalls, checkVars,
                 hubPool, held, offered>>

-----------------------------------------------------------------------------
(***************************************************************************)
(* Candidates.                                                             *)
(***************************************************************************)

\* The bags a batch of at most BatchSize candidates can be.
Total(bag) == LET n[S \in SUBSET Progs] ==
                    IF S = {} THEN 0
                    ELSE LET p == CHOOSE q \in S : TRUE IN bag[p] + n[S \ {p}]
              IN  n[Progs]

Batches ==
  LET size == IF Total(candidates) < BatchSize THEN Total(candidates) ELSE BatchSize
  IN  {b \in [Progs -> 0 .. BatchSize] :
         /\ \A p \in Progs : b[p] <= candidates[p]
         /\ Total(b) = size}

\* A slip: the hub's candidates end the first phase again.
PhaseForgetsHub(left) ==
  IF left = EmptyBag /\ phase = phaseLoadedCorpus
  THEN IF HasHub THEN phaseTriagedCorpus ELSE phaseTriagedHub
  ELSE phase

PhaseAfterBatch(left) ==
  CASE left = EmptyBag /\ phase = phaseLoadedCorpus ->
         IF HasHub THEN phaseTriagedCorpus ELSE phaseTriagedHub
    [] left = EmptyBag /\ phase = phaseQueriedHub -> phaseTriagedHub
    [] OTHER -> phase

\* candidateBatch, and the fuzzer of v receiving its result.
candidateBatch(v, b) ==
  /\ b \in Batches
  /\ LET left == [p \in Progs |-> candidates[p] - b[p]]
         got  == {p \in Progs : b[p] > 0}
     IN  /\ candidates' = left
         /\ phase' = PhaseAfterBatch(left)
         /\ held' = [held EXCEPT ![v] = @ \cup got]
         /\ offered' = offered \cup got
  /\ UNCHANGED <<corpusVars, checkVars, dbVars, hubPool, accepted>>

PhaseAfterHub == IF phase = phaseTriagedCorpus THEN phaseQueriedHub ELSE phase

\* addNewCandidates: one reply of the hub, which sends a program once.
\* hubSyncLoop runs from phaseTriagedCorpus on.
addNewCandidates(ps) ==
  /\ HasHub /\ phase >= phaseTriagedCorpus
  /\ ps \subseteq hubPool \cap Runnable
  /\ candidates' = [p \in Progs |-> candidates[p] + (IF p \in ps THEN 1 ELSE 0)]
  /\ hubPool' = hubPool \ ps
  /\ phase' = PhaseAfterHub
  /\ UNCHANGED <<corpusVars, checkVars, dbVars, held, historyVars>>

hubIsUnreachable ==
  /\ HasHub /\ phase = phaseTriagedCorpus
  /\ phase' = phaseTriagedHub
  /\ UNCHANGED <<candidates, corpusVars, checkVars, dbVars, hubPool, held,
                 historyVars>>

-----------------------------------------------------------------------------
(***************************************************************************)
(* The environment: fuzzers that triage or lose what they hold, and a      *)
(* manager process that dies and is started again.                         *)
(***************************************************************************)

triageDone(v, p) ==
  /\ p \in held[v]
  /\ held' = [held EXCEPT ![v] = @ \ {p}]
  /\ UNCHANGED <<phase, candidates, corpusVars, checkVars, dbVars, hubPool,
                 historyVars>>

vmCrash(v) ==
  /\ held' = [held EXCEPT ![v] = {}]
  /\ UNCHANGED <<phase, candidates, corpusVars, checkVars, dbVars, hubPool,
                 historyVars>>

restart ==
  /\ phase' = phaseInit
  /\ candidates' = EmptyBag
  /\ corpus' = {}
  /\ item' = [p \in Progs |-> NoSignal]
  /\ callOf' = [p \in Progs |-> NoCall]
  /\ lastMinCorpus' = 0
  /\ saturatedCalls' = {}
  /\ disabled' = {}
  /\ disabledHashes' = {}
  /\ held' = [v \in VMs |-> {}]
  /\ offered' = {}
  /\ accepted' = {}
  /\ records' = disk
  /\ unwritten' = {}
  /\ torn' = FALSE
  /\ flushed' = TRUE
  /\ UNCHANGED <<disk, hubPool>>

MgrNext ==
  \/ \E dis \in SUBSET Disableable : machineChecked(dis)
  \/ minimizeCorpus
  \/ \E p \in Runnable, c \in Calls, s \in InputSignals :
       phase >= phaseLoadedCorpus /\ newInput(p, c, s)
  \/ phase >= phaseLoadedCorpus /\ \E v \in VMs, b \in Batches : candidateBatch(v, b)
  \/ \E ps \in SUBSET HubProgs : addNewCandidates(ps)
  \/ hubIsUnreachable
  \/ \E v \in VMs, p \in Progs : triageDone(v, p)
  \/ \E v \in VMs : vmCrash(v)
  \/ restart

MgrSpec == MgrInit /\ [][MgrNext]_mgrVars

\* A machine check succeeds in some VM, fuzzers that run out of work ask for
\* candidates, and the hub loop's sync ends or is given up after maxAttempts.
MgrFairness ==
  /\ WF_mgrVars(\E dis \in SUBSET Disableable : machineChecked(dis))
  /\ WF_mgrVars(phase >= phaseLoadedCorpus /\ \E v \in VMs, b \in Batches : candidateBatch(v, b))
  /\ WF_mgrVars((\E ps \in SUBSET HubProgs : addNewCandidates(ps)) \/ hubIsUnreachable)

MgrFairSpec == MgrSpec /\ MgrFairness

-----------------------------------------------------------------------------
(***************************************************************************)
(* Properties.                                                             *)
(***************************************************************************)

\* Types, and the shape of the corpus maps: a program outside mgr.corpus has
\* no signal and no call, one inside has both.
MgrTypeOK ==
  /\ phase \in phaseInit .. phaseTriagedHub
  /\ candidates \in [Progs -> Nat]
  /\ corpus \subseteq Progs
  /\ item \in [Progs -> Signals]
  /\ callOf \in [Progs -> Calls \cup {NoCall}]
  /\ \A p \in Progs : p \in corpus <=> item[p] # NoSignal
  /\ lastMinCorpus \in Nat
  /\ saturatedCalls \subseteq Calls
  /\ disabled \subseteq Disableable
  /\ disabledHashes \subseteq disabled
  /\ records \subseteq Progs /\ unwritten \subseteq Progs
  /\ disk \subseteq Progs /\ torn \in BOOLEAN /\ flushed \in BOOLEAN
  /\ hubPool \subseteq HubProgs
  /\ held \in [VMs -> SUBSET Progs]
  /\ offered \subseteq Progs /\ accepted \subseteq Progs

\* Unless the file has a torn record, what mgr.corpus holds is on disk when the
\* last write succeeded, however many failed before it, and otherwise on disk or
\* still to be written (newInput flushes all that is pending, minimizeCorpus
\* deletes only what it dropped, a failed write keeps what is pending).  A torn
\* record, left by an append that failed half way, voids this until the next
\* compaction: later appends succeed and are not read (see RecordsMirrored of
\* module CorpusDB).
CorpusPersisted ==
  ~torn => /\ flushed => corpus \subseteq disk
           /\ corpus \subseteq disk \cup unwritten

\* What the code waits for before a program leaves corpus.db: it is broken, or
\* has disabled calls and the configuration does not preserve such programs, or
\* was handed to a fuzzer or reported by one since the manager started.
MayGo(k) ==
  \/ k \in Broken
  \/ k \in disabled /\ ~PreserveCorpus
  \/ k \in Runnable /\ k \in offered \cup accepted

\* No runnable program leaves corpus.db before it was handed to a fuzzer or
\* reported by one, and no disabled one that is to be preserved, whichever writes
\* failed before.  This is weaker than what the comments promise: see
\* TriagedBeforeDeletion.
DeletedOnlyOnceOffered == [][\A k \in disk \ disk' : MayGo(k)]_mgrVars

\* "Don't minimize persistent corpus until fuzzers have triaged all inputs from
\* it" (minimizeCorpus; likewise the comment on phaseTriagedCorpus): what a
\* fuzzer has received and not yet triaged stays in corpus.db.
TriagedBeforeDeletion == [][\A k \in disk \ disk', v \in VMs : k \notin held[v]]_mgrVars

\* The corpus never loses signal while the manager runs: whatever priority an
\* item gave to an element, newInput and minimizeCorpus leave an item that
\* gives it no less.
CoverageKept ==
  [][\/ phase' = phaseInit
     \/ \A p \in corpus, e \in Elems :
          item[p][e] # Absent => \E q \in corpus' : item'[q][e] >= item[p][e]]_mgrVars

\* A manager that keeps running gets through all phases: corpus triage and the
\* hub's first answer, or its absence, never leave it stuck.
PhasesComplete ==
  <>[](phase # phaseInit) => <>[](phase = phaseTriagedHub)

-----------------------------------------------------------------------------
(***************************************************************************)
(* The inductive invariant behind CorpusPersisted and                      *)
(* DeletedOnlyOnceOffered.                                                 *)
(***************************************************************************)

\* Before the machine check nothing was accepted and nothing written.
StartsClean ==
  phase = phaseInit => corpus = {} /\ records = disk /\ unwritten = {} /\ ~torn

\* Memory is at most ahead of the file by what is still to be written, and what
\* it has dropped, or might drop, may go.
DBInSync ==
  /\ corpus \subseteq records
  /\ ~torn => records \ unwritten \subseteq disk
  /\ flushed => unwritten \cap records = {}
  /\ \A k \in (disk \ records) \cup unwritten : MayGo(k)

\* What loadCorpus found disabled is protected from minimizeCorpus.
DisabledKept ==
  phase # phaseInit /\ PreserveCorpus => (records \cap disabled) \ Broken \subseteq disabledHashes

\* A loaded record is a candidate until it is handed out, and all were handed
\* out when the phase says that the corpus was triaged.
RecordsOffered ==
  \A k \in records \cap Runnable :
    /\ phase # phaseInit => k \in offered \cup accepted \/ candidates[k] > 0
    /\ phase >= phaseTriagedCorpus => k \in offered \cup accepted

\* Everything above: why minimizeCorpus may delete what is in neither
\* mgr.corpus nor mgr.disabledHashes.
MgrInv ==
  /\ MgrTypeOK
  /\ StartsClean
  /\ DBInSync
  /\ DisabledKept
  /\ RecordsOffered
=============================================================================
