---------------------------- MODULE FuzzerProofs ----------------------------
(***************************************************************************)
(* Proofs about one fuzzer (module Fuzzer), for every number of procs and  *)
(* every set of programs, outcomes and signals: new signal is neither lost *)
(* on its way through the work queue nor on its way to the manager, and no *)
(* program enters the corpus before the manager has it.                    *)
(***************************************************************************)
EXTENDS Fuzzer, SignalProofs, SequenceTheorems

-----------------------------------------------------------------------------
(***************************************************************************)
(* The queues.                                                             *)
(***************************************************************************)

LEMMA FrontLast ==
  ASSUME NEW S, NEW q \in Seq(S), q # << >>
  PROVE  /\ Front(q) \in Seq(S) /\ Last(q) \in S
         /\ \A n \in DOMAIN q : q[n] = Last(q) \/ (n \in DOMAIN Front(q) /\ Front(q)[n] = q[n])
<1>1. Len(q) \in Nat /\ Len(q) > 0 /\ DOMAIN q = 1 .. Len(q)
  BY EmptySeq, LenProperties
<1>2. Last(q) \in S
  BY <1>1 DEF Last
<1>3. Front(q) = [n \in 1 .. Len(q) - 1 |-> q[n]] /\ Front(q) \in Seq(S)
  BY <1>1 DEF Front
<1>4. ASSUME NEW n \in DOMAIN q
      PROVE  q[n] = Last(q) \/ (n \in DOMAIN Front(q) /\ Front(q)[n] = q[n])
  BY <1>1, <1>3, <1>4 DEF Last
<1> QED
  BY <1>2, <1>3, <1>4

\* Taking the last work item of a queue, or appending one, loses no signal.
LEMMA QueueSignals ==
  ASSUME NEW q \in Seq(Works)
  PROVE  /\ QueuedSignals(q) \subseteq Signals
         /\ q # << >> => /\ Front(q) \in Seq(Works) /\ Last(q) \in Works
                         /\ QueuedSignals(q) \subseteq QueuedSignals(Front(q)) \cup {Last(q).sig}
         /\ \A w \in Works : /\ Append(q, w) \in Seq(Works)
                             /\ QueuedSignals(q) \cup {w.sig} \subseteq QueuedSignals(Append(q, w))
<1>1. QueuedSignals(q) \subseteq Signals
  <2>1. \A n \in DOMAIN q : q[n] \in Works
    BY LenProperties
  <2> QED
    BY <2>1 DEF QueuedSignals, Works
<1>2. ASSUME q # << >>
      PROVE  /\ Front(q) \in Seq(Works) /\ Last(q) \in Works
             /\ QueuedSignals(q) \subseteq QueuedSignals(Front(q)) \cup {Last(q).sig}
  <2>1. /\ Front(q) \in Seq(Works) /\ Last(q) \in Works
        /\ \A n \in DOMAIN q : q[n] = Last(q) \/ (n \in DOMAIN Front(q) /\ Front(q)[n] = q[n])
    BY <1>2, FrontLast
  <2>2. ASSUME NEW n \in DOMAIN q
        PROVE  q[n].sig \in QueuedSignals(Front(q)) \cup {Last(q).sig}
    BY <2>1, <2>2 DEF QueuedSignals
  <2> QED
    BY <2>1, <2>2 DEF QueuedSignals
<1>3. ASSUME NEW w \in Works
      PROVE  /\ Append(q, w) \in Seq(Works)
             /\ QueuedSignals(q) \cup {w.sig} \subseteq QueuedSignals(Append(q, w))
  <2> DEFINE r == Append(q, w)
  <2>1. /\ r \in Seq(Works) /\ Len(r) = Len(q) + 1 /\ Len(q) \in Nat
        /\ DOMAIN q = 1 .. Len(q) /\ DOMAIN r = 1 .. Len(r)
        /\ \A n \in 1 .. Len(q) : r[n] = q[n]
        /\ r[Len(q) + 1] = w
    BY AppendProperties, LenProperties
  <2> HIDE DEF r
  <2>2. \A n \in DOMAIN q : n \in DOMAIN r /\ r[n].sig = q[n].sig
    BY <2>1
  <2>3. Len(q) + 1 \in DOMAIN r /\ r[Len(q) + 1].sig = w.sig
    BY <2>1
  <2>4. QueuedSignals(q) \cup {w.sig} \subseteq QueuedSignals(r)
    BY <2>2, <2>3 DEF QueuedSignals
  <2> QED
    BY <2>1, <2>4 DEF r
<1> QED
  BY <1>1, <1>2, <1>3

-----------------------------------------------------------------------------
(***************************************************************************)
(* One proc's step, in terms of what it must do to keep the invariant.     *)
(***************************************************************************)

\* The signals somebody is responsible for, as in NewSignalTriaged.
Queued == QueuedSignals(triage) \cup QueuedSignals(triageCandidate)

Responsible == {corpusSignal, flaky} \cup HeldSignals \cup Queued

LEMMA ResponsibleType ==
  ASSUME TypeOK
  PROVE  Responsible \subseteq Signals /\ found \in Signals
<1>1. Queued \subseteq Signals
  BY QueueSignals DEF Queued, TypeOK, SharedTypeOK
<1>2. \A i \in Procs : proc[i].sig \in Signals /\ proc[i].of.sig \in Signals
  BY NoSignalType DEF TypeOK, ProcStates, Works, NoWork
<1>3. HeldSignals \subseteq Signals
  BY <1>2 DEF HeldSignals
<1>4. corpusSignal \in Signals /\ flaky \in Signals /\ found \in Signals
  BY DEF TypeOK, SharedTypeOK
<1> QED
  BY <1>1, <1>3, <1>4 DEF Responsible

\* The same after a step.
LEMMA ResponsibleTypeAfter ==
  ASSUME TypeOK'
  PROVE  Responsible' \subseteq Signals /\ found' \in Signals
<1>1. Queued' \subseteq Signals
  BY QueueSignals DEF Queued, TypeOK, SharedTypeOK
<1>2. \A i \in Procs : proc'[i].sig \in Signals /\ proc'[i].of.sig \in Signals
  BY NoSignalType DEF TypeOK, ProcStates, Works, NoWork
<1>3. HeldSignals' \subseteq Signals
  BY <1>2 DEF HeldSignals
<1>4. corpusSignal' \in Signals /\ flaky' \in Signals /\ found' \in Signals
  BY DEF TypeOK, SharedTypeOK
<1> QED
  BY <1>1, <1>3, <1>4 DEF Responsible

\* Responsibility may move, but not to somebody who takes less.
LEMMA TriagedStays ==
  ASSUME NEW R \in SUBSET Signals, NEW R1 \in SUBSET Signals,
         NEW f \in Signals, NEW f1 \in Signals,
         Covers(MergeAll(R), f),
         \A s \in R : s = NoSignal \/ \E t \in R1 : Covers(t, s),
         \/ f1 = f
         \/ \E t \in R1, d \in Signals : Covers(t, d) /\ f1 = Merge(f, d)
  PROVE  Covers(MergeAll(R1), f1)
<1>1. \A e \in Elems : f[e] = Absent \/ \E s \in R : s[e] >= f[e]
  BY MergeAllCovers
<1>2. ASSUME NEW e \in Elems
      PROVE  f[e] = Absent \/ \E t \in R1 : t[e] >= f[e]
  <2>1. CASE f[e] = Absent
    BY <2>1
  <2>2. CASE f[e] # Absent
    <3>1. PICK s \in R : s[e] >= f[e]
      BY <1>1, <2>2
    <3>2. f[e] \in Int /\ f[e] >= Absent /\ s[e] \in Int
      BY SignalValues
    <3>3. s # NoSignal
      BY <2>2, <3>1, <3>2 DEF NoSignal, Absent
    <3>4. PICK t \in R1 : Covers(t, s)
      BY <3>3
    <3>5. t[e] >= s[e] /\ t[e] \in Int
      BY <3>4, SignalValues DEF Covers
    <3> QED
      BY <3>1, <3>2, <3>5
  <2> QED
    BY <2>1, <2>2
<1>3. CASE f1 = f
  BY <1>2, <1>3, MergeAllCovers
<1>4. CASE \E t \in R1, d \in Signals : Covers(t, d) /\ f1 = Merge(f, d)
  <2>1. PICK t \in R1, d \in Signals : Covers(t, d) /\ f1 = Merge(f, d)
    BY <1>4
  <2>2. ASSUME NEW e \in Elems
        PROVE  f1[e] = Absent \/ \E s \in R1 : s[e] >= f1[e]
    <3>1. f1[e] = f[e] \/ f1[e] = d[e]
      BY <2>1, MergeValue
    <3>2. t[e] >= d[e]
      BY <2>1 DEF Covers
    <3> QED
      BY <1>2, <3>1, <3>2
  <2> QED
    BY <2>2, MergeAllCovers
<1> QED
  BY <1>3, <1>4

\* A step of proc i that leaves it in state q and does what the invariant needs.
GoodStep(i, q) ==
  /\ q \in ProcStates /\ proc' = [proc EXCEPT ![i] = q]
  /\ ProcOK(q, srvInputs') /\ srvInputs \subseteq srvInputs'
  /\ SharedTypeOK'
  /\ Covers(maxSignal', corpusSignal')
  /\ Covers(corpusSignal', corpusSignal) /\ Covers(flaky', flaky)
  /\ \A s \in Queued : s \in Queued' \/ s = q.of.sig
  /\ proc[i].sig = NoSignal \/ proc[i].sig = q.sig \/ proc[i].sig \in Queued'
  /\ \/ proc[i].of.sig = NoSignal \/ proc[i].of.sig = q.of.sig
     \/ Covers(corpusSignal', proc[i].of.sig) \/ Covers(flaky', proc[i].of.sig)
  /\ \/ found' = found /\ newSignal' = newSignal
     \/ /\ Covers(q.sig, proc[i].diff)
        /\ found' = Merge(found, proc[i].diff)
        /\ newSignal' = Merge(newSignal, proc[i].diff)
  /\ corpus' \subseteq corpus \cup srvInputs
  /\ received' = received /\ poller' = poller /\ srvSignal' = srvSignal

\* What NewSignalReported says, for any values of the variables.
LEMMA ReportedStays ==
  ASSUME NEW a \in Signals, NEW b \in Signals, NEW c \in Signals, NEW f \in Signals,
         NEW d \in Signals, Covers(MergeAll({a, b, c}), f)
  PROVE  Covers(MergeAll({a, Merge(b, d), c}), Merge(f, d))
<1> DEFINE R == {a, b, c}
           R1 == {a, Merge(b, d), c}
<1>1. /\ Merge(b, d) \in Signals /\ Merge(f, d) \in Signals
      /\ Covers(Merge(b, d), b) /\ Covers(Merge(b, d), d)
  BY MergeIsJoin
<1>2. R \in SUBSET Signals /\ R1 \in SUBSET Signals
  BY <1>1
<1>3. \A s \in R : \E t \in R1 : Covers(t, s)
  BY <1>1, CoversOrder
<1>4. Merge(b, d) \in R1
  OBVIOUS
<1> HIDE DEF R, R1
<1>5. Covers(MergeAll(R1), Merge(f, d))
  BY <1>1, <1>2, <1>3, <1>4, TriagedStays DEF R
<1> QED
  BY <1>5 DEF R1

LEMMA GoodStepKeeps ==
  ASSUME FuzzerInv, NEW i \in Procs, NEW q, GoodStep(i, q)
  PROVE  FuzzerInv'
<1> TypeOK /\ ProcInv /\ PollerInv
  BY DEF FuzzerInv, CorpusWithinMax
<1>0. q \in ProcStates /\ proc \in [Procs -> ProcStates] /\ proc' = [proc EXCEPT ![i] = q]
  BY DEF GoodStep, TypeOK
<1>1. TypeOK'
  BY <1>0 DEF GoodStep, TypeOK
<1>2. CorpusWithinMax'
  BY <1>1 DEF GoodStep, CorpusWithinMax
<1>3. ProcInv'
  <2>1. ProcOK(q, srvInputs')
    BY DEF GoodStep
  <2>2. \A j \in Procs : ProcOK(proc[j], srvInputs) /\ srvInputs \subseteq srvInputs'
    BY DEF GoodStep, ProcInv
  <2>3. \A j \in Procs : ProcOK(proc[j], srvInputs')
    BY <2>2 DEF ProcOK
  <2> QED
    BY <1>0, <2>1, <2>3 DEF ProcInv
<1>4. PollerInv'
  BY DEF GoodStep, PollerInv
<1>5. NewSignalTriaged'
  <2> DEFINE R == Responsible
             R1 == Responsible'
  <2>1. R \in SUBSET Signals /\ R1 \in SUBSET Signals /\ found \in Signals /\ found' \in Signals
    <3>1. R \in SUBSET Signals /\ found \in Signals
      BY ResponsibleType
    <3>2. R1 \in SUBSET Signals /\ found' \in Signals
      BY <1>1, ResponsibleTypeAfter
    <3> QED
      BY <3>1, <3>2
  <2>2. Covers(MergeAll(R), found)
    BY DEF FuzzerInv, NewSignalTriaged, Responsible, Queued
  <2>3. /\ corpusSignal' \in R1 /\ flaky' \in R1 /\ Queued' \subseteq R1
        /\ \A j \in Procs : proc'[j].sig \in R1 /\ proc'[j].of.sig \in R1
    BY DEF Responsible, HeldSignals
  <2>4. q.sig \in R1 /\ q.of.sig \in R1
    BY <1>0, <2>3
  <2>5. \A j \in Procs \ {i} : proc'[j] = proc[j]
    BY <1>0
  <2> HIDE DEF R, R1
  <2>6. ASSUME NEW s \in R PROVE s = NoSignal \/ \E t \in R1 : Covers(t, s)
    <3>0. s \in Signals /\ Covers(s, s)
      BY <2>1, CoversOrder
    <3>1. CASE s = corpusSignal \/ s = flaky
      BY <2>3, <3>1 DEF GoodStep
    <3>2. CASE s \in Queued
      BY <2>3, <2>4, <3>0, <3>2 DEF GoodStep
    <3>3. ASSUME NEW j \in Procs, s = proc[j].sig \/ s = proc[j].of.sig
          PROVE  s = NoSignal \/ \E t \in R1 : Covers(t, s)
      <4>1. CASE j # i
        BY <2>3, <2>5, <3>0, <3>3, <4>1
      <4>2. CASE j = i /\ s = proc[i].sig
        BY <2>3, <2>4, <3>0, <4>2 DEF GoodStep
      <4>3. CASE j = i /\ s = proc[i].of.sig
        BY <2>3, <2>4, <3>0, <4>3 DEF GoodStep
      <4> QED
        BY <3>3, <4>1, <4>2, <4>3
    <3> QED
      BY <3>1, <3>2, <3>3 DEF R, Responsible, HeldSignals
  <2>7. \/ found' = found
        \/ \E t \in R1, d \in Signals : Covers(t, d) /\ found' = Merge(found, d)
    <3>1. proc[i].diff \in Signals
      BY <1>0 DEF ProcStates
    <3> QED
      BY <2>4, <3>1 DEF GoodStep
  <2>8. Covers(MergeAll(R1), found')
    BY <2>1, <2>2, <2>6, <2>7, TriagedStays
  <2> QED
    BY <2>8 DEF R1, Responsible, Queued, NewSignalTriaged
<1>6. NewSignalReported'
  <2>1. /\ srvSignal \in Signals /\ newSignal \in Signals /\ poller.grabbed \in Signals
        /\ found \in Signals /\ proc[i].diff \in Signals
    BY <1>0 DEF TypeOK, SharedTypeOK, PollerStates, ProcStates
  <2>2. Covers(MergeAll({srvSignal, newSignal, poller.grabbed}), found)
    BY DEF FuzzerInv, NewSignalReported
  <2>3. poller' = poller /\ srvSignal' = srvSignal
    BY DEF GoodStep
  <2>4. CASE found' = found /\ newSignal' = newSignal
    BY <2>2, <2>3, <2>4 DEF NewSignalReported
  <2>5. CASE /\ found' = Merge(found, proc[i].diff)
             /\ newSignal' = Merge(newSignal, proc[i].diff)
    BY <2>1, <2>2, <2>3, <2>5, ReportedStays DEF NewSignalReported
  <2> QED
    BY <2>4, <2>5 DEF GoodStep
<1>7. CorpusReported'
  BY DEF GoodStep, FuzzerInv, CorpusReported
<1> QED
  BY <1>2, <1>3, <1>4, <1>5, <1>6, <1>7 DEF FuzzerInv

\* The parts of the invariant the steps below start from.
LEMMA ProcFacts ==
  ASSUME FuzzerInv, NEW i \in Procs
  PROVE  /\ TypeOK /\ SharedTypeOK /\ proc \in [Procs -> ProcStates]
         /\ proc[i] \in ProcStates /\ ProcOK(proc[i], srvInputs)
         /\ maxSignal \in Signals /\ corpusSignal \in Signals /\ flaky \in Signals
         /\ proc[i].sig \in Signals /\ proc[i].diff \in Signals /\ proc[i].of.sig \in Signals
         /\ Covers(maxSignal, corpusSignal)
<1>1. TypeOK /\ ProcInv /\ Covers(maxSignal, corpusSignal)
  BY DEF FuzzerInv, CorpusWithinMax
<1>2. SharedTypeOK /\ proc \in [Procs -> ProcStates] /\ proc[i] \in ProcStates
  BY <1>1 DEF TypeOK
<1>3. proc[i].sig \in Signals /\ proc[i].diff \in Signals /\ proc[i].of.sig \in Signals
  BY <1>2, NoSignalType DEF ProcStates, Works, NoWork
<1>4. maxSignal \in Signals /\ corpusSignal \in Signals /\ flaky \in Signals
  BY <1>2 DEF SharedTypeOK
<1> QED
  BY <1>1, <1>2, <1>3, <1>4 DEF ProcInv

\* A step that changes nothing but the proc itself.
LEMMA OwnStep ==
  ASSUME FuzzerInv, NEW i \in Procs, NEW q \in ProcStates, proc' = [proc EXCEPT ![i] = q],
         UNCHANGED <<queues, needPoll, signals, corpus, poller, boot, mgr, history>>,
         ProcOK(q, srvInputs),
         proc[i].sig = NoSignal \/ proc[i].sig = q.sig,
         \/ proc[i].of.sig = NoSignal \/ proc[i].of.sig = q.of.sig
         \/ Covers(corpusSignal, proc[i].of.sig)
  PROVE  GoodStep(i, q)
<1>1. /\ triageCandidate' = triageCandidate /\ candidate' = candidate /\ triage' = triage
      /\ smash' = smash /\ needPoll' = needPoll /\ maxSignal' = maxSignal
      /\ corpusSignal' = corpusSignal /\ newSignal' = newSignal /\ corpus' = corpus
      /\ poller' = poller /\ boot' = boot /\ srvSignal' = srvSignal /\ srvInputs' = srvInputs
      /\ toReceive' = toReceive /\ toTriage' = toTriage /\ found' = found /\ flaky' = flaky
      /\ received' = received
  BY DEF queues, signals, mgr, history
<1>2. SharedTypeOK'
  BY <1>1, ProcFacts DEF SharedTypeOK
<1>3. Covers(corpusSignal', corpusSignal) /\ Covers(flaky', flaky) /\ Covers(maxSignal', corpusSignal')
  BY <1>1, ProcFacts, CoversOrder
<1>4. Queued' = Queued
  BY <1>1 DEF Queued
<1> QED
  BY <1>1, <1>2, <1>3, <1>4 DEF GoodStep

LEMMA IdleOK ==
  /\ Idle \in ProcStates /\ Idle.sig = NoSignal /\ Idle.of = NoWork
  /\ \A sent : ProcOK(Idle, sent)
<1>1. Idle \in ProcStates
  BY NoSignalType DEF Idle, ProcStates, Flags, ProgNormal, NoWork
<1>2. Idle.sig = NoSignal /\ Idle.of = NoWork /\ Idle.pc = "idle" /\ Idle.back = "idle"
  BY DEF Idle, NoWork
<1> HIDE DEF Idle
<1>3. ASSUME NEW sent PROVE ProcOK(Idle, sent)
  BY <1>2 DEF ProcOK, OnWork, Executing
<1> QED
  BY <1>1, <1>2, <1>3

\* The proc leaves triage, smashing or a failed triage for its main loop.
LEMMA BackToIdle ==
  ASSUME FuzzerInv, NEW i \in Procs, TriageNothingNew(i) \/ SmashDone(i)
  PROVE  GoodStep(i, Idle)
<1>1. /\ proc' = [proc EXCEPT ![i] = Idle]
      /\ UNCHANGED <<queues, needPoll, signals, corpus, poller, boot, mgr, history>>
  BY DEF TriageNothingNew, SmashDone
<1>2. proc[i].sig = NoSignal
  BY ProcFacts DEF TriageNothingNew, SmashDone, ProcOK
<1>3. proc[i].of.sig = NoSignal \/ Covers(corpusSignal, proc[i].of.sig)
  <2>1. CASE TriageNothingNew(i)
    <3>1. Empty(Diff(corpusSignal, proc[i].of.sig))
      BY <2>1 DEF TriageNothingNew
    <3> QED
      BY <3>1, ProcFacts, DiffIsComplement
  <2>2. CASE SmashDone(i)
    <3>1. proc[i].of = NoWork
      BY <2>2, ProcFacts DEF SmashDone, ProcOK, OnWork, Executing
    <3> QED
      BY <3>1 DEF NoWork
  <2> QED
    BY <2>1, <2>2
<1> QED
  BY <1>1, <1>2, <1>3, IdleOK, OwnStep

\* The proc asks for an execution of p, in its main loop, for prog.Minimize or
\* for smashInput.
LEMMA StartsExecution ==
  ASSUME FuzzerInv, NEW i \in Procs, Generate(i) \/ MinimizeTry(i) \/ SmashTry(i)
  PROVE  \E q : GoodStep(i, q)
<1>1. CASE Generate(i)
  <2>1. PICK p \in Progs : proc' = [proc EXCEPT ![i] = [Idle EXCEPT !.pc = "exec", !.prog = p]]
    BY <1>1 DEF Generate
  <2> DEFINE q == [Idle EXCEPT !.pc = "exec", !.prog = p]
  <2>2. /\ q \in ProcStates /\ q.pc = "exec" /\ q.prog = p /\ q.sig = NoSignal
        /\ q.of = NoWork /\ q.back = "idle"
    BY NoSignalType DEF Idle, ProcStates, Flags, ProgNormal, NoWork
  <2>3. proc' = [proc EXCEPT ![i] = q]
    BY <2>1
  <2> HIDE DEF q
  <2>4. ProcOK(q, srvInputs)
    BY <2>2 DEF ProcOK, OnWork, Executing
  <2>5. proc[i].sig = NoSignal /\ proc[i].of = NoWork
    BY <1>1, ProcFacts DEF Generate, ProcOK, OnWork, Executing
  <2>6. proc[i].of.sig = NoSignal
    BY <2>5 DEF NoWork
  <2>7. UNCHANGED <<queues, needPoll, signals, corpus, poller, boot, mgr, history>>
    BY <1>1 DEF Generate
  <2> QED
    BY <2>2, <2>3, <2>4, <2>5, <2>6, <2>7, OwnStep
<1>2. ASSUME NEW p \in Progs, NEW back \in {"minimize", "smash"}, proc[i].pc = back,
             proc' = [proc EXCEPT ![i].pc = "exec", ![i].prog = p, ![i].back = back],
             UNCHANGED <<queues, needPoll, signals, corpus, poller, boot, mgr, history>>
      PROVE  \E q : GoodStep(i, q)
  <2> DEFINE q == [proc[i] EXCEPT !.pc = "exec", !.prog = p, !.back = back]
  <2>1. proc \in [Procs -> ProcStates] /\ proc[i] \in ProcStates
    BY ProcFacts
  <2>2. proc' = [proc EXCEPT ![i] = q]
    BY <1>2, <2>1 DEF ProcStates
  <2>3. q \in ProcStates
    BY <2>1 DEF ProcStates
  <2>4. /\ q.pc = "exec" /\ q.prog = p /\ q.sig = proc[i].sig
        /\ q.of = proc[i].of /\ q.back = back
    BY <2>1 DEF ProcStates
  <2> HIDE DEF q
  <2>5. ProcOK(q, srvInputs)
    BY <1>2, <2>4, ProcFacts DEF ProcOK, OnWork, Executing
  <2> QED
    BY <1>2, <2>2, <2>3, <2>4, <2>5, OwnStep
<1>3. CASE MinimizeTry(i)
  BY <1>2, <1>3 DEF MinimizeTry
<1>4. CASE SmashTry(i)
  BY <1>2, <1>4 DEF SmashTry
<1> QED
  BY <1>1, <1>3, <1>4

\* The execution ends: nothing is new, or what is new is noted.
LEMMA EndsExecution ==
  ASSUME FuzzerInv, NEW i \in Procs, ExecuteNothingNew(i) \/ ExecuteNewSignal(i)
  PROVE  \E q : GoodStep(i, q)
<1>0. /\ proc \in [Procs -> ProcStates] /\ proc[i] \in ProcStates /\ ProcOK(proc[i], srvInputs)
      /\ UNCHANGED <<queues, needPoll, signals, corpus, poller, boot, mgr, history>>
      /\ proc[i].pc = "exec"
  BY ProcFacts DEF ExecuteNothingNew, ExecuteNewSignal
<1>1. CASE ExecuteNothingNew(i)
  <2> DEFINE q == [proc[i] EXCEPT !.pc = proc[i].back, !.prog = NoProg, !.flags = ProgNormal]
  <2>1. q \in ProcStates
    BY <1>0 DEF ProcStates, Flags, ProgNormal
  <2>2. proc' = [proc EXCEPT ![i] = q]
    BY <1>0, <1>1 DEF ExecuteNothingNew, ProcStates
  <2>3. q.pc = proc[i].back /\ q.of = proc[i].of /\ q.sig = proc[i].sig
    BY <1>0 DEF ProcStates
  <2>4. proc[i].back \in {"idle", "minimize", "smash"}
    BY <1>0 DEF ProcStates
  <2> HIDE DEF q
  <2>5. ProcOK(q, srvInputs)
    BY <1>0, <2>3, <2>4 DEF ProcOK, OnWork, Executing
  <2> QED
    BY <1>0, <2>1, <2>2, <2>3, <2>5, OwnStep
<1>2. CASE ExecuteNewSignal(i)
  <2>1. PICK s \in Outcomes[proc[i].prog] :
          proc' = [proc EXCEPT ![i].pc = "merge", ![i].sig = s, ![i].diff = Diff(maxSignal, s)]
    BY <1>2 DEF ExecuteNewSignal
  <2>2. s \in Signals
    <3>1. proc[i].prog \in Progs
      BY <1>0 DEF ProcOK, Executing
    <3>2. PICK raw \in SUBSET Elems, prio \in Prios : s = FromRaw(raw, prio)
      BY <2>1, <3>1, FuzzerAssumption
    <3> QED
      BY <3>2 DEF FromRaw, Signals
  <2> DEFINE d == Diff(maxSignal, s)
             q == [proc[i] EXCEPT !.pc = "merge", !.sig = s, !.diff = d]
  <2>3. d \in Signals /\ Covers(s, d)
    <3>1. maxSignal \in Signals
      BY ProcFacts
    <3>2. d \in Signals
      BY <2>2, <3>1, DiffIsComplement
    <3> QED
      BY <2>2, <3>1, <3>2, SignalValues DEF Covers, Diff
  <2> HIDE DEF d
  <2>4. q \in ProcStates
    BY <1>0, <2>2, <2>3 DEF ProcStates
  <2>5. proc' = [proc EXCEPT ![i] = q]
    BY <1>0, <2>1 DEF ProcStates, d
  <2>6. /\ q.pc = "merge" /\ q.of = proc[i].of /\ q.sig = s /\ q.diff = d
        /\ q.back = proc[i].back /\ q.prog = proc[i].prog
    BY <1>0 DEF ProcStates
  <2> HIDE DEF q
  <2>7. ProcOK(q, srvInputs)
    BY <1>0, <2>3, <2>6 DEF ProcOK, OnWork, Executing
  <2>8. proc[i].sig = NoSignal
    BY <1>0 DEF ProcOK
  <2> QED
    BY <1>0, <2>4, <2>5, <2>6, <2>7, <2>8, OwnStep
<1> QED
  BY <1>1, <1>2

\* triageInput computes what is new, and prog.Minimize ends.
LEMMA TriageSteps ==
  ASSUME FuzzerInv, NEW i \in Procs, TriageStart(i) \/ MinimizeDone(i)
  PROVE  \E q : GoodStep(i, q)
<1>0. /\ proc \in [Procs -> ProcStates] /\ proc[i] \in ProcStates /\ ProcOK(proc[i], srvInputs)
      /\ UNCHANGED <<queues, needPoll, signals, corpus, poller, boot, mgr, history>>
      /\ corpusSignal \in Signals /\ proc[i].of.sig \in Signals
  BY ProcFacts DEF TriageStart, MinimizeDone
<1>1. CASE TriageStart(i)
  <2> DEFINE d == Diff(corpusSignal, proc[i].of.sig)
             q == [proc[i] EXCEPT !.pc = "runs", !.diff = d]
  <2>1. d \in Signals
    BY <1>0, DiffIsComplement
  <2>2. proc' = [proc EXCEPT ![i].pc = "runs", ![i].diff = d]
    BY <1>1 DEF TriageStart
  <2> HIDE DEF d
  <2>3. q \in ProcStates
    BY <1>0, <2>1 DEF ProcStates
  <2>4. proc' = [proc EXCEPT ![i] = q]
    BY <1>0, <2>2 DEF ProcStates
  <2>5. q.pc = "runs" /\ q.of = proc[i].of /\ q.sig = proc[i].sig
    BY <1>0 DEF ProcStates
  <2>6. proc[i].pc = "triage"
    BY <1>1 DEF TriageStart
  <2> HIDE DEF q
  <2>7. ProcOK(q, srvInputs)
    BY <1>0, <2>5, <2>6 DEF ProcOK, OnWork, Executing
  <2> QED
    BY <1>0, <2>3, <2>4, <2>5, <2>7, OwnStep
<1>2. CASE MinimizeDone(i)
  <2>0. proc[i].pc = "minimize" /\ proc[i].of \in Works
    BY <1>0, <1>2 DEF MinimizeDone, ProcOK, OnWork
  <2>1. PICK p \in MinimizesTo[proc[i].of.prog] :
          proc' = [proc EXCEPT ![i].pc = "send", ![i].of.prog = p, ![i].back = "idle"]
    BY <1>2 DEF MinimizeDone
  <2>2. p \in Progs
    <3>1. proc[i].of.prog \in Progs
      BY <2>0 DEF Works
    <3> QED
      BY <2>1, <3>1, FuzzerAssumption
  <2> DEFINE w == [proc[i].of EXCEPT !.prog = p]
             q == [proc[i] EXCEPT !.pc = "send", !.of = w, !.back = "idle"]
  <2>3. w \in Works /\ w.sig = proc[i].of.sig
    BY <2>0, <2>2 DEF Works
  <2>4. proc' = [proc EXCEPT ![i] = q]
    BY <1>0, <2>1 DEF ProcStates
  <2> HIDE DEF w
  <2>5. q \in ProcStates
    BY <1>0, <2>3 DEF ProcStates
  <2>6. q.pc = "send" /\ q.of = w /\ q.sig = proc[i].sig
    BY <1>0 DEF ProcStates
  <2> HIDE DEF q
  <2>7. ProcOK(q, srvInputs)
    BY <1>0, <2>0, <2>3, <2>6 DEF ProcOK, OnWork, Executing
  <2> QED
    BY <1>0, <2>3, <2>4, <2>5, <2>6, <2>7, OwnStep
<1> QED
  BY <1>1, <1>2

\* The executions of triageInput: the work item is kept, or given up as flaky.
LEMMA TriageRunsStep ==
  ASSUME FuzzerInv, NEW i \in Procs, TriageRuns(i)
  PROVE  \E q : GoodStep(i, q)
<1>0. /\ proc \in [Procs -> ProcStates] /\ proc[i] \in ProcStates /\ ProcOK(proc[i], srvInputs)
      /\ corpusSignal \in Signals /\ flaky \in Signals /\ proc[i].of.sig \in Signals
      /\ SharedTypeOK /\ Covers(maxSignal, corpusSignal)
  BY ProcFacts
<1>1. /\ proc[i].pc = "runs"
      /\ UNCHANGED <<queues, needPoll, signals, corpus, poller, boot, mgr, found, received>>
      /\ \/ /\ proc' = [proc EXCEPT ![i] = Idle]
            /\ flaky' = Merge(flaky, proc[i].of.sig)
         \/ /\ proc' = [proc EXCEPT ![i].diff = NoSignal,
                                    ![i].pc = IF ProgMinimized \in proc[i].of.flags
                                              THEN "send" ELSE "minimize"]
            /\ UNCHANGED flaky
  BY DEF TriageRuns
<1>2. CASE flaky' = flaky /\
           proc' = [proc EXCEPT ![i].diff = NoSignal,
                                ![i].pc = IF ProgMinimized \in proc[i].of.flags
                                          THEN "send" ELSE "minimize"]
  <2>1. PICK pc \in {"send", "minimize"} :
          proc' = [proc EXCEPT ![i].diff = NoSignal, ![i].pc = pc]
    <3>1. CASE ProgMinimized \in proc[i].of.flags
      BY <1>2, <3>1
    <3>2. CASE ProgMinimized \notin proc[i].of.flags
      BY <1>2, <3>2
    <3> QED
      BY <3>1, <3>2
  <2> DEFINE q == [proc[i] EXCEPT !.diff = NoSignal, !.pc = pc]
  <2>2. q \in ProcStates
    BY <1>0, NoSignalType DEF ProcStates
  <2>3. proc' = [proc EXCEPT ![i] = q]
    BY <1>0, <2>1 DEF ProcStates
  <2>4. q.pc = pc /\ q.of = proc[i].of /\ q.sig = proc[i].sig
    BY <1>0 DEF ProcStates
  <2> HIDE DEF q
  <2>5. ProcOK(q, srvInputs)
    BY <1>0, <1>1, <2>4 DEF ProcOK, OnWork, Executing
  <2>6. UNCHANGED <<queues, needPoll, signals, corpus, poller, boot, mgr, history>>
    BY <1>1, <1>2 DEF history
  <2> QED
    BY <2>2, <2>3, <2>4, <2>5, <2>6, OwnStep
<1>3. CASE flaky' = Merge(flaky, proc[i].of.sig) /\ proc' = [proc EXCEPT ![i] = Idle]
  <2>1. flaky' \in Signals /\ Covers(flaky', flaky) /\ Covers(flaky', proc[i].of.sig)
    BY <1>0, <1>3, MergeIsJoin
  <2>2. /\ triageCandidate' = triageCandidate /\ candidate' = candidate /\ triage' = triage
        /\ smash' = smash /\ needPoll' = needPoll /\ maxSignal' = maxSignal
        /\ corpusSignal' = corpusSignal /\ newSignal' = newSignal /\ corpus' = corpus
        /\ poller' = poller /\ boot' = boot /\ srvSignal' = srvSignal /\ srvInputs' = srvInputs
        /\ toReceive' = toReceive /\ toTriage' = toTriage /\ found' = found
        /\ received' = received
    BY <1>1 DEF queues, signals, mgr
  <2>3. SharedTypeOK'
    BY <1>0, <2>1, <2>2 DEF SharedTypeOK
  <2>4. Queued' = Queued
    BY <2>2 DEF Queued
  <2>5. proc[i].sig = NoSignal
    BY <1>0, <1>1 DEF ProcOK
  <2>6. Covers(corpusSignal, corpusSignal)
    BY <1>0, CoversOrder
  <2>7. GoodStep(i, Idle)
    BY <1>0, <1>3, <2>1, <2>2, <2>3, <2>4, <2>5, <2>6, IdleOK DEF GoodStep
  <2> QED
    BY <2>7
<1> QED
  BY <1>1, <1>2, <1>3

\* sendInputToManager, and the first half of addInputToCorpus.
LEMMA ReportSteps ==
  ASSUME FuzzerInv, NEW i \in Procs, SendInput(i) \/ AddCorpus(i)
  PROVE  \E q : GoodStep(i, q)
<1>0. /\ proc \in [Procs -> ProcStates] /\ proc[i] \in ProcStates /\ ProcOK(proc[i], srvInputs)
      /\ SharedTypeOK /\ Covers(maxSignal, corpusSignal)
      /\ corpusSignal \in Signals /\ flaky \in Signals
  BY ProcFacts
<1>1. proc[i].pc \in {"send", "addCorpus"}
  BY DEF SendInput, AddCorpus
<1>2. proc[i].of \in Works /\ proc[i].sig = NoSignal
  BY <1>0, <1>1 DEF ProcOK, OnWork
<1>3. proc[i].of.prog \in Progs
  BY <1>2 DEF Works
<1>4. PICK pc \in {"addCorpus", "addSignal"} :
        /\ proc' = [proc EXCEPT ![i].pc = pc]
        /\ pc = "addCorpus" => srvInputs' = srvInputs \cup {proc[i].of.prog} /\ corpus' = corpus
        /\ pc = "addSignal" => /\ srvInputs' = srvInputs
                               /\ corpus' = corpus \cup {proc[i].of.prog}
                               /\ proc[i].pc = "addCorpus"
  <2>1. CASE SendInput(i)
    BY <2>1 DEF SendInput
  <2>2. CASE AddCorpus(i)
    BY <2>2 DEF AddCorpus, mgr
  <2> QED
    BY <2>1, <2>2
<1> DEFINE q == [proc[i] EXCEPT !.pc = pc]
<1>5. q \in ProcStates
  BY <1>0 DEF ProcStates
<1>6. proc' = [proc EXCEPT ![i] = q]
  BY <1>0, <1>4 DEF ProcStates
<1>7. q.pc = pc /\ q.of = proc[i].of /\ q.sig = proc[i].sig
  BY <1>0 DEF ProcStates
<1> HIDE DEF q
<1>8. ProcOK(q, srvInputs')
  BY <1>2, <1>4, <1>7 DEF ProcOK, OnWork, Executing
<1>9. /\ triageCandidate' = triageCandidate /\ candidate' = candidate /\ triage' = triage
      /\ smash' = smash /\ needPoll' = needPoll /\ maxSignal' = maxSignal
      /\ corpusSignal' = corpusSignal /\ newSignal' = newSignal
      /\ poller' = poller /\ boot' = boot /\ srvSignal' = srvSignal
      /\ toReceive' = toReceive /\ toTriage' = toTriage /\ found' = found /\ flaky' = flaky
      /\ received' = received
  BY DEF SendInput, AddCorpus, queues, signals, mgr, history
<1>10. SharedTypeOK'
  <2>1. corpus' \subseteq Progs /\ srvInputs' \subseteq Progs
    BY <1>0, <1>3, <1>4 DEF SharedTypeOK
  <2> QED
    BY <1>0, <1>9, <2>1 DEF SharedTypeOK
<1>11. corpus' \subseteq corpus \cup srvInputs /\ srvInputs \subseteq srvInputs'
  BY <1>0, <1>4 DEF ProcOK
<1>12. Covers(corpusSignal', corpusSignal) /\ Covers(flaky', flaky) /\ Queued' = Queued
  BY <1>0, <1>9, CoversOrder DEF Queued
<1>13. GoodStep(i, q)
  BY <1>0, <1>2, <1>5, <1>6, <1>7, <1>8, <1>9, <1>10, <1>11, <1>12 DEF GoodStep
<1> QED
  BY <1>13

\* The second half of addInputToCorpus.
LEMMA AddSignalStep ==
  ASSUME FuzzerInv, NEW i \in Procs, AddSignal(i)
  PROVE  GoodStep(i, Idle)
<1>0. /\ proc \in [Procs -> ProcStates] /\ proc[i] \in ProcStates /\ ProcOK(proc[i], srvInputs)
      /\ SharedTypeOK /\ Covers(maxSignal, corpusSignal) /\ proc[i].of.sig \in Signals
      /\ maxSignal \in Signals /\ corpusSignal \in Signals /\ flaky \in Signals
  BY ProcFacts
<1>1. proc[i].of \in Works /\ proc[i].sig = NoSignal
  BY <1>0 DEF AddSignal, ProcOK, OnWork
<1> DEFINE s == proc[i].of.sig
<1>2. /\ corpusSignal' = Merge(corpusSignal, s) /\ maxSignal' = Merge(maxSignal, s)
      /\ proc' = [proc EXCEPT ![i] = Idle]
  BY DEF AddSignal, MergeCorpus
<1>3. s \in Signals
  BY <1>0
<1> HIDE DEF s
<1>4. /\ corpusSignal' \in Signals /\ maxSignal' \in Signals
      /\ Covers(corpusSignal', corpusSignal) /\ Covers(corpusSignal', s)
      /\ Covers(maxSignal', corpusSignal')
  BY <1>0, <1>2, <1>3, MergeIsJoin, MergeMonotone
<1>5. smash' \in Seq(Progs)
  <2>1. proc[i].of.prog \in Progs
    BY <1>1 DEF Works
  <2>2. Append(smash, proc[i].of.prog) \in Seq(Progs) /\ smash \in Seq(Progs)
    BY <1>0, <2>1, AppendProperties DEF SharedTypeOK
  <2> QED
    BY <2>2 DEF AddSignal
<1>6. /\ triageCandidate' = triageCandidate /\ candidate' = candidate /\ triage' = triage
      /\ needPoll' = needPoll /\ newSignal' = newSignal /\ corpus' = corpus
      /\ poller' = poller /\ boot' = boot /\ srvSignal' = srvSignal /\ srvInputs' = srvInputs
      /\ toReceive' = toReceive /\ toTriage' = toTriage /\ found' = found /\ flaky' = flaky
      /\ received' = received
  BY DEF AddSignal, mgr, history
<1>7. SharedTypeOK'
  BY <1>0, <1>4, <1>5, <1>6 DEF SharedTypeOK
<1>8. Covers(flaky', flaky) /\ Queued' = Queued
  BY <1>0, <1>6, CoversOrder DEF Queued
<1> QED
  BY <1>1, <1>2, <1>4, <1>6, <1>7, <1>8, IdleOK DEF GoodStep, s

\* checkNewCallSignal merges what it computed before it took the lock.
LEMMA MergeDiffStep ==
  ASSUME FuzzerInv, NEW i \in Procs, MergeDiff(i)
  PROVE  \E q : GoodStep(i, q)
<1>0. /\ proc \in [Procs -> ProcStates] /\ proc[i] \in ProcStates /\ ProcOK(proc[i], srvInputs)
      /\ SharedTypeOK /\ Covers(maxSignal, corpusSignal) /\ proc[i].diff \in Signals
      /\ maxSignal \in Signals /\ corpusSignal \in Signals /\ flaky \in Signals
  BY ProcFacts
<1>1. /\ proc[i].pc = "merge"
      /\ maxSignal' = Merge(maxSignal, proc[i].diff)
      /\ newSignal' = Merge(newSignal, proc[i].diff)
      /\ found' = Merge(found, proc[i].diff)
      /\ proc' = [proc EXCEPT ![i].pc = "enqueue", ![i].diff = NoSignal]
  BY DEF MergeDiff, MergeNew
<1> DEFINE q == [proc[i] EXCEPT !.pc = "enqueue", !.diff = NoSignal]
<1>2. q \in ProcStates
  BY <1>0, NoSignalType DEF ProcStates
<1>3. proc' = [proc EXCEPT ![i] = q]
  BY <1>0, <1>1 DEF ProcStates
<1>4. /\ q.pc = "enqueue" /\ q.of = proc[i].of /\ q.sig = proc[i].sig /\ q.prog = proc[i].prog
      /\ q.back = proc[i].back
  BY <1>0 DEF ProcStates
<1> HIDE DEF q
<1>5. ProcOK(q, srvInputs) /\ Covers(q.sig, proc[i].diff)
  BY <1>0, <1>1, <1>4 DEF ProcOK, OnWork, Executing
<1>6. /\ triageCandidate' = triageCandidate /\ candidate' = candidate /\ triage' = triage
      /\ smash' = smash /\ needPoll' = needPoll /\ corpusSignal' = corpusSignal
      /\ corpus' = corpus
      /\ poller' = poller /\ boot' = boot /\ srvSignal' = srvSignal /\ srvInputs' = srvInputs
      /\ toReceive' = toReceive /\ toTriage' = toTriage /\ flaky' = flaky
      /\ received' = received
  BY DEF MergeDiff, queues, mgr
<1>7. newSignal \in Signals /\ found \in Signals
  BY <1>0 DEF SharedTypeOK
<1>8. maxSignal' \in Signals /\ newSignal' \in Signals /\ found' \in Signals
      /\ Covers(maxSignal', corpusSignal)
  BY <1>0, <1>1, <1>7, MergeIsJoin, MergeMonotone
<1>9. SharedTypeOK'
  BY <1>0, <1>6, <1>8 DEF SharedTypeOK
<1>10. Covers(corpusSignal', corpusSignal) /\ Covers(flaky', flaky) /\ Queued' = Queued
  BY <1>0, <1>6, CoversOrder DEF Queued
<1>11. GoodStep(i, q)
  BY <1>1, <1>2, <1>3, <1>4, <1>5, <1>6, <1>8, <1>9, <1>10 DEF GoodStep
<1> QED
  BY <1>11

\* A step that changes nothing but the proc and the queues.
LEMMA QueueStep ==
  ASSUME FuzzerInv, NEW i \in Procs, NEW q \in ProcStates, proc' = [proc EXCEPT ![i] = q],
         UNCHANGED <<signals, corpus, poller, boot, mgr, history>>,
         triageCandidate' \in Seq(Works), triage' \in Seq(Works),
         candidate' \in Seq([prog : Progs, flags : Flags]), smash' \in Seq(Progs),
         needPoll' \in BOOLEAN,
         ProcOK(q, srvInputs),
         \A s \in Queued : s \in Queued' \/ s = q.of.sig,
         proc[i].sig = NoSignal \/ proc[i].sig \in Queued',
         proc[i].of.sig = NoSignal \/ proc[i].of.sig = q.of.sig
  PROVE  GoodStep(i, q)
<1>1. /\ maxSignal' = maxSignal
      /\ corpusSignal' = corpusSignal /\ newSignal' = newSignal /\ corpus' = corpus
      /\ poller' = poller /\ boot' = boot /\ srvSignal' = srvSignal /\ srvInputs' = srvInputs
      /\ toReceive' = toReceive /\ toTriage' = toTriage /\ found' = found /\ flaky' = flaky
      /\ received' = received
  BY DEF signals, mgr, history
<1>2. SharedTypeOK'
  BY <1>1, ProcFacts DEF SharedTypeOK
<1>3. Covers(corpusSignal', corpusSignal) /\ Covers(flaky', flaky) /\ Covers(maxSignal', corpusSignal')
  BY <1>1, ProcFacts, CoversOrder
<1> QED
  BY <1>1, <1>2, <1>3 DEF GoodStep

\* enqueueCallTriage: the work item takes the signal over from the proc.
LEMMA EnqueueStep ==
  ASSUME FuzzerInv, NEW i \in Procs, EnqueueTriage(i)
  PROVE  \E q : GoodStep(i, q)
<1>0. /\ proc \in [Procs -> ProcStates] /\ proc[i] \in ProcStates /\ ProcOK(proc[i], srvInputs)
      /\ SharedTypeOK /\ proc[i].sig \in Signals
  BY ProcFacts
<1>1. /\ proc[i].pc = "enqueue"
      /\ enqueueTriage([prog |-> proc[i].prog, sig |-> proc[i].sig, flags |-> proc[i].flags])
      /\ proc' = [proc EXCEPT ![i].pc = proc[i].back, ![i].prog = NoProg, ![i].sig = NoSignal,
                              ![i].flags = ProgNormal]
      /\ needPoll' = needPoll
      /\ UNCHANGED <<signals, corpus, poller, boot, mgr, history>>
  BY DEF EnqueueTriage
<1> DEFINE w == [prog |-> proc[i].prog, sig |-> proc[i].sig, flags |-> proc[i].flags]
           q == [proc[i] EXCEPT !.pc = proc[i].back, !.prog = NoProg, !.sig = NoSignal,
                                !.flags = ProgNormal]
<1>2. w \in Works /\ w.sig = proc[i].sig
  BY <1>0, <1>1 DEF ProcOK, Executing, ProcStates, Works
<1>3. q \in ProcStates
  BY <1>0, NoSignalType DEF ProcStates, Flags, ProgNormal
<1>4. proc' = [proc EXCEPT ![i] = q]
  BY <1>0, <1>1 DEF ProcStates
<1>5. q.pc = proc[i].back /\ q.of = proc[i].of /\ q.sig = NoSignal
  BY <1>0 DEF ProcStates
<1>6. proc[i].back \in {"idle", "minimize", "smash"}
  BY <1>0 DEF ProcStates
<1>7. enqueueTriage(w)
  BY <1>1
<1> HIDE DEF q, w
<1>8. ProcOK(q, srvInputs)
  BY <1>0, <1>1, <1>5, <1>6 DEF ProcOK, OnWork, Executing
<1>9. triage \in Seq(Works) /\ triageCandidate \in Seq(Works)
  BY <1>0 DEF SharedTypeOK
<1>10. /\ candidate' = candidate /\ smash' = smash
       /\ triage' \in Seq(Works) /\ triageCandidate' \in Seq(Works)
       /\ Queued \cup {w.sig} \subseteq Queued'
  <2>1. CASE triage' = Append(triage, w) /\ UNCHANGED <<triageCandidate, candidate, smash>>
    <3>1. QueuedSignals(triage) \cup {w.sig} \subseteq QueuedSignals(triage') /\ triage' \in Seq(Works)
      BY <1>2, <1>9, <2>1, QueueSignals
    <3> QED
      BY <1>9, <2>1, <3>1 DEF Queued
  <2>2. CASE triageCandidate' = Append(triageCandidate, w) /\ UNCHANGED <<candidate, triage, smash>>
    <3>1. /\ QueuedSignals(triageCandidate) \cup {w.sig} \subseteq QueuedSignals(triageCandidate')
          /\ triageCandidate' \in Seq(Works)
      BY <1>2, <1>9, <2>2, QueueSignals
    <3> QED
      BY <1>9, <2>2, <3>1 DEF Queued
  <2> QED
    BY <1>7, <2>1, <2>2 DEF enqueueTriage
<1>11. /\ candidate' \in Seq([prog : Progs, flags : Flags]) /\ smash' \in Seq(Progs)
       /\ needPoll' \in BOOLEAN
  BY <1>0, <1>1, <1>10 DEF SharedTypeOK
<1>12. GoodStep(i, q)
  BY <1>1, <1>2, <1>3, <1>4, <1>5, <1>8, <1>10, <1>11, QueueStep
<1> QED
  BY <1>12

\* dequeue gives the proc a work item to triage, from either queue.
LEMMA TakesTriage ==
  ASSUME FuzzerInv, NEW i \in Procs, DequeueTriageCandidate(i) \/ DequeueTriage(i)
  PROVE  \E q : GoodStep(i, q)
<1>0. /\ proc \in [Procs -> ProcStates] /\ proc[i] \in ProcStates /\ ProcOK(proc[i], srvInputs)
      /\ SharedTypeOK
  BY ProcFacts
<1>1. /\ proc[i].pc = "idle" /\ candidate' = candidate /\ smash' = smash /\ needPoll' = needPoll
      /\ UNCHANGED <<signals, corpus, poller, boot, mgr, history>>
  BY DEF DequeueTriageCandidate, DequeueTriage
<1>2. triage \in Seq(Works) /\ triageCandidate \in Seq(Works)
  BY <1>0 DEF SharedTypeOK
<1>3. PICK w \in Works :
        /\ proc' = [proc EXCEPT ![i] = [Idle EXCEPT !.pc = "triage", !.of = w]]
        /\ triage' \in Seq(Works) /\ triageCandidate' \in Seq(Works)
        /\ Queued \subseteq Queued' \cup {w.sig}
  <2>1. CASE DequeueTriage(i)
    <3>1. /\ triage # << >> /\ triage' = Front(triage) /\ triageCandidate' = triageCandidate
          /\ proc' = [proc EXCEPT ![i] = [Idle EXCEPT !.pc = "triage", !.of = Last(triage)]]
      BY <2>1 DEF DequeueTriage
    <3>2. /\ Last(triage) \in Works /\ triage' \in Seq(Works)
          /\ QueuedSignals(triage) \subseteq QueuedSignals(triage') \cup {Last(triage).sig}
      BY <1>2, <3>1, QueueSignals
    <3>3. Queued \subseteq Queued' \cup {Last(triage).sig}
      BY <3>1, <3>2 DEF Queued
    <3> QED
      BY <1>2, <3>1, <3>2, <3>3
  <2>2. CASE DequeueTriageCandidate(i)
    <3> DEFINE w == Last(triageCandidate)
    <3>1. /\ triageCandidate # << >> /\ triageCandidate' = Front(triageCandidate)
          /\ triage' = triage
          /\ proc' = [proc EXCEPT ![i] = [Idle EXCEPT !.pc = "triage", !.of = w]]
      BY <2>2 DEF DequeueTriageCandidate
    <3>2. /\ w \in Works /\ triageCandidate' \in Seq(Works)
          /\ QueuedSignals(triageCandidate) \subseteq QueuedSignals(triageCandidate') \cup {w.sig}
      BY <1>2, <3>1, QueueSignals
    <3>3. Queued \subseteq Queued' \cup {w.sig}
      BY <3>1, <3>2 DEF Queued
    <3> QED
      BY <1>2, <3>1, <3>2, <3>3
  <2> QED
    BY <2>1, <2>2
<1> DEFINE q == [Idle EXCEPT !.pc = "triage", !.of = w]
<1>4. q \in ProcStates
  BY IdleOK DEF ProcStates
<1>5. q.pc = "triage" /\ q.of = w /\ q.sig = NoSignal
  BY DEF Idle
<1> HIDE DEF q
<1>6. ProcOK(q, srvInputs)
  BY <1>5 DEF ProcOK, OnWork, Executing
<1>7. proc[i].sig = NoSignal /\ proc[i].of.sig = NoSignal
  BY <1>0, <1>1 DEF ProcOK, OnWork, Executing, NoWork
<1>8. /\ candidate' \in Seq([prog : Progs, flags : Flags]) /\ smash' \in Seq(Progs)
      /\ needPoll' \in BOOLEAN
  BY <1>0, <1>1 DEF SharedTypeOK
<1>9. GoodStep(i, q)
  BY <1>1, <1>3, <1>4, <1>5, <1>6, <1>7, <1>8, QueueStep DEF q
<1> QED
  BY <1>9

\* dequeue gives the proc a candidate to execute, or a program to smash.
LEMMA TakesProgram ==
  ASSUME FuzzerInv, NEW i \in Procs, DequeueCandidate(i) \/ DequeueSmash(i)
  PROVE  \E q : GoodStep(i, q)
<1>0. /\ proc \in [Procs -> ProcStates] /\ proc[i] \in ProcStates /\ ProcOK(proc[i], srvInputs)
      /\ SharedTypeOK
  BY ProcFacts
<1>1. /\ proc[i].pc = "idle" /\ triageCandidate' = triageCandidate /\ triage' = triage
      /\ UNCHANGED <<signals, corpus, poller, boot, mgr, history>>
  BY DEF DequeueCandidate, DequeueSmash
<1>2. proc[i].sig = NoSignal /\ proc[i].of.sig = NoSignal
  BY <1>0, <1>1 DEF ProcOK, OnWork, Executing, NoWork
<1>3. Queued' = Queued /\ triageCandidate' \in Seq(Works) /\ triage' \in Seq(Works)
  BY <1>0, <1>1 DEF Queued, SharedTypeOK
<1>4. CASE DequeueSmash(i)
  <2> DEFINE q == [Idle EXCEPT !.pc = "smash"]
  <2>1. q \in ProcStates
    BY IdleOK DEF ProcStates
  <2>2. q.pc = "smash" /\ q.of = NoWork /\ q.sig = NoSignal /\ q.back = "idle"
    BY DEF Idle, NoWork
  <2>3. proc' = [proc EXCEPT ![i] = q] /\ smash' \in Seq(Progs)
    BY <1>0, <1>4, FrontLast DEF DequeueSmash, SharedTypeOK
  <2>4. candidate' \in Seq([prog : Progs, flags : Flags]) /\ needPoll' \in BOOLEAN
    BY <1>0, <1>4 DEF DequeueSmash, SharedTypeOK
  <2> HIDE DEF q
  <2>5. ProcOK(q, srvInputs)
    BY <2>2 DEF ProcOK, OnWork, Executing
  <2>6. GoodStep(i, q)
    BY <1>1, <1>2, <1>3, <2>1, <2>2, <2>3, <2>4, <2>5, QueueStep
  <2> QED
    BY <2>6
<1>5. CASE DequeueCandidate(i)
  <2> DEFINE c == Last(candidate)
             q == [Idle EXCEPT !.pc = "exec", !.prog = c.prog, !.flags = c.flags]
  <2>1. candidate # << >> /\ candidate \in Seq([prog : Progs, flags : Flags])
    BY <1>0, <1>5 DEF DequeueCandidate, SharedTypeOK
  <2>2. c \in [prog : Progs, flags : Flags] /\ Front(candidate) \in Seq([prog : Progs, flags : Flags])
    BY <2>1, FrontLast
  <2>3. proc' = [proc EXCEPT ![i] = q] /\ candidate' \in Seq([prog : Progs, flags : Flags])
    BY <1>5, <2>2 DEF DequeueCandidate
  <2>4. smash' \in Seq(Progs) /\ needPoll' \in BOOLEAN
    BY <1>0, <1>5 DEF DequeueCandidate, SharedTypeOK
  <2> HIDE DEF c
  <2>5. q \in ProcStates
    BY <2>2, IdleOK DEF ProcStates
  <2>6. q.pc = "exec" /\ q.of = NoWork /\ q.sig = NoSignal /\ q.back = "idle" /\ q.prog = c.prog
    BY DEF Idle, NoWork
  <2> HIDE DEF q
  <2>7. ProcOK(q, srvInputs)
    BY <2>2, <2>6 DEF ProcOK, OnWork, Executing
  <2>8. GoodStep(i, q)
    BY <1>1, <1>2, <1>3, <2>3, <2>4, <2>5, <2>6, <2>7, QueueStep
  <2> QED
    BY <2>8
<1> QED
  BY <1>4, <1>5

-----------------------------------------------------------------------------
(***************************************************************************)
(* The steps of the main goroutine.                                        *)
(***************************************************************************)

\* What such a step must do to keep the invariant; the procs do not move.
LEMMA PollStepKeeps ==
  ASSUME FuzzerInv, UNCHANGED <<proc, srvInputs, triage, triageCandidate, found, flaky>>,
         SharedTypeOK', PollerInv', NewSignalReported',
         Covers(maxSignal', corpusSignal'), Covers(corpusSignal', corpusSignal),
         corpus' \subseteq corpus \cup received', received \subseteq received'
  PROVE  FuzzerInv'
<1> TypeOK /\ ProcInv
  BY DEF FuzzerInv, CorpusWithinMax
<1>1. TypeOK'
  BY DEF TypeOK
<1>2. CorpusWithinMax'
  BY <1>1 DEF CorpusWithinMax
<1>3. ProcInv'
  BY DEF ProcInv
<1>4. NewSignalTriaged'
  <2> DEFINE R == Responsible
             R1 == Responsible'
  <2>1. R \in SUBSET Signals /\ found \in Signals
    BY ResponsibleType
  <2>2. R1 \in SUBSET Signals
    BY <1>1, ResponsibleTypeAfter
  <2>3. Covers(MergeAll(R), found)
    BY DEF FuzzerInv, NewSignalTriaged, Responsible, Queued
  <2>4. /\ R = {corpusSignal, flaky} \cup HeldSignals \cup Queued
        /\ R1 = {corpusSignal', flaky} \cup HeldSignals \cup Queued
    BY DEF Responsible, HeldSignals, Queued
  <2> HIDE DEF R, R1
  <2>5. ASSUME NEW s \in R PROVE \E t \in R1 : Covers(t, s)
    <3>1. s \in Signals /\ Covers(s, s)
      BY <2>1, CoversOrder
    <3> QED
      BY <2>4, <3>1
  <2>6. Covers(MergeAll(R1), found)
    BY <2>1, <2>2, <2>3, <2>5, TriagedStays
  <2> QED
    BY <2>6 DEF R1, Responsible, Queued, NewSignalTriaged
<1>5. CorpusReported'
  BY DEF FuzzerInv, CorpusReported
<1> QED
  BY <1>2, <1>3, <1>4, <1>5 DEF FuzzerInv

\* What the steps below start from.
LEMMA PollFacts ==
  ASSUME FuzzerInv
  PROVE  /\ SharedTypeOK /\ PollerInv /\ Covers(maxSignal, corpusSignal)
         /\ poller \in PollerStates
         /\ maxSignal \in Signals /\ corpusSignal \in Signals /\ newSignal \in Signals
         /\ srvSignal \in Signals /\ found \in Signals
         /\ Covers(corpusSignal, corpusSignal)
         /\ Covers(MergeAll({srvSignal, newSignal, poller.grabbed}), found)
<1>1. SharedTypeOK /\ PollerInv /\ Covers(maxSignal, corpusSignal)
  BY DEF FuzzerInv, CorpusWithinMax, TypeOK
<1>2. Covers(MergeAll({srvSignal, newSignal, poller.grabbed}), found)
  BY DEF FuzzerInv, NewSignalReported
<1>3. /\ poller \in PollerStates
      /\ maxSignal \in Signals /\ corpusSignal \in Signals /\ newSignal \in Signals
      /\ srvSignal \in Signals /\ found \in Signals
  BY <1>1 DEF SharedTypeOK
<1> QED
  BY <1>1, <1>2, <1>3, CoversOrder

\* Signal on its way to the manager may change hands, as long as none is lost.
LEMMA ReportMoves ==
  ASSUME NEW a \in Signals, NEW b \in Signals, NEW c \in Signals, NEW f \in Signals,
         NEW a1 \in Signals, NEW b1 \in Signals, NEW c1 \in Signals,
         Covers(MergeAll({a, b, c}), f),
         \A s \in {a, b, c} : s = NoSignal \/ \E t \in {a1, b1, c1} : Covers(t, s)
  PROVE  Covers(MergeAll({a1, b1, c1}), f)
<1> DEFINE R == {a, b, c}
           R1 == {a1, b1, c1}
<1>1. R \in SUBSET Signals /\ R1 \in SUBSET Signals
  OBVIOUS
<1>2. \A s \in R : s = NoSignal \/ \E t \in R1 : Covers(t, s)
  OBVIOUS
<1> HIDE DEF R, R1
<1>3. Covers(MergeAll(R1), f)
  BY <1>1, <1>2, TriagedStays DEF R
<1> QED
  BY <1>3 DEF R1

LEMMA PollSkipKeeps ==
  ASSUME FuzzerInv, PollSkip
  PROVE  FuzzerInv'
<1>1. /\ triageCandidate' = triageCandidate /\ candidate' = candidate /\ triage' = triage
      /\ smash' = smash /\ needPoll' = FALSE /\ maxSignal' = maxSignal
      /\ corpusSignal' = corpusSignal /\ newSignal' = newSignal /\ corpus' = corpus
      /\ poller' = poller /\ boot' = boot /\ srvSignal' = srvSignal /\ srvInputs' = srvInputs
      /\ toReceive' = toReceive /\ toTriage' = toTriage /\ found' = found /\ flaky' = flaky
      /\ received' = received /\ proc' = proc
  BY DEF PollSkip, queues, signals, mgr, history
<1>2. SharedTypeOK' /\ PollerInv'
  BY <1>1, PollFacts DEF SharedTypeOK, PollerInv
<1>3. NewSignalReported'
  BY <1>1, PollFacts DEF NewSignalReported
<1> QED
  BY <1>1, <1>2, <1>3, PollFacts, PollStepKeeps

\* grabNewSignal: the poller takes newSignal over.
LEMMA PollGrabKeeps ==
  ASSUME FuzzerInv, PollGrab
  PROVE  FuzzerInv'
<1>0. /\ poller.pc = "idle" /\ newSignal' = NoSignal
      /\ poller' = [NotPolling EXCEPT !.pc = "call", !.need = PollNeeds, !.grabbed = newSignal]
      /\ boot' = IF boot = "first" THEN "more" ELSE boot
      /\ needPoll' = FALSE \/ needPoll' = needPoll
  BY DEF PollGrab, grabNewSignal
<1>1. /\ triageCandidate' = triageCandidate /\ candidate' = candidate /\ triage' = triage
      /\ smash' = smash /\ maxSignal' = maxSignal
      /\ corpusSignal' = corpusSignal /\ corpus' = corpus
      /\ srvSignal' = srvSignal /\ srvInputs' = srvInputs
      /\ toReceive' = toReceive /\ toTriage' = toTriage /\ found' = found /\ flaky' = flaky
      /\ received' = received /\ proc' = proc
  BY DEF PollGrab, queues, mgr, history
<1>2. PollNeeds \in BOOLEAN
  <2>1. wantCandidates \in BOOLEAN
    BY DEF wantCandidates
  <2>2. CASE boot = "done"
    BY <2>1, <2>2 DEF PollNeeds
  <2>3. CASE boot # "done"
    <3>1. PollNeeds = (boot = "first")
      BY <2>3 DEF PollNeeds
    <3> QED
      BY <3>1
  <2> QED
    BY <2>2, <2>3
<1>3. poller'.grabbed = newSignal /\ poller'.pc = "call"
      /\ poller' \in PollerStates
  BY <1>0, <1>2, PollFacts, NoSignalType DEF NotPolling, PollerStates
<1>4. SharedTypeOK'
  <2>1. boot' \in {"first", "more", "done"} /\ needPoll' \in BOOLEAN
    BY <1>0, PollFacts DEF SharedTypeOK
  <2> QED
    BY <1>0, <1>1, <1>3, <2>1, PollFacts, NoSignalType DEF SharedTypeOK
<1>5. PollerInv'
  BY <1>3 DEF PollerInv
<1>6. poller.grabbed = NoSignal /\ poller.grabbed \in Signals
  BY <1>0, PollFacts, NoSignalType DEF PollerInv
<1>7. NewSignalReported'
  <2>1. Covers(MergeAll({srvSignal, NoSignal, newSignal}), found)
    BY <1>6, PollFacts, NoSignalType, CoversOrder, ReportMoves
  <2> QED
    BY <1>0, <1>1, <1>3, <2>1 DEF NewSignalReported
<1> QED
  BY <1>1, <1>4, <1>5, <1>7, PollFacts, PollStepKeeps

\* The call of Manager.Poll: the manager takes it over from the poller.
LEMMA PollCallKeeps ==
  ASSUME FuzzerInv, PollCall
  PROVE  FuzzerInv'
<1> DEFINE g == poller.grabbed
<1>0. /\ srvSignal' = Merge(srvSignal, g)
      /\ poller' = [poller EXCEPT !.pc = "reply", !.grabbed = NoSignal]
  BY DEF PollCall
<1>1. /\ triageCandidate' = triageCandidate /\ candidate' = candidate /\ triage' = triage
      /\ smash' = smash /\ needPoll' = needPoll /\ maxSignal' = maxSignal
      /\ corpusSignal' = corpusSignal /\ newSignal' = newSignal /\ corpus' = corpus
      /\ boot' = boot /\ srvInputs' = srvInputs
      /\ toReceive' = toReceive /\ toTriage' = toTriage /\ found' = found /\ flaky' = flaky
      /\ received' = received /\ proc' = proc
  BY DEF PollCall, queues, signals, history
<1>2. g \in Signals
  BY PollFacts DEF PollerStates
<1>3. /\ poller'.grabbed = NoSignal
      /\ poller' \in PollerStates
  BY <1>0, PollFacts, NoSignalType DEF PollerStates
<1>4. /\ srvSignal' \in Signals /\ Covers(srvSignal', srvSignal) /\ Covers(srvSignal', g)
  BY <1>0, <1>2, PollFacts, MergeIsJoin
<1>5. SharedTypeOK'
  BY <1>1, <1>3, <1>4, PollFacts DEF SharedTypeOK
<1>6. PollerInv'
  BY <1>3 DEF PollerInv
<1>7. NewSignalReported'
  <2>0. Covers(newSignal, newSignal) /\ newSignal \in Signals
    BY PollFacts, CoversOrder
  <2>1. Covers(MergeAll({srvSignal, newSignal, g}), found)
    BY PollFacts
  <2>2. srvSignal \in Signals /\ found \in Signals
    BY PollFacts
  <2> HIDE DEF g
  <2>3. Covers(MergeAll({srvSignal', newSignal, NoSignal}), found)
    BY <1>2, <1>4, <2>0, <2>1, <2>2, NoSignalType, ReportMoves
  <2> QED
    BY <1>1, <1>3, <2>3 DEF NewSignalReported
<1> QED
  BY <1>1, <1>5, <1>6, <1>7, PollFacts, PollStepKeeps

\* What is left of a reply to be added.
LEMMA StillAddingDoes ==
  ASSUME NEW ins \in SUBSET OtherInputs, NEW cs \in SUBSET MgrCandidates
  PROVE  StillAdding(ins, cs) \in PollerStates /\ StillAdding(ins, cs).grabbed = NoSignal
<1> DEFINE pc == IF ins \cup cs = {} THEN "idle" ELSE "adding"
<1>1. pc \in {"idle", "adding"}
  OBVIOUS
<1>2. StillAdding(ins, cs) = [NotPolling EXCEPT !.pc = pc, !.inputs = ins, !.candidates = cs]
  BY DEF StillAdding, pc
<1> HIDE DEF pc
<1>3. NotPolling \in PollerStates /\ NotPolling.grabbed = NoSignal
  BY NoSignalType DEF NotPolling, PollerStates
<1> QED
  BY <1>1, <1>2, <1>3 DEF PollerStates

\* While a reply is received and added nothing is on its way to the manager.
LEMMA NothingGrabbed ==
  ASSUME FuzzerInv, poller.pc # "call", poller'.grabbed = NoSignal,
         newSignal' = newSignal, srvSignal' = srvSignal, found' = found
  PROVE  PollerInv' /\ NewSignalReported'
<1>1. poller.grabbed = NoSignal
  BY PollFacts DEF PollerInv
<1>2. NewSignalReported'
  BY <1>1, PollFacts DEF NewSignalReported
<1> QED
  BY <1>2 DEF PollerInv

LEMMA PollReplyKeeps ==
  ASSUME FuzzerInv, PollReply
  PROVE  FuzzerInv'
<1>0. PICK s \in OtherSignals \cup {NoSignal}, ins \in SUBSET toReceive,
           cs \in SUBSET toTriage :
        /\ maxSignal' = Merge(maxSignal, s)
        /\ toReceive' = toReceive \ ins /\ toTriage' = toTriage \ cs
        /\ poller' = StillAdding(ins, cs)
        /\ boot' = IF s = NoSignal /\ ins = {} /\ cs = {} THEN "done" ELSE boot
  BY DEF PollReply
<1>1. /\ triageCandidate' = triageCandidate /\ candidate' = candidate /\ triage' = triage
      /\ smash' = smash /\ needPoll' = needPoll
      /\ corpusSignal' = corpusSignal /\ newSignal' = newSignal /\ corpus' = corpus
      /\ srvSignal' = srvSignal /\ srvInputs' = srvInputs /\ proc' = proc
      /\ found' = found /\ flaky' = flaky /\ received' = received /\ poller.pc = "reply"
  BY DEF PollReply, queues, history
<1>2. s \in Signals
  BY FuzzerAssumption, NoSignalType
<1>3. maxSignal' \in Signals /\ Covers(maxSignal', corpusSignal)
  BY <1>0, <1>2, PollFacts, MergeIsJoin, MergeMonotone
<1>4. toReceive \subseteq OtherInputs /\ toTriage \subseteq MgrCandidates
  BY PollFacts DEF SharedTypeOK
<1>5. poller' \in PollerStates /\ poller'.grabbed = NoSignal
  BY <1>0, <1>4, StillAddingDoes
<1>6. boot' \in {"first", "more", "done"}
  BY <1>0, PollFacts DEF SharedTypeOK
<1>7. toReceive' \subseteq OtherInputs /\ toTriage' \subseteq MgrCandidates
  BY <1>0, <1>4
<1>8. SharedTypeOK'
  BY <1>1, <1>3, <1>5, <1>6, <1>7, PollFacts DEF SharedTypeOK
<1>9. PollerInv' /\ NewSignalReported'
  BY <1>1, <1>5, NothingGrabbed
<1> QED
  BY <1>1, <1>3, <1>8, <1>9, PollFacts, PollStepKeeps

LEMMA AddReceivedKeeps ==
  ASSUME FuzzerInv, AddReceived
  PROVE  FuzzerInv'
<1>0. PICK i \in poller.inputs :
        /\ corpus' = corpus \cup {i.prog} /\ received' = received \cup {i.prog}
        /\ poller' = [poller EXCEPT !.pc = "merge", !.inputs = @ \ {i}, !.got = i.sig]
  BY DEF AddReceived
<1>1. /\ triageCandidate' = triageCandidate /\ candidate' = candidate /\ triage' = triage
      /\ smash' = smash /\ needPoll' = needPoll /\ maxSignal' = maxSignal
      /\ corpusSignal' = corpusSignal /\ newSignal' = newSignal
      /\ boot' = boot /\ srvSignal' = srvSignal /\ srvInputs' = srvInputs /\ proc' = proc
      /\ toReceive' = toReceive /\ toTriage' = toTriage
      /\ found' = found /\ flaky' = flaky /\ poller.pc = "adding"
  BY DEF AddReceived, queues, signals, mgr
<1>2. i.prog \in Progs /\ i.sig \in Signals
  BY PollFacts, FuzzerAssumption DEF PollerStates
<1>3. poller' \in PollerStates /\ poller'.grabbed = poller.grabbed
  BY <1>0, <1>2, PollFacts DEF PollerStates
<1>4. poller'.grabbed = NoSignal
  BY <1>1, <1>3, PollFacts DEF PollerInv
<1>5. SharedTypeOK'
  BY <1>0, <1>1, <1>2, <1>3, PollFacts DEF SharedTypeOK
<1>6. PollerInv' /\ NewSignalReported'
  BY <1>1, <1>4, NothingGrabbed
<1>7. corpus' \subseteq corpus \cup received' /\ received \subseteq received'
  BY <1>0
<1> QED
  BY <1>1, <1>5, <1>6, <1>7, PollFacts, PollStepKeeps

LEMMA MergeReceivedKeeps ==
  ASSUME FuzzerInv, MergeReceived
  PROVE  FuzzerInv'
<1> DEFINE got == poller.got
<1>0. /\ maxSignal' = Merge(maxSignal, got) /\ corpusSignal' = Merge(corpusSignal, got)
      /\ poller' = StillAdding(poller.inputs, poller.candidates) /\ poller.pc = "merge"
  BY DEF MergeReceived, MergeInput
<1>1. /\ triageCandidate' = triageCandidate /\ candidate' = candidate /\ triage' = triage
      /\ smash' = smash /\ needPoll' = needPoll /\ newSignal' = newSignal /\ corpus' = corpus
      /\ boot' = boot /\ srvSignal' = srvSignal /\ srvInputs' = srvInputs /\ proc' = proc
      /\ toReceive' = toReceive /\ toTriage' = toTriage
      /\ found' = found /\ flaky' = flaky /\ received' = received
  BY DEF MergeReceived, queues, mgr, history
<1>2. /\ got \in Signals /\ poller.inputs \in SUBSET OtherInputs
      /\ poller.candidates \in SUBSET MgrCandidates
  BY PollFacts DEF PollerStates
<1> HIDE DEF got
<1>3. /\ maxSignal' \in Signals /\ corpusSignal' \in Signals
      /\ Covers(maxSignal', corpusSignal') /\ Covers(corpusSignal', corpusSignal)
  BY <1>0, <1>2, PollFacts, MergeIsJoin, MergeMonotone
<1>4. poller' \in PollerStates /\ poller'.grabbed = NoSignal
  BY <1>0, <1>2, StillAddingDoes
<1>5. SharedTypeOK'
  BY <1>1, <1>3, <1>4, PollFacts DEF SharedTypeOK
<1>6. PollerInv' /\ NewSignalReported'
  BY <1>0, <1>1, <1>4, NothingGrabbed
<1> QED
  BY <1>1, <1>3, <1>5, <1>6, PollStepKeeps

LEMMA AddCandidateKeeps ==
  ASSUME FuzzerInv, AddCandidate
  PROVE  FuzzerInv'
<1>0. PICK c \in poller.candidates :
        /\ candidate' = Append(candidate, addCandidateInput(c))
        /\ poller' = StillAdding({}, poller.candidates \ {c})
  BY DEF AddCandidate
<1>1. /\ triageCandidate' = triageCandidate /\ triage' = triage
      /\ smash' = smash /\ needPoll' = needPoll /\ maxSignal' = maxSignal
      /\ corpusSignal' = corpusSignal /\ newSignal' = newSignal /\ corpus' = corpus
      /\ boot' = boot /\ srvSignal' = srvSignal /\ srvInputs' = srvInputs /\ proc' = proc
      /\ toReceive' = toReceive /\ toTriage' = toTriage
      /\ found' = found /\ flaky' = flaky /\ received' = received /\ poller.pc = "adding"
  BY DEF AddCandidate, signals, mgr, history
<1>2. poller.candidates \in SUBSET MgrCandidates
  BY PollFacts DEF PollerStates
<1>3. addCandidateInput(c) \in [prog : Progs, flags : Flags]
  BY <1>2, FuzzerAssumption DEF addCandidateInput, Flags
<1>4. candidate' \in Seq([prog : Progs, flags : Flags])
  BY <1>0, <1>3, PollFacts, AppendProperties DEF SharedTypeOK
<1>5. poller' \in PollerStates /\ poller'.grabbed = NoSignal
  BY <1>0, <1>2, StillAddingDoes
<1>6. SharedTypeOK'
  BY <1>1, <1>4, <1>5, PollFacts DEF SharedTypeOK
<1>7. PollerInv' /\ NewSignalReported'
  BY <1>1, <1>5, NothingGrabbed
<1> QED
  BY <1>1, <1>6, <1>7, PollFacts, PollStepKeeps

-----------------------------------------------------------------------------
(***************************************************************************)
(* The theorems.                                                           *)
(***************************************************************************)

LEMMA InitFuzzerInv ==
  ASSUME Init
  PROVE  FuzzerInv
<1>1. TypeOK
  <2>1. SharedTypeOK
    <3>1. NotPolling \in PollerStates
      BY NoSignalType DEF NotPolling, PollerStates
    <3> QED
      BY <3>1, NoSignalType DEF Init, SharedTypeOK
  <2>2. proc \in [Procs -> ProcStates]
    BY IdleOK DEF Init
  <2> QED
    BY <2>1, <2>2 DEF TypeOK
<1>2. CorpusWithinMax
  BY <1>1, CoversOrder, NoSignalType DEF Init, CorpusWithinMax
<1>3. ProcInv
  BY IdleOK DEF Init, ProcInv
<1>4. PollerInv
  BY DEF Init, PollerInv, NotPolling
<1>5. NewSignalTriaged
  <2>1. Responsible \in SUBSET Signals /\ found = NoSignal
    BY <1>1, ResponsibleType DEF Init
  <2>2. Covers(MergeAll(Responsible), found)
    BY <2>1, MergeAllIsJoin, CoversOrder
  <2> QED
    BY <2>2 DEF NewSignalTriaged, Responsible, Queued
<1>6. NewSignalReported
  <2>1. {srvSignal, newSignal, poller.grabbed} \in SUBSET Signals /\ found = NoSignal
    BY NoSignalType DEF Init, NotPolling
  <2>2. Covers(MergeAll({srvSignal, newSignal, poller.grabbed}), found)
    BY <2>1, MergeAllIsJoin, CoversOrder
  <2> QED
    BY <2>2 DEF NewSignalReported
<1>7. CorpusReported
  BY DEF Init, CorpusReported
<1> QED
  BY <1>2, <1>3, <1>4, <1>5, <1>6, <1>7 DEF FuzzerInv

LEMMA NextFuzzerInv ==
  ASSUME FuzzerInv, [Next]_vars
  PROVE  FuzzerInv'
<1>1. CASE UNCHANGED vars
  <2>1. /\ UNCHANGED <<triageCandidate, candidate, triage, smash, needPoll, maxSignal,
                       corpusSignal, newSignal, corpus, proc, poller, boot>>
        /\ UNCHANGED <<srvSignal, srvInputs, toReceive, toTriage, found, flaky, received>>
    BY <1>1 DEF vars, queues, signals, mgr, history
  <2>2. SharedTypeOK'
    BY <2>1, PollFacts DEF SharedTypeOK
  <2>3. PollerInv'
    BY <2>1, PollFacts DEF PollerInv
  <2>4. NewSignalReported'
    BY <2>1, PollFacts DEF NewSignalReported
  <2> QED
    BY <2>1, <2>2, <2>3, <2>4, PollFacts, PollStepKeeps
<1>2. CASE PollStep
  BY <1>2, PollSkipKeeps, PollGrabKeeps, PollCallKeeps, PollReplyKeeps, AddReceivedKeeps,
     MergeReceivedKeeps, AddCandidateKeeps
     DEF PollStep
<1>3. ASSUME NEW i \in Procs, ProcStep(i) \/ Generate(i) \/ MinimizeTry(i) \/ SmashTry(i)
      PROVE  FuzzerInv'
  <2>1. \E q : GoodStep(i, q)
    BY <1>3, TakesTriage, TakesProgram, EndsExecution, MergeDiffStep, EnqueueStep, BackToIdle,
       TriageSteps, TriageRunsStep, ReportSteps, AddSignalStep, StartsExecution
       DEF ProcStep
  <2> QED
    BY <2>1, GoodStepKeeps
<1> QED
  BY <1>1, <1>2, <1>3 DEF Next

\* The inductive invariant holds in every reachable state of the fuzzer: what
\* each proc and the poller hold agrees with their place in the code of proc.go
\* and fuzzer.go, and the four invariants below hold with it.
THEOREM FuzzerIsSound == Spec => []FuzzerInv
<1>1. Init => FuzzerInv
  BY InitFuzzerInv
<1>2. FuzzerInv /\ [Next]_vars => FuzzerInv'
  BY NextFuzzerInv
<1> QED
  BY <1>1, <1>2, PTL DEF Spec

\* Signal that checkNewCallSignal merged into maxSignal is never forgotten,
\* although it is merged before its program is queued for triage.
THEOREM NewSignalIsTriaged == Spec => []NewSignalTriaged
<1>1. FuzzerInv => NewSignalTriaged
  BY DEF FuzzerInv
<1> QED
  BY <1>1, FuzzerIsSound, PTL

\* Signal found here was sent to the manager, is being sent by poll, or waits
\* in newSignal.
THEOREM NewSignalIsReported == Spec => []NewSignalReported
<1>1. FuzzerInv => NewSignalReported
  BY DEF FuzzerInv
<1> QED
  BY <1>1, FuzzerIsSound, PTL

\* The variables have their types, and addInputToCorpus never leaves signal in
\* corpusSignal that maxSignal does not know.
THEOREM CorpusIsWithinMax == Spec => []CorpusWithinMax
<1>1. FuzzerInv => CorpusWithinMax
  BY DEF FuzzerInv
<1> QED
  BY <1>1, FuzzerIsSound, PTL

\* addInputToCorpus runs only on programs the manager has: those sent before by
\* sendInputToManager and those it sent to us.
THEOREM CorpusIsReported == Spec => []CorpusReported
<1>1. FuzzerInv => CorpusReported
  BY DEF FuzzerInv
<1> QED
  BY <1>1, FuzzerIsSound, PTL
=============================================================================
