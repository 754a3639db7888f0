------------------------------- MODULE Fuzzer -------------------------------
(***************************************************************************)
(* syz-fuzzer: one fuzzer inside a test VM.  Its procs (proc.go) take work *)
(* from the shared work queue (workqueue.go), execute programs, triage the *)
(* ones with new signal and report them; the main goroutine (fuzzer.go)    *)
(* polls the manager.                                                      *)
(*                                                                         *)
(* An action is one critical section (signalMu, corpusMu, wq.mu) or a step *)
(* on a proc's own data.  A program's interesting call stands for the      *)
(* program; an execution gives the call's signal, with its priority, or    *)
(* nothing when the call was not executed or failed.  The manager is       *)
(* reduced to what it does to this fuzzer.                                 *)
(***************************************************************************)
EXTENDS Signal, SequencesExt

CONSTANTS
  Procs,          \* fuzzer.procs
  Progs,
  Outcomes,       \* Outcomes[p]: the signals an execution of p may give
  MinimizesTo,    \* MinimizesTo[p]: what prog.Minimize may make of p
  NoProg,
  signalRuns,     \* 3
  OtherSignals,   \* signal that other fuzzers find
  OtherInputs,    \* inputs of other fuzzers: records of a program and a signal
  MgrCandidates   \* the manager's candidates: records of a program and flags

\* Candidate flags; ProgNormal is the empty set.
ProgCandidate == "candidate"
ProgMinimized == "minimized"
ProgSmashed == "smashed"
ProgNormal == {}

ASSUME FuzzerAssumption ==
  /\ Outcomes \in [Progs -> SUBSET {FromRaw(raw, prio) : raw \in SUBSET Elems \ {{}},
                                                        prio \in Prios}]
  /\ MinimizesTo \in [Progs -> SUBSET Progs]
  /\ \A p \in Progs : p \in MinimizesTo[p]
  /\ NoProg \notin Progs
  /\ signalRuns \in Nat \ {0}
  /\ OtherSignals \subseteq Signals
  /\ OtherInputs \subseteq [prog : Progs, sig : Signals]
  /\ MgrCandidates \subseteq
       [prog : Progs, flags : SUBSET {ProgCandidate, ProgMinimized, ProgSmashed}]

VARIABLES
  triageCandidate, candidate, triage, smash,  \* the queues of WorkQueue
  needPoll,      \* whether the channel holds its token
  maxSignal, corpusSignal, newSignal,         \* as in Fuzzer
  corpus,        \* fuzzer.corpusHashes
  proc,          \* what each proc is doing
  poller,        \* what the main goroutine is doing
  boot,          \* main's loop that fetches the corpus: "first", "more", "done"
  srvSignal,     \* the manager's maxSignal, as far as this fuzzer sent it
  srvInputs,     \* programs the manager got from this fuzzer
  toReceive,     \* inputs of other fuzzers not yet received
  toTriage,      \* candidates not yet received
  found,         \* history: signal this fuzzer merged into maxSignal as new
  flaky,         \* history: signal of triaged programs that were given up
  received       \* history: programs received from other fuzzers

queues == <<triageCandidate, candidate, triage, smash>>
signals == <<maxSignal, corpusSignal, newSignal>>
mgr == <<srvSignal, srvInputs, toReceive, toTriage>>
history == <<found, flaky, received>>
vars == <<queues, needPoll, signals, corpus, proc, poller, boot, mgr, history>>

\* A proc: its place in the code, the program, its signal and flags, and what
\* it goes back to after an execution.
Idle == [pc |-> "idle", prog |-> NoProg, sig |-> NoSignal, diff |-> NoSignal,
         flags |-> ProgNormal, back |-> "idle", of |-> [prog |-> NoProg,
         sig |-> NoSignal, flags |-> ProgNormal]]

NoWork == [prog |-> NoProg, sig |-> NoSignal, flags |-> ProgNormal]

\* The main goroutine: the new signal it sends, and the inputs and candidates of
\* a reply that it has yet to add, with the signal of the input it is adding.
NotPolling == [pc |-> "idle", need |-> FALSE, grabbed |-> NoSignal,
               inputs |-> {}, candidates |-> {}, got |-> NoSignal]

Init ==
  /\ triageCandidate = << >> /\ candidate = << >> /\ triage = << >> /\ smash = << >>
  /\ needPoll = TRUE
  /\ maxSignal = NoSignal /\ corpusSignal = NoSignal /\ newSignal = NoSignal
  /\ corpus = {}
  /\ proc = [i \in Procs |-> Idle]
  /\ poller = NotPolling
  /\ boot = "first"
  /\ srvSignal = NoSignal
  /\ srvInputs = {}
  /\ toReceive = OtherInputs
  /\ toTriage = MgrCandidates
  /\ found = NoSignal
  /\ flaky = NoSignal
  /\ received = {}

-----------------------------------------------------------------------------
(***************************************************************************)
(* The work queue.                                                         *)
(***************************************************************************)

wantCandidates == Len(candidate) < Cardinality(Procs)

enqueueTriage(w) ==
  IF ProgCandidate \in w.flags
  THEN triageCandidate' = Append(triageCandidate, w) /\ UNCHANGED <<candidate, triage, smash>>
  ELSE triage' = Append(triage, w) /\ UNCHANGED <<triageCandidate, candidate, smash>>

\* dequeue, in its order of priorities; a proc starts on what it gets.
DequeueTriageCandidate(i) ==
  /\ proc[i].pc = "idle"
  /\ triageCandidate # << >>
  /\ triageCandidate' = Front(triageCandidate)
  /\ proc' = [proc EXCEPT ![i] = [Idle EXCEPT !.pc = "triage", !.of = Last(triageCandidate)]]
  /\ UNCHANGED <<candidate, triage, smash, needPoll, signals, corpus, poller, boot, mgr, history>>

DequeueCandidate(i) ==
  /\ proc[i].pc = "idle"
  /\ triageCandidate = << >> /\ candidate # << >>
  /\ candidate' = Front(candidate)
  /\ needPoll' = (needPoll \/ Len(candidate') < Cardinality(Procs))
  /\ proc' = [proc EXCEPT ![i] = [Idle EXCEPT !.pc = "exec", !.prog = Last(candidate).prog,
                                              !.flags = Last(candidate).flags]]
  /\ UNCHANGED <<triageCandidate, triage, smash, signals, corpus, poller, boot, mgr, history>>

\* A slip: the work item is not removed from its queue.
DequeueTriagePeeks(i) ==
  /\ proc[i].pc = "idle"
  /\ triageCandidate = << >> /\ candidate = << >> /\ triage # << >>
  /\ proc' = [proc EXCEPT ![i] = [Idle EXCEPT !.pc = "triage", !.of = Last(triage)]]
  /\ UNCHANGED <<queues, needPoll, signals, corpus, poller, boot, mgr, history>>

DequeueTriage(i) ==
  /\ proc[i].pc = "idle"
  /\ triageCandidate = << >> /\ candidate = << >> /\ triage # << >>
  /\ triage' = Front(triage)
  /\ proc' = [proc EXCEPT ![i] = [Idle EXCEPT !.pc = "triage", !.of = Last(triage)]]
  /\ UNCHANGED <<triageCandidate, candidate, smash, needPoll, signals, corpus, poller, boot, mgr,
                 history>>

DequeueSmash(i) ==
  /\ proc[i].pc = "idle"
  /\ triageCandidate = << >> /\ candidate = << >> /\ triage = << >> /\ smash # << >>
  /\ smash' = Front(smash)
  /\ proc' = [proc EXCEPT ![i] = [Idle EXCEPT !.pc = "smash"]]
  /\ UNCHANGED <<triageCandidate, candidate, triage, needPoll, signals, corpus, poller, boot, mgr,
                 history>>

\* An empty queue (or one emptied between dequeue's two looks at it): generate
\* a program or mutate one of the corpus.
Generate(i) ==
  /\ proc[i].pc = "idle"
  /\ triageCandidate = << >> /\ candidate = << >> /\ triage = << >> /\ smash = << >>
  /\ \E p \in Progs :
       proc' = [proc EXCEPT ![i] = [Idle EXCEPT !.pc = "exec", !.prog = p]]
  /\ UNCHANGED <<queues, needPoll, signals, corpus, poller, boot, mgr, history>>

-----------------------------------------------------------------------------
(***************************************************************************)
(* execute and checkNewSignal.                                             *)
(***************************************************************************)

\* Nothing new, or nothing at all: back to where the execution was asked for.
ExecuteNothingNew(i) ==
  /\ proc[i].pc = "exec"
  /\ \E s \in Outcomes[proc[i].prog] \cup {NoSignal} : Empty(Diff(maxSignal, s))
  /\ proc' = [proc EXCEPT ![i].pc = proc[i].back, ![i].prog = NoProg, ![i].flags = ProgNormal]
  /\ UNCHANGED <<queues, needPoll, signals, corpus, poller, boot, mgr, history>>

\* checkNewCallSignal under RLock: the difference is computed ...
ExecuteNewSignal(i) ==
  /\ proc[i].pc = "exec"
  /\ \E s \in Outcomes[proc[i].prog] :
       /\ ~Empty(Diff(maxSignal, s))
       /\ proc' = [proc EXCEPT ![i].pc = "merge", ![i].sig = s,
                               ![i].diff = Diff(maxSignal, s)]
  /\ UNCHANGED <<queues, needPoll, signals, corpus, poller, boot, mgr, history>>

\* A slip: the new signal is not queued for the manager.
MergeMaxOnly(diff) ==
  /\ maxSignal' = Merge(maxSignal, diff)
  /\ UNCHANGED newSignal

MergeNew(diff) ==
  /\ maxSignal' = Merge(maxSignal, diff)
  /\ newSignal' = Merge(newSignal, diff)

\* ... and, after RUnlock and Lock, merged, although others may have been there.
MergeDiff(i) ==
  /\ proc[i].pc = "merge"
  /\ MergeNew(proc[i].diff)
  /\ found' = Merge(found, proc[i].diff)
  /\ proc' = [proc EXCEPT ![i].pc = "enqueue", ![i].diff = NoSignal]
  /\ UNCHANGED <<queues, needPoll, corpusSignal, corpus, poller, boot, mgr, flaky, received>>

\* enqueueCallTriage.
EnqueueTriage(i) ==
  /\ proc[i].pc = "enqueue"
  /\ enqueueTriage([prog |-> proc[i].prog, sig |-> proc[i].sig, flags |-> proc[i].flags])
  /\ proc' = [proc EXCEPT ![i].pc = proc[i].back, ![i].prog = NoProg, ![i].sig = NoSignal,
                          ![i].flags = ProgNormal]
  /\ UNCHANGED <<needPoll, signals, corpus, poller, boot, mgr, history>>

-----------------------------------------------------------------------------
(***************************************************************************)
(* triageInput.  proc[i].of is the work item, proc[i].diff the newSignal   *)
(* it computes.                                                            *)
(***************************************************************************)

TriageNothingNew(i) ==
  /\ proc[i].pc = "triage"
  /\ Empty(Diff(corpusSignal, proc[i].of.sig))
  /\ proc' = [proc EXCEPT ![i] = Idle]
  /\ UNCHANGED <<queues, needPoll, signals, corpus, poller, boot, mgr, history>>

TriageStart(i) ==
  /\ proc[i].pc = "triage"
  /\ ~Empty(Diff(corpusSignal, proc[i].of.sig))
  /\ proc' = [proc EXCEPT ![i].pc = "runs", ![i].diff = Diff(corpusSignal, proc[i].of.sig)]
  /\ UNCHANGED <<queues, needPoll, signals, corpus, poller, boot, mgr, history>>

\* The outcomes of the signalRuns executions; NoSignal if the call was not
\* executed or had no signal.
Runs(p) == [1 .. signalRuns -> Outcomes[p] \cup {NoSignal}]

\* signalPrio of the execution that gave s: the priority of all its elements.
PrioOf(s) == CHOOSE prio \in Prios : \E e \in Elems : s[e] = prio

\* reexecutionSuccess: there is signal, and a call that succeeded when w was
\* queued has not failed now.  Of the two bits of the priority of a program's
\* call one is fixed, so it has failed if and only if the priority is lower.
Succeeded(w, runs) ==
  {r \in 1 .. signalRuns : runs[r] # NoSignal /\ PrioOf(runs[r]) >= PrioOf(w.sig)}

\* newSignal after the runs: Intersection with each of the successful ones.
Stable(w, diff, runs) ==
  [e \in Elems |-> IF \A r \in Succeeded(w, runs) : runs[r][e] >= diff[e]
                   THEN diff[e] ELSE Absent]

\* notexecuted > signalRuns/2+1, or no stable signal left in a program that
\* was not minimized before.
GivesUp(w, diff, runs) ==
  \/ signalRuns - Cardinality(Succeeded(w, runs)) > signalRuns \div 2 + 1
  \/ Empty(Stable(w, diff, runs)) /\ ProgMinimized \notin w.flags

TriageRuns(i) ==
  LET w == proc[i].of IN
  /\ proc[i].pc = "runs"
  /\ \E runs \in Runs(w.prog) :
       IF GivesUp(w, proc[i].diff, runs)
       THEN /\ proc' = [proc EXCEPT ![i] = Idle]
            /\ flaky' = Merge(flaky, w.sig)
       ELSE /\ proc' = [proc EXCEPT ![i].diff = NoSignal,
                                    ![i].pc = IF ProgMinimized \in w.flags
                                              THEN "send" ELSE "minimize"]
            /\ UNCHANGED flaky
  /\ UNCHANGED <<queues, needPoll, signals, corpus, poller, boot, mgr, found, received>>

\* prog.Minimize executes variants of the program, which may have new signal
\* of their own ...
MinimizeTry(i) ==
  /\ proc[i].pc = "minimize"
  /\ \E p \in Progs :
       proc' = [proc EXCEPT ![i].pc = "exec", ![i].prog = p, ![i].back = "minimize"]
  /\ UNCHANGED <<queues, needPoll, signals, corpus, poller, boot, mgr, history>>

\* A slip: the minimized program is kept without telling the manager.
MinimizeDoneUnsent(i) ==
  /\ proc[i].pc = "minimize"
  /\ \E p \in MinimizesTo[proc[i].of.prog] :
       proc' = [proc EXCEPT ![i].pc = "addCorpus", ![i].of.prog = p, ![i].back = "idle"]
  /\ UNCHANGED <<queues, needPoll, signals, corpus, poller, boot, mgr, history>>

\* ... and ends with one of them.
MinimizeDone(i) ==
  /\ proc[i].pc = "minimize"
  /\ \E p \in MinimizesTo[proc[i].of.prog] :
       proc' = [proc EXCEPT ![i].pc = "send", ![i].of.prog = p, ![i].back = "idle"]
  /\ UNCHANGED <<queues, needPoll, signals, corpus, poller, boot, mgr, history>>

\* sendInputToManager.
SendInput(i) ==
  /\ proc[i].pc = "send"
  /\ srvInputs' = srvInputs \cup {proc[i].of.prog}
  /\ proc' = [proc EXCEPT ![i].pc = "addCorpus"]
  /\ UNCHANGED <<queues, needPoll, signals, corpus, poller, boot, srvSignal, toReceive, toTriage,
                 history>>

\* addInputToCorpus: first corpusMu, then signalMu.
AddCorpus(i) ==
  /\ proc[i].pc = "addCorpus"
  /\ corpus' = corpus \cup {proc[i].of.prog}
  /\ proc' = [proc EXCEPT ![i].pc = "addSignal"]
  /\ UNCHANGED <<queues, needPoll, signals, poller, boot, mgr, history>>

\* A slip: only the maximal signal is updated.
MergeCorpusMaxOnly(s) ==
  /\ maxSignal' = Merge(maxSignal, s)
  /\ UNCHANGED corpusSignal

MergeCorpus(s) ==
  /\ corpusSignal' = Merge(corpusSignal, s)
  /\ maxSignal' = Merge(maxSignal, s)

\* The signalMu section of addInputToCorpus, and the smash work that follows.
AddSignal(i) ==
  /\ proc[i].pc = "addSignal"
  /\ MergeCorpus(proc[i].of.sig)
  /\ smash' = IF ProgSmashed \in proc[i].of.flags THEN smash
              ELSE Append(smash, proc[i].of.prog)
  /\ proc' = [proc EXCEPT ![i] = Idle]
  /\ UNCHANGED <<triageCandidate, candidate, triage, needPoll, newSignal, corpus, poller, boot,
                 mgr, history>>

\* smashInput: executions of mutants of the program, some number of times.
SmashTry(i) ==
  /\ proc[i].pc = "smash"
  /\ \E p \in Progs :
       proc' = [proc EXCEPT ![i].pc = "exec", ![i].prog = p, ![i].back = "smash"]
  /\ UNCHANGED <<queues, needPoll, signals, corpus, poller, boot, mgr, history>>

SmashDone(i) ==
  /\ proc[i].pc = "smash"
  /\ proc' = [proc EXCEPT ![i] = Idle]
  /\ UNCHANGED <<queues, needPoll, signals, corpus, poller, boot, mgr, history>>

-----------------------------------------------------------------------------
(***************************************************************************)
(* The main goroutine: pollLoop and poll.                                  *)
(***************************************************************************)

\* main fetches the corpus, with candidates in the first reply, before any proc
\* starts; then pollLoop polls on a token or by its timer.
PollNeeds == IF boot = "done" THEN wantCandidates ELSE boot = "first"

\* A token on needPoll whose reason has gone.
PollSkip ==
  /\ poller.pc = "idle" /\ boot = "done"
  /\ needPoll /\ ~wantCandidates
  /\ needPoll' = FALSE
  /\ UNCHANGED <<queues, signals, corpus, proc, poller, boot, mgr, history>>

grabNewSignal == newSignal' = NoSignal

PollGrab ==
  /\ poller.pc = "idle"
  /\ \/ boot = "done" /\ needPoll /\ wantCandidates /\ needPoll' = FALSE
     \/ UNCHANGED needPoll
  /\ poller' = [NotPolling EXCEPT !.pc = "call", !.need = PollNeeds, !.grabbed = newSignal]
  /\ grabNewSignal
  /\ boot' = IF boot = "first" THEN "more" ELSE boot
  /\ UNCHANGED <<queues, maxSignal, corpusSignal, corpus, proc, mgr, history>>

\* Manager.Poll, the part that receives.
PollCall ==
  /\ poller.pc = "call"
  /\ srvSignal' = Merge(srvSignal, poller.grabbed)
  /\ poller' = [poller EXCEPT !.pc = "reply", !.grabbed = NoSignal]
  /\ UNCHANGED <<queues, needPoll, signals, corpus, proc, boot, srvInputs, toReceive,
                 toTriage, history>>

\* Back to pollLoop when everything in the reply has been added.
StillAdding(ins, cs) ==
  [NotPolling EXCEPT !.pc = IF ins \cup cs = {} THEN "idle" ELSE "adding",
                     !.inputs = ins, !.candidates = cs]

\* The reply: candidates if they were asked for and there are some, otherwise
\* inputs of other fuzzers; addMaxSignal first.  An empty reply ends main's loop.
PollReply ==
  /\ poller.pc = "reply"
  /\ \E s \in OtherSignals \cup {NoSignal}, ins \in SUBSET toReceive, cs \in SUBSET toTriage :
       /\ IF poller.need /\ toTriage # {} THEN cs # {} /\ ins = {} ELSE cs = {}
       /\ maxSignal' = Merge(maxSignal, s)
       /\ toReceive' = toReceive \ ins
       /\ toTriage' = toTriage \ cs
       /\ poller' = StillAdding(ins, cs)
       /\ boot' = IF s = NoSignal /\ ins = {} /\ cs = {} THEN "done" ELSE boot
  /\ UNCHANGED <<queues, needPoll, corpusSignal, newSignal, corpus, proc, srvSignal, srvInputs,
                 history>>

\* addInputFromAnotherFuzzer, up to the first half of addInputToCorpus.
AddReceived ==
  /\ poller.pc = "adding"
  /\ \E i \in poller.inputs :
       /\ corpus' = corpus \cup {i.prog}
       /\ received' = received \cup {i.prog}
       /\ poller' = [poller EXCEPT !.pc = "merge", !.inputs = @ \ {i}, !.got = i.sig]
  /\ UNCHANGED <<queues, needPoll, signals, proc, boot, mgr, found, flaky>>

\* A slip: inputs of other fuzzers do not count as known signal.
MergeInputCorpusOnly(sign) ==
  corpusSignal' = Merge(corpusSignal, sign) /\ UNCHANGED maxSignal

MergeInput(sign) ==
  corpusSignal' = Merge(corpusSignal, sign) /\ maxSignal' = Merge(maxSignal, sign)

\* The second half.
MergeReceived ==
  /\ poller.pc = "merge"
  /\ MergeInput(poller.got)
  /\ poller' = StillAdding(poller.inputs, poller.candidates)
  /\ UNCHANGED <<queues, needPoll, newSignal, corpus, proc, boot, mgr, history>>

\* The work item of a candidate.
addCandidateInput(c) == [c EXCEPT !.flags = @ \cup {ProgCandidate}]

AddCandidate ==
  /\ poller.pc = "adding" /\ poller.inputs = {}
  /\ \E c \in poller.candidates :
       /\ candidate' = Append(candidate, addCandidateInput(c))
       /\ poller' = StillAdding({}, poller.candidates \ {c})
  /\ UNCHANGED <<triageCandidate, triage, smash, needPoll, signals, corpus, proc, boot, mgr,
                 history>>

ProcStep(i) ==
  \/ DequeueTriageCandidate(i) \/ DequeueCandidate(i) \/ DequeueTriage(i)
  \/ DequeueSmash(i)
  \/ ExecuteNothingNew(i) \/ ExecuteNewSignal(i) \/ MergeDiff(i) \/ EnqueueTriage(i)
  \/ TriageNothingNew(i) \/ TriageStart(i) \/ TriageRuns(i)
  \/ MinimizeDone(i) \/ SendInput(i) \/ AddCorpus(i) \/ AddSignal(i)
  \/ SmashDone(i)

PollStep ==
  \/ PollSkip \/ PollGrab \/ PollCall \/ PollReply
  \/ AddReceived \/ MergeReceived \/ AddCandidate

Next ==
  \/ /\ boot = "done"
     /\ \E i \in Procs : ProcStep(i) \/ Generate(i) \/ MinimizeTry(i) \/ SmashTry(i)
  \/ PollStep

Spec == Init /\ [][Next]_vars

\* Executions end (executor timeouts), the manager answers, procs are scheduled.
\* prog.Minimize and smashInput execute a bounded number of programs: neither
\* goes on for ever, whatever its executions find.
Fairness ==
  /\ \A i \in Procs : /\ WF_vars(boot = "done" /\ ProcStep(i))
                      /\ SF_vars(boot = "done" /\ (MinimizeDone(i) \/ SmashDone(i)))
  /\ WF_vars(PollStep)

FairSpec == Spec /\ Fairness

-----------------------------------------------------------------------------
(***************************************************************************)
(* Properties.                                                             *)
(***************************************************************************)

Flags == SUBSET {ProgCandidate, ProgMinimized, ProgSmashed}

Works == [prog : Progs, sig : Signals, flags : Flags]

ProcStates ==
  [pc : {"idle", "exec", "merge", "enqueue", "triage", "runs", "minimize", "send",
         "addCorpus", "addSignal", "smash"},
   prog : Progs \cup {NoProg}, sig : Signals, diff : Signals, flags : Flags,
   back : {"idle", "minimize", "smash"}, of : Works \cup {NoWork}]

PollerStates ==
  [pc : {"idle", "call", "reply", "adding", "merge"}, need : BOOLEAN, grabbed : Signals,
   inputs : SUBSET OtherInputs, candidates : SUBSET MgrCandidates, got : Signals]

\* What the procs and the poller share.
SharedTypeOK ==
  /\ triageCandidate \in Seq(Works) /\ triage \in Seq(Works)
  /\ candidate \in Seq([prog : Progs, flags : Flags])
  /\ smash \in Seq(Progs)
  /\ needPoll \in BOOLEAN
  /\ {maxSignal, corpusSignal, newSignal, srvSignal, found, flaky} \subseteq Signals
  /\ corpus \subseteq Progs /\ srvInputs \subseteq Progs /\ received \subseteq Progs
  /\ poller \in PollerStates
  /\ toReceive \subseteq OtherInputs /\ toTriage \subseteq MgrCandidates
  /\ boot \in {"first", "more", "done"}

TypeOK == SharedTypeOK /\ proc \in [Procs -> ProcStates]

\* The signals of the work items in a queue.
QueuedSignals(q) == {q[n].sig : n \in DOMAIN q}

\* The signals procs are responsible for: found and not yet queued, or in triage.
HeldSignals == UNION {{proc[i].sig, proc[i].of.sig} : i \in Procs}

\* Signal that was marked as known in maxSignal is never forgotten: it is in
\* the corpus, or was given up as flaky, or waits in a triage queue, or is in
\* the hands of a proc.  (Once it is in maxSignal no other execution will ever
\* be triaged for it.)
NewSignalTriaged ==
  Covers(MergeAll({corpusSignal, flaky} \cup HeldSignals \cup
                  QueuedSignals(triage) \cup QueuedSignals(triageCandidate)),
         found)

\* Signal found here reaches the manager: it was sent, is being sent, or waits
\* in newSignal for the next poll.
NewSignalReported ==
  Covers(MergeAll({srvSignal, newSignal, poller.grabbed}), found)

\* The corpus gives nothing that maxSignal does not know, so executing a corpus
\* program again is not taken for something new.
CorpusWithinMax == TypeOK /\ Covers(maxSignal, corpusSignal)

\* A program is in the fuzzer's corpus only after the manager has it: a crash
\* of the VM never takes the only copy of a corpus program with it.
CorpusReported == corpus \subseteq srvInputs \cup received

\* Triage work is done eventually, although candidates and newer work are taken
\* first and although smashing and minimization keep finding more.
TriageDrains == triage # << >> ~> triage = << >>
-----------------------------------------------------------------------------
(***************************************************************************)
(* The inductive invariant behind the four invariants above.               *)
(***************************************************************************)

\* An execution, whatever it was asked for by.
Executing(q) == q.pc \in {"exec", "merge", "enqueue"}

\* Whether a proc has a work item of triageInput to deal with, also while it
\* executes what prog.Minimize tries.
OnWork(q) ==
  \/ q.pc \in {"triage", "runs", "minimize", "send", "addCorpus", "addSignal"}
  \/ Executing(q) /\ q.back = "minimize"

\* What each place in the code knows: new signal is held exactly until it is
\* queued, and covers what is merged; a program that is about to enter the
\* corpus is among those sent.
ProcOK(q, sent) ==
  /\ OnWork(q) => q.of \in Works
  /\ ~OnWork(q) => q.of = NoWork
  /\ Executing(q) => q.prog \in Progs
  /\ q.pc \notin {"merge", "enqueue"} => q.sig = NoSignal
  /\ q.pc = "merge" => Covers(q.sig, q.diff)
  /\ q.pc = "addCorpus" => q.of.prog \in sent

ProcInv == \A i \in Procs : ProcOK(proc[i], srvInputs)

\* Grabbed signal is in the hands of the poller only until the call is made.
PollerInv == poller.pc # "call" => poller.grabbed = NoSignal

\* All of it: the shared signals, the procs and the poller.
FuzzerInv ==
  /\ CorpusWithinMax
  /\ ProcInv
  /\ PollerInv
  /\ NewSignalTriaged
  /\ NewSignalReported
  /\ CorpusReported
=============================================================================
