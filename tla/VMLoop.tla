------------------------------- MODULE VMLoop -------------------------------
(***************************************************************************)
(* syz-manager's vmLoop: the goroutine that hands the test machines out to *)
(* fuzzing and to the reproduction of crashes, the ResourcePool it takes   *)
(* them from, and the goroutines it starts (runInstance, runRepro).        *)
(*                                                                         *)
(* The loop is a process with a program counter: it evaluates its          *)
(* condition ("top"), queues the pending crashes and starts reproductions  *)
(* and machines ("body"), and blocks in its select ("wait").  Machines     *)
(* boot, crash, time out and are stopped at any moment, reproductions      *)
(* return their machines before they report, and the channels runDone and  *)
(* reproDone are the results not yet received (their senders wait, so what *)
(* is sent and what is about to be cannot be told apart).  A crash is its  *)
(* title and where it came from.                                           *)
(***************************************************************************)
EXTENDS Integers, Sequences, FiniteSets, SequencesExt

CONSTANTS
  vmCount,        \* vmPool.Count()
  FuzzingVMs,     \* cfg.FuzzingVMs, machines no reproduction may take
  perRepro,       \* 3, before it is cut down to maxReproVMs
  Titles,         \* titles of kernel crashes
  Straces,        \* whether cfg.StraceBin is set
  maxReproAttempts, \* 3
  HubQueueCap,    \* capacity of hubReproQueue, 10
  MaxCrashes      \* bound: crashes of one behaviour

VMs == 0 .. vmCount - 1
maxReproVMs == vmCount - FuzzingVMs
instancesPerRepro ==
  IF perRepro > maxReproVMs /\ maxReproVMs > 0 THEN maxReproVMs ELSE perRepro

ASSUME VMLoopAssumption ==
  /\ vmCount \in Nat \ {0} /\ FuzzingVMs \in 0 .. vmCount
  /\ perRepro \in Nat \ {0} /\ maxReproAttempts \in Nat /\ HubQueueCap \in Nat \ {0}
  /\ Straces \in BOOLEAN /\ MaxCrashes \in Nat

\* A reproducer from the hub has a title of its own.
HubTitle == "external repro"
Crashes == [id : 1 .. MaxCrashes, title : Titles \cup {HubTitle}, hub : BOOLEAN]
NoCrash == [id |-> 0]

VARIABLES
  pc, phase, todo,             \* the loop's position, its copy of mgr.phase,
                               \* and the pending crashes it has yet to visit
  pendingRepro, reproducing, reproQueue, stopPending, stopped,
  numReproducing,
  ids, Freed, booted,          \* the pool, and how many indices it was given
  fuzzing,                     \* runInstance goroutines: index and stage
  runDone,                     \* their results
  repros,                      \* runRepro goroutines: crash and machines held
  reproDone,                   \* their results
  triagedHub,                  \* mgr.phase >= phaseTriagedHub
  Shutdown,                    \* whether vm.Shutdown is closed
  checked,                     \* mgr.checkResult # nil
  dash,                        \* whether a dashboard is configured
  reproLogs, reproProg,        \* crashdir: failed attempts, repro.prog
  hubReproQueue,               \* reproducers from the hub connector
  crashes                      \* how many crashes happened

loopVars == <<pc, phase, todo, pendingRepro, reproducing, reproQueue, stopPending, stopped,
              numReproducing>>
poolVars == <<ids, Freed, booted>>
goVars == <<fuzzing, runDone, repros, reproDone>>
diskVars == <<dash, reproLogs, reproProg>>
envVars == <<triagedHub, Shutdown, checked, hubReproQueue, crashes>>
vars == <<loopVars, poolVars, goVars, diskVars, envVars>>

Init ==
  /\ pc = "top" /\ phase = FALSE /\ todo = {}
  /\ pendingRepro = {} /\ reproducing = {} /\ reproQueue = <<>>
  /\ stopPending = FALSE /\ stopped = FALSE /\ numReproducing = 0
  /\ ids = <<>> /\ Freed = FALSE /\ booted = 0
  /\ fuzzing = {} /\ runDone = {} /\ repros = {} /\ reproDone = {}
  /\ triagedHub = FALSE /\ Shutdown = FALSE /\ checked = FALSE
  /\ dash \in BOOLEAN /\ reproLogs = [t \in Titles |-> 0] /\ reproProg = {}
  /\ hubReproQueue = <<>> /\ crashes = 0
-----------------------------------------------------------------------------
(* ResourcePool.  Put appends and leaves a token in the channel of         *)
(* capacity one; Take gives the last n indices, or nothing when there are  *)
(* fewer.                                                                  *)

Put(s) ==
  /\ ids' = ids \o s
  /\ Freed' = TRUE

CanTake(n) == Len(ids) >= n
Taken(n) == SubSeq(ids, Len(ids) - n + 1, Len(ids))
Take(n) ==
  /\ CanTake(n)
  /\ ids' = SubSeq(ids, 1, Len(ids) - n)

\* SequentialResourcePool's goroutine gives the pool one index at a time.
BootNext ==
  /\ booted < vmCount
  /\ Put(<<booted>>)
  /\ booted' = booted + 1
  /\ UNCHANGED <<loopVars, goVars, diskVars, envVars>>
-----------------------------------------------------------------------------
(* What the manager knows about a title.                                   *)

\* needLocalRepro: no reproducer yet and fewer than three failed attempts.
needLocalRepro(c) == c.title \notin reproProg /\ reproLogs[c.title] < maxReproAttempts

\* needRepro: reproducers of the hub are always tried; before a machine was
\* checked nothing is (nor on leak-checking machines, left out); the
\* dashboard's answer, if there is one, may be either.
needRepro(c) ==
  IF c.hub THEN {TRUE}
  ELSE IF ~checked THEN {FALSE}
  ELSE IF dash THEN BOOLEAN
  ELSE {needLocalRepro(c)}

\* saveCrash's result: corrupted and suppressed reports are not reproduced.
saveCrash(c) == {FALSE} \cup (IF dash THEN BOOLEAN ELSE {needLocalRepro(c)})

\* A slip: the reproduction about to start is not counted.
CanReproOneMore ==
  /\ phase /\ reproQueue # <<>>
  /\ numReproducing * instancesPerRepro <= maxReproVMs

canRepro ==
  /\ phase /\ reproQueue # <<>>
  /\ (numReproducing + 1) * instancesPerRepro <= maxReproVMs
-----------------------------------------------------------------------------
(* One iteration of the loop up to its select.                             *)

\* A slip: the phase is read once, before the loop.
LoopTopOldPhase ==
  /\ pc = "top"
  /\ IF stopped /\ Len(ids) = vmCount
     THEN pc' = "exit" /\ UNCHANGED <<phase, todo>>
     ELSE pc' = "body" /\ UNCHANGED phase /\ todo' = pendingRepro
  /\ UNCHANGED <<pendingRepro, reproducing, reproQueue, stopPending, stopped, numReproducing,
                 poolVars, goVars, diskVars, envVars>>

LoopTop ==
  /\ pc = "top"
  /\ IF stopped /\ Len(ids) = vmCount
     THEN pc' = "exit" /\ UNCHANGED <<phase, todo>>
     ELSE pc' = "body" /\ phase' = triagedHub /\ todo' = pendingRepro
  /\ UNCHANGED <<pendingRepro, reproducing, reproQueue, stopPending, stopped, numReproducing,
                 poolVars, goVars, diskVars, envVars>>

\* A slip: a pending crash is queued although its title is being reproduced.
VisitPendingAgain(c) ==
  /\ pc = "body" /\ c \in todo
  /\ todo' = todo \ {c}
  /\ pendingRepro' = pendingRepro \ {c}
  /\ \E need \in needRepro(c) :
       IF need THEN /\ reproducing' = reproducing \cup {c.title}
                    /\ reproQueue' = Append(reproQueue, c)
               ELSE UNCHANGED <<reproducing, reproQueue>>
  /\ UNCHANGED <<pc, phase, stopPending, stopped, numReproducing,
                 poolVars, goVars, diskVars, envVars>>

\* The range over the map visits the pending crashes in any order: one whose
\* title is being reproduced stays, one that is not needed any more is dropped.
VisitPending(c) ==
  /\ pc = "body" /\ c \in todo
  /\ todo' = todo \ {c}
  /\ IF c.title \in reproducing
     THEN UNCHANGED <<pendingRepro, reproducing, reproQueue>>
     ELSE /\ pendingRepro' = pendingRepro \ {c}
          /\ \E need \in needRepro(c) :
               IF need THEN /\ reproducing' = reproducing \cup {c.title}
                            /\ reproQueue' = Append(reproQueue, c)
                       ELSE UNCHANGED <<reproducing, reproQueue>>
  /\ UNCHANGED <<pc, phase, stopPending, stopped, numReproducing,
                 poolVars, goVars, diskVars, envVars>>

\* The newest crash of the queue goes first.
StartRepro ==
  /\ pc = "body" /\ todo = {} /\ ~stopped /\ canRepro
  /\ Take(instancesPerRepro)
  /\ numReproducing' = numReproducing + 1
  /\ repros' = repros \cup {[crash |-> Last(reproQueue), held |-> Taken(instancesPerRepro),
                             st |-> "run"]}
  /\ reproQueue' = Front(reproQueue)
  /\ UNCHANGED <<pc, phase, todo, pendingRepro, reproducing, stopPending, stopped, Freed, booted,
                 fuzzing, runDone, reproDone, diskVars, envVars>>

\* A slip: machines are started during the shutdown as well.
StartInstanceAlways ==
  /\ pc = "body" /\ todo = {} /\ ~canRepro
  /\ Take(1)
  /\ fuzzing' = fuzzing \cup {[idx |-> Last(ids), st |-> "boot"]}
  /\ UNCHANGED <<loopVars, Freed, booted, runDone, repros, reproDone, diskVars, envVars>>

\* A machine is started for fuzzing only while no reproduction wants one.
StartInstance ==
  /\ pc = "body" /\ todo = {} /\ ~stopped /\ ~canRepro
  /\ Take(1)
  /\ fuzzing' = fuzzing \cup {[idx |-> Last(ids), st |-> "boot"]}
  /\ UNCHANGED <<loopVars, Freed, booted, runDone, repros, reproDone, diskVars, envVars>>

\* A slip: one machine at most is started in an iteration.
ToSelectEarly ==
  /\ pc = "body" /\ todo = {}
  /\ pc' = "wait"
  /\ UNCHANGED <<phase, todo, pendingRepro, reproducing, reproQueue, stopPending, stopped,
                 numReproducing, poolVars, goVars, diskVars, envVars>>

\* canRepro depends on nothing but the loop's own state, so the two loops over
\* the pool end when the one that applies finds too few machines.
ToSelect ==
  /\ pc = "body" /\ todo = {}
  /\ stopped \/ ~CanTake(IF canRepro THEN instancesPerRepro ELSE 1)
  /\ pc' = "wait"
  /\ UNCHANGED <<phase, todo, pendingRepro, reproducing, reproQueue, stopPending, stopped,
                 numReproducing, poolVars, goVars, diskVars, envVars>>
-----------------------------------------------------------------------------
(* The cases of the select.                                                *)

WaitFreed ==
  /\ pc = "wait" /\ Freed
  /\ Freed' = FALSE
  /\ pc' = "top"
  /\ UNCHANGED <<phase, todo, pendingRepro, reproducing, reproQueue, stopPending, stopped,
                 numReproducing, ids, booted, goVars, diskVars, envVars>>

\* vmStop is unbuffered: a machine that runs the fuzzer takes the request.
WaitStopRequest(f) ==
  /\ pc = "wait" /\ ~stopPending /\ canRepro
  /\ f \in fuzzing /\ f.st = "run"
  /\ fuzzing' = (fuzzing \ {f}) \cup {[f EXCEPT !.st = "stop"]}
  /\ stopPending' = TRUE
  /\ pc' = "top"
  /\ UNCHANGED <<phase, todo, pendingRepro, reproducing, reproQueue, stopped, numReproducing,
                 poolVars, runDone, repros, reproDone, diskVars, envVars>>

WaitRunDone(res) ==
  /\ pc = "wait" /\ res \in runDone
  /\ runDone' = runDone \ {res}
  /\ stopPending' = FALSE
  /\ Put(<<res.idx>>)
  /\ IF ~stopped /\ res.crash # NoCrash
     THEN \E need \in saveCrash(res.crash) :
            pendingRepro' = IF need THEN pendingRepro \cup {res.crash} ELSE pendingRepro
     ELSE UNCHANGED pendingRepro
  /\ pc' = "top"
  /\ UNCHANGED <<phase, todo, reproducing, reproQueue, stopped, numReproducing, booted,
                 fuzzing, repros, reproDone, diskVars, envVars>>

\* saveFailedRepro counts an attempt only when there is a log to write;
\* saveRepro stores the reproducer under the title of the report it reproduced.
\* The files a failing dashboard leaves behind are left out: with a dashboard
\* the answers above may be either anyway.
saveFailedRepro(c) ==
  /\ \/ /\ ~dash /\ ~c.hub
        /\ reproLogs[c.title] < maxReproAttempts
        /\ reproLogs' = [reproLogs EXCEPT ![c.title] = @ + 1]
     \/ /\ UNCHANGED reproLogs
  /\ UNCHANGED reproProg

saveRepro(title) ==
  /\ reproProg' = IF dash THEN reproProg ELSE reproProg \cup {title}
  /\ UNCHANGED reproLogs

WaitReproDone(res) ==
  /\ pc = "wait" /\ res \in reproDone
  /\ reproDone' = reproDone \ {res}
  /\ numReproducing' = numReproducing - 1
  /\ reproducing' = reproducing \ {res.crash.title}
  /\ IF res.ok THEN \E title \in Titles : saveRepro(title) ELSE saveFailedRepro(res.crash)
  /\ pc' = "top"
  /\ UNCHANGED <<phase, todo, pendingRepro, reproQueue, stopPending, stopped,
                 poolVars, fuzzing, runDone, repros, dash, envVars>>

WaitShutdown ==
  /\ pc = "wait" /\ Shutdown /\ ~stopped
  /\ stopped' = TRUE
  /\ pc' = "top"
  /\ UNCHANGED <<phase, todo, pendingRepro, reproducing, reproQueue, stopPending, numReproducing,
                 poolVars, goVars, diskVars, envVars>>

WaitHubRepro ==
  /\ pc = "wait" /\ hubReproQueue # <<>>
  /\ pendingRepro' = pendingRepro \cup {Head(hubReproQueue)}
  /\ hubReproQueue' = Tail(hubReproQueue)
  /\ pc' = "top"
  /\ UNCHANGED <<phase, todo, reproducing, reproQueue, stopPending, stopped, numReproducing,
                 poolVars, goVars, diskVars, triagedHub, Shutdown, checked, crashes>>

\* The hub connector asks whether it should fetch reproducers; the loop
\* answers and waits again.  On "yes" a reproducer may come back at any time.
\* Without a dashboard it does not ask.
NeedMoreRepros ==
  phase /\ Len(reproQueue) + Cardinality(pendingRepro) + Cardinality(reproducing) = 0

WaitNeedMoreRepros ==
  /\ pc = "wait" /\ dash /\ NeedMoreRepros
  /\ crashes < MaxCrashes /\ Len(hubReproQueue) < HubQueueCap
  /\ hubReproQueue' =
       Append(hubReproQueue, [id |-> crashes + 1, title |-> HubTitle, hub |-> TRUE])
  /\ crashes' = crashes + 1
  /\ UNCHANGED <<loopVars, poolVars, goVars, diskVars, triagedHub, Shutdown, checked>>
-----------------------------------------------------------------------------
(* runInstance.                                                            *)

\* The machine is up and the fuzzer runs in it.
InstanceUp(f) ==
  /\ f \in fuzzing /\ f.st = "boot"
  /\ fuzzing' = (fuzzing \ {f}) \cup {[f EXCEPT !.st = "run"]}
  /\ UNCHANGED <<loopVars, poolVars, runDone, repros, reproDone, diskVars, envVars>>

\* The first fuzzer to connect fills in mgr.checkResult.
MachineCheck ==
  /\ ~checked /\ \E f \in fuzzing : f.st = "run"
  /\ checked' = TRUE
  /\ UNCHANGED <<loopVars, poolVars, goVars, diskVars, triagedHub, Shutdown, hubReproQueue,
                 crashes>>

\* It ends at any stage: an error, the end of its time, a stop or a shutdown.
InstanceEnds(f) ==
  /\ f \in fuzzing
  /\ fuzzing' = fuzzing \ {f}
  /\ runDone' = runDone \cup {[idx |-> f.idx, crash |-> NoCrash]}
  /\ UNCHANGED <<loopVars, poolVars, repros, reproDone, diskVars, envVars>>

\* The kernel crashed; the report can race with a stop request.
InstanceCrashes(f) ==
  /\ f \in fuzzing /\ f.st # "boot" /\ crashes < MaxCrashes
  /\ fuzzing' = fuzzing \ {f}
  /\ crashes' = crashes + 1
  /\ \E t \in Titles : runDone' = runDone \cup
       {[idx |-> f.idx, crash |-> [id |-> crashes + 1, title |-> t, hub |-> FALSE]]}
  /\ UNCHANGED <<loopVars, poolVars, repros, reproDone, diskVars,
                 triagedHub, Shutdown, checked, hubReproQueue>>
-----------------------------------------------------------------------------
(* runRepro.  The machines go back to the pool before the result is sent;  *)
(* with strace all but the first go back earlier.                          *)

ReproEnds(r) ==
  /\ r \in repros /\ r.st = "run"
  /\ \E ok \in BOOLEAN :
       /\ ~(ok /\ Straces)
       /\ reproDone' = reproDone \cup {[crash |-> r.crash, ok |-> ok]}
  /\ repros' = repros \ {r}
  /\ Put(r.held)
  /\ UNCHANGED <<loopVars, booted, fuzzing, runDone, diskVars, envVars>>

\* A slip: the machine that runs strace is returned with the others.
ReproToStracePutsAll(r) ==
  /\ r \in repros /\ r.st = "run" /\ Straces
  /\ repros' = (repros \ {r}) \cup {[r EXCEPT !.st = "strace", !.held = <<Head(r.held)>>]}
  /\ Put(r.held)
  /\ UNCHANGED <<loopVars, booted, fuzzing, runDone, reproDone, diskVars, envVars>>

ReproToStrace(r) ==
  /\ r \in repros /\ r.st = "run" /\ Straces
  /\ repros' = (repros \ {r}) \cup {[r EXCEPT !.st = "strace", !.held = <<Head(r.held)>>]}
  /\ Put(Tail(r.held))
  /\ UNCHANGED <<loopVars, booted, fuzzing, runDone, reproDone, diskVars, envVars>>

StraceEnds(r) ==
  /\ r \in repros /\ r.st = "strace"
  /\ repros' = repros \ {r}
  /\ reproDone' = reproDone \cup {[crash |-> r.crash, ok |-> TRUE]}
  /\ Put(r.held)
  /\ UNCHANGED <<loopVars, booted, fuzzing, runDone, diskVars, envVars>>
-----------------------------------------------------------------------------
(* The rest of the manager.                                                *)

\* The manager's phase reaches phaseTriagedHub (module Manager); it needs a
\* checked machine.
PhaseTriagedHub ==
  /\ checked /\ ~triagedHub
  /\ triagedHub' = TRUE
  /\ UNCHANGED <<loopVars, poolVars, goVars, diskVars, Shutdown, checked, hubReproQueue, crashes>>

Interrupt ==
  /\ ~Shutdown
  /\ Shutdown' = TRUE
  /\ UNCHANGED <<loopVars, poolVars, goVars, diskVars, triagedHub, checked, hubReproQueue,
                 crashes>>

\* main returns when the loop does: nothing runs after that.
Exited == pc = "exit" /\ UNCHANGED vars

LoopStep ==
  \/ LoopTop \/ StartRepro \/ StartInstance \/ ToSelect
  \/ WaitFreed \/ WaitShutdown \/ WaitHubRepro \/ WaitNeedMoreRepros
  \/ \E c \in todo : VisitPending(c)
  \/ \E f \in fuzzing : WaitStopRequest(f)
  \/ \E res \in runDone : WaitRunDone(res)
  \/ \E res \in reproDone : WaitReproDone(res)

OtherStep ==
  \/ BootNext \/ MachineCheck \/ PhaseTriagedHub \/ Interrupt
  \/ \E f \in fuzzing : InstanceUp(f) \/ InstanceEnds(f) \/ InstanceCrashes(f)
  \/ \E r \in repros : ReproEnds(r) \/ ReproToStrace(r) \/ StraceEnds(r)

Next ==
  \/ pc # "exit" /\ (LoopStep \/ OtherStep)
  \/ Exited

Spec == Init /\ [][Next]_vars

\* The loop and the goroutines are scheduled; select picks at random among the
\* ready cases, so the channels of results and vm.Shutdown are not passed over
\* forever; machines and reproductions have time limits.  Nothing makes
\* crashes happen or the manager shut down.
ReproOver == \E r \in repros : ReproEnds(r) \/ ReproToStrace(r) \/ StraceEnds(r)
Fairness ==
  /\ WF_vars(LoopStep) /\ WF_vars(pc # "exit" /\ BootNext)
  /\ SF_vars(WaitShutdown)
  /\ SF_vars(\E res \in runDone : WaitRunDone(res))
  /\ SF_vars(\E res \in reproDone : WaitReproDone(res))
  /\ WF_vars(pc # "exit" /\ \E f \in fuzzing : InstanceEnds(f))
  /\ WF_vars(pc # "exit" /\ ReproOver)
FairSpec == Spec /\ Fairness
-----------------------------------------------------------------------------
\* Type correctness: shapes of the loop's, the pool's and the channels' state.
TypeOK ==
  /\ pc \in {"top", "body", "wait", "exit"}
  /\ phase \in BOOLEAN /\ stopPending \in BOOLEAN /\ stopped \in BOOLEAN
  /\ Freed \in BOOLEAN /\ triagedHub \in BOOLEAN /\ Shutdown \in BOOLEAN
  /\ checked \in BOOLEAN /\ dash \in BOOLEAN
  /\ todo \subseteq pendingRepro /\ pendingRepro \subseteq Crashes
  /\ reproducing \subseteq Titles \cup {HubTitle} /\ reproQueue \in Seq(Crashes)
  /\ ids \in Seq(VMs) /\ booted \in 0 .. vmCount
  /\ fuzzing \subseteq [idx : VMs, st : {"boot", "run", "stop"}]
  /\ runDone \subseteq [idx : VMs, crash : Crashes \cup {NoCrash}]
  /\ repros \subseteq [crash : Crashes, held : Seq(VMs), st : {"run", "strace"}]
  /\ reproDone \subseteq [crash : Crashes, ok : BOOLEAN]
  /\ reproLogs \in [Titles -> 0 .. maxReproAttempts] /\ reproProg \subseteq Titles
  /\ hubReproQueue \in Seq(Crashes) /\ crashes \in 0 .. MaxCrashes

\* Where a machine index can be: the pool, a runInstance goroutine, its result,
\* a reproduction.
Pooled == ToSet(ids)
Running == {f.idx : f \in fuzzing}
Finished == {r.idx : r \in runDone}
HeldByRepros == UNION {ToSet(r.held) : r \in repros}

\* No machine index is in two places, or in one place twice.
OnePlaceOnly ==
  /\ IsInjective(ids) /\ \A r \in repros : IsInjective(r.held)
  /\ \A f, g \in fuzzing : f.idx = g.idx => f = g
  /\ \A f, g \in runDone : f.idx = g.idx => f = g
  /\ \A r, q \in repros : r # q => ToSet(r.held) \cap ToSet(q.held) = {}
  /\ Pooled \cap (Running \cup Finished \cup HeldByRepros) = {}
  /\ Running \cap (Finished \cup HeldByRepros) = {} /\ Finished \cap HeldByRepros = {}

\* Every index given to the pool so far is somewhere.
NoneLost == 0 .. booted - 1 = Pooled \cup Running \cup Finished \cup HeldByRepros

\* A machine index is in one place only, once (the pool, a runInstance
\* goroutine or its result, a reproduction), and none is lost: whatever boots,
\* crashes, is stopped or is taken for a reproduction, every index given to
\* the pool so far is accounted for.
VMsAccounted == TypeOK /\ OnePlaceOnly /\ NoneLost

\* Reproductions never hold more than vmCount - FuzzingVMs machines, although
\* they return machines before numReproducing is decremented and one by one.
FuzzingVMsKept == Cardinality(HeldByRepros) <= maxReproVMs

\* The loop never sleeps beside a free machine, unless it collects machines
\* for a reproduction and does not have enough: a Put that comes while the
\* loop is on its way to the select leaves a token in Freed.
IdleOnlyForRepro ==
  pc = "wait" /\ ~stopped /\ ~Freed /\ ids # <<>> =>
    canRepro /\ ~CanTake(instancesPerRepro)

\* The titles of the crashes queued, in reproduction, and just reproduced.
Queued == {reproQueue[i].title : i \in DOMAIN reproQueue}
InRepro == {r.crash.title : r \in repros}
Reported == {r.crash.title : r \in reproDone}

\* The titles in reproducing are those of the crashes queued, in reproduction
\* or just reproduced, each once: no title is reproduced twice at a time, and
\* no title is blocked after its reproduction was received.
ReproOnce ==
  /\ reproducing = Queued \cup InRepro \cup Reported
  /\ Cardinality(reproducing) = Len(reproQueue) + Cardinality(repros) + Cardinality(reproDone)
  /\ numReproducing = Cardinality(repros) + Cardinality(reproDone)

\* Once an interrupt closes vm.Shutdown the loop ends: every machine comes back.
ShutdownEnds == Shutdown ~> pc = "exit"

\* A crash that is queued when the corpus is triaged gets its machines, even
\* if all are fuzzing and the loop read the phase before it changed.
QueueDrains == reproQueue # <<>> /\ triagedHub ~> reproQueue = <<>> \/ Shutdown
-----------------------------------------------------------------------------
(* The inductive invariant behind the properties of this module.           *)

\* Whatever is queued, in reproduction or just reproduced has a title of its
\* own.
OneJobPerTitle ==
  /\ \A i, j \in DOMAIN reproQueue : reproQueue[i].title = reproQueue[j].title => i = j
  /\ \A r, q \in repros : r.crash.title = q.crash.title => r = q
  /\ \A r, q \in reproDone : r.crash.title = q.crash.title => r = q
  /\ Queued \cap (InRepro \cup Reported) = {} /\ InRepro \cap Reported = {}

\* What is counted is finite.
JobsFinite == IsFiniteSet(reproducing) /\ IsFiniteSet(repros) /\ IsFiniteSet(reproDone)

\* The reproductions counted have room beside the machines that must fuzz; one
\* that runs has all its machines, under strace it has one.
ReproSizes ==
  /\ numReproducing * instancesPerRepro <= maxReproVMs
  /\ \A r \in repros : Len(r.held) = IF r.st = "run" THEN instancesPerRepro ELSE 1

\* The inductive invariant: machines, jobs and their numbers agree.
LoopInv ==
  VMsAccounted /\ IdleOnlyForRepro /\ OneJobPerTitle /\ JobsFinite /\ ReproOnce /\ ReproSizes
=============================================================================
