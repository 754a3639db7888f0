----------------------------- MODULE RPCServer ------------------------------
(***************************************************************************)
(* syz-manager/rpc.go: the RPC server through which the fuzzers in the     *)
(* test VMs share inputs and signal, composed with the manager's corpus    *)
(* (module Manager) and with as much of each VM as the server can observe. *)
(*                                                                         *)
(* A handler runs under serv.mu and is one action, with the call it makes  *)
(* into the manager: while serv.mu is held only operations of mgr.mu can   *)
(* run in between, and those touch nothing of the server.  Connect takes   *)
(* the two mutexes one after the other and is two actions.                 *)
(*                                                                         *)
(* f.inputs is a slice the server pops from its end; its order and its     *)
(* duplicates are abstracted away (a set of inputs).                       *)
(***************************************************************************)
EXTENDS Manager

CONSTANTS
  InitialBatch,      \* initialBatch of Poll
  SplitSize,         \* the 2000 of Poll's Split
  DropDivisor,       \* the 10 of selectInputs' Split
  MaxCheckFailures,  \* the 10 of Check
  MaxRequests        \* bound: NewInput requests in flight

ASSUME ServAssumption ==
  /\ InitialBatch \in Nat \ {0} /\ SplitSize \in Nat \ {0}
  /\ DropDivisor \in Nat \ {0} /\ MaxCheckFailures \in Nat \ {0}

Inputs == [prog : Progs, sig : Signals]

VARIABLES
  fuzzers,        \* the VMs in serv.fuzzers
  rotated,        \* Fuzzer.rotated
  inputs,         \* Fuzzer.inputs
  newMaxSignal,   \* Fuzzer.newMaxSignal
  rotatedSignal,  \* Fuzzer.rotatedSignal
  maxSignal,      \* serv.maxSignal
  corpusSignal,   \* serv.corpusSignal
  checkFailures,  \* serv.checkFailures
  vm,             \* where each VM is in its life
  snapshot,       \* the corpus its Connect got from fuzzerConnect
  requests,       \* NewInput requests in flight
  ownCorpus,      \* the corpusSignal of the fuzzer in the VM
  ownMax,         \* its maxSignal
  ownNew,         \* its newSignal
  missed          \* history: signal accepted between Connect's two sections

servVars == <<fuzzers, rotated, inputs, newMaxSignal, rotatedSignal, maxSignal,
              corpusSignal, checkFailures>>
vmVars == <<vm, snapshot, requests, ownCorpus, ownMax, ownNew, missed>>
vars == <<mgrVars, servVars, vmVars>>

\* "off": not running; "connecting": between the sections of Connect;
\* "checking": registered, no check result yet; "fuzzing"; "crashed": dead but
\* not yet removed by shutdownInstance
VMStates == {"off", "connecting", "checking", "fuzzing", "crashed"}

\* Every VM's entry of a per-VM map at its zero value.
NoneOf(x) == [v \in VMs |-> x]

Init ==
  /\ MgrInit
  /\ fuzzers = {}
  /\ rotated = NoneOf(FALSE)
  /\ inputs = NoneOf({})
  /\ newMaxSignal = NoneOf(NoSignal)
  /\ rotatedSignal = NoneOf(NoSignal)
  /\ maxSignal = NoSignal
  /\ corpusSignal = NoSignal
  /\ checkFailures = 0
  /\ vm = NoneOf("off")
  /\ snapshot = NoneOf({})
  /\ requests = {}
  /\ ownCorpus = NoneOf(NoSignal)
  /\ ownMax = NoneOf(NoSignal)
  /\ ownNew = NoneOf(NoSignal)
  /\ missed = NoneOf(NoSignal)

-----------------------------------------------------------------------------
(***************************************************************************)
(* Connect.                                                                *)
(***************************************************************************)

\* fuzzerConnect, under mgr.mu: minimize, then copy the corpus.  A new VM
\* takes minutes to boot, so no request of its predecessor is left.
ConnectSnapshot(v) ==
  /\ vm[v] = "off"
  /\ \A r \in requests : r.vm # v
  /\ minimizeCorpus
  /\ snapshot' = [snapshot EXCEPT ![v] = {[prog |-> p, sig |-> item'[p]] : p \in corpus'}]
  /\ vm' = [vm EXCEPT ![v] = "connecting"]
  /\ UNCHANGED <<servVars, requests, ownCorpus, ownMax, ownNew, missed>>

\* A slip: the new fuzzer is not told the signal that is already known.
RegisterNoSignal(v) ==
  /\ rotated' = [rotated EXCEPT ![v] = FALSE]
  /\ inputs' = [inputs EXCEPT ![v] = snapshot[v]]
  /\ newMaxSignal' = [newMaxSignal EXCEPT ![v] = NoSignal]
  /\ rotatedSignal' = [rotatedSignal EXCEPT ![v] = NoSignal]

\* The ordinary end of Connect.
RegisterPlain(v) ==
  /\ rotated' = [rotated EXCEPT ![v] = FALSE]
  /\ inputs' = [inputs EXCEPT ![v] = snapshot[v]]
  /\ newMaxSignal' = [newMaxSignal EXCEPT ![v] = maxSignal]
  /\ rotatedSignal' = [rotatedSignal EXCEPT ![v] = NoSignal]

\* selectInputs: the inputs that are dropped (their calls are not selected, or
\* by chance), the signal they take with them, and the part Split takes.
SignalWithout(dropped) ==
  Without(maxSignal, {e \in Elems : \E i \in dropped : i.sig[e] # Absent})

\* A slip: the signal the VM may rediscover is not limited to the corpus's.
RotatedFromMax(sig) == Intersection(maxSignal, sig)

RotatedFrom(sig) == Intersection(corpusSignal, sig)

\* rotateCorpus.
RegisterRotated(v) ==
  /\ phase = phaseTriagedHub
  /\ \E dropped \in SUBSET snapshot[v] :
       LET rest == SignalWithout(dropped) IN
       \E taken \in SplitTakes(rest, Size(rest) \div DropDivisor) :
         LET sig == Without(rest, taken) IN
         /\ inputs' = [inputs EXCEPT ![v] = snapshot[v] \ dropped]
         /\ newMaxSignal' = [newMaxSignal EXCEPT ![v] = sig]
         /\ rotatedSignal' = [rotatedSignal EXCEPT ![v] = RotatedFrom(sig)]
  /\ rotated' = [rotated EXCEPT ![v] = TRUE]

\* The rest of Connect, under serv.mu.  The reply carries serv.checkResult,
\* which is set from phaseLoadedCorpus on.
ConnectRegister(v) ==
  /\ vm[v] = "connecting"
  /\ RegisterPlain(v) \/ RegisterRotated(v)
  /\ fuzzers' = fuzzers \cup {v}
  /\ vm' = [vm EXCEPT ![v] = IF phase = phaseInit THEN "checking" ELSE "fuzzing"]
  /\ snapshot' = [snapshot EXCEPT ![v] = {}]
  /\ UNCHANGED <<mgrVars, maxSignal, corpusSignal, checkFailures, requests,
                 ownCorpus, ownMax, ownNew, missed>>

-----------------------------------------------------------------------------
(***************************************************************************)
(* Check.                                                                  *)
(***************************************************************************)

\* "another VM has already made the check".
CheckAgain(v) ==
  /\ vm[v] = "checking" /\ phase # phaseInit
  /\ vm' = [vm EXCEPT ![v] = "fuzzing"]
  /\ UNCHANGED <<mgrVars, servVars, snapshot, requests, ownCorpus, ownMax, ownNew,
                 missed>>

Check(v) ==
  /\ vm[v] = "checking" /\ phase = phaseInit
  /\ \E dis \in SUBSET Disableable : machineChecked(dis)
  /\ vm' = [vm EXCEPT ![v] = "fuzzing"]
  /\ UNCHANGED <<servVars, snapshot, requests, ownCorpus, ownMax, ownNew, missed>>

\* The machine check failed: the fuzzer exits.
CheckFails(v) ==
  /\ vm[v] = "checking" /\ phase = phaseInit
  /\ checkFailures + 1 < MaxCheckFailures
  /\ checkFailures' = checkFailures + 1
  /\ vm' = [vm EXCEPT ![v] = "crashed"]
  /\ UNCHANGED <<mgrVars, fuzzers, rotated, inputs, newMaxSignal, rotatedSignal,
                 maxSignal, corpusSignal, snapshot, requests, ownCorpus, ownMax,
                 ownNew, missed>>

\* The last allowed failure: log.Fatalf ends the manager, and every VM with it.
CheckFailsForGood(v) ==
  /\ vm[v] = "checking" /\ phase = phaseInit
  /\ checkFailures + 1 = MaxCheckFailures
  /\ restart
  /\ fuzzers' = {}
  /\ rotated' = NoneOf(FALSE)
  /\ inputs' = NoneOf({})
  /\ newMaxSignal' = NoneOf(NoSignal)
  /\ rotatedSignal' = NoneOf(NoSignal)
  /\ maxSignal' = NoSignal
  /\ corpusSignal' = NoSignal
  /\ checkFailures' = 0
  /\ vm' = NoneOf("off")
  /\ snapshot' = NoneOf({})
  /\ requests' = {}
  /\ ownCorpus' = NoneOf(NoSignal)
  /\ ownMax' = NoneOf(NoSignal)
  /\ ownNew' = NoneOf(NoSignal)
  /\ missed' = NoneOf(NoSignal)

-----------------------------------------------------------------------------
(***************************************************************************)
(* NewInput.                                                               *)
(***************************************************************************)

\* The fuzzer of v finishes the triage of a program (syz-fuzzer/proc.go,
\* triageInput): it reports only what is new to its own corpus.
SendInput(v, p, c, s) ==
  /\ vm[v] = "fuzzing"
  /\ p \in Runnable
  /\ Cardinality(requests) < MaxRequests
  /\ ~Empty(Diff(ownCorpus[v], s))
  /\ requests' = requests \cup {[vm |-> v, prog |-> p, call |-> c, sig |-> s]}
  /\ ownCorpus' = [ownCorpus EXCEPT ![v] = Merge(@, s)]
  /\ ownMax' = [ownMax EXCEPT ![v] = Merge(@, s)]
  /\ ownNew' = [ownNew EXCEPT ![v] = Merge(@, Diff(ownMax[v], s))]
  /\ UNCHANGED <<mgrVars, servVars, vm, snapshot, missed>>

\* Whether the corpus needs the input; f is nil for a VM that was shut down.
Genuine(r) == ~Empty(Diff(corpusSignal, r.sig))

Rotated(r) ==
  /\ r.vm \in fuzzers /\ rotated[r.vm]
  /\ ~Empty(Diff(rotatedSignal[r.vm], r.sig))

\* A slip: the sender's queue is the only one that gets the input.
BroadcastBack(r) ==
  [v \in VMs |-> IF v \in fuzzers /\ v = r.vm /\ ~rotated[v]
                 THEN inputs[v] \cup {[prog |-> r.prog, sig |-> r.sig]}
                 ELSE inputs[v]]

\* The input goes to every other VM that is not rotated.
BroadcastInput(r) ==
  [v \in VMs |-> IF v \in fuzzers /\ v # r.vm /\ ~rotated[v]
                 THEN inputs[v] \cup {[prog |-> r.prog, sig |-> r.sig]}
                 ELSE inputs[v]]

\* A slip: the merged signal of an updated item is not merged back.
LeavesCorpusSignal(r, s) == corpusSignal

MergeGenuine(r, s) == Merge(corpusSignal, s)

\* NewInput is given something the corpus does not need, or refuses.
NewInputDropped(r) ==
  /\ r \in requests
  /\ (~Genuine(r) /\ ~Rotated(r)) \/ newInputRefuses(r.call)
  /\ requests' = requests \ {r}
  /\ UNCHANGED <<mgrVars, servVars, vm, snapshot, ownCorpus, ownMax, ownNew, missed>>

NewInput(r) ==
  /\ r \in requests
  /\ Genuine(r) \/ Rotated(r)
  /\ newInput(r.prog, r.call, r.sig)
  /\ requests' = requests \ {r}
  /\ LET s == MergedSignal(r.prog, r.sig) IN
     /\ rotatedSignal' =
          IF r.vm \in fuzzers /\ rotated[r.vm]
          THEN [rotatedSignal EXCEPT ![r.vm] = Merge(@, s)]
          ELSE rotatedSignal
     /\ IF Genuine(r)
        THEN /\ corpusSignal' = MergeGenuine(r, s)
             /\ inputs' = BroadcastInput(r)
             /\ missed' = [v \in VMs |-> IF vm[v] = "connecting"
                                         THEN Merge(missed[v], r.sig) ELSE missed[v]]
        ELSE UNCHANGED <<corpusSignal, inputs, missed>>
  /\ UNCHANGED <<fuzzers, rotated, newMaxSignal, maxSignal, checkFailures, vm,
                 snapshot, ownCorpus, ownMax, ownNew>>

-----------------------------------------------------------------------------
(***************************************************************************)
(* Poll.                                                                   *)
(***************************************************************************)

\* A slip: new signal is queued for its sender only.
BroadcastSignalBack(v, diff) ==
  [u \in VMs |-> IF u \in fuzzers /\ u = v /\ ~rotated[u]
                 THEN Merge(newMaxSignal[u], diff) ELSE newMaxSignal[u]]

\* What the sender found goes to every other VM that is not rotated.
BroadcastSignal(v, diff) ==
  [u \in VMs |-> IF u \in fuzzers /\ u # v /\ ~rotated[u]
                 THEN Merge(newMaxSignal[u], diff) ELSE newMaxSignal[u]]

\* The inputs a reply can carry.
InputBatches(v) ==
  UNION {{got \in SUBSET inputs[v] :
            Cardinality(got) = IF Cardinality(inputs[v]) < n
                               THEN Cardinality(inputs[v]) ELSE n} :
         n \in {BatchSize, IF BatchSize < InitialBatch THEN InitialBatch ELSE BatchSize}}

UnionSig(ins) == MergeAll({i.sig : i \in ins})

\* grabNewSignal and Merge on the server: common to all polls.
PollSignal(v) ==
  LET diff == Diff(maxSignal, ownNew[v]) IN
  /\ maxSignal' = Merge(maxSignal, diff)
  /\ ownNew' = [ownNew EXCEPT ![v] = NoSignal]

\* "Let rotated VMs run in isolation, don't send them anything."
PollRotated(v) ==
  /\ vm[v] = "fuzzing" /\ v \in fuzzers /\ rotated[v]
  /\ PollSignal(v)
  /\ newMaxSignal' = BroadcastSignal(v, Diff(maxSignal, ownNew[v]))
  /\ UNCHANGED <<mgrVars, fuzzers, rotated, inputs, rotatedSignal, corpusSignal,
                 checkFailures, vm, snapshot, requests, ownCorpus, ownMax, missed>>

\* The reply has candidates, and then no inputs.
PollCandidates(v, b) ==
  /\ vm[v] = "fuzzing" /\ v \in fuzzers /\ ~rotated[v]
  /\ b # EmptyBag
  /\ candidateBatch(v, b)
  /\ PollSignal(v)
  /\ \E taken \in SplitTakes(newMaxSignal[v], SplitSize) :
       /\ newMaxSignal' = [BroadcastSignal(v, Diff(maxSignal, ownNew[v]))
                             EXCEPT ![v] = Without(@, taken)]
       /\ ownMax' = [ownMax EXCEPT ![v] = Merge(@, Only(newMaxSignal[v], taken))]
  /\ UNCHANGED <<fuzzers, rotated, inputs, rotatedSignal, corpusSignal, checkFailures,
                 vm, snapshot, requests, ownCorpus, missed>>

\* No candidates were asked for, or none are left: the reply has inputs.
PollInputs(v, need) ==
  /\ vm[v] = "fuzzing" /\ v \in fuzzers /\ ~rotated[v]
  /\ IF need THEN candidateBatch(v, EmptyBag) ELSE UNCHANGED mgrVars
  /\ PollSignal(v)
  /\ \E got \in InputBatches(v), taken \in SplitTakes(newMaxSignal[v], SplitSize) :
       /\ inputs' = [inputs EXCEPT ![v] = @ \ got]
       /\ newMaxSignal' = [BroadcastSignal(v, Diff(maxSignal, ownNew[v]))
                             EXCEPT ![v] = Without(@, taken)]
       /\ ownCorpus' = [ownCorpus EXCEPT ![v] = Merge(@, UnionSig(got))]
       /\ ownMax' = [ownMax EXCEPT ![v] =
                       Merge(Merge(@, Only(newMaxSignal[v], taken)), UnionSig(got))]
  /\ UNCHANGED <<fuzzers, rotated, rotatedSignal, corpusSignal, checkFailures, vm,
                 snapshot, requests, missed>>

-----------------------------------------------------------------------------
(***************************************************************************)
(* A VM dies at any time; the manager notices later (runInstance) and      *)
(* removes it with shutdownInstance.  Its requests may outlive it.         *)
(***************************************************************************)

VMCrash(v) ==
  /\ vm[v] \in {"checking", "fuzzing"}
  /\ vmCrash(v)
  /\ vm' = [vm EXCEPT ![v] = "crashed"]
  /\ ownCorpus' = [ownCorpus EXCEPT ![v] = NoSignal]
  /\ ownMax' = [ownMax EXCEPT ![v] = NoSignal]
  /\ ownNew' = [ownNew EXCEPT ![v] = NoSignal]
  /\ UNCHANGED <<servVars, snapshot, requests, missed>>

shutdownInstance(v) ==
  /\ vm[v] = "crashed"
  /\ vm' = [vm EXCEPT ![v] = "off"]
  /\ fuzzers' = fuzzers \ {v}
  /\ rotated' = [rotated EXCEPT ![v] = FALSE]
  /\ inputs' = [inputs EXCEPT ![v] = {}]
  /\ newMaxSignal' = [newMaxSignal EXCEPT ![v] = NoSignal]
  /\ rotatedSignal' = [rotatedSignal EXCEPT ![v] = NoSignal]
  /\ missed' = [missed EXCEPT ![v] = NoSignal]
  /\ UNCHANGED <<mgrVars, maxSignal, corpusSignal, checkFailures, snapshot, requests,
                 ownCorpus, ownMax, ownNew>>

\* The manager's own goroutines: the hub loop.
HubLoop ==
  /\ \/ minimizeCorpus /\ HasHub /\ phase >= phaseTriagedCorpus
     \/ \E ps \in SUBSET HubProgs : addNewCandidates(ps)
     \/ hubIsUnreachable
  /\ UNCHANGED <<servVars, vmVars>>

TriageDone(v) ==
  /\ vm[v] = "fuzzing"
  /\ \E p \in held[v] : triageDone(v, p)
  /\ UNCHANGED <<servVars, vmVars>>

Poll(v) ==
  \/ PollRotated(v)
  \/ \E b \in Batches : PollCandidates(v, b)
  \/ \E need \in BOOLEAN : PollInputs(v, need)

HandleInput(r) == NewInput(r) \/ NewInputDropped(r)

Next ==
  \/ \E v \in VMs :
       \/ ConnectSnapshot(v) \/ ConnectRegister(v)
       \/ CheckAgain(v) \/ Check(v) \/ CheckFails(v) \/ CheckFailsForGood(v)
       \/ \E p \in Progs, c \in Calls, s \in InputSignals : SendInput(v, p, c, s)
       \/ Poll(v)
       \/ TriageDone(v) \/ VMCrash(v) \/ shutdownInstance(v)
  \/ \E r \in requests : HandleInput(r)
  \/ HubLoop

Spec == Init /\ [][Next]_vars

-----------------------------------------------------------------------------
(***************************************************************************)
(* Properties.                                                             *)
(***************************************************************************)

\* Types, and what goes with being registered.
TypeOK ==
  /\ MgrTypeOK
  /\ fuzzers = {v \in VMs : vm[v] \in {"checking", "fuzzing", "crashed"}}
  /\ rotated \in [VMs -> BOOLEAN]
  /\ inputs \in [VMs -> SUBSET Inputs]
  /\ newMaxSignal \in [VMs -> Signals]
  /\ rotatedSignal \in [VMs -> Signals]
  /\ maxSignal \in Signals
  /\ corpusSignal \in Signals
  /\ checkFailures \in 0 .. MaxCheckFailures - 1
  /\ vm \in [VMs -> VMStates]
  /\ snapshot \in [VMs -> SUBSET Inputs]
  /\ requests \subseteq [vm : VMs, prog : Progs, call : Calls, sig : InputSignals]
  /\ ownCorpus \in [VMs -> Signals]
  /\ ownMax \in [VMs -> Signals]
  /\ ownNew \in [VMs -> Signals]
  /\ missed \in [VMs -> Signals]

\* serv.corpusSignal, by which NewInput decides what is new, is at all times
\* exactly what the programs of mgr.corpus give together, although it is kept
\* under another mutex and minimization replaces the corpus behind its back.
CorpusSignalExact ==
  /\ TypeOK
  /\ IsUnion(corpusSignal, corpus, item)

\* Every VM that is not rotated has been sent, or has queued, the inputs behind
\* all of the corpus's signal, except for what was accepted between the two
\* critical sections of its own Connect.
InputsReach ==
  \A v \in fuzzers :
    ~rotated[v] /\ vm[v] # "crashed" =>
      Covers(Merge(Merge(ownCorpus[v], UnionSig(inputs[v])), missed[v]), corpusSignal)

\* The same of the maximal signal, without exception.
MaxSignalReaches ==
  \A v \in fuzzers :
    ~rotated[v] /\ vm[v] # "crashed" =>
      Covers(Merge(ownMax[v], newMaxSignal[v]), maxSignal)

\* What a rotated VM is held to is part of the corpus's signal, so an input
\* that is new to everybody is always new to it as well.
RotatedWithinCorpus == \A v \in VMs : Covers(corpusSignal, rotatedSignal[v])
-----------------------------------------------------------------------------
(***************************************************************************)
(* The inductive invariant behind the four properties above.               *)
(***************************************************************************)

\* A VM fuzzes, and reports inputs, only after the machine check, which fixes
\* what is runnable until the manager is started again.
RequestsRunnable ==
  /\ \A v \in VMs : vm[v] = "fuzzing" => phase # phaseInit
  /\ \A r \in requests : phase # phaseInit /\ r.prog \in Runnable

\* A request is of the VM that runs now, whose fuzzer already counts its signal
\* as its own, or of one that has died and was not started again.
RequestsOfOwner ==
  \A r \in requests :
    /\ vm[r.vm] \notin {"connecting", "checking"}
    /\ vm[r.vm] = "fuzzing" => Covers(ownCorpus[r.vm], r.sig)

\* Between the two sections of Connect the copied corpus stays complete, up to
\* what is accepted meanwhile.
SnapshotReaches ==
  \A v \in VMs :
    vm[v] = "connecting" =>
      Covers(Merge(UnionSig(snapshot[v]), missed[v]), corpusSignal)

\* What a fuzzer has yet to report is part of what it knows itself.
OwnNewKnown == \A v \in VMs : Covers(ownMax[v], ownNew[v])

\* All of it: the manager's invariant, and what the server and its VMs know.
ServInv ==
  /\ MgrInv
  /\ CorpusSignalExact
  /\ RequestsRunnable
  /\ RequestsOfOwner
  /\ SnapshotReaches
  /\ OwnNewKnown
  /\ InputsReach
  /\ MaxSignalReaches
  /\ RotatedWithinCorpus
=============================================================================
