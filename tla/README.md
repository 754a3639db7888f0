# TLA+ models of the BRF fuzzing loop

This directory holds a verification project for BRF, a fork of syzkaller that
fuzzes the BPF runtime of the Linux kernel.  The models follow the Go and C++ code
under `src/` definition by definition; `PROJECT.json` maps every definition to the
lines it stands for.

## The system

| Component | State it keeps | Operations | Talks to |
|---|---|---|---|
| Execution gate (`pkg/ipc/gate.go`) | ring of busy slots, position, running count, stop flag | `Enter`, `Leave` | procs of one fuzzer, through a condition variable |
| Signal (`pkg/signal`) | none (a value type) | `Diff`, `Merge`, `Intersection`, `Split`, `Minimize`, `Serialize` ... | used by manager and fuzzer |
| Manager (`syz-manager/manager.go`) | corpus map, candidates, phase, disabled hashes, saturated calls, `corpus.db` | `machineChecked`/`loadCorpus`, `newInput`, `candidateBatch`, `minimizeCorpus`, `addNewCandidates`, `hubIsUnreachable` | RPC server, hub connector, database |
| RPC server (`syz-manager/rpc.go`) | connected fuzzers with queued inputs and signal, corpus signal, maximal signal, rotation | `Connect`, `Check`, `NewInput`, `Poll`, `shutdownInstance` | manager (calls, second mutex), fuzzers (RPC) |
| Database (`pkg/db`) | map in memory, pending records, file | `Open`, `Save`, `Delete`, `Flush`, `BumpVersion`, compaction | manager, hub |
| Fuzzer (`syz-fuzzer`) | work queue, three signals, corpus, procs, poller | dequeue, execute, new-signal check, triage, minimize, send, smash, poll | manager (RPC), executor |
| Hub connector (`syz-manager/hub.go`) and hub (`syz-hub`) | what was sent to and received from the hub, per-manager pending sets | connect, sync, reproducer exchange | manager, database |
| VM loop (`manager.go: vmLoop`, `ResourcePool`) and reproduction (`pkg/repro`) | VM indices, running and pending reproductions | allocate, run, reproduce, save crash | VMs, RPC server |
| Executor (`executor/executor.cc`) | pool of threads with their events, running count, output region | `execute_one`, `schedule_call`, `handle_completion`, `worker_thread` | calls of the program, kernel |
| Executor protocol (`pkg/ipc/ipc.go`) | pipes, shared memory, restart state | handshake, exec, hang, restart | executor |
| BPF program generator (`prog/brf*.go`) | type and helper tables, work directory | generate, fix references, write, compile, prune | executor, through files |
| BPF side of the executor (`executor/common_brf_linux*.h`) | table of opened objects with their names and marks, name counter, log accumulator, verifier statistics | open, load, attach, run, MPTCP traffic | programs of the generator, kernel |
| Canonicalizer, RPC transport, verifier, CI, web UI, VM backends | - | - | - |

What is hard here: a manager has several mutexes and goroutines, its peers are
test machines that crash by design, their requests may arrive after they have
been removed, the manager itself is killed and restarted on the persistent
corpus, database writes fail or stop half way, and the fuzzer's procs release
one lock and take another in the middle of an update.  The VM loop decides from
what it read before it blocked, and takes results from several channels in any
order.  The hub and its clients lose replies and restart between two of the
hub's files.  In the executor, calls block, time out and finish late beside
later calls, and the BPF calls share tables without a lock.  `PROJECT.json` lists the
places under `hazards`, each with the properties that would catch it.

What makes each component correct:

- **Gate**: the callback is alone; the newest execution is never more than a
  ring ahead of the oldest; nobody sleeps for ever; no panic.
- **Manager**: what the corpus holds is on disk or about to be written, unless a
  write was torn; nothing leaves `corpus.db` before it was offered to a VM;
  minimization loses no signal; phases advance.
- **RPC server**: the signal by which inputs are judged is the corpus's signal;
  every ordinary VM learns every input and all signal in spite of crashes.
- **Database**: a crash loses at most a suffix of the unflushed updates.
- **Fuzzer**: signal that is marked as known is triaged and reported; a corpus
  program is never known to the VM alone.
- **VM loop**: no machine is lost or used twice; machines reserved for fuzzing
  fuzz; a title is reproduced once at a time; queued reproductions start and an
  interrupt ends the loop.
- **Hub**: paging skips nothing; hub and connector agree about a manager's
  corpus after any loss, up to what was cut at connect; everything the hub got is
  exchanged once faults stop.
- **Executor**: the count of running calls is exact, each call is reported once,
  the program ends however its calls block; the scheduler that is selected is
  the one registered, and a verifier outcome is counted once per object.

## Modules

**`Signal`** is `pkg/signal/signal.go` as operators.  A signal is a function
from coverage points to priorities with `Absent` for a missing key; operations
that mutate their receiver return it; map iteration order becomes a choice
(`Orders`, `SplitTakes`, `Serializations`).

**`Gate`** is `pkg/ipc/gate.go`.  One action is one critical section of the
condition variable's lock; sleeping and waking are explicit (`waitEnter`,
`waitStop`, `Broadcast`), and the lock is a variable because the callback runs
while it is held.  `Leave` has an action per way through the function: the plain
one, the one that stops the gate and waits, and the end of the callback.  The
panics are steps that set `broken`.

**`Manager`** is the corpus state behind `mgr.mu`.  Each operation is one
critical section and one action.  Programs are identified by hash; candidates
are a bag, because half of the slice is shuffled anyway.  Kinds of program that
`loadProg` tells apart (broken, with disabled calls, with a leftover) are
constant sets; what a machine check disables is chosen in `machineChecked`.
The database is the records in memory (`records`), what a reader of the file
would get (`disk`), the programs whose records are pending (`unwritten`) and
whether the file holds a torn record (`torn`).  `WriteDB` has an alternative per
outcome of a `Flush` or `BumpVersion`: the file is compacted, the pending records
are appended (behind a torn record nobody reads them), nothing is written
(`FlushFails`), or the write stops half way, with some records in the file and
the last one possibly torn (`ShortWrites`).  Saturation of a call depends on
coverage, which is left out: between two sizes it is a free choice.
`restart` kills the process at any point and reopens the database.

**`RPCServer`** extends `Manager` with `rpc.go` and with as much of each VM as
the server sees.  A handler is one action, with its call into the manager: while
`serv.mu` is held only operations of `mgr.mu` can come in between, and they
touch nothing of the server.  `Connect` takes the two mutexes in turn and is two
actions (`ConnectSnapshot`, `ConnectRegister`), so everything may happen between
them.  VMs crash at any point, are removed later, and their last requests may be
handled after that.

**`KVStore`** states what the database promises; **`CorpusDB`** is
`pkg/db/db.go`, with a file that is a log of whole records and torn places.
What the loop of `deserializeDB` computes is stated in closed form (`Replay`: a
key has the value of the last record about it); `MCCorpusDB` has TLC compare it
with the loop on all logs of up to three records.
`ImplementsStore` is the refinement.

**`Fuzzer`** is one `syz-fuzzer`: `proc.go`, `workqueue.go`, and the signal and
polling parts of `fuzzer.go`.  An action is a critical section or a step on a
proc's own data, so the gap between `RUnlock` and `Lock` of
`checkNewCallSignal`, and the one between the two halves of `addInputToCorpus`,
are there, for inputs of other fuzzers too: the poller adds the maximal signal,
the inputs and the candidates of a reply one after another, beside the procs
(`PollReply`, `AddReceived`, `MergeReceived`, `AddCandidate`).  An execution yields one of the program's outcomes or nothing
(flaky programs).

**`VMLoop`** is `vmLoop` of `manager.go` with its `ResourcePool` and the
goroutines it starts, `runInstance` and `runRepro`.  The loop is a process that
evaluates its condition, goes through its body and blocks in its select; the
copy of the phase and the list of pending crashes it took at the top are
variables of their own, so they may be stale when used.  Whether a crash needs a
reproduction follows `needRepro`: from the files of the crash directory, or
from a dashboard's answer, which may be either.  `pkg/repro` is external: a
reproduction holds its machines for a while, gives them back, possibly runs once
more under strace, and then reports.  With a dashboard no files are written;
what a dashboard that fails leaves behind is left out.

**`Hub`** is `syz-hub/state` and the `HubConnector` loop of every manager.  A
call is one step at the hub, which serves calls under its mutex.  A request or a
reply may be lost, the hub may crash between the files a call writes and starts
again from its directory, and a manager may restart, with its corpus or fresh.
`connect` notes its whole corpus as known to the hub and sends at most `maxConnect`
programs of it; what it cut is kept in `cut` until the manager drops it or
connects again.  The crashes are inside `Connect`, between the two halves of
`Sync`, and in `AddRepro`, where the manager's number is saved before the
reproducer is flushed (`CrashInAddRepro`).  When the hub starts, a manager with
number 0 gets the highest one seen so far in the loop over the directories, whose
order is the constant `Earlier`.
Two simplifications: a call its caller gave up on is over before the caller's
next one, ten minutes later; a client is always of some domain (the manager
sends its OS and its hub domain), so the domain filter is left out.

**`BrfExecutor`** is one test process of the executor.  The main thread follows
`execute_one`, one action per decision, with the scans over the thread table
taken thread by thread, because a late call may finish between two of them.  A
worker is a process that takes its call, goes through it and returns; any call
may stop for ever anywhere, as calls block in the kernel.  The BPF calls of
`common_brf_linux.h` are split where they read or write shared tables.  The
failure of `brf_struct_ops_uniquify_name` is there for an object that is loaded
again; on a first load the name is always found, because the generator uses one
string as the name of the map and as its `.name` member
(`prog/brf_structops.go:1246`, `common_brf_linux.h:143`).  libbpf
and the kernel are external: whether a load is accepted and which warnings it
prints are free choices, an object loads at most once and a name registers at
most once.  `find_bpf_object_by_basename` compares at most fifteen characters,
and with a name that long `strncpy` leaves the buffer unterminated: `ObjName`
says which files the comparison takes for the same, and for `LongNames` the
lookup may also find nothing, depending on the stack.  `struct_ops_link_list` is
written and never read and left out; the watchdog's kill is a behaviour that
stops.

The `MC*` modules give the constants; the eight `*Proofs` modules hold the
theorems about the modules they extend, one for each of `Gate`, `Signal`,
`CorpusDB`, `Fuzzer`, `VMLoop`, `Hub` and `BrfExecutor`, and one for `Manager` and
`RPCServer` together (`RPCServerProofs`); that one and `FuzzerProofs` build on
`SignalProofs`.  The inductive invariant of a module stands at its end
(`MgrInv`, `ServInv`, `FuzzerInv`, `LoopInv`, `HubInv`, `ExecInv`, `BpfInv`, `DBInv`,
`GateInv`).  `RPCServer` extends `Manager`, which extends
`Signal`; `Fuzzer` extends `Signal`; `CorpusDB` instantiates `KVStore`.
`Manager` uses the database through `WriteDB`, which has the outcomes `CorpusDB`
gives a `Flush`, without the count of records that decides about compaction.

## Runs

| Run | Instance | What it shows |
|---|---|---|
| `gate` | 4 goroutines, 2 slots, callback | all safety properties of the gate, and under fairness that a stop ends and sleepers wake |
| `manager` | a runnable, a broken and a disabled program, of which the runnable one is in `corpus.db` or new and also the hub's, 2 coverage points, 2 priorities, a hub that answers or does not, writes that fail or stop half way | the inductive invariant `MgrInv`; the corpus is on disk or pending as long as no record is torn, and on disk after a write that succeeded; nothing is deleted before it was offered; coverage is kept through merging and minimization; a manager that keeps running reaches its last phase |
| `manager_triage` | the same, no failing writes | *violation*: a program a VM holds untriaged is deleted from `corpus.db` |
| `rpc` | 2 VMs, a candidate, 2 coverage points, 2 priorities, hub phases, rotation, crashes, machine-check failures | the server's signal is exact and reaches every VM, and so do inputs; rotation stays within the corpus signal |
| `corpus_db` | 2 keys, 2 values, 2 pending, 2 versions | the file implements the store; the count and the file size stay right |
| `fuzzer` | 2 procs, 2 programs, 2 priorities, candidates and foreign inputs | new signal is kept and reported; corpus programs are known to the manager |
| `fuzzer_live` | 1 proc, 2 candidates | triage queues drain although candidates go first |
| `vmloop` | 3 machines of which 1 must fuzz, 3 per reproduction cut down to 2, one title and the hub's, 2 crashes, strace, with and without a dashboard | machines are neither lost nor used twice, fuzzing keeps its machines, one reproduction per title; queued reproductions start and an interrupt ends the loop |
| `hub` | 2 managers, 3 programs of which one manager lacks the calls of one, a reproducer, 2 changes, 1 fault, one program sent at connect | paging skips nothing, connector and hub agree up to what was cut, a reproducer is sent at most once, and everything the hub got is exchanged |
| `hub_restart` | the same | *violation*: a restarted hub forgets the reproducers pending for a manager |
| `brf` | 2 threads, a table of 2 objects, 3 files of which 2 are struct_ops with names that compare equal; 3 calls with threads, 6 without | the accounting of calls, one report per call, selection of the registered scheduler, one record per object; the program ends |
| `brf_names` | two procs with a namespace each | *violation*: test processes of two procs give their schedulers the same name, and the kernel refuses the second |

The largest state spaces are those of `fuzzer` (2 532 576 states), `rpc` (719 426),
`vmloop` (427 036), `brf` (414 535) and `manager` (204 520).

Bounds.  Two slots and four goroutines make `Enter` wait for the window, for a
stopped gate and for both.  One program of each kind is all that `loadProg` and
`minimizeCorpus` tell apart, and two coverage points with two priorities are the
least for which minimization has to choose and to merge.  `lastMinCorpus * 103 /
100` is the code's integer expression, which for small corpora means "more
than last time".  Two VMs are a sender and a receiver; `MaxRequests` bounds the
requests in flight.  `SplitSize`, `DropDivisor`, `InitialBatch`, `BatchSize` and
`CompactRatio` replace 2000, 10, 30, 5 and 10 (and `maxRecords`, `maxAttempts`,
`perRepro` and `OBJ_LIST_SIZE` their constants), so that batches run over and
compaction happens within a few steps.  `MaxPending` bounds the records between
two flushes.  Three machines are the least for which a reproduction takes
several and fuzzing keeps one, and two crashes the least for which titles
collide.  In `Hub`, one page holds one sequence number, so every exchange of two
programs is paged, and one fault at any point meets every call; `maxConnect` = 1
stands for 100 000, so that a second program at connect is cut.  The cut at
`capRecords` takes three pending programs, which two changes do not give: it is
in the proofs, not in the run.  In
`BrfExecutor`, two threads let a late call finish beside every step of the next;
two slots let the table run full; without threads six calls reach each order of
opening, loading and attaching an object twice.

Symmetry is used only where no liveness is checked.

Fairness.  In `Gate`, woken goroutines are scheduled, executions end (the
executor has timeouts) and the callback ends; nobody has to enter.  In
`Manager`, some VM's machine check succeeds, fuzzers that run out of work ask for
candidates, and the hub loop ends or gives up a sync.  In `Fuzzer`, procs that
can take a step do, and the main goroutine polls; generating, minimizing and
smashing are never required, and none of them goes on for ever (`prog.Minimize`
and the smash loop are bounded).  In `VMLoop`, the loop runs, machines boot,
instances and reproductions end (both have time limits and are stopped), and
the select is strongly fair to the shutdown and result channels, as Go chooses
among ready cases at random; nobody has to crash or interrupt.  In `Hub`, every
connector goes on with its rounds; changes and faults are bounded, not fair.  In
`BrfExecutor`, the main thread runs and the clock behind the final wait goes on,
which takes strong fairness because the wait is interrupted by sweeps; of the
workers nothing is assumed, so `ProgramEnds` holds even if every call blocks.

## Findings

- `hub_restart`: `createManager` takes a stored `reproSeq` of 0 for a missing
  file and moves the manager past every reproducer that waits for it, although
  the state "can be restored from a directory" (`syz-hub/state/state.go:22`).
- `manager_triage`: `candidateBatch` moves the phase when the last candidate is
  *handed out* (`manager.go:1417`), and from then on `minimizeCorpus` deletes what is
  not in the corpus, although it should wait "until fuzzers have triaged all
  inputs" (`manager.go:1274`, likewise `:128`): a program a VM still holds is
  deleted, and a crash of that VM then takes the last copy with it.
- `brf_names`: the scheduler's unique name is made from `getpid()`, "distinct per
  concurrent proc" (`executor/common_brf_linux.h:158`); every proc has a pid
  namespace of its own, so it is not.

Observations without a run of their own:

- `connect` fills `hubCorpus` with the whole corpus before it cuts what it sends
  (`syz-manager/hub.go:126-137`), and `sync` sends the difference to `hubCorpus`
  only.  The rest stays unsent until the next `Connect`, which cuts again, although
  the arguments are documented as the "current manager corpus" and what was "added
  to corpus since last sync or connect" (`pkg/rpctype/rpctype.go:147`, `:157`).
  `ConnectorAgrees` without its `cut` is violated after one connect.
- After a short write the next `Flush` appends behind the torn record and reports
  success (`db.go:98`), and `Open` stops at the torn record, although the database
  is said to be "mirrored on disk" (`db.go:5`).  The next compaction repairs the
  file.  With `ShortWrites` = TRUE TLC finds `RecordsMirrored` violated on the
  instance of `corpus_db`; in `Manager` the variable `torn` stands for it.
- `brf_verif_is_generic_line` searches to the end of the accumulator; behind
  libbpf's closing wrapper all lines count as generic, and the first one is
  recorded instead of the one `brf_verif_pick_reason` says it prefers
  (`executor/common_brf_linux.h:358`, `:371`), in `BrfExecutor` as in the code.
- `Connect` initializes `serv.canonicalModules` and `serv.modules` without a lock
  (`rpc.go:95`); the canonicalizer only translates addresses, which the models have
  as abstract elements.
- `Poll` returns before it sends anything to a rotated fuzzer (`rpc.go:352`), so
  the inputs `rotateCorpus` selects "that will be sent to the VM" never are.
- An input accepted between the two critical sections of `Connect` reaches the new
  VM neither with the copied corpus nor by the broadcast (`rpc.go:99`);
  `InputsReach` exempts exactly these (`missed`).
- After the hub has lost `ownRepros` in a restart, a manager that was not up to
  date may be sent its own reproducer once (`state.go:246`).
- `BumpVersion` sets the version before the compaction that may fail
  (`db.go:109`), and a second call then does not write it.
- The BPF calls are written for one thread ("Single-threaded per executor proc",
  `common_brf_linux.h:293`), but a timed-out call runs beside the next.  This is
  why `SelectedRegistered` and `RecordedOnce` are claimed only for behaviours
  in which no two BPF calls overlapped (`overlap`); without that condition TLC
  finds a record with the warnings of two loads after three calls, and a selected
  name that is not the registered one after four.
- The check for a negative `running` has the comment "This fires periodically
  for the past 2 years" (`executor.cc:1158`).  By `RunningIsExact` no order of
  timeouts, late returns and sweeps makes it fire: the cause must be outside
  this logic, in memory the test program overwrites.
- A reproduction that finished when the manager is interrupted is not saved
  (`manager.go:525`): nobody receives from `reproDone` any more.
- `prog/brf.go:468` writes `vmlinux.h` through one temporary path, which all VMs
  share through the 9p work directory (`vm/qemu/qemu.go:512`); two VMs that
  regenerate it at once can publish a partial header.
- With fewer than ten elements `selectInputs` drops all signal, as `Split(0)`
  takes everything; a proc may queue signal in `newSignal` that another proc
  queued and a poll already sent (a redundant message, nothing is lost).

## Proofs

`GateProofs` proves, for every set of goroutines, every ring size and with or
without a callback, that `GateInv` is an invariant of `Spec`, and from it
`CallbackAlone`, `WindowBounded`, `NeverBroken` and `NoLostWakeup`.

None of the four is inductive by itself.  That the callback is alone follows
from `running = 0`, which needs `running` to be the number of goroutines
inside, which needs that `Leave` finds the slot of its ticket taken, which needs
that tickets of goroutines inside are different busy slots and that every busy
slot has an owner.  That the window holds needs the distance from a ticket to
`pos` around the ring to be the number of entries since, so the ring's
arithmetic is part of the invariant.  That no wakeup is lost needs that a
sleeper in `Enter` sleeps only while the slot at `pos` is busy or the gate is
stopped, and that a stopped gate has exactly one stopper, which can run or
waits for goroutines inside.  The assumptions are the ones named in `Gate`:
`C` is a positive natural number, `HasCallback` is Boolean, `None` is no
goroutine.

`SignalProofs` proves, for every finite set of coverage points and every highest
priority, that `Merge` is the least upper bound of its arguments
(`MergeIsJoin`), that `Diff` is empty exactly when there is nothing new and that
merging the difference is merging the whole (`DiffIsComplement`, which is why
the fuzzer may send `newSignal` instead of all signal), that a serialized signal comes back
unchanged, and without a panic over slices of different length, whatever order
the map was iterated in (`SerializeRoundTrip`), and
that `Minimize` keeps every element at its highest priority
(`MinimizeKeepsSignal`).  The last one needs that a non-empty set of natural
numbers has a least one (`LeastNumber`), which is derived from well-foundedness of
the subset ordering, as induction with an operator parameter is not available.
The lemmas the other modules use are there too: `Merge` is monotone, `Covers` is
an order, and `MergeAll` of a finite set of signals is their least upper bound.

`RPCServerProofs` proves of the manager, for every finite set of programs and of coverage points, every
flag and every bound, that `MgrInv` is an invariant of `MgrSpec`, and from it
`CorpusPersisted`, `DeletedOnlyOnceOffered` and `CoverageKept`.  `CorpusPersisted`
speaks of files without a torn record, which is as far as the code goes
(see the findings); writes that fail or stop between two records are covered.  It
is not inductive: after a failed write the corpus is ahead of the file, and the
next successful write repairs it only because the corpus is within the records
in memory and memory and file differ only in what is pending (`DBInSync`).  A
program leaves the file when the file catches up with memory, possibly several
failed writes after the record was dropped, and a stopped write may take it out
while its deletion is pending, so the invariant says that whatever is on disk and
not in memory, and whatever is pending, may go already (`MayGo`), and that this
lasts until the restart that reloads the file.
`minimizeCorpus` deletes what is in neither `mgr.corpus` nor
`mgr.disabledHashes`; that these may go needs that disabled programs are
protected from the moment of the machine check (`DisabledKept`) and that every
loaded record is a candidate or has been handed out (`RecordsOffered`), which in
turn starts from a clean manager (`StartsClean`).  `CoverageKept` rests on
`MinimizeKeepsSignal`.  The assumptions are the ones named in `Signal` and
`Manager`: programs and elements are finite sets, a reported input has
non-empty signal, flags are Boolean, a batch is not empty and the two
saturation sizes are positive and in order.

`BrfExecutorProofs` proves, for any number of threads and calls, any program
and whatever libbpf and the kernel answer, that `ExecInv` is an invariant of
`Spec`, and from it `RunningExact` and `OutputOnce`.  `RunningExact` is not
inductive: that a completion finds its thread executing and done, and not ready,
needs that the three flags agree with where the worker is (`ThreadsAgree`), and
that the call waited for has not been completed by somebody else
(`MainAgrees`).  That no call is reported twice needs that an executing thread's
call has no output yet and that no two threads have the same call; that none is
missing at the end needs that a call without output belongs to an executing
thread, so that `running = 0` means there is none (`OutputAgrees`).  The
numbers are about cardinalities of finite sets; here the steps of the BPF calls
enter only through the fact that they keep a thread within its call
(`CallMoves`).

The same module proves that `BpfInv` is an invariant, and from it
`SelectedRegistered` and `RecordedOnce`.  Part of it holds however calls overlap
(`CallHolds`, `ObjectsHold`): only a BPF call has an object in hand, the
compiled-in name of a struct_ops object is replaced before the object is loaded and
never comes back, and only accepted ones get registered.  This is what keeps an
earlier selection right when an object is loaded again.  The rest (`AloneInv`)
holds until two BPF calls overlap: then at most one thread is in a BPF call
(`Settled`), and what its step relies on can be said of that thread alone.  A slot
has an object of its own and the name it was patched with, unless its call is
about to stash that name (`SlotsAgree`), so attach takes the name the kernel
got; a loaded struct_ops object is marked, or a call is about to record or mark
it (`MarksAgree`), so a second load finds the mark and its failure is not
recorded; and a first load appends its warnings to an empty accumulator
(`HeldAgrees`).  What every place of a call knows is kept by the main thread because
it gives calls only to threads that have none (`MainStays`).  The assumptions are
those of `ExecutorAssumption`: at least one thread and one slot, struct_ops and
long names among the files, warnings of the five kinds of line the code and
libbpf tell apart.

`CorpusDBProofs` proves, for every finite set of keys, any values and versions,
every compaction ratio above 1 and any number of pending records, that the types
hold (`DatabaseTypes`) and, for behaviours without short writes, that `DBInv` is an
invariant; from it `CountExact`, `FileBounded`, `RecordsMirrored` and the
refinement `ImplementsStore`.  `DBInv` adds that the file of an open database has no
torn record and that memory is the file's contents with the pending records
replayed on top.  The lemma all steps use is that one more record in the log is one
more `Apply` (`ReplayOne`), with its consequence that replaying two logs is
replaying their concatenation (`ReplayJoined`); the closed form of `Replay` is
what makes it provable without induction.  The refinement maps memory to the
moments after each pending record (`MomentsAre`); a crash inside `Flush` leaves a
prefix of them and possibly a torn record, and `Open` reads the prefix
(`ReadTorn`).  The assumption `~ShortWrites` is in the theorems because the code does
not handle them (see the findings); the others are those of
`DBAssumption`.

`RPCServerProofs` proves, for every set of VMs and any number of requests in
flight, that `ServInv` is an invariant of the
server's `Spec`, and from it `CorpusSignalExact`, `InputsReach`,
`MaxSignalReaches` and `RotatedWithinCorpus`.  Three facts are needed beside
these four.  An input that arrives late is still runnable (`RequestsRunnable`),
because VMs report only after the machine check that fixes what is; else the
corpus could take in what the manager refuses and the signal would not be exact.
A request belongs to the VM that runs now, which counts its signal as its own
already, or to a dead one (`RequestsOfOwner`): this is why `NewInput` need not
send an input back to its sender.  And the corpus copied in the first half of
`Connect` stays complete up to what is accepted until the second half
(`SnapshotReaches`).  `CorpusSignalExact` survives `minimizeCorpus`
by `MinimizeKeepsSignal`.

The same module proves the refinement `Spec => MgrSpec` (`ServerImplementsManager`):
`RPCServer` keeps the manager's variables under their own names, so the mapping is
the identity, and what has to be shown is that every handler, including those
that call the manager in the middle, is one of the manager's operations or
leaves its state alone; for `NewInput` this needs `RequestsRunnable`, as the
manager's operation is defined for runnable programs.  `ServerKeepsManagerPromises`
then transfers persistence, the bound on deletions and kept coverage to the
composed system.

`FuzzerProofs` proves, for any number of procs, any programs and outcomes, that
`FuzzerInv` is an invariant of `Spec`, and from it `NewSignalTriaged`,
`NewSignalReported`, `CorpusWithinMax` and `CorpusReported`.  The four speak of
shared state and of what procs hold; they become inductive with what each place
of the code knows (`ProcOK`): new signal is held by the proc exactly from the read
lock to the queue, the difference computed under the write lock is within it, a
work item is held until its triage is over, even while `prog.Minimize` executes
candidates, and a program about to enter the corpus was sent.  The poller holds
signal only between the grab and the call (`PollerInv`).  That nothing is lost by
a step is an argument about least upper bounds: what leaves one place is covered
by what another gains.  What is left of a reply is held by the poller, and nothing
is on its way to the manager meanwhile (`NothingGrabbed`).

`HubProofs` proves, for every set of managers, finite sets of programs and
reproducers and every page size, that `HubInv` is an invariant of `Spec`, and
from it `CorpusShared`, `NothingSkipped`, `ConnectorAgrees` and
`ReproAtMostOnce`.  `NothingSkipped` speaks of connected managers, but a program
skipped while a manager is away stays skipped, so the invariant says it of all
(`ServedAll`); a page leaves out what the hub has stored of the manager, which is
right because that came from it (`CorpusIsOwned`).  `ConnectorAgrees`
holds between rounds and says that `hubCorpus` is what the hub has stored and what
was cut, for every limit; while a sync is under way `hubCorpus` is already what the
hub will have, up to what was cut (`SyncAgrees`), which is why a failure must lead to a new
`Connect`.  A reproducer is never removed, so that a number once passed stays
passed (`SentIsPresent`).  The proof separates what the hub's state says alone
from what relates it to the connectors (`TwoSides`), because the hub's crashes and
the connectors' steps touch one side each.  That the least and greatest numbers
the code looks for exist comes again from well-foundedness (`LeastExists`).

`VMLoopProofs` proves, for any number of machines, any share reserved for fuzzing,
any titles and any number of crashes, that `LoopInv` is an invariant of `Spec`,
and from it `VMsAccounted`, `FuzzingVMsKept`, `IdleOnlyForRepro` and `ReproOnce`.
That no index is lost and none is in two places is inductive with the sizes of
what reproductions hold (`ReproSizes`), because a reproduction under strace must
have a first machine to keep.  `FuzzingVMsKept` is a count: machines held are at
most the slots of the reproductions running, these are at most `numReproducing`,
and `canRepro` has admitted that many; a reproduction that has returned its
machines is still counted, so the bound errs on the safe side.  `ReproOnce` needs
that queue, running reproductions and results have disjoint titles and no title
twice (`OneJobPerTitle`): only then does removing the title of a received result
unblock nothing that is still under way.  `IdleOnlyForRepro` is inductive by
itself: the loop leaves its body only when the pool has too little, and every
later `Put` leaves a token.

Only model-checked, and why:

- everything about liveness: the prover does not treat fairness and `ENABLED`;
- that `Replay` is what the loop of `deserializeDB` computes, which is a fold over a
  sequence of any length, and the prover has no induction with an operator
  parameter: `ReplayOne` is one turn of that loop, `ReplayIsTheLoop` in
  `MCCorpusDB` compares the two on short logs;
- the properties of the three `violation` runs, which do not hold.

Every invariant and every safety property of a passing run is the subject of a theorem.

## Not modelled

- Program generation and mutation, BPF and MPTCP struct_ops generators included
  (`prog/`): random transformations of syntax trees and of C text.  They appear
  as "any program may be executed".  What they promise is about a kernel's
  verifier.
- The work directory of generated BPF files (`prog/brf.go`): what its pruning
  keeps depends on modification times and their ties.
- The MPTCP traffic harness and attaching of other BPF program types
  (`executor/common_brf_linux*.h`): sequences of system calls without state of
  the program.
- `pkg/ipc`'s protocol with the executor, `syz-verifier`, the search of
  `pkg/repro`, `syz-ci`, and the module canonicalizer: state machines or
  arithmetic of their own, in the plan or replaced by their effect.
- VM backends, builds, dashboards, report parsing, tools, web pages, statistics
  and logging: I/O, formatting and text processing.  They are most of the
  repository's lines, together with generated tables (system call
  descriptions, instruction tables, USB ids, subsystem lists), which is why the
  modelled share of all lines is small.
- Coverage, as opposed to signal: it decides saturation, which is a free choice.

## Plan

1. (done) `Gate`, `Signal`, `Manager`, `RPCServer`, `KVStore`/`CorpusDB`,
   `Fuzzer`, with their runs; proofs for the gate, the signal operations and
   the manager.
2. (done) `VMLoop`, `Hub` with the hub connector, `BrfExecutor`; the proof of
   the executor's accounting.
3. (done) Proofs: the invariants of `RPCServer` with its refinement of `Manager`,
   of `Fuzzer`, `VMLoop` and `Hub`; the database and its refinement of `KVStore`;
   the BPF calls of `BrfExecutor`.
4. `ExecProtocol`: handshake, request and reply, hang and restart of the executor
   (`pkg/ipc`).
5. Composition of `Fuzzer` and `RPCServer` (a detailed fuzzer in place of the
   `own*` variables), and the fuzzer's part of `RPCServer` as its abstraction.
6. `BrfWorkDir`: procs that write, compile from and prune the directory of
   generated files.
