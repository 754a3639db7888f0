---------------------------- MODULE BrfExecutor -----------------------------
(***************************************************************************)
(* One test process of the executor (executor/executor.cc) and the BPF     *)
(* calls it runs (executor/common_brf_linux.h).                            *)
(*                                                                         *)
(* The main thread, execute_one, hands the calls of a program to worker    *)
(* threads, waits for each for a bounded time unless the call is async,    *)
(* and goes on: a call that timed out runs beside the next ones.  The BPF  *)
(* pseudo-syscalls open, load and attach an object file through tables     *)
(* that all threads of the process share without a lock, so their steps    *)
(* are split where shared memory is read or written.  For a struct_ops     *)
(* object, an MPTCP scheduler, loading gives it a unique name, records the *)
(* verifier's verdict, and attaching registers it in the kernel.           *)
(*                                                                         *)
(* External: libbpf and the kernel (whether a load is accepted, which      *)
(* warnings it prints, that an object is loaded at most once and a name    *)
(* registered at most once), and the test processes of the other procs.    *)
(***************************************************************************)
EXTENDS Integers, Sequences, FiniteSets, FiniteSetsExt

CONSTANTS
  kMaxThreads,     \* size of threads[]
  OBJ_LIST_SIZE,   \* size of bpf_object_list[]
  Files,           \* object files the program names
  StructOps,       \* those with a struct_ops map
  ObjName,         \* the name libbpf gives the object of a file: its first 15 characters
  LongNames,       \* files whose name has 15 characters or more
  Logs,            \* what libbpf may print on a rejection: sequences of kinds of lines
  Pids,            \* process ids this process may have in its namespace
  OtherPids,       \* process ids in the namespaces of other procs
  Programs,        \* the calls a program is made of, by flag_threaded
  MaxCalls         \* bound: how many of them, by flag_threaded

\* "other" is any call that is not BPF's.
BpfCalls == [op : {"open", "load", "attach"}, file : Files]
Other    == [op |-> "other", file |-> CHOOSE f \in Files : TRUE]
Calls    == BpfCalls \cup {Other}

\* Lines of libbpf's warnings: about a program, about anything else, its
\* generic wrapper, a blank one, and the one for loading an object again.
Kinds == {"prog", "map", "generic", "blank", "twice"}

ASSUME ExecutorAssumption ==
  /\ kMaxThreads \in Nat \ {0}
  /\ OBJ_LIST_SIZE \in Nat \ {0}
  /\ StructOps \subseteq Files /\ LongNames \subseteq Files
  /\ ObjName \in [Files -> Files]
  /\ Logs \subseteq Seq(Kinds)
  /\ Programs \in [BOOLEAN -> SUBSET Calls]
  /\ MaxCalls \in [BOOLEAN -> Nat]

VARIABLES
  threaded,    \* flag_threaded
  pc,          \* where execute_one is, or how the process ended
  scan,        \* its loop variable i over threads[], 1 between loops
  ncalls,      \* call_index: calls handed out so far
  running, last_scheduled,
  threads,     \* threads[]: created, executing, ready, done, the call it was given
  out,         \* for each call, what write_call_output wrote
  returned,    \* calls whose execute_call has returned
  work,        \* where each thread is in its call, with the call's locals
  objs,        \* bpf_objects: file, what loading did, name in the map's initial value
  bpf,         \* the tables and counters the BPF calls share, see Init
  pid,         \* getpid()
  registered,  \* objects whose scheduler the kernel has registered
  others,      \* names other procs' test processes have registered
  stats,       \* the verifier records written
  asked,       \* objects attached, with the name written to the sysctl
  overlap      \* two BPF calls have been in progress at once

mainVars == <<threaded, pc, scan, ncalls, running, last_scheduled, threads, out>>
bpfVars  == <<objs, bpf, registered, others, stats, asked>>
vars     == <<mainVars, returned, work, bpfVars, pid, overlap>>

Threads == 1 .. kMaxThreads
Slots   == 1 .. OBJ_LIST_SIZE
Indices == 1 .. Max({MaxCalls[TRUE], MaxCalls[FALSE]})

NoName == <<>>
CompiledIn(file) == <<file>>
Tag(n) == <<pid, n % 2^20>>

Idle == [at |-> "idle", obj |-> 0, name |-> NoName, slot |-> 0, ok |-> FALSE]

\* How the process may end: execute_one returns, or calls exitf.  (The watchdog
\* of the process that forked it may also kill it at any moment; then the
\* behaviour just stops where it is.)
Over == {"exit", "out of threads", "bad thread state", "negative running"}

\* A forked test process: the sandboxes give each proc a pid namespace of its
\* own, so its pid says nothing of the pids in other procs.  Some of those
\* have registered their first scheduler (an attach may fail at any time, so
\* that it is before this process starts makes no difference).
Init ==
  /\ threaded \in BOOLEAN
  /\ pc = "next" /\ scan = 1 /\ ncalls = 0 /\ running = 0 /\ last_scheduled = 0
  /\ threads = [t \in Threads |-> [created |-> FALSE, executing |-> FALSE, ready |-> FALSE,
                                   done |-> FALSE, index |-> 0, call |-> Other]]
  /\ out = [i \in Indices |-> <<>>]
  /\ returned = {}
  /\ work = [t \in Threads |-> Idle]
  /\ objs = <<>>
  /\ bpf = [list     |-> [s \in Slots |-> 0],        \* bpf_object_list, 0 is NULL
            names    |-> [s \in Slots |-> NoName],   \* struct_ops_name_list
            recorded |-> [s \in Slots |-> FALSE],    \* struct_ops_verif_recorded
            counter  |-> 0,                          \* brf_struct_ops_name_counter
            accum    |-> <<>>]     \* brf_verif_log_accum: lines, and the call behind each
  /\ pid \in Pids
  /\ registered = {} /\ others \in SUBSET (OtherPids \X {0})
  /\ stats = {} /\ asked = {}
  /\ overlap = FALSE

-----------------------------------------------------------------------------
(***************************************************************************)
(* The main thread: execute_one.                                           *)
(***************************************************************************)

Complete(th) == [th EXCEPT !.executing = FALSE]

\* write_call_output of thread t.
Written(t, finished) ==
  Append(out[threads[t].index], [finished |-> finished,
                                 blocked  |-> finished /\ t # last_scheduled])

\* A slip: the completed call stays counted as running.
CompletionNotCounted(t, at) ==
  /\ out' = [out EXCEPT ![threads[t].index] = Written(t, TRUE)]
  /\ threads' = [threads EXCEPT ![t] = Complete(@)]
  /\ pc' = at /\ UNCHANGED running

\* handle_completion of thread t, after which the main thread goes to at.
handle_completion(t, at) ==
  IF threads[t].ready \/ ~threads[t].done \/ ~threads[t].executing
  THEN pc' = "bad thread state" /\ UNCHANGED <<running, threads, out>>
  ELSE /\ out' = [out EXCEPT ![threads[t].index] = Written(t, TRUE)]
       /\ threads' = [threads EXCEPT ![t] = Complete(@)]
       /\ running' = running - 1
       /\ pc' = IF running = 0 THEN "negative running" ELSE at

\* The next call of the program is read; schedule_call looks for a thread.
NextCall ==
  /\ pc = "next" /\ ncalls < MaxCalls[threaded]
  /\ pc' = "schedule"
  /\ UNCHANGED <<threaded, scan, ncalls, running, last_scheduled, threads, out>>

\* thread_create, and the look at one thread: its previous call is completed
\* first if that has not been done.
ScanThread ==
  /\ pc = "schedule" /\ scan <= kMaxThreads
  /\ \/ /\ ~threads[scan].created
        /\ threads' = [threads EXCEPT ![scan].created = TRUE, ![scan].done = TRUE]
        /\ UNCHANGED <<pc, scan, running, out>>
     \/ /\ threads[scan].created /\ ~threads[scan].done
        /\ scan' = scan + 1
        /\ UNCHANGED <<pc, threads, running, out>>
     \/ /\ threads[scan].created /\ threads[scan].done /\ threads[scan].executing
        /\ handle_completion(scan, "schedule")
        /\ UNCHANGED scan
  /\ UNCHANGED <<threaded, ncalls, last_scheduled>>

OutOfThreads ==
  /\ pc = "schedule" /\ scan > kMaxThreads
  /\ pc' = "out of threads"
  /\ UNCHANGED <<threaded, scan, ncalls, running, last_scheduled, threads, out>>

\* The thread found is given the call.  An async call is not waited for, and
\* without threads the main thread runs the call itself.
ScheduleCall(call, async) ==
  /\ pc = "schedule" /\ scan <= kMaxThreads
  /\ threads[scan].created /\ threads[scan].done /\ ~threads[scan].executing
  /\ IF threads[scan].ready
     THEN pc' = "bad thread state" /\ UNCHANGED <<ncalls, running, last_scheduled, threads>>
     ELSE /\ ncalls' = ncalls + 1
          /\ running' = running + 1
          /\ last_scheduled' = scan
          /\ threads' = [threads EXCEPT ![scan] = [created |-> TRUE, executing |-> TRUE,
                           ready |-> TRUE, done |-> FALSE, index |-> ncalls + 1, call |-> call]]
          /\ pc' = CASE threaded /\ async -> "next"
                     [] threaded /\ ~async -> "wait"
                     [] OTHER -> "direct"
  /\ scan' = 1
  /\ UNCHANGED <<threaded, out>>

\* event_timedwait: the call is done, or its time is up.
WaitDone ==
  /\ pc = "wait" /\ threads[last_scheduled].done
  /\ handle_completion(last_scheduled, "sweep")
  /\ UNCHANGED <<threaded, scan, ncalls, last_scheduled>>

\* A slip: the wait is taken up again when its time is up.
WaitAgain ==
  /\ pc = "wait" /\ ~threads[last_scheduled].done
  /\ UNCHANGED mainVars

WaitTimeout ==
  /\ pc = "wait" /\ ~threads[last_scheduled].done
  /\ pc' = "sweep"
  /\ UNCHANGED <<threaded, scan, ncalls, running, last_scheduled, threads, out>>

\* Without threads the call has been executed directly.
DirectDone ==
  /\ pc = "direct" /\ threads[last_scheduled].done
  /\ handle_completion(last_scheduled, "next")
  /\ UNCHANGED <<threaded, scan, ncalls, last_scheduled>>

\* Calls that have completed meanwhile, thread by thread: after each call
\* ("sweep"), and at the end of the program ("tail sweep").
Sweep ==
  /\ pc \in {"sweep", "tail sweep"} /\ scan <= kMaxThreads
  /\ scan' = scan + 1
  /\ IF threads[scan].executing /\ threads[scan].done
     THEN handle_completion(scan, pc)
     ELSE UNCHANGED <<pc, running, threads, out>>
  /\ UNCHANGED <<threaded, ncalls, last_scheduled>>

SweepDone ==
  /\ pc \in {"sweep", "tail sweep"} /\ scan > kMaxThreads
  /\ pc' = (IF pc = "sweep" THEN "next" ELSE "tail") /\ scan' = 1
  /\ UNCHANGED <<threaded, ncalls, running, last_scheduled, threads, out>>

\* The program ends; unfinished calls get some additional time.
EndProgram ==
  /\ pc = "next"
  /\ IF running > 0 THEN pc' = "tail" /\ last_scheduled' = 0
                    ELSE pc' = "exit" /\ UNCHANGED last_scheduled
  /\ UNCHANGED <<threaded, scan, ncalls, running, threads, out>>

TailSweep ==
  /\ pc = "tail"
  /\ pc' = IF running > 0 THEN "tail sweep" ELSE "exit"
  /\ UNCHANGED <<threaded, scan, ncalls, running, last_scheduled, threads, out>>

\* A slip: every thread that was ever given a call is reported.
DeadlineReportsAll ==
  /\ pc = "tail" /\ running > 0
  /\ out' = [i \in Indices |->
               LET ts == {t \in Threads : threads[t].index = i}
               IN  IF ts = {} THEN out[i] ELSE Written(CHOOSE t \in ts : TRUE, FALSE)]
  /\ pc' = "exit"
  /\ UNCHANGED <<threaded, scan, ncalls, running, last_scheduled, threads>>

\* wait_end has passed: what is still executing is reported as unfinished.
TailDeadline ==
  /\ pc = "tail" /\ running > 0
  /\ out' = [i \in Indices |->
               LET ts == {t \in Threads : threads[t].executing /\ threads[t].index = i}
               IN  IF ts = {} THEN out[i] ELSE Written(CHOOSE t \in ts : TRUE, FALSE)]
  /\ pc' = "exit"
  /\ UNCHANGED <<threaded, scan, ncalls, running, last_scheduled, threads>>

Main ==
  /\ \/ NextCall \/ ScanThread \/ OutOfThreads
     \/ \E call \in Programs[threaded], async \in BOOLEAN : ScheduleCall(call, async)
     \/ WaitDone \/ WaitTimeout \/ DirectDone
     \/ Sweep \/ SweepDone
     \/ EndProgram \/ TailSweep \/ TailDeadline
  /\ UNCHANGED <<returned, work, bpfVars, pid, overlap>>

-----------------------------------------------------------------------------
(***************************************************************************)
(* A thread executing a call.  Goto moves it on within the call.           *)
(***************************************************************************)

At(t, at) == pc \notin Over /\ work[t].at = at
Is(t, op) == threads[t].call.op = op
FileOf(t) == threads[t].call.file
Goto(t, at) == work' = [work EXCEPT ![t].at = at]

InBpfCall == {t \in Threads : work[t].at # "idle" /\ ~Is(t, "other")}

\* worker_thread takes the call, or the main thread does in its stead.
Begin(t) ==
  /\ At(t, "idle") /\ threads[t].ready
  /\ threads' = [threads EXCEPT ![t].ready = FALSE]
  /\ work' = [work EXCEPT ![t] = [Idle EXCEPT !.at = "call"]]
  /\ overlap' = (overlap \/ (~Is(t, "other") /\ InBpfCall # {}))
  /\ UNCHANGED <<threaded, pc, scan, ncalls, running, last_scheduled, out,
                 returned, bpfVars, pid>>

\* execute_call returns and worker_thread sets done.
Return(t) ==
  /\ At(t, "return")
  /\ threads' = [threads EXCEPT ![t].done = TRUE]
  /\ returned' = returned \cup {threads[t].index}
  /\ work' = [work EXCEPT ![t] = Idle]
  /\ UNCHANGED <<threaded, pc, scan, ncalls, running, last_scheduled, out, bpfVars, pid, overlap>>

\* The steps of the calls below share this frame.
InCall == UNCHANGED <<mainVars, returned, others, pid, overlap>>

OtherCall(t) ==
  /\ At(t, "call") /\ Is(t, "other")
  /\ Goto(t, "return")
  /\ UNCHANGED <<objs, bpf, registered, stats, asked>>

\* syz_bpf_prog_open: the object is opened, if that works, and the first free
\* slot found, if there is one.
OpenObject(t) ==
  /\ At(t, "call") /\ Is(t, "open")
  /\ LET free == {s \in Slots : bpf.list[s] = 0}
     IN  \/ Goto(t, "return") /\ UNCHANGED objs
         \/ /\ free # {}
            /\ objs' = Append(objs, [file |-> FileOf(t), load |-> "none",
                                     blob |-> CompiledIn(FileOf(t))])
            /\ work' = [work EXCEPT ![t].at = "store", ![t].obj = Len(objs) + 1,
                                    ![t].slot = Min(free)]
  /\ UNCHANGED <<bpf, registered, stats, asked>>

StoreObject(t) ==
  /\ At(t, "store")
  /\ bpf' = [bpf EXCEPT !.list[work[t].slot] = work[t].obj]
  /\ Goto(t, "return")
  /\ UNCHANGED <<objs, registered, stats, asked>>

\* The first object of that name before the first free slot, or 0.  For a long
\* name strncpy leaves the last byte of the buffer as it was: what that is
\* decides whether any object matches.
find_bpf_object_by_basename(file) ==
  LET found == {s \in Slots : /\ \A r \in 1 .. s : bpf.list[r] # 0
                              /\ ObjName[objs[bpf.list[s]].file] = ObjName[file]}
  IN  {IF found = {} THEN 0 ELSE bpf.list[Min(found)]}
      \cup (IF file \in LongNames THEN {0} ELSE {})

\* The slots of an object, at most one: the loops that compare bpf_object_list[i].
SlotOf(obj) == {s \in Slots : bpf.list[s] = obj}

\* brf_find_struct_ops_map, and the map's name.
IsStructOps(obj) == objs[obj].file \in StructOps
MapName(obj) == CompiledIn(objs[obj].file)

\* syz_bpf_prog_load: the object is looked up; for a struct_ops object
\* brf_struct_ops_uniquify_name draws a tag, whether it gets used or not.
LoadFind(t) ==
  /\ At(t, "call") /\ Is(t, "load")
  /\ \E obj \in find_bpf_object_by_basename(FileOf(t)) :
         \/ obj = 0 /\ Goto(t, "return") /\ UNCHANGED bpf
         \/ /\ obj # 0 /\ ~IsStructOps(obj)
            /\ work' = [work EXCEPT ![t].at = "load", ![t].obj = obj]
            /\ UNCHANGED bpf
         \/ /\ obj # 0 /\ IsStructOps(obj)
            /\ work' = [work EXCEPT ![t].at = "patch", ![t].obj = obj, ![t].name = Tag(bpf.counter)]
            /\ bpf' = [bpf EXCEPT !.counter = @ + 1]
  /\ UNCHANGED <<objs, registered, stats, asked>>

\* A slip: the tag drawn is passed on although no name was patched.
PatchKeepsTag(t) ==
  /\ At(t, "patch")
  /\ objs' = IF objs[work[t].obj].blob = MapName(work[t].obj)
             THEN [objs EXCEPT ![work[t].obj].blob = work[t].name] ELSE objs
  /\ Goto(t, "stash")
  /\ UNCHANGED <<bpf, registered, stats, asked>>

\* It patches the compiled-in name, if the initial value still has it.  On a
\* first load it always has: the generator gives the map and the .name member
\* one string.
PatchName(t) ==
  /\ At(t, "patch")
  /\ IF objs[work[t].obj].blob = MapName(work[t].obj)
     THEN /\ objs' = [objs EXCEPT ![work[t].obj].blob = work[t].name]
          /\ Goto(t, "stash")
     ELSE /\ work' = [work EXCEPT ![t].at = "stash", ![t].name = NoName]
          /\ UNCHANGED objs
  /\ UNCHANGED <<bpf, registered, stats, asked>>

\* The name is stashed for the attach, if there is one.
StashName(t) ==
  /\ At(t, "stash")
  /\ bpf' = [bpf EXCEPT
       !.names = [s \in Slots |-> IF s \in SlotOf(work[t].obj) /\ work[t].name # NoName
                                  THEN work[t].name ELSE @[s]]]
  /\ Goto(t, "reset")
  /\ UNCHANGED <<objs, registered, stats, asked>>

\* The accumulator of warnings is emptied for the load.
ResetAccum(t) ==
  /\ At(t, "reset")
  /\ bpf' = [bpf EXCEPT !.accum = <<>>]
  /\ Goto(t, "load")
  /\ UNCHANGED <<objs, registered, stats, asked>>

\* bpf_object__load: the verifier decides, once for an object.  On a failure
\* brf_verif_libbpf_print has appended the warnings.  (Before the first
\* struct_ops load they go elsewhere; nobody reads them then.)
LoadObject(t) ==
  /\ At(t, "load")
  /\ \E ok \in BOOLEAN, lines \in Logs \cup {<<>>, <<"twice">>} :
       /\ IF objs[work[t].obj].load # "none"
          THEN ~ok /\ lines = <<"twice">> /\ UNCHANGED objs
          ELSE /\ lines # <<"twice">> /\ (ok <=> lines = <<>>)
               /\ objs' = [objs EXCEPT ![work[t].obj].load = IF ok THEN "accepted" ELSE "rejected"]
       /\ bpf' = [bpf EXCEPT !.accum = @ \o [i \in DOMAIN lines |->
                                [by |-> threads[t].index, kind |-> lines[i]]]]
       /\ work' = [work EXCEPT ![t].ok = ok,
                     ![t].at = IF IsStructOps(work[t].obj) THEN "record" ELSE "return"]
  /\ UNCHANGED <<registered, stats, asked>>

\* strstr looks from the line to the end of the accumulator.
brf_verif_is_generic_line(lines, i) == \E j \in i .. Len(lines) : lines[j].kind = "generic"

\* The first non-blank line of the highest rank, 0 if there is none: a line
\* about a program, then any other, then the generic ones.
FirstOfRank(lines, generic) ==
  LET rank(i) == IF i \in generic THEN 0 ELSE IF lines[i].kind = "prog" THEN 2 ELSE 1
      nonblank == {i \in DOMAIN lines : lines[i].kind # "blank"}
      best == {i \in nonblank : \A j \in nonblank : rank(j) <= rank(i)}
  IN  IF best = {} THEN 0 ELSE Min(best)

brf_verif_pick_reason(lines) ==
  FirstOfRank(lines, {i \in DOMAIN lines : brf_verif_is_generic_line(lines, i)})

\* The outcome is recorded unless that has been done for the object; writing
\* the record (brf_verif_record) may fail, silently.
RecordOutcome(t) ==
  /\ At(t, "record")
  /\ IF \E s \in SlotOf(work[t].obj) : bpf.recorded[s]
     THEN Goto(t, "return") /\ UNCHANGED stats
     ELSE /\ Goto(t, "mark")
          /\ \/ UNCHANGED stats
             \/ stats' = stats \cup {[obj |-> work[t].obj, by |-> threads[t].index,
                                      ok |-> work[t].ok, log |-> bpf.accum,
                                      reason |-> IF work[t].ok THEN 0
                                                 ELSE brf_verif_pick_reason(bpf.accum)]}
  /\ UNCHANGED <<objs, bpf, registered, asked>>

\* A slip: the object is not marked.
RecordedNotMarked(t) ==
  /\ At(t, "mark")
  /\ Goto(t, "return")
  /\ UNCHANGED <<objs, bpf, registered, stats, asked>>

MarkRecorded(t) ==
  /\ At(t, "mark")
  /\ bpf' = [bpf EXCEPT !.recorded = [s \in Slots |-> @[s] \/ s \in SlotOf(work[t].obj)]]
  /\ Goto(t, "return")
  /\ UNCHANGED <<objs, registered, stats, asked>>

\* syz_bpf_prog_attach: a struct_ops object goes by the name stashed when it
\* was loaded, or its compiled-in one; other objects are attached program by
\* program, which touches none of this state.
AttachFind(t) ==
  /\ At(t, "call") /\ Is(t, "attach")
  /\ \E obj \in find_bpf_object_by_basename(FileOf(t)) :
       LET stashed == {bpf.names[s] : s \in SlotOf(obj)} \ {NoName}
       IN  IF obj = 0 \/ ~IsStructOps(obj)
           THEN Goto(t, "return")
           ELSE work' = [work EXCEPT ![t].at = "attach", ![t].obj = obj,
                           ![t].name = IF stashed = {} THEN MapName(obj)
                                       ELSE CHOOSE n \in stashed : TRUE]
  /\ UNCHANGED <<objs, bpf, registered, stats, asked>>

RegisteredNames == {objs[o].blob : o \in registered}

\* brf_struct_ops_attach: the kernel registers the name the object was loaded
\* with, unless somebody has it; the link is kept as long as the process lives.
AttachMap(t) ==
  /\ At(t, "attach")
  /\ \/ Goto(t, "return") /\ UNCHANGED registered
     \/ /\ objs[work[t].obj].load = "accepted"
        /\ objs[work[t].obj].blob \notin RegisteredNames \cup others
        /\ registered' = registered \cup {work[t].obj}
        /\ Goto(t, "select")
  /\ UNCHANGED <<objs, bpf, stats, asked>>

\* brf_struct_ops_select writes the name to the sysctl.
Select(t) ==
  /\ At(t, "select")
  /\ asked' = asked \cup {[obj |-> work[t].obj, name |-> work[t].name]}
  /\ Goto(t, "return")
  /\ UNCHANGED <<objs, bpf, registered, stats>>

Worker(t) ==
  \/ Begin(t) \/ Return(t)
  \/ /\ \/ OtherCall(t)
        \/ OpenObject(t) \/ StoreObject(t)
        \/ LoadFind(t) \/ PatchName(t) \/ StashName(t) \/ ResetAccum(t)
        \/ LoadObject(t)
        \/ RecordOutcome(t) \/ MarkRecorded(t)
        \/ AttachFind(t) \/ AttachMap(t) \/ Select(t)
     /\ InCall

Next == Main \/ \E t \in Threads : Worker(t)

Spec == Init /\ [][Next]_vars

\* The main thread is scheduled and its clock goes on.  Nothing is assumed of
\* the workers: any call may block for ever.
FairSpec == Spec /\ WF_vars(Main) /\ SF_vars(TailDeadline /\ Main)

-----------------------------------------------------------------------------
(***************************************************************************)
(* Properties.                                                             *)
(***************************************************************************)

TypeOK ==
  /\ threaded \in BOOLEAN
  /\ pc \in Over \cup {"next", "schedule", "wait", "direct", "sweep", "tail", "tail sweep"}
  /\ scan \in 1 .. kMaxThreads + 1 /\ ncalls \in 0 .. MaxCalls[threaded] /\ running \in Int
  /\ last_scheduled \in 0 .. kMaxThreads
  /\ threads \in [Threads -> [created : BOOLEAN, executing : BOOLEAN, ready : BOOLEAN,
                              done : BOOLEAN, index : {0} \cup Indices, call : Calls]]
  /\ out \in [Indices -> Seq([finished : BOOLEAN, blocked : BOOLEAN])]

\* The tables hold objects that exist and names of the three kinds.
Names == {NoName} \cup {CompiledIn(f) : f \in Files} \cup (Pids \X Nat)
TablesOK ==
  /\ \A t \in Threads : /\ work[t].obj \in 0 .. Len(objs) /\ work[t].name \in Names
                        /\ work[t].slot \in 0 .. OBJ_LIST_SIZE
  /\ \A s \in Slots : bpf.list[s] \in 0 .. Len(objs) /\ bpf.names[s] \in Names
  /\ registered \subseteq DOMAIN objs

Executing == {t \in Threads : threads[t].executing}

\* The counter running, which decides how long the process waits, is the number
\* of threads given a call that has not been completed: none of the checks of
\* schedule_call and handle_completion on the state of a thread, nor the one
\* for a negative counter ("fires periodically"), can fail, whatever the order
\* of timeouts, late returns and sweeps.
RunningExact ==
  /\ TypeOK
  /\ running = Cardinality(Executing)
  /\ pc \notin {"bad thread state", "negative running"}

\* No call is reported twice, a call is reported as finished only if it has
\* returned, and a process that ends by itself has reported every call it
\* started, the ones still blocked included.
OutputOnce ==
  /\ \A i \in Indices : /\ Len(out[i]) <= 1
                        /\ Len(out[i]) = 1 /\ out[i][1].finished => i \in returned
  /\ pc = "exit" => \A i \in 1 .. ncalls : Len(out[i]) = 1

\* As long as no two BPF calls overlap, what attach writes to the scheduler's
\* sysctl is the name under which that object is registered, however often it
\* was opened, loaded and attached before and however those calls ended.
SelectedRegistered ==
  /\ TablesOK
  /\ ~overlap => \A a \in asked : a.obj \in registered /\ objs[a.obj].blob = a.name

\* The inductive invariant behind RunningExact and OutputOnce: what the events
\* of a thread say about where it is, that the main thread waits for a call
\* that is running, and that each call started has either been reported, once,
\* or is the call of exactly one executing thread.
ThreadsAgree ==
  \A t \in Threads :
    /\ threads[t].executing => threads[t].created /\ threads[t].index \in 1 .. ncalls
    /\ threads[t].ready => threads[t].executing /\ ~threads[t].done /\ work[t].at = "idle"
    /\ work[t].at # "idle" => threads[t].executing /\ ~threads[t].ready /\ ~threads[t].done
    /\ threads[t].executing /\ threads[t].done => threads[t].index \in returned

MainAgrees ==
  /\ pc \in {"wait", "direct"} => last_scheduled \in Executing
  /\ pc = "schedule" => ncalls < MaxCalls[threaded]

OutputAgrees ==
  /\ \A i \in Indices :
       /\ i > ncalls => out[i] = <<>>
       /\ out[i] = <<>> \/ \E r \in [finished : BOOLEAN, blocked : BOOLEAN] :
                             out[i] = <<r>> /\ (r.finished => i \in returned)
       /\ i <= ncalls => out[i] # <<>> \/ \E t \in Executing : threads[t].index = i
       /\ pc = "exit" /\ i <= ncalls => out[i] # <<>>
  /\ pc \notin Over => \A t \in Executing : out[threads[t].index] = <<>>
  /\ \A t, u \in Executing : threads[t].index = threads[u].index => t = u

ExecInv ==
  /\ RunningExact
  /\ DOMAIN work = Threads /\ \A t \in Threads : "at" \in DOMAIN work[t]
  /\ ThreadsAgree /\ MainAgrees /\ OutputAgrees

\* As long as no two BPF calls overlap, an object has at most one record, with
\* the verdict of its one real load and only that load's warnings: loading it
\* again is never counted as a rejection.
RecordedOnce ==
  ~overlap =>
    \A r \in stats :
      /\ \A s \in stats : s.obj = r.obj => s = r
      /\ r.ok <=> objs[r.obj].load = "accepted"
      /\ \A i \in DOMAIN r.log : r.log[i].by = r.by

\* With threads the process gets to its end even if every call blocks for ever:
\* it does not need the watchdog.
ProgramEnds == threaded => <>(pc \in Over)

\* "low 24 bits of getpid() -- distinct per concurrent proc": no other proc's
\* live scheduler has the name this process gave an object it has loaded.
NamesUnique == \A o \in DOMAIN objs : objs[o].blob \notin others

-----------------------------------------------------------------------------
(***************************************************************************)
(* The inductive invariant behind SelectedRegistered and RecordedOnce.     *)
(***************************************************************************)

\* The places of a BPF call that has an object in hand.
Holding == {"store", "patch", "stash", "reset", "load", "record", "mark", "attach", "select"}

BpfTypes ==
  /\ work \in [Threads -> [at : Holding \cup {"idle", "call", "return"}, obj : Nat,
                           name : Names, slot : Nat, ok : BOOLEAN]]
  /\ objs \in Seq([file : Files, load : {"none", "accepted", "rejected"},
                   blob : Names \ {NoName}])
  /\ bpf \in [list : [Slots -> Nat], names : [Slots -> Names], recorded : [Slots -> BOOLEAN],
              counter : Nat, accum : Seq([by : Nat, kind : Kinds])]
  /\ pid \in Pids
  /\ TablesOK

Patched(o) == objs[o].blob # MapName(o)

\* What holds however calls overlap: only a BPF call has an object in hand, the
\* compiled-in name of a struct_ops object is replaced before the object is
\* loaded and never comes back, and only accepted struct_ops objects get
\* registered.
CallHolds(t) ==
  /\ work[t].at \in Holding => work[t].obj # 0 /\ ~Is(t, "other")
  /\ work[t].at = "store" => work[t].slot # 0
  /\ work[t].at \in Holding \ {"store", "load"} => IsStructOps(work[t].obj)
  /\ work[t].at = "patch" => work[t].name \in Pids \X Nat
  /\ work[t].at \in {"stash", "reset", "load", "record", "mark"} /\ IsStructOps(work[t].obj)
       => Patched(work[t].obj)
  /\ work[t].at \in {"record", "mark"} => objs[work[t].obj].load # "none"

ObjectsHold ==
  /\ \A o \in DOMAIN objs : IsStructOps(o) /\ objs[o].load # "none" => Patched(o)
  /\ \A o \in registered : IsStructOps(o) /\ objs[o].load = "accepted"

\* The rest holds as long as no two BPF calls overlap.  A slot has an object of
\* its own and the name that object was patched with, if it was, or the call
\* that patched it is about to stash the name.
SlotsAgree ==
  \A s \in Slots :
    IF bpf.list[s] = 0 THEN bpf.names[s] = NoName /\ ~bpf.recorded[s]
    ELSE /\ \A r \in Slots : bpf.list[r] = bpf.list[s] => r = s
         /\ \/ Patched(bpf.list[s]) /\ bpf.names[s] = objs[bpf.list[s]].blob
            \/ /\ bpf.names[s] = NoName
               /\ Patched(bpf.list[s]) =>
                    \E t \in Threads : /\ work[t].at = "stash" /\ work[t].obj = bpf.list[s]
                                       /\ work[t].name = objs[bpf.list[s]].blob

Marked(o) == \E s \in SlotOf(o) : bpf.recorded[s]

\* What a call knows of the object in its hand.
HeldAgrees(t) ==
  LET o == work[t].obj
  IN  /\ work[t].at = "store" => /\ bpf.list[work[t].slot] = 0 /\ SlotOf(o) = {}
                                 /\ ~Patched(o)
      /\ work[t].at \in Holding \ {"store"} => SlotOf(o) # {}
      /\ work[t].at = "stash" => work[t].name \in {NoName, objs[o].blob}
      /\ work[t].at \in {"attach", "select"} => work[t].name = objs[o].blob
      /\ work[t].at = "select" => o \in registered
      /\ work[t].at = "load" /\ IsStructOps(o) => bpf.accum = <<>>
      /\ work[t].at = "record" /\ ~Marked(o) =>
           /\ work[t].ok <=> objs[o].load = "accepted"
           /\ \A i \in DOMAIN bpf.accum : bpf.accum[i].by = threads[t].index

\* A struct_ops object that has been loaded is marked as recorded, or is about
\* to be; one with a record is marked, or the call that recorded it is at it.
MarksAgree ==
  /\ \A o \in DOMAIN objs : IsStructOps(o) /\ objs[o].load # "none" =>
       Marked(o) \/ \E t \in Threads : work[t].at \in {"record", "mark"} /\ work[t].obj = o
  /\ \A r \in stats : /\ r.obj \in DOMAIN objs /\ objs[r.obj].load # "none"
                      /\ IsStructOps(r.obj)
                      /\ Marked(r.obj) \/ \E t \in Threads : /\ work[t].at = "mark"
                                                             /\ work[t].obj = r.obj

AloneInv ==
  /\ \A t, u \in InBpfCall : t = u
  /\ SlotsAgree
  /\ \A t \in Threads : HeldAgrees(t)
  /\ MarksAgree

BpfInv ==
  /\ ExecInv /\ BpfTypes /\ ObjectsHold
  /\ \A t \in Threads : CallHolds(t)
  /\ ~overlap => AloneInv
  /\ SelectedRegistered /\ RecordedOnce
=============================================================================
