------------------------- MODULE BrfExecutorProofs --------------------------
(***************************************************************************)
(* Proofs about BrfExecutor: for any number of threads and calls, any      *)
(* program and whatever libbpf and the kernel do, the accounting of calls  *)
(* is exact and each call is reported once; and as long as no two BPF      *)
(* calls overlap, each object has at most one record, of its own load, and *)
(* what attach selects is the scheduler it registered.                     *)
(***************************************************************************)
EXTENDS BrfExecutor, FiniteSetTheorems, WellFoundedInduction, TLAPS

Outputs == [finished : BOOLEAN, blocked : BOOLEAN]

\* The larger of two numbers.
LEMMA MaxOfTwo ==
  ASSUME NEW x \in Nat, NEW y \in Nat
  PROVE  Max({x, y}) \in Nat /\ Max({x, y}) >= x /\ Max({x, y}) >= y
PROOF
  <1>1. \E v \in {x, y} : \A w \in {x, y} : v >= w
    OBVIOUS
  <1>2. Max({x, y}) \in {x, y} /\ \A w \in {x, y} : Max({x, y}) >= w
    BY <1>1 DEF Max
  <1> QED
    BY <1>2

\* Two facts of arithmetic.
LEMMA PositiveUpTo ==
  ASSUME NEW n \in Nat, NEW k \in 1 .. n
  PROVE  k # 0 /\ k <= n /\ ~(k > n)
PROOF
  OBVIOUS

LEMMA OneLess ==
  ASSUME NEW n \in Nat
  PROVE  n - 1 \in Int
PROOF
  OBVIOUS

\* The indices of out[] are positive and cover every call of a program.
LEMMA IndicesCover ==
  /\ Indices \subseteq Nat \ {0}
  /\ \A b \in BOOLEAN : MaxCalls[b] \in Nat /\ 1 .. MaxCalls[b] \subseteq Indices
PROOF
  <1>1. PICK x \in Nat, y \in Nat : x = MaxCalls[TRUE] /\ y = MaxCalls[FALSE]
    BY ExecutorAssumption
  <1>2. PICK m \in Nat : m >= x /\ m >= y /\ Indices = 1 .. m
    <2>1. Indices = 1 .. Max({x, y})
      BY <1>1 DEF Indices
    <2> QED BY <2>1, MaxOfTwo
  <1>3. Indices \subseteq Nat \ {0} /\ 1 .. x \subseteq Indices /\ 1 .. y \subseteq Indices
    BY <1>2
  <1>4. \A b \in BOOLEAN : MaxCalls[b] \in {x, y}
    BY <1>1
  <1> QED
    BY <1>3, <1>4

\* Calls are counted by numbers.
LEMMA CallsCounted ==
  ASSUME TypeOK
  PROVE  /\ ncalls \in Nat /\ MaxCalls[threaded] \in Nat
         /\ 1 .. MaxCalls[threaded] \subseteq Indices
PROOF
  <1>1. threaded \in BOOLEAN /\ ncalls \in 0 .. MaxCalls[threaded]
    BY DEF TypeOK
  <1>2. MaxCalls[threaded] \in Nat /\ 1 .. MaxCalls[threaded] \subseteq Indices
    BY <1>1, IndicesCover
  <1>3. PICK m \in Nat : m = MaxCalls[threaded]
    BY <1>2
  <1>4. ncalls \in Nat
    BY <1>1, <1>3
  <1> QED
    BY <1>2, <1>4

\* A sequence of one record.
LEMMA SingletonSeq ==
  ASSUME NEW S, NEW q \in S
  PROVE  Append(<<>>, q) = <<q>> /\ <<q>> \in Seq(S) /\ <<q>> # <<>>
PROOF
  OBVIOUS

\* What a call that has not been reported gets is one record.
LEMMA WrittenOnce ==
  ASSUME NEW t, NEW f \in BOOLEAN, out[threads[t].index] = <<>>
  PROVE  \E r \in Outputs : Written(t, f) = <<r>> /\ r.finished = f
PROOF
  <1> DEFINE r == [finished |-> f, blocked |-> f /\ t # last_scheduled]
  <1>1. r \in Outputs /\ r.finished = f
    BY DEF Outputs
  <1>2. Written(t, f) = Append(<<>>, r)
    BY DEF Written
  <1> HIDE DEF r
  <1>3. Append(<<>>, r) = <<r>>
    BY <1>1, SingletonSeq
  <1> QED
    BY <1>1, <1>2, <1>3

\* The threads that execute a call are finitely many, at most all of them.
LEMMA ExecutingFinite ==
  /\ IsFiniteSet(Executing) /\ Cardinality(Executing) \in Nat
PROOF
  <1>1. IsFiniteSet(Threads)
    BY ExecutorAssumption, FS_Interval DEF Threads
  <1>2. IsFiniteSet(Executing)
    BY <1>1, FS_Subset DEF Executing
  <1> QED
    BY <1>2, FS_CardinalityType

\* The initial state.
LEMMA ExecInit == Init => ExecInv
PROOF
  <1> SUFFICES ASSUME Init PROVE ExecInv
    OBVIOUS
  <1>1. Other \in Calls
    BY DEF Calls
  <1>2. Executing = {}
    BY DEF Init, Executing
  <1>3. TypeOK
    BY <1>1, IndicesCover, ExecutorAssumption DEF Init, TypeOK, Threads, Over
  <1>4. running = Cardinality(Executing)
    BY <1>2, FS_EmptySet DEF Init
  <1>5. pc \notin {"bad thread state", "negative running"}
    BY DEF Init
  <1>6. DOMAIN work = Threads /\ \A t \in Threads : "at" \in DOMAIN work[t]
    BY DEF Init, Idle
  <1>7. ThreadsAgree
    BY DEF Init, ThreadsAgree, Idle
  <1>8. MainAgrees
    BY DEF Init, MainAgrees
  <1>9. OutputAgrees
    BY <1>2, IndicesCover DEF Init, OutputAgrees, Over
  <1> QED
    BY <1>3, <1>4, <1>5, <1>6, <1>7, <1>8, <1>9 DEF ExecInv, RunningExact

\* Completing the call of an executing thread that is done fails none of the
\* checks, takes one from the counter and reports the call for the first time.
LEMMA CompletionKeeps ==
  ASSUME ExecInv, pc \notin Over,
         NEW t \in Threads, threads[t].executing, threads[t].done,
         NEW at \in {"next", "schedule", "sweep", "tail sweep"},
         at = "schedule" => ncalls < MaxCalls[threaded],
         handle_completion(t, at),
         scan' \in 1 .. kMaxThreads + 1,
         UNCHANGED <<threaded, ncalls, last_scheduled, returned, work>>
  PROVE  ExecInv'
PROOF
  <1>1. /\ TypeOK /\ running = Cardinality(Executing) /\ ThreadsAgree /\ OutputAgrees
        /\ t \in Executing
    BY DEF ExecInv, RunningExact, Executing
  <1>2. /\ ~threads[t].ready
        /\ threads[t].index \in 1 .. ncalls /\ threads[t].index \in returned
        /\ out[threads[t].index] = <<>>
    BY <1>1 DEF ThreadsAgree, OutputAgrees
  <1>3. PICK i \in Indices : /\ i = threads[t].index /\ out[i] = <<>> /\ i \in returned
                             /\ i <= ncalls /\ ~(i > ncalls) /\ ncalls \in Nat
    <2>1. threads[t].index \in {0} \cup Indices
      BY <1>1 DEF TypeOK
    <2>2. ncalls \in Nat
      BY <1>1, CallsCounted
    <2>3. PICK i : i = threads[t].index
      OBVIOUS
    <2>4. i \in 1 .. ncalls /\ i \in {0} \cup Indices
      BY <1>2, <2>1, <2>3
    <2>5. i \in Indices /\ i <= ncalls /\ ~(i > ncalls)
      BY <2>2, <2>4, PositiveUpTo
    <2> QED BY <1>2, <2>2, <2>3, <2>5
  <1>4. /\ threads' = [threads EXCEPT ![t] = Complete(@)]
        /\ out' = [out EXCEPT ![i] = Written(t, TRUE)]
        /\ running' = running - 1
        /\ pc' = IF running = 0 THEN "negative running" ELSE at
    BY <1>2, <1>3 DEF handle_completion
  <1>5. PICK r \in Outputs : Written(t, TRUE) = <<r>> /\ r.finished = TRUE
    BY <1>3, WrittenOnce
  <1>6. Executing' = Executing \ {t}
    BY <1>1, <1>4 DEF Executing, Complete, TypeOK
  <1>7. /\ Cardinality(Executing') = Cardinality(Executing) - 1
        /\ running # 0
    <2>1. Cardinality(Executing \ {t}) = Cardinality(Executing) - 1
      BY <1>1, ExecutingFinite, FS_RemoveElement
    <2>2. Cardinality(Executing) # 0
      BY <1>1, ExecutingFinite, FS_EmptySet
    <2> QED BY <1>1, <1>6, <2>1, <2>2
  <1>8. pc' = at
    BY <1>4, <1>7
  <1>9. /\ threads' \in [Threads -> [created : BOOLEAN, executing : BOOLEAN, ready : BOOLEAN,
                                    done : BOOLEAN, index : {0} \cup Indices, call : Calls]]
        /\ \A u \in Threads :
             /\ threads'[u].created = threads[u].created
             /\ threads'[u].ready = threads[u].ready
             /\ threads'[u].done = threads[u].done
             /\ threads'[u].index = threads[u].index
             /\ threads'[u].executing = (u # t /\ threads[u].executing)
    BY <1>1, <1>4 DEF Complete, TypeOK
  <1>10. out' \in [Indices -> Seq(Outputs)]
    <2>1. <<r>> \in Seq(Outputs)
      BY SingletonSeq
    <2>2. out \in [Indices -> Seq(Outputs)]
      BY <1>1 DEF TypeOK, Outputs
    <2>3. out' = [out EXCEPT ![i] = <<r>>]
      BY <1>4, <1>5
    <2> QED BY <1>3, <2>1, <2>2, <2>3
  <1>11. TypeOK'
    <2>1. running' = Cardinality(Executing) - 1 /\ Cardinality(Executing) \in Nat
      BY <1>1, <1>4, ExecutingFinite
    <2>2. running' \in Int
      BY <2>1, OneLess
    <2> QED BY <1>1, <1>8, <1>9, <1>10, <2>2 DEF TypeOK, Over, Outputs
  <1>12. RunningExact'
    BY <1>1, <1>4, <1>7, <1>8, <1>11 DEF RunningExact
  <1>13. ThreadsAgree'
    <2> SUFFICES ASSUME NEW u \in Threads
                 PROVE  /\ threads'[u].executing => threads'[u].created
                                                    /\ threads'[u].index \in 1 .. ncalls
                        /\ threads'[u].ready => threads'[u].executing /\ ~threads'[u].done
                                                /\ work[u].at = "idle"
                        /\ work[u].at # "idle" => threads'[u].executing /\ ~threads'[u].ready
                                                  /\ ~threads'[u].done
                        /\ threads'[u].executing /\ threads'[u].done
                             => threads'[u].index \in returned
      BY DEF ThreadsAgree
    <2> QED BY <1>1, <1>9, <1>2 DEF ThreadsAgree
  <1>14. MainAgrees'
    BY <1>8 DEF MainAgrees
  <1>15. OutputAgrees'
    <2>1. \A j \in Indices : out'[j] = IF j = i THEN <<r>> ELSE out[j]
      BY <1>1, <1>4, <1>5 DEF TypeOK
    <2>2. \A j \in Indices : j > ncalls => out'[j] = <<>>
      <3>1. \A j \in Indices : j > ncalls => out[j] = <<>>
        BY <1>1 DEF OutputAgrees
      <3> QED BY <1>3, <2>1, <3>1
    <2>3. \A j \in Indices : out'[j] = <<>> \/ \E q \in [finished : BOOLEAN, blocked : BOOLEAN] :
                                out'[j] = <<q>> /\ (q.finished => j \in returned)
      <3> SUFFICES ASSUME NEW j \in Indices
                   PROVE  out'[j] = <<>> \/ \E q \in [finished : BOOLEAN, blocked : BOOLEAN] :
                            out'[j] = <<q>> /\ (q.finished => j \in returned)
        OBVIOUS
      <3>1. CASE j = i
        <4>1. out'[j] = <<r>> /\ j \in returned
          BY <1>3, <2>1, <3>1
        <4> QED BY <4>1 DEF Outputs
      <3>2. CASE j # i
        <4>1. out'[j] = out[j]
          BY <2>1, <3>2
        <4> QED BY <1>1, <4>1 DEF OutputAgrees
      <3> QED BY <3>1, <3>2
    <2>4. \A j \in Indices : j <= ncalls =>
            out'[j] # <<>> \/ \E u \in Executing' : threads'[u].index = j
      <3> SUFFICES ASSUME NEW j \in Indices, j <= ncalls, j # i, out[j] = <<>>
                   PROVE  \E u \in Executing' : threads'[u].index = j
        <4>1. <<r>> # <<>>
          BY SingletonSeq
        <4> QED BY <2>1, <4>1
      <3>1. PICK u \in Executing : threads[u].index = j
        BY <1>1 DEF OutputAgrees
      <3>2. u \in Executing' /\ threads'[u].index = j
        BY <1>3, <1>6, <1>9, <3>1 DEF Executing
      <3> QED BY <3>2
    <2>5. \A u \in Executing' : out'[threads'[u].index] = <<>>
      <3> SUFFICES ASSUME NEW u \in Executing' PROVE out'[threads'[u].index] = <<>>
        OBVIOUS
      <3>1. u \in Executing /\ u # t /\ u \in Threads
        BY <1>6 DEF Executing
      <3>2. threads'[u].index = threads[u].index /\ threads[u].index # i
        BY <1>1, <1>3, <1>9, <3>1 DEF OutputAgrees
      <3>3. threads[u].index \in Indices
        <4>1. threads[u].index \in {0} \cup Indices
          BY <1>1, <3>1 DEF TypeOK
        <4>2. threads[u].index \in 1 .. ncalls
          BY <1>1, <3>1 DEF ThreadsAgree, Executing
        <4>3. PICK k : k = threads[u].index
          OBVIOUS
        <4>4. k \in {0} \cup Indices /\ k \in 1 .. ncalls
          BY <4>1, <4>2, <4>3
        <4>5. k \in Indices
          BY <1>3, <4>4, PositiveUpTo
        <4> QED BY <4>3, <4>5
      <3> QED BY <1>1, <2>1, <3>1, <3>2, <3>3 DEF OutputAgrees
    <2>6. \A u, v \in Executing' : threads'[u].index = threads'[v].index => u = v
      <3>1. \A u \in Executing' : u \in Executing /\ threads'[u].index = threads[u].index
        BY <1>6, <1>9 DEF Executing
      <3>2. \A u, v \in Executing : threads[u].index = threads[v].index => u = v
        BY <1>1 DEF OutputAgrees
      <3> QED BY <3>1, <3>2
    <2> QED BY <1>8, <2>2, <2>3, <2>4, <2>5, <2>6 DEF OutputAgrees
  <1> QED
    BY <1>12, <1>13, <1>14, <1>15 DEF ExecInv

\* A step of the main thread that only moves it to another place.
LEMMA MoveKeeps ==
  ASSUME ExecInv, pc \notin Over,
         pc' \in {"next", "schedule", "sweep", "tail", "tail sweep", "exit", "out of threads"},
         pc' = "schedule" => ncalls < MaxCalls[threaded],
         pc' = "exit" => running = 0,
         scan' \in 1 .. kMaxThreads + 1, last_scheduled' \in 0 .. kMaxThreads,
         UNCHANGED <<threaded, ncalls, running, threads, out, returned, work>>
  PROVE  ExecInv'
PROOF
  <1>1. RunningExact'
    BY DEF ExecInv, RunningExact, TypeOK, Executing, Over
  <1>2. ThreadsAgree'
    BY DEF ExecInv, ThreadsAgree
  <1>3. MainAgrees'
    BY DEF MainAgrees
  <1>4. pc' = "exit" => Executing = {}
    BY ExecutingFinite, FS_EmptySet DEF ExecInv, RunningExact
  <1>5. Executing' = Executing
    BY DEF Executing
  <1>6. OutputAgrees'
    <2>1. OutputAgrees
      BY DEF ExecInv
    <2> QED BY <1>4, <1>5, <2>1 DEF OutputAgrees
  <1> QED
    BY <1>1, <1>2, <1>3, <1>6 DEF ExecInv

\* A step within a call.
LEMMA CallStepKeeps ==
  ASSUME ExecInv,
         UNCHANGED <<mainVars, returned>>,
         DOMAIN work' = Threads,
         \A u \in Threads : /\ "at" \in DOMAIN work'[u]
                            /\ work'[u].at = "idle" <=> work[u].at = "idle"
  PROVE  ExecInv'
PROOF
  <1> USE DEF mainVars
  <1>1. Executing' = Executing
    BY DEF Executing
  <1>2. RunningExact'
    BY <1>1 DEF ExecInv, RunningExact, TypeOK
  <1>3. ThreadsAgree'
    BY DEF ExecInv, ThreadsAgree
  <1>4. MainAgrees' /\ OutputAgrees'
    BY <1>1 DEF ExecInv, MainAgrees, OutputAgrees
  <1> QED
    BY <1>2, <1>3, <1>4 DEF ExecInv

\* Steps that leave what is executing and reported alone leave the outputs alone.
LEMMA SameOutput ==
  ASSUME OutputAgrees, UNCHANGED <<pc, ncalls, out>>, Executing' = Executing,
         returned \subseteq returned',
         \A u \in Executing : threads'[u].index = threads[u].index
  PROVE  OutputAgrees'
PROOF
  <1>1. \A u, v \in Executing : threads'[u].index = threads'[v].index => u = v
    BY DEF OutputAgrees
  <1>2. pc \notin Over => \A u \in Executing : out[threads'[u].index] = <<>>
    BY DEF OutputAgrees
  <1>3. \A j \in Indices :
          /\ j > ncalls => out[j] = <<>>
          /\ out[j] = <<>> \/ \E q \in [finished : BOOLEAN, blocked : BOOLEAN] :
                                out[j] = <<q>> /\ (q.finished => j \in returned')
          /\ j <= ncalls => out[j] # <<>> \/ \E u \in Executing : threads'[u].index = j
          /\ pc = "exit" /\ j <= ncalls => out[j] # <<>>
    BY DEF OutputAgrees
  <1> QED
    BY <1>1, <1>2, <1>3 DEF OutputAgrees

\* The look at one thread: it is created, passed over, or its call completed.
LEMMA ScanThreadKeeps ==
  ASSUME ExecInv, ScanThread, UNCHANGED <<returned, work>>
  PROVE  ExecInv'
PROOF
  <1>1. /\ TypeOK /\ ThreadsAgree /\ MainAgrees /\ OutputAgrees /\ RunningExact
        /\ pc = "schedule" /\ scan \in Threads /\ pc \notin Over
        /\ ncalls < MaxCalls[threaded]
        /\ UNCHANGED <<threaded, ncalls, last_scheduled>>
    BY DEF ExecInv, RunningExact, ScanThread, TypeOK, Threads, Over, MainAgrees
  <1>2. CASE /\ ~threads[scan].created
             /\ threads' = [threads EXCEPT ![scan].created = TRUE, ![scan].done = TRUE]
             /\ UNCHANGED <<pc, scan, running, out>>
    <2>1. /\ threads' \in [Threads -> [created : BOOLEAN, executing : BOOLEAN, ready : BOOLEAN,
                                       done : BOOLEAN, index : {0} \cup Indices, call : Calls]]
          /\ \A u \in Threads :
               /\ threads'[u].executing = threads[u].executing
               /\ threads'[u].ready = threads[u].ready
               /\ threads'[u].index = threads[u].index
               /\ u # scan => threads'[u] = threads[u]
          /\ threads'[scan].created
      BY <1>1, <1>2 DEF TypeOK
    <2>2. Executing' = Executing
      BY <2>1 DEF Executing
    <2>3. ~threads[scan].executing /\ ~threads[scan].ready /\ work[scan].at = "idle"
      BY <1>1, <1>2 DEF ThreadsAgree
    <2>4. RunningExact'
      BY <1>1, <1>2, <2>1, <2>2 DEF RunningExact, TypeOK
    <2>5. ThreadsAgree'
      <3> SUFFICES ASSUME NEW u \in Threads
                   PROVE  /\ threads'[u].executing => threads'[u].created
                                                      /\ threads'[u].index \in 1 .. ncalls
                          /\ threads'[u].ready => threads'[u].executing /\ ~threads'[u].done
                                                  /\ work[u].at = "idle"
                          /\ work[u].at # "idle" => threads'[u].executing /\ ~threads'[u].ready
                                                    /\ ~threads'[u].done
                          /\ threads'[u].executing /\ threads'[u].done
                               => threads'[u].index \in returned
        BY <1>1 DEF ThreadsAgree
      <3> QED BY <1>1, <2>1, <2>3 DEF ThreadsAgree
    <2>6. MainAgrees' /\ OutputAgrees'
      <3>1. \A u \in Executing : threads'[u].index = threads[u].index
        BY <2>1 DEF Executing
      <3> QED BY <1>1, <1>2, <2>2, <3>1, SameOutput DEF MainAgrees
    <2> QED BY <2>4, <2>5, <2>6 DEF ExecInv
  <1>3. CASE scan' = scan + 1 /\ UNCHANGED <<pc, threads, running, out>>
    BY <1>1, <1>3, MoveKeeps, ExecutorAssumption DEF Threads, TypeOK
  <1>4. CASE /\ threads[scan].done /\ threads[scan].executing
             /\ handle_completion(scan, "schedule") /\ UNCHANGED scan
    BY <1>1, <1>4, CompletionKeeps, ExecutorAssumption DEF TypeOK
  <1> QED
    BY <1>2, <1>3, <1>4 DEF ScanThread

\* The thread found gets the call: one more is running, and it is new.
LEMMA ScheduleCallKeeps ==
  ASSUME ExecInv, NEW call \in Programs[threaded], NEW async \in BOOLEAN,
         ScheduleCall(call, async), UNCHANGED <<returned, work>>
  PROVE  ExecInv'
PROOF
  <1>1. /\ TypeOK /\ ThreadsAgree /\ MainAgrees /\ OutputAgrees
        /\ running = Cardinality(Executing)
        /\ pc = "schedule" /\ scan \in Threads /\ pc \notin Over
        /\ ncalls \in Nat /\ ncalls < MaxCalls[threaded]
        /\ threads[scan].done /\ ~threads[scan].executing /\ ~threads[scan].ready
        /\ work[scan].at = "idle"
    <2>1. pc = "schedule" /\ scan <= kMaxThreads
          /\ threads[scan].done /\ ~threads[scan].executing
      BY DEF ScheduleCall
    <2>2. scan \in Threads
      BY <2>1, ExecutorAssumption DEF ExecInv, RunningExact, TypeOK, Threads
    <2> QED BY <2>1, <2>2, CallsCounted
            DEF ExecInv, RunningExact, ThreadsAgree, MainAgrees, Over, TypeOK
  <1>2. /\ ncalls' = ncalls + 1 /\ running' = running + 1 /\ last_scheduled' = scan
        /\ threads' = [threads EXCEPT ![scan] = [created |-> TRUE, executing |-> TRUE,
                         ready |-> TRUE, done |-> FALSE, index |-> ncalls + 1, call |-> call]]
        /\ pc' \in {"next", "wait", "direct"}
        /\ scan' = 1 /\ UNCHANGED <<threaded, out>>
    BY <1>1 DEF ScheduleCall
  <1>3. /\ threaded \in BOOLEAN /\ call \in Calls
        /\ ncalls + 1 \in Indices /\ ncalls + 1 \in 0 .. MaxCalls[threaded]
    BY <1>1, CallsCounted, ExecutorAssumption DEF TypeOK
  <1>4. /\ threads' \in [Threads -> [created : BOOLEAN, executing : BOOLEAN, ready : BOOLEAN,
                                     done : BOOLEAN, index : {0} \cup Indices, call : Calls]]
        /\ \A u \in Threads : u # scan => threads'[u] = threads[u]
        /\ threads'[scan].created /\ threads'[scan].executing /\ threads'[scan].ready
        /\ ~threads'[scan].done /\ threads'[scan].index = ncalls + 1
    BY <1>1, <1>2, <1>3 DEF TypeOK
  <1>5. Executing' = Executing \cup {scan} /\ scan \notin Executing
    BY <1>1, <1>4 DEF Executing
  <1>6. Cardinality(Executing') = Cardinality(Executing) + 1
    BY <1>5, ExecutingFinite, FS_AddElement
  <1>7. RunningExact'
    <2>1. running' \in Int
      BY <1>1, <1>2, ExecutingFinite
    <2>2. scan' \in 1 .. kMaxThreads + 1 /\ last_scheduled' \in 0 .. kMaxThreads
      BY <1>1, <1>2, ExecutorAssumption DEF Threads
    <2>3. ncalls' \in 0 .. MaxCalls[threaded]'
      BY <1>2, <1>3
    <2>4. TypeOK'
      BY <1>1, <1>2, <1>4, <2>1, <2>2, <2>3 DEF TypeOK
    <2> QED BY <1>1, <1>2, <1>6, <2>4 DEF RunningExact
  <1>8. ThreadsAgree'
    <2> SUFFICES ASSUME NEW u \in Threads
                 PROVE  /\ threads'[u].executing => threads'[u].created
                                                    /\ threads'[u].index \in 1 .. ncalls + 1
                        /\ threads'[u].ready => threads'[u].executing /\ ~threads'[u].done
                                                /\ work[u].at = "idle"
                        /\ work[u].at # "idle" => threads'[u].executing /\ ~threads'[u].ready
                                                  /\ ~threads'[u].done
                        /\ threads'[u].executing /\ threads'[u].done
                             => threads'[u].index \in returned
      BY <1>2 DEF ThreadsAgree
    <2>1. CASE u = scan
      BY <1>1, <1>4, <2>1
    <2>2. CASE u # scan
      BY <1>1, <1>4, <2>2 DEF ThreadsAgree, TypeOK
    <2> QED BY <2>1, <2>2
  <1>9. MainAgrees'
    BY <1>2, <1>5 DEF MainAgrees
  <1>10. OutputAgrees'
    <2>1. \A u \in Executing : /\ threads'[u].index = threads[u].index
                               /\ threads[u].index \in 1 .. ncalls
      BY <1>1, <1>4, <1>5 DEF Executing, ThreadsAgree
    <2>2. \A j \in Indices : j \in Nat
      BY IndicesCover
    <2>3. \A j \in Indices : j <= ncalls + 1 =>
            out[j] # <<>> \/ \E u \in Executing' : threads'[u].index = j
      <3> SUFFICES ASSUME NEW j \in Indices, j <= ncalls + 1, out[j] = <<>>
                   PROVE  \E u \in Executing' : threads'[u].index = j
        OBVIOUS
      <3>1. CASE j <= ncalls
        BY <1>1, <1>5, <2>1, <3>1 DEF OutputAgrees
      <3>2. CASE j = ncalls + 1
        BY <1>4, <1>5, <3>2
      <3> QED BY <1>1, <2>2, <3>1, <3>2
    <2>4. \A u \in Executing' : out[threads'[u].index] = <<>>
      <3>1. out[ncalls + 1] = <<>>
        BY <1>1, <1>3 DEF OutputAgrees
      <3>2. \A u \in Executing : out[threads[u].index] = <<>>
        BY <1>1 DEF OutputAgrees
      <3> QED BY <1>4, <1>5, <2>1, <3>1, <3>2
    <2>5. \A u, v \in Executing' : threads'[u].index = threads'[v].index => u = v
      <3>1. \A u \in Executing : threads'[u].index # ncalls + 1
        BY <1>1, <2>1
      <3>2. \A u, v \in Executing : threads'[u].index = threads'[v].index => u = v
        BY <1>1, <2>1 DEF OutputAgrees
      <3> QED BY <1>4, <1>5, <3>1, <3>2
    <2>6. \A j \in Indices :
            /\ j > ncalls + 1 => out[j] = <<>>
            /\ out[j] = <<>> \/ \E r \in [finished : BOOLEAN, blocked : BOOLEAN] :
                                  out[j] = <<r>> /\ (r.finished => j \in returned)
      BY <1>1, <2>2 DEF OutputAgrees
    <2> QED BY <1>2, <2>3, <2>4, <2>5, <2>6 DEF OutputAgrees
  <1> QED
    BY <1>7, <1>8, <1>9, <1>10 DEF ExecInv

\* wait_end has passed: exactly the executing threads' calls are reported now.
LEMMA TailDeadlineKeeps ==
  ASSUME ExecInv, TailDeadline, UNCHANGED <<returned, work>>
  PROVE  ExecInv'
PROOF
  <1> DEFINE ts(i) == {t \in Threads : threads[t].executing /\ threads[t].index = i}
  <1>1. /\ TypeOK /\ RunningExact /\ ThreadsAgree /\ OutputAgrees /\ pc \notin Over
        /\ pc' = "exit"
        /\ UNCHANGED <<threaded, scan, ncalls, running, last_scheduled, threads>>
        /\ out' = [i \in Indices |-> IF ts(i) = {} THEN out[i]
                                     ELSE Written(CHOOSE t \in ts(i) : TRUE, FALSE)]
    BY DEF ExecInv, RunningExact, TailDeadline, Over
  <1>2. ASSUME NEW i \in Indices, ts(i) = {}
        PROVE  out'[i] = out[i] /\ ~ \E t \in Executing : threads[t].index = i
    BY <1>1, <1>2 DEF Executing
  <1>3. ASSUME NEW i \in Indices, ts(i) # {}
        PROVE  /\ i \in 1 .. ncalls
               /\ \E r \in Outputs : out'[i] = <<r>> /\ ~r.finished
    <2> DEFINE c == CHOOSE t \in ts(i) : TRUE
    <2>1. c \in ts(i)
      BY <1>3
    <2> HIDE DEF c
    <2>2. c \in Executing /\ threads[c].index = i
      BY <2>1 DEF Executing
    <2>3. out[threads[c].index] = <<>> /\ threads[c].index \in 1 .. ncalls
      BY <1>1, <2>2 DEF OutputAgrees, ThreadsAgree, Executing
    <2>4. out'[i] = Written(c, FALSE)
      BY <1>1, <1>3 DEF c
    <2> QED BY <2>2, <2>3, <2>4, WrittenOnce
  <1> HIDE DEF ts
  <1>4. Executing' = Executing
    BY <1>1 DEF Executing
  <1>5. RunningExact'
    <2>1. out' \in [Indices -> Seq(Outputs)]
      <3>1. ASSUME NEW i \in Indices PROVE out'[i] \in Seq(Outputs)
        <4>1. out \in [Indices -> Seq(Outputs)]
          BY <1>1 DEF TypeOK, Outputs
        <4>2. CASE ts(i) = {}
          BY <1>2, <4>1, <4>2
        <4>3. CASE ts(i) # {}
          BY <1>3, <4>3, SingletonSeq
        <4> QED BY <4>2, <4>3
      <3>2. out' = [i \in Indices |-> out'[i]]
        BY <1>1
      <3> QED BY <3>1, <3>2
    <2>2. TypeOK'
      BY <1>1, <2>1 DEF TypeOK, Over, Outputs
    <2> QED BY <1>1, <1>4, <2>2 DEF RunningExact
  <1>6. ThreadsAgree' /\ MainAgrees'
    BY <1>1 DEF ThreadsAgree, MainAgrees
  <1>7. OutputAgrees'
    <2>1. ASSUME NEW i \in Indices
          PROVE  /\ i > ncalls => out'[i] = <<>>
                 /\ out'[i] = <<>> \/ \E r \in [finished : BOOLEAN, blocked : BOOLEAN] :
                                        out'[i] = <<r>> /\ (r.finished => i \in returned)
                 /\ i <= ncalls => out'[i] # <<>>
      <3>1. CASE ts(i) = {}
        BY <1>1, <1>2, <3>1 DEF OutputAgrees
      <3>2. CASE ts(i) # {}
        <4>1. ncalls \in Nat
          BY <1>1, CallsCounted
        <4>2. ~(i > ncalls)
          BY <1>3, <3>2, <4>1, PositiveUpTo
        <4>3. PICK r \in Outputs : out'[i] = <<r>> /\ ~r.finished
          BY <1>3, <3>2
        <4>4. out'[i] # <<>>
          BY <4>3, SingletonSeq
        <4> QED BY <4>2, <4>3, <4>4 DEF Outputs
      <3> QED BY <3>1, <3>2
    <2>2. \A t, u \in Executing : threads[t].index = threads[u].index => t = u
      BY <1>1 DEF OutputAgrees
    <2> QED BY <1>1, <1>4, <2>1, <2>2 DEF OutputAgrees, Over
  <1> QED
    BY <1>5, <1>6, <1>7 DEF ExecInv

\* Every step of the main thread.
LEMMA MainKeeps ==
  ASSUME ExecInv, Main
  PROVE  ExecInv'
PROOF
  <1>1. /\ TypeOK /\ MainAgrees /\ UNCHANGED <<returned, work>>
        /\ scan \in 1 .. kMaxThreads + 1 /\ 1 \in 1 .. kMaxThreads + 1
        /\ last_scheduled \in 0 .. kMaxThreads /\ 0 \in 0 .. kMaxThreads
    <2>1. 1 \in 1 .. kMaxThreads + 1 /\ 0 \in 0 .. kMaxThreads
      BY ExecutorAssumption
    <2> QED BY <2>1 DEF ExecInv, RunningExact, TypeOK, Main
  <1>2. scan <= kMaxThreads => scan \in Threads /\ scan + 1 \in 1 .. kMaxThreads + 1
    BY <1>1, ExecutorAssumption DEF Threads
  <1>3. running \in Nat
    BY ExecutingFinite DEF ExecInv, RunningExact
  <1>4. CASE NextCall
    BY <1>1, <1>4, MoveKeeps DEF NextCall, Over
  <1>5. CASE ScanThread
    BY <1>1, <1>5, ScanThreadKeeps
  <1>6. CASE OutOfThreads
    BY <1>1, <1>6, MoveKeeps DEF OutOfThreads, Over
  <1>7. CASE \E call \in Programs[threaded], async \in BOOLEAN : ScheduleCall(call, async)
    BY <1>1, <1>7, ScheduleCallKeeps
  <1>8. CASE WaitDone
    <2>1. last_scheduled \in Threads /\ threads[last_scheduled].executing
      BY <1>1, <1>8 DEF WaitDone, MainAgrees, Executing
    <2> QED BY <1>1, <1>8, <2>1, CompletionKeeps DEF WaitDone, Over
  <1>9. CASE WaitTimeout
    BY <1>1, <1>9, MoveKeeps DEF WaitTimeout, Over
  <1>10. CASE DirectDone
    <2>1. last_scheduled \in Threads /\ threads[last_scheduled].executing
      BY <1>1, <1>10 DEF DirectDone, MainAgrees, Executing
    <2> QED BY <1>1, <1>10, <2>1, CompletionKeeps DEF DirectDone, Over
  <1>11. CASE Sweep
    <2>1. /\ pc \in {"sweep", "tail sweep"} /\ pc \notin Over
          /\ scan \in Threads /\ scan' \in 1 .. kMaxThreads + 1
          /\ UNCHANGED <<threaded, ncalls, last_scheduled>>
      BY <1>2, <1>11 DEF Sweep, Over
    <2>2. CASE threads[scan].executing /\ threads[scan].done
      BY <1>1, <1>11, <2>1, <2>2, CompletionKeeps DEF Sweep
    <2>3. CASE ~(threads[scan].executing /\ threads[scan].done)
      BY <1>1, <1>11, <2>1, <2>3, MoveKeeps DEF Sweep
    <2> QED BY <2>2, <2>3
  <1>12. CASE SweepDone
    BY <1>1, <1>12, MoveKeeps DEF SweepDone, Over
  <1>13. CASE EndProgram
    <2>1. ~(running > 0) => running = 0
      BY <1>3
    <2> QED BY <1>1, <1>13, <2>1, MoveKeeps DEF EndProgram, Over
  <1>14. CASE TailSweep
    <2>1. ~(running > 0) => running = 0
      BY <1>3
    <2> QED BY <1>1, <1>14, <2>1, MoveKeeps DEF TailSweep, Over
  <1>15. CASE TailDeadline
    BY <1>1, <1>15, TailDeadlineKeeps
  <1> QED
    BY <1>4, <1>5, <1>6, <1>7, <1>8, <1>9, <1>10, <1>11, <1>12, <1>13, <1>14, <1>15 DEF Main

\* Thread t moves to a, with new values b and c of some of its locals.
Moves(t, a, b, c) ==
  \/ work' = [work EXCEPT ![t].at = a]
  \/ work' = [work EXCEPT ![t].at = a, ![t].obj = b]
  \/ work' = [work EXCEPT ![t].at = a, ![t].name = b]
  \/ work' = [work EXCEPT ![t].at = a, ![t].obj = b, ![t].slot = c]
  \/ work' = [work EXCEPT ![t].at = a, ![t].obj = b, ![t].name = c]
  \/ work' = [work EXCEPT ![t].ok = b, ![t].at = a]

\* What such a move leaves alone.
LEMMA MovesOne ==
  ASSUME DOMAIN work = Threads, NEW t \in Threads, "at" \in DOMAIN work[t],
         NEW a, NEW b, NEW c, Moves(t, a, b, c)
  PROVE  /\ DOMAIN work' = Threads
         /\ "at" \in DOMAIN work'[t] /\ work'[t].at = a
         /\ \A u \in Threads : u # t => work'[u] = work[u]
PROOF
  <1>1. CASE work' = [work EXCEPT ![t].at = a]
    BY <1>1
  <1>2. CASE work' = [work EXCEPT ![t].at = a, ![t].obj = b]
    BY <1>2
  <1>3. CASE work' = [work EXCEPT ![t].at = a, ![t].name = b]
    BY <1>3
  <1>4. CASE work' = [work EXCEPT ![t].at = a, ![t].obj = b, ![t].slot = c]
    BY <1>4
  <1>5. CASE work' = [work EXCEPT ![t].at = a, ![t].obj = b, ![t].name = c]
    BY <1>5
  <1>6. CASE work' = [work EXCEPT ![t].ok = b, ![t].at = a]
    BY <1>6
  <1> QED
    BY <1>1, <1>2, <1>3, <1>4, <1>5, <1>6 DEF Moves

\* A step of a call moves its thread to another place within the call.
LEMMA CallMoves ==
  ASSUME ExecInv, NEW t \in Threads,
         \/ OtherCall(t) \/ OpenObject(t) \/ StoreObject(t)
         \/ LoadFind(t) \/ PatchName(t) \/ StashName(t) \/ ResetAccum(t) \/ LoadObject(t)
         \/ RecordOutcome(t) \/ MarkRecorded(t)
         \/ AttachFind(t) \/ AttachMap(t) \/ Select(t)
  PROVE  /\ work[t].at # "idle"
         /\ DOMAIN work' = Threads
         /\ "at" \in DOMAIN work'[t] /\ work'[t].at # "idle"
         /\ \A u \in Threads : u # t => work'[u] = work[u]
PROOF
  <1>1. DOMAIN work = Threads /\ "at" \in DOMAIN work[t]
    BY SMTT(30) DEF ExecInv
  <1>2. work[t].at # "idle"
    BY DEF At, OtherCall, OpenObject, StoreObject, LoadFind, PatchName, StashName, ResetAccum, LoadObject,
           RecordOutcome, MarkRecorded, AttachFind, AttachMap, Select
  <1>3. \E a, b, c : a # "idle" /\ Moves(t, a, b, c)
    <2>1. CASE OtherCall(t)
      BY <2>1 DEF OtherCall, Goto, Moves
    <2>2. CASE OpenObject(t)
      <3>1. \/ work' = [work EXCEPT ![t].at = "return"]
            \/ work' = [work EXCEPT ![t].at = "store", ![t].obj = Len(objs) + 1,
                                       ![t].slot = Min({s \in Slots : bpf.list[s] = 0})]
        BY <2>2 DEF OpenObject, Goto
      <3>2. Moves(t, "return", 0, 0) \/ Moves(t, "store", Len(objs) + 1,
                                              Min({s \in Slots : bpf.list[s] = 0}))
        BY <3>1 DEF Moves
      <3> QED BY <3>2
    <2>3. CASE StoreObject(t)
      BY <2>3 DEF StoreObject, Goto, Moves
    <2>4. CASE LoadFind(t)
      <3>1. PICK obj \in find_bpf_object_by_basename(FileOf(t)) :
              \/ work' = [work EXCEPT ![t].at = "return"]
              \/ work' = [work EXCEPT ![t].at = "load", ![t].obj = obj]
              \/ work' = [work EXCEPT ![t].at = "patch", ![t].obj = obj,
                                     ![t].name = Tag(bpf.counter)]
        BY <2>4 DEF LoadFind, Goto
      <3>2. \/ Moves(t, "return", 0, 0) \/ Moves(t, "load", obj, 0)
            \/ Moves(t, "patch", obj, Tag(bpf.counter))
        BY <3>1, SMTT(30) DEF Moves
      <3> QED BY <3>2
    <2>5. CASE PatchName(t)
      BY <2>5 DEF PatchName, Goto, Moves
    <2>6. CASE StashName(t)
      BY <2>6 DEF StashName, Goto, Moves
    <2>6a. CASE ResetAccum(t)
      BY <2>6a DEF ResetAccum, Goto, Moves
    <2>7. CASE LoadObject(t)
      BY <2>7, ZenonT(60) DEF LoadObject, Goto, Moves
    <2>8. CASE RecordOutcome(t)
      BY <2>8 DEF RecordOutcome, Goto, Moves
    <2>9. CASE MarkRecorded(t)
      BY <2>9 DEF MarkRecorded, Goto, Moves
    <2>10. CASE AttachFind(t)
      <3> DEFINE stashed(obj) == {bpf.names[s] : s \in SlotOf(obj)} \ {NoName}
                 name(obj) == IF stashed(obj) = {} THEN MapName(obj)
                              ELSE CHOOSE n \in stashed(obj) : TRUE
      <3>1. PICK obj \in find_bpf_object_by_basename(FileOf(t)) :
              \/ work' = [work EXCEPT ![t].at = "return"]
              \/ work' = [work EXCEPT ![t].at = "attach", ![t].obj = obj, ![t].name = name(obj)]
        BY <2>10 DEF AttachFind, Goto
      <3> HIDE DEF name
      <3>2. Moves(t, "return", 0, 0) \/ Moves(t, "attach", obj, name(obj))
        BY <3>1 DEF Moves
      <3> QED BY <3>2
    <2>11. CASE AttachMap(t)
      BY <2>11 DEF AttachMap, Goto, Moves
    <2>12. CASE Select(t)
      BY <2>12 DEF Select, Goto, Moves
    <2> QED
      BY <2>1, <2>2, <2>3, <2>4, <2>5, <2>6, <2>6a, <2>7, <2>8, <2>9, <2>10, <2>11, <2>12
  <1> QED
    BY <1>1, <1>2, <1>3, MovesOne

\* A worker takes the call it was given.
LEMMA BeginKeeps ==
  ASSUME ExecInv, NEW t \in Threads, Begin(t)
  PROVE  ExecInv'
PROOF
  <1>1. /\ TypeOK /\ RunningExact /\ ThreadsAgree /\ MainAgrees /\ OutputAgrees
        /\ DOMAIN work = Threads /\ \A u \in Threads : "at" \in DOMAIN work[u]
    BY DEF ExecInv, RunningExact
  <1>2. /\ threads[t].ready /\ threads' = [threads EXCEPT ![t].ready = FALSE]
        /\ work' = [work EXCEPT ![t] = [Idle EXCEPT !.at = "call"]]
        /\ UNCHANGED <<threaded, pc, scan, ncalls, running, last_scheduled, out, returned>>
    BY DEF Begin
  <1>3. threads[t].executing /\ ~threads[t].done
    BY <1>1, <1>2 DEF ThreadsAgree
  <1>4. /\ threads' \in [Threads -> [created : BOOLEAN, executing : BOOLEAN, ready : BOOLEAN,
                                     done : BOOLEAN, index : {0} \cup Indices, call : Calls]]
        /\ \A u \in Threads :
             /\ threads'[u].executing = threads[u].executing
             /\ threads'[u].created = threads[u].created
             /\ threads'[u].index = threads[u].index
             /\ threads'[u].done = threads[u].done
             /\ threads'[u].ready = (u # t /\ threads[u].ready)
    BY <1>1, <1>2 DEF TypeOK
  <1>5. /\ DOMAIN work' = Threads
        /\ "at" \in DOMAIN work'[t] /\ work'[t].at = "call"
        /\ \A u \in Threads : u # t => work'[u] = work[u]
    BY <1>1, <1>2 DEF Idle
  <1>6. Executing' = Executing
    BY <1>4 DEF Executing
  <1>7. RunningExact'
    BY <1>1, <1>2, <1>4, <1>6 DEF RunningExact, TypeOK
  <1>8. ThreadsAgree'
    <2> SUFFICES ASSUME NEW u \in Threads
                 PROVE  /\ threads'[u].executing => threads'[u].created
                                                    /\ threads'[u].index \in 1 .. ncalls
                        /\ threads'[u].ready => threads'[u].executing /\ ~threads'[u].done
                                                /\ work'[u].at = "idle"
                        /\ work'[u].at # "idle" => threads'[u].executing /\ ~threads'[u].ready
                                                   /\ ~threads'[u].done
                        /\ threads'[u].executing /\ threads'[u].done
                             => threads'[u].index \in returned
      BY <1>2 DEF ThreadsAgree
    <2>1. CASE u = t
      BY <1>1, <1>3, <1>4, <2>1 DEF ThreadsAgree
    <2>2. CASE u # t
      BY <1>1, <1>4, <1>5, <2>2 DEF ThreadsAgree
    <2> QED BY <2>1, <2>2
  <1>9. MainAgrees' /\ OutputAgrees'
    <2>1. \A u \in Executing : threads'[u].index = threads[u].index
      BY <1>4 DEF Executing
    <2> QED BY <1>1, <1>2, <1>6, <2>1, SameOutput DEF MainAgrees
  <1> QED
    BY <1>1, <1>5, <1>7, <1>8, <1>9 DEF ExecInv

\* execute_call returns.
LEMMA ReturnKeeps ==
  ASSUME ExecInv, NEW t \in Threads, Return(t)
  PROVE  ExecInv'
PROOF
  <1>1. /\ TypeOK /\ RunningExact /\ ThreadsAgree /\ MainAgrees /\ OutputAgrees
        /\ DOMAIN work = Threads /\ \A u \in Threads : "at" \in DOMAIN work[u]
    BY DEF ExecInv, RunningExact
  <1>2. /\ work[t].at # "idle" /\ threads' = [threads EXCEPT ![t].done = TRUE]
        /\ returned' = returned \cup {threads[t].index}
        /\ work' = [work EXCEPT ![t] = Idle]
        /\ UNCHANGED <<threaded, pc, scan, ncalls, running, last_scheduled, out>>
    BY DEF Return, At
  <1>3. threads[t].executing /\ ~threads[t].ready
    BY <1>1, <1>2 DEF ThreadsAgree
  <1>4. /\ threads' \in [Threads -> [created : BOOLEAN, executing : BOOLEAN, ready : BOOLEAN,
                                     done : BOOLEAN, index : {0} \cup Indices, call : Calls]]
        /\ \A u \in Threads :
             /\ threads'[u].executing = threads[u].executing
             /\ threads'[u].created = threads[u].created
             /\ threads'[u].index = threads[u].index
             /\ threads'[u].ready = threads[u].ready
             /\ threads'[u].done = (u = t \/ threads[u].done)
    BY <1>1, <1>2, ZenonT(60) DEF TypeOK
  <1>5. /\ DOMAIN work' = Threads
        /\ "at" \in DOMAIN work'[t] /\ work'[t].at = "idle"
        /\ \A u \in Threads : u # t => work'[u] = work[u]
    BY <1>1, <1>2 DEF Idle
  <1>6. Executing' = Executing
    BY <1>4 DEF Executing
  <1>7. RunningExact'
    BY <1>1, <1>2, <1>4, <1>6 DEF RunningExact, TypeOK
  <1>8. ThreadsAgree'
    <2> SUFFICES ASSUME NEW u \in Threads
                 PROVE  /\ threads'[u].executing => threads'[u].created
                                                    /\ threads'[u].index \in 1 .. ncalls
                        /\ threads'[u].ready => threads'[u].executing /\ ~threads'[u].done
                                                /\ work'[u].at = "idle"
                        /\ work'[u].at # "idle" => threads'[u].executing /\ ~threads'[u].ready
                                                   /\ ~threads'[u].done
                        /\ threads'[u].executing /\ threads'[u].done
                             => threads'[u].index \in returned'
      BY <1>2 DEF ThreadsAgree
    <2>1. CASE u = t
      BY <1>1, <1>2, <1>3, <1>4, <1>5, <2>1 DEF ThreadsAgree
    <2>2. CASE u # t
      BY <1>1, <1>2, <1>4, <1>5, <2>2 DEF ThreadsAgree
    <2> QED BY <2>1, <2>2
  <1>9. MainAgrees' /\ OutputAgrees'
    <2>1. \A u \in Executing : threads'[u].index = threads[u].index
      BY <1>4 DEF Executing
    <2> QED BY <1>1, <1>2, <1>6, <2>1, SameOutput DEF MainAgrees
  <1> QED
    BY <1>1, <1>5, <1>7, <1>8, <1>9 DEF ExecInv

\* Every step preserves the invariant.
LEMMA ExecStep == ExecInv /\ [Next]_vars => ExecInv'
PROOF
  <1> SUFFICES ASSUME ExecInv, [Next]_vars PROVE ExecInv'
    OBVIOUS
  <1>1. CASE Main
    BY <1>1, MainKeeps
  <1>2. ASSUME NEW t \in Threads, Worker(t) PROVE ExecInv'
    <2>1. CASE Begin(t)
      BY <2>1, BeginKeeps
    <2>2. CASE Return(t)
      BY <2>2, ReturnKeeps
    <2>3. CASE ~(Begin(t) \/ Return(t))
      <3>1. /\ \/ OtherCall(t) \/ OpenObject(t) \/ StoreObject(t)
               \/ LoadFind(t) \/ PatchName(t) \/ StashName(t) \/ ResetAccum(t) \/ LoadObject(t)
               \/ RecordOutcome(t) \/ MarkRecorded(t)
               \/ AttachFind(t) \/ AttachMap(t) \/ Select(t)
            /\ UNCHANGED <<mainVars, returned>>
        BY <1>2, <2>3 DEF Worker, InCall
      <3>2. /\ work[t].at # "idle"
            /\ DOMAIN work' = Threads
            /\ "at" \in DOMAIN work'[t] /\ work'[t].at # "idle"
            /\ \A u \in Threads : u # t => work'[u] = work[u]
        BY <3>1, CallMoves
      <3>3. \A u \in Threads : "at" \in DOMAIN work[u]
        BY DEF ExecInv
      <3>4. \A u \in Threads : /\ "at" \in DOMAIN work'[u]
                               /\ work'[u].at = "idle" <=> work[u].at = "idle"
        BY <3>2, <3>3
      <3> QED BY <3>1, <3>2, <3>4, CallStepKeeps
    <2> QED BY <2>1, <2>2, <2>3
  <1>3. CASE UNCHANGED vars
    <2>1. UNCHANGED <<mainVars, returned, work>>
      BY <1>3 DEF vars
    <2>2. DOMAIN work' = Threads /\ \A u \in Threads : "at" \in DOMAIN work'[u]
      BY <2>1 DEF ExecInv
    <2> QED BY <2>1, <2>2, CallStepKeeps
  <1> QED
    BY <1>1, <1>2, <1>3 DEF Next

\* The invariant holds throughout.
LEMMA ExecInvariant == Spec => []ExecInv
PROOF
  BY ExecInit, ExecStep, PTL DEF Spec

\* For any number of threads, any program and any order of timeouts, late
\* returns and sweeps, running counts the calls not completed, and none of the
\* executor's checks on its threads and on that counter fails.
THEOREM RunningIsExact == Spec => []RunningExact
PROOF
  <1>1. ExecInv => RunningExact
    BY DEF ExecInv
  <1> QED
    BY <1>1, ExecInvariant, PTL

\* No call is reported twice, none as finished before it has returned, and a
\* process that ends by itself has reported every call it started.
THEOREM OutputIsOnce == Spec => []OutputOnce
PROOF
  <1>1. ExecInv => OutputOnce
    <2> SUFFICES ASSUME ExecInv PROVE OutputOnce
      OBVIOUS
    <2>1. TypeOK /\ OutputAgrees
      BY DEF ExecInv, RunningExact
    <2>2. ASSUME NEW i \in Indices
          PROVE  /\ Len(out[i]) <= 1
                 /\ Len(out[i]) = 1 /\ out[i][1].finished => i \in returned
                 /\ out[i] # <<>> => Len(out[i]) = 1
      <3>1. CASE out[i] = <<>>
        BY <3>1
      <3>2. CASE out[i] # <<>>
        <4>1. PICK r \in Outputs : out[i] = <<r>> /\ (r.finished => i \in returned)
          BY <2>1, <3>2 DEF OutputAgrees, Outputs
        <4>2. Len(<<r>>) = 1 /\ <<r>>[1] = r
          OBVIOUS
        <4> QED BY <4>1, <4>2
      <3> QED BY <3>1, <3>2
    <2>3. ASSUME pc = "exit", NEW i \in 1 .. ncalls PROVE Len(out[i]) = 1
      <3>1. ncalls \in Nat /\ ncalls \in 0 .. MaxCalls[threaded] /\ MaxCalls[threaded] \in Nat
            /\ 1 .. MaxCalls[threaded] \subseteq Indices
        BY <2>1, CallsCounted DEF TypeOK
      <3>2. i \in Indices /\ i <= ncalls
        BY <3>1
      <3>3. out[i] # <<>>
        BY <2>1, <2>3, <3>2 DEF OutputAgrees
      <3> QED BY <2>2, <3>2, <3>3
    <2> QED BY <2>2, <2>3 DEF OutputOnce
  <1> QED
    BY <1>1, ExecInvariant, PTL

-----------------------------------------------------------------------------
(***************************************************************************)
(* The BPF calls.  First the values they work with.                        *)
(***************************************************************************)

Places == Holding \cup {"idle", "call", "return"}
Locals == [at : Places, obj : Nat, name : Names, slot : Nat, ok : BOOLEAN]
Object == [file : Files, load : {"none", "accepted", "rejected"}, blob : Names \ {NoName}]
Lines  == Seq([by : Nat, kind : Kinds])

\* Names of the three kinds are distinct.
LEMMA NameKinds ==
  /\ NoName \in Names
  /\ \A f \in Files : CompiledIn(f) \in Names /\ CompiledIn(f) # NoName
  /\ \A n \in Pids \X Nat : n \in Names /\ n # NoName /\ \A f \in Files : n # CompiledIn(f)
PROOF
  <1>1. ASSUME NEW n \in Pids \X Nat, NEW f \in Files PROVE n # CompiledIn(f)
    <2>1. PICK p \in Pids, k \in Nat : n = <<p, k>>
      OBVIOUS
    <2>2. <<p, k>> # <<f>>
      OBVIOUS
    <2> QED BY <2>1, <2>2 DEF CompiledIn
  <1>2. ASSUME NEW n \in Pids \X Nat PROVE n # NoName
    <2>1. PICK p \in Pids, k \in Nat : n = <<p, k>>
      OBVIOUS
    <2> QED BY <2>1 DEF NoName
  <1>3. \A f \in Files : CompiledIn(f) # NoName
    BY DEF CompiledIn, NoName
  <1> QED
    BY <1>1, <1>2, <1>3 DEF Names

LEMMA TagType ==
  ASSUME BpfTypes
  PROVE  Tag(bpf.counter) \in Pids \X Nat
PROOF
  <1>1. bpf.counter \in Nat /\ pid \in Pids
    BY DEF BpfTypes
  <1>2. bpf.counter % 2^20 \in Nat
    BY <1>1
  <1> QED
    BY <1>1, <1>2 DEF Tag

\* Some numbers have a least one, so the first of some slots is one of them.
LEMMA LeastOf ==
  ASSUME NEW T \in SUBSET Nat, T # {}
  PROVE  \E n \in T : \A k \in T : n <= k
PROOF
  <1> DEFINE Below == {0 .. n : n \in T}
  <1>1. ASSUME NEW n \in T PROVE IsFiniteSet(0 .. n) /\ 0 .. n \in SUBSET Nat
    BY FS_Interval
  <1>2. Below \subseteq FiniteSubsetsOf(Nat) /\ Below # {}
    BY <1>1 DEF FiniteSubsetsOf
  <1>3. PICK n \in T : \A U \in Below : <<U, 0 .. n>> \notin StrictSubsetOrdering(Nat)
    <2>1. PICK S \in Below : \A U \in Below : ~(<<U, S>> \in StrictSubsetOrdering(Nat))
      BY <1>2, FS_StrictSubsetOrderingWellFounded, WFMin
    <2> QED BY <2>1
  <1>4. ASSUME NEW k \in T, k < n PROVE FALSE
    <2>1. n \in 0 .. n /\ n \notin 0 .. k /\ 0 .. k \subseteq 0 .. n
      BY <1>4
    <2>2. <<0 .. k, 0 .. n>> \in StrictSubsetOrdering(Nat)
      BY <1>2, <2>1 DEF StrictSubsetOrdering, FiniteSubsetsOf
    <2> QED BY <1>3, <2>2
  <1>5. \A k \in T : k \in Nat /\ n \in Nat
    OBVIOUS
  <1> QED
    BY <1>4, <1>5

LEMMA FirstSlot ==
  ASSUME NEW T \in SUBSET Slots, T # {}
  PROVE  Min(T) \in T
PROOF
  <1>1. T \in SUBSET Nat
    BY DEF Slots
  <1>2. \E n \in T : \A k \in T : n <= k
    BY <1>1, LeastOf
  <1> QED
    BY <1>2 DEF Min

\* Thread t has moved to a, with these values of its locals.
Becomes(t, a, o, n, s, k) ==
  /\ work' \in [Threads -> Locals]
  /\ work'[t].at = a /\ work'[t].obj = o /\ work'[t].name = n /\ work'[t].slot = s
  /\ work'[t].ok = k
  /\ \A u \in Threads : u # t => work'[u] = work[u]

LEMMA BecomesWhat ==
  ASSUME work \in [Threads -> Locals], NEW t \in Threads, NEW q \in Locals,
         work' = [work EXCEPT ![t] = q]
  PROVE  Becomes(t, q.at, q.obj, q.name, q.slot, q.ok)
PROOF
  BY DEF Becomes

\* The forms of a move.
LEMMA GotoDoes ==
  ASSUME work \in [Threads -> Locals], NEW t \in Threads, NEW a \in Places,
         work' = [work EXCEPT ![t].at = a]
  PROVE  Becomes(t, a, work[t].obj, work[t].name, work[t].slot, work[t].ok)
PROOF
  <1> DEFINE q == [work[t] EXCEPT !.at = a]
  <1>1. q \in Locals /\ q.at = a /\ q.obj = work[t].obj /\ q.name = work[t].name
        /\ q.slot = work[t].slot /\ q.ok = work[t].ok
    BY DEF Locals
  <1>2. work' = [work EXCEPT ![t] = q]
    OBVIOUS
  <1> HIDE DEF q
  <1> QED
    BY <1>1, <1>2, BecomesWhat

LEMMA TakeObjectDoes ==
  ASSUME work \in [Threads -> Locals], NEW t \in Threads, NEW a \in Places, NEW o \in Nat,
         work' = [work EXCEPT ![t].at = a, ![t].obj = o]
  PROVE  Becomes(t, a, o, work[t].name, work[t].slot, work[t].ok)
PROOF
  <1> DEFINE q == [work[t] EXCEPT !.at = a, !.obj = o]
  <1>1. q \in Locals /\ q.at = a /\ q.obj = o /\ q.name = work[t].name
        /\ q.slot = work[t].slot /\ q.ok = work[t].ok
    BY DEF Locals
  <1>2. work' = [work EXCEPT ![t] = q]
    OBVIOUS
  <1> HIDE DEF q
  <1> QED
    BY <1>1, <1>2, BecomesWhat

LEMMA TakeNamedDoes ==
  ASSUME work \in [Threads -> Locals], NEW t \in Threads, NEW a \in Places, NEW o \in Nat,
         NEW n \in Names, work' = [work EXCEPT ![t].at = a, ![t].obj = o, ![t].name = n]
  PROVE  Becomes(t, a, o, n, work[t].slot, work[t].ok)
PROOF
  <1> DEFINE q == [work[t] EXCEPT !.at = a, !.obj = o, !.name = n]
  <1>1. q \in Locals /\ q.at = a /\ q.obj = o /\ q.name = n
        /\ q.slot = work[t].slot /\ q.ok = work[t].ok
    BY DEF Locals
  <1>2. work' = [work EXCEPT ![t] = q]
    OBVIOUS
  <1> HIDE DEF q
  <1> QED
    BY <1>1, <1>2, BecomesWhat

LEMMA TakeSlotDoes ==
  ASSUME work \in [Threads -> Locals], NEW t \in Threads, NEW a \in Places, NEW o \in Nat,
         NEW s \in Nat, work' = [work EXCEPT ![t].at = a, ![t].obj = o, ![t].slot = s]
  PROVE  Becomes(t, a, o, work[t].name, s, work[t].ok)
PROOF
  <1> DEFINE q == [work[t] EXCEPT !.at = a, !.obj = o, !.slot = s]
  <1>1. q \in Locals /\ q.at = a /\ q.obj = o /\ q.name = work[t].name
        /\ q.slot = s /\ q.ok = work[t].ok
    BY DEF Locals
  <1>2. work' = [work EXCEPT ![t] = q]
    OBVIOUS
  <1> HIDE DEF q
  <1> QED
    BY <1>1, <1>2, BecomesWhat

LEMMA RenameDoes ==
  ASSUME work \in [Threads -> Locals], NEW t \in Threads, NEW a \in Places,
         NEW n \in Names, work' = [work EXCEPT ![t].at = a, ![t].name = n]
  PROVE  Becomes(t, a, work[t].obj, n, work[t].slot, work[t].ok)
PROOF
  <1> DEFINE q == [work[t] EXCEPT !.at = a, !.name = n]
  <1>1. q \in Locals /\ q.at = a /\ q.obj = work[t].obj /\ q.name = n
        /\ q.slot = work[t].slot /\ q.ok = work[t].ok
    BY DEF Locals
  <1>2. work' = [work EXCEPT ![t] = q]
    OBVIOUS
  <1> HIDE DEF q
  <1> QED
    BY <1>1, <1>2, BecomesWhat

LEMMA VerdictDoes ==
  ASSUME work \in [Threads -> Locals], NEW t \in Threads, NEW a \in Places,
         NEW k \in BOOLEAN, work' = [work EXCEPT ![t].ok = k, ![t].at = a]
  PROVE  Becomes(t, a, work[t].obj, work[t].name, work[t].slot, k)
PROOF
  <1> DEFINE q == [work[t] EXCEPT !.ok = k, !.at = a]
  <1>1. q \in Locals /\ q.at = a /\ q.obj = work[t].obj /\ q.name = work[t].name
        /\ q.slot = work[t].slot /\ q.ok = k
    BY DEF Locals
  <1>2. work' = [work EXCEPT ![t] = q]
    OBVIOUS
  <1> HIDE DEF q
  <1> QED
    BY <1>1, <1>2, BecomesWhat

\* The types of the state, flat.
LEMMA TypesFlat ==
  BpfTypes <=> /\ work \in [Threads -> Locals] /\ objs \in Seq(Object)
               /\ bpf \in [list : [Slots -> Nat], names : [Slots -> Names],
                           recorded : [Slots -> BOOLEAN], counter : Nat, accum : Lines]
               /\ pid \in Pids /\ TablesOK
PROOF
  BY DEF BpfTypes, Locals, Places, Object, Lines

LEMMA TableTypes ==
  ASSUME BpfTypes
  PROVE  /\ work \in [Threads -> Locals] /\ objs \in Seq(Object)
         /\ bpf.list \in [Slots -> Nat] /\ bpf.names \in [Slots -> Names]
         /\ bpf.recorded \in [Slots -> BOOLEAN] /\ bpf.counter \in Nat /\ bpf.accum \in Lines
         /\ Len(objs) \in Nat /\ DOMAIN objs = 1 .. Len(objs)
         /\ \A o \in DOMAIN objs : objs[o] \in Object
         /\ \A s \in Slots : bpf.list[s] # 0 => bpf.list[s] \in DOMAIN objs
         /\ \A t \in Threads : work[t].obj # 0 => work[t].obj \in DOMAIN objs
         /\ \A t \in Threads : work[t].slot # 0 => work[t].slot \in Slots
         /\ registered \subseteq DOMAIN objs
PROOF
  <1>1. /\ work \in [Threads -> Locals] /\ objs \in Seq(Object)
        /\ bpf.list \in [Slots -> Nat] /\ bpf.names \in [Slots -> Names]
        /\ bpf.recorded \in [Slots -> BOOLEAN] /\ bpf.counter \in Nat /\ bpf.accum \in Lines
        /\ TablesOK
    BY TypesFlat
  <1>2. /\ Len(objs) \in Nat /\ DOMAIN objs = 1 .. Len(objs)
        /\ \A o \in DOMAIN objs : objs[o] \in Object
    BY <1>1
  <1>3. OBJ_LIST_SIZE \in Nat
    BY ExecutorAssumption
  <1>4. /\ \A s \in Slots : bpf.list[s] \in 0 .. Len(objs)
        /\ \A t \in Threads : work[t].obj \in 0 .. Len(objs) /\ work[t].slot \in 0 .. OBJ_LIST_SIZE
        /\ registered \subseteq DOMAIN objs
    BY <1>1 DEF TablesOK
  <1>5. \A x \in 0 .. Len(objs) : x # 0 => x \in 1 .. Len(objs)
    BY <1>2
  <1>6. \A x \in 0 .. OBJ_LIST_SIZE : x # 0 => x \in Slots
    BY <1>3 DEF Slots
  <1> QED
    BY <1>1, <1>2, <1>4, <1>5, <1>6

-----------------------------------------------------------------------------
(***************************************************************************)
(* What a step leaves as it was.                                           *)
(***************************************************************************)

\* Objects stay; a name once patched and a verdict once given stay too.
ObjsKept ==
  /\ DOMAIN objs \subseteq DOMAIN objs'
  /\ \A x \in DOMAIN objs :
       /\ objs'[x].file = objs[x].file
       /\ Patched(x) => objs'[x].blob = objs[x].blob
       /\ objs[x].load # "none" => objs'[x].load = objs[x].load

LEMMA KeptObjects ==
  ASSUME ObjsKept, NEW x \in DOMAIN objs
  PROVE  /\ x \in DOMAIN objs' /\ (IsStructOps(x)' <=> IsStructOps(x)) /\ MapName(x)' = MapName(x)
         /\ Patched(x) => Patched(x)'
PROOF
  BY DEF ObjsKept, IsStructOps, MapName, Patched, CompiledIn

\* The types after a step of thread t.
LEMMA StepTypes ==
  ASSUME BpfTypes, NEW t \in Threads, NEW a, NEW o, NEW n, NEW s, NEW k,
         Becomes(t, a, o, n, s, k), o \in 0 .. Len(objs'), s \in 0 .. OBJ_LIST_SIZE,
         objs' \in Seq(Object), Len(objs) <= Len(objs'),
         bpf' \in [list : [Slots -> Nat], names : [Slots -> Names],
                   recorded : [Slots -> BOOLEAN], counter : Nat, accum : Lines],
         \A r \in Slots : bpf'.list[r] \in 0 .. Len(objs'),
         registered' \subseteq DOMAIN objs', pid' = pid
  PROVE  BpfTypes'
PROOF
  <1>1. /\ work' \in [Threads -> Locals] /\ work'[t].obj = o /\ work'[t].slot = s
        /\ \A u \in Threads : u # t => work'[u] = work[u]
    BY DEF Becomes
  <1>2. Len(objs) \in Nat /\ Len(objs') \in Nat
    BY TableTypes
  <1>3. \A x \in 0 .. Len(objs) : x \in 0 .. Len(objs')
    BY <1>2
  <1>4. \A u \in Threads : work[u].obj \in 0 .. Len(objs) /\ work[u].slot \in 0 .. OBJ_LIST_SIZE
    BY DEF BpfTypes, TablesOK
  <1>5. \A u \in Threads : /\ work'[u].obj \in 0 .. Len(objs') /\ work'[u].slot \in 0 .. OBJ_LIST_SIZE
                           /\ work'[u].name \in Names
    <2> SUFFICES ASSUME NEW u \in Threads
                 PROVE  /\ work'[u].obj \in 0 .. Len(objs') /\ work'[u].slot \in 0 .. OBJ_LIST_SIZE
                        /\ work'[u].name \in Names
      OBVIOUS
    <2>1. work'[u].name \in Names
      BY <1>1 DEF Locals
    <2>2. CASE u = t
      BY <1>1, <2>1, <2>2
    <2>3. CASE u # t
      BY <1>1, <1>3, <1>4, <2>1, <2>3
    <2> QED BY <2>2, <2>3
  <1>6. \A r \in Slots : bpf'.names[r] \in Names
    OBVIOUS
  <1>7. TablesOK'
    BY <1>5, <1>6 DEF TablesOK
  <1>8. pid \in Pids
    BY DEF BpfTypes
  <1> QED
    BY <1>1, <1>7, <1>8 DEF BpfTypes, Locals, Places, Object, Lines

\* What holds of the call of a thread that does not move.
LEMMA CallKept ==
  ASSUME BpfTypes, NEW u \in Threads, CallHolds(u), work'[u] = work[u],
         work[u].at # "idle" => threads'[u].call = threads[u].call, ObjsKept
  PROVE  CallHolds(u)'
PROOF
  <1>1. work[u].at \in Holding => work[u].obj \in DOMAIN objs /\ work[u].at # "idle"
    BY TableTypes DEF CallHolds, Holding
  <1>2. CASE work[u].at \in Holding
    <2>1. /\ IsStructOps(work[u].obj)' <=> IsStructOps(work[u].obj)
          /\ Patched(work[u].obj) => Patched(work[u].obj)'
      BY <1>1, <1>2, KeptObjects DEF IsStructOps, Patched, MapName, CompiledIn
    <2>2. Is(u, "other")' <=> Is(u, "other")
      BY <1>1, <1>2 DEF Is
    <2>3. objs[work[u].obj].load # "none" => objs'[work[u].obj].load # "none"
      BY <1>1, <1>2 DEF ObjsKept
    <2> QED
      BY <2>1, <2>2, <2>3 DEF CallHolds
  <1>3. CASE work[u].at \notin Holding
    BY <1>3 DEF CallHolds, Holding
  <1> QED
    BY <1>2, <1>3

\* What has been asked and recorded stays right.
LEMMA StepResults ==
  ASSUME BpfInv, ObjsKept, asked' = asked, stats' = stats, registered \subseteq registered',
         ~overlap' => ~overlap, TablesOK'
  PROVE  SelectedRegistered' /\ RecordedOnce'
PROOF
  <1>1. ASSUME ~overlap'
        PROVE  \A a \in asked : a.obj \in registered' /\ objs'[a.obj].blob = a.name
    <2> SUFFICES ASSUME NEW a \in asked
                 PROVE  a.obj \in registered' /\ objs'[a.obj].blob = a.name
      OBVIOUS
    <2>1. a.obj \in registered /\ objs[a.obj].blob = a.name
      BY <1>1 DEF BpfInv, SelectedRegistered
    <2>2. a.obj \in DOMAIN objs /\ Patched(a.obj)
      BY <2>1, TableTypes DEF BpfInv, ObjectsHold
    <2> QED
      BY <2>1, <2>2 DEF ObjsKept
  <1>2. ASSUME ~overlap', NEW r \in stats
        PROVE  r.ok <=> objs'[r.obj].load = "accepted"
    <2>1. r.obj \in DOMAIN objs /\ objs[r.obj].load # "none"
      BY <1>2 DEF BpfInv, AloneInv, MarksAgree
    <2>2. r.ok <=> objs[r.obj].load = "accepted"
      BY <1>2 DEF BpfInv, RecordedOnce
    <2> QED
      BY <2>1, <2>2 DEF ObjsKept
  <1>3. RecordedOnce'
    BY <1>2 DEF BpfInv, RecordedOnce
  <1> QED
    BY <1>1, <1>3 DEF SelectedRegistered

-----------------------------------------------------------------------------
(***************************************************************************)
(* A BPF call that no other overlaps.                                      *)
(***************************************************************************)

\* Thread t is in a BPF call.
InCallOf(t) == t \in Threads /\ work[t].at # "idle" /\ ~Is(t, "other")

\* Where an object in hand says that its call is in progress.
LEMMA HoldersAreIn ==
  ASSUME BpfInv, NEW t \in Threads, work[t].at \in Holding
  PROVE  InCallOf(t) /\ work[t].obj \in DOMAIN objs /\ objs[work[t].obj] \in Object
PROOF
  <1>1. CallHolds(t) /\ BpfTypes
    BY DEF BpfInv
  <1> QED
    BY <1>1, TableTypes DEF CallHolds, InCallOf, Holding

\* Then no other thread has an object in hand, and what the tables say does not
\* depend on another thread either.
LEMMA Settled ==
  ASSUME BpfInv, ~overlap, NEW t \in Threads, InCallOf(t)
  PROVE  /\ SlotsAgree /\ HeldAgrees(t) /\ MarksAgree
         /\ \A u \in Threads : u # t => work[u].at \notin Holding
         /\ work[t].at # "stash" =>
              \A s \in Slots : bpf.list[s] # 0 =>
                \/ Patched(bpf.list[s]) /\ bpf.names[s] = objs[bpf.list[s]].blob
                \/ bpf.names[s] = NoName /\ ~Patched(bpf.list[s])
         /\ work[t].at \notin {"record", "mark"} =>
              \A o \in DOMAIN objs : IsStructOps(o) /\ objs[o].load # "none" => Marked(o)
         /\ work[t].at # "mark" => \A r \in stats : Marked(r.obj)
PROOF
  <1>1. AloneInv
    BY DEF BpfInv
  <1>2. SlotsAgree /\ HeldAgrees(t) /\ MarksAgree
    BY <1>1 DEF AloneInv
  <1>3. ASSUME NEW u \in Threads, u # t PROVE work[u].at \notin Holding
    <2>1. SUFFICES ASSUME work[u].at \in Holding PROVE FALSE
      OBVIOUS
    <2>2. t \in InBpfCall /\ u \in InBpfCall
      BY <2>1, HoldersAreIn DEF InCallOf, InBpfCall
    <2> QED BY <1>1, <1>3, <2>2 DEF AloneInv
  <1>4. /\ "stash" \in Holding /\ "record" \in Holding /\ "mark" \in Holding
    BY DEF Holding
  <1>5. ASSUME work[t].at # "stash", NEW s \in Slots, bpf.list[s] # 0
        PROVE  \/ Patched(bpf.list[s]) /\ bpf.names[s] = objs[bpf.list[s]].blob
               \/ bpf.names[s] = NoName /\ ~Patched(bpf.list[s])
    <2>1. \A u \in Threads : work[u].at # "stash"
      BY <1>3, <1>4, <1>5
    <2> QED BY <1>2, <1>5, <2>1 DEF SlotsAgree
  <1>6. ASSUME work[t].at \notin {"record", "mark"}, NEW o \in DOMAIN objs,
               IsStructOps(o), objs[o].load # "none"
        PROVE  Marked(o)
    <2>1. \A u \in Threads : work[u].at \notin {"record", "mark"}
      BY <1>3, <1>4, <1>6
    <2> QED BY <1>2, <1>6, <2>1 DEF MarksAgree
  <1>7. ASSUME work[t].at # "mark", NEW r \in stats PROVE Marked(r.obj)
    <2>1. \A u \in Threads : work[u].at # "mark"
      BY <1>3, <1>4, <1>7
    <2> QED BY <1>2, <2>1 DEF MarksAgree
  <1> QED
    BY <1>2, <1>3, <1>5, <1>6, <1>7

\* A thread without an object in hand has nothing to agree with.
LEMMA NothingHeld ==
  ASSUME NEW t \in Threads, work'[t].at \notin Holding
  PROVE  HeldAgrees(t)' /\ CallHolds(t)'
PROOF
  <1>1. /\ work'[t].at \notin {"store", "stash", "reset", "load", "record", "mark", "attach", "select",
                             "patch"}
        /\ work'[t].at \notin Holding \ {"store"} /\ work'[t].at \notin Holding \ {"store", "load"}
    BY DEF Holding
  <1> QED
    BY <1>1 DEF HeldAgrees, CallHolds

\* A step of t within a BPF call: what has to be shown.
LEMMA BpfStep ==
  ASSUME BpfInv, NEW t \in Threads, InCallOf(t), InCall,
         work'[t].at # "idle", \A u \in Threads : u # t => work'[u] = work[u],
         BpfTypes', ObjsKept, CallHolds(t)', ObjectsHold',
         ~overlap => SlotsAgree' /\ HeldAgrees(t)' /\ MarksAgree',
         SelectedRegistered', RecordedOnce', ExecInv'
  PROVE  BpfInv'
PROOF
  <1>1. UNCHANGED <<threads, overlap>>
    BY DEF InCall, mainVars
  <1>2. \A u \in Threads : CallHolds(u)'
    BY <1>1, CallKept DEF BpfInv
  <1>3. ASSUME ~overlap PROVE AloneInv'
    <2>1. \A u \in Threads : u # t => work[u].at \notin Holding
      BY <1>3, Settled
    <2>2. \A u \in Threads : HeldAgrees(u)'
      <3> SUFFICES ASSUME NEW u \in Threads, u # t PROVE HeldAgrees(u)'
        BY <1>3
      <3>1. work'[u].at \notin Holding
        BY <2>1
      <3> QED BY <3>1, NothingHeld
    <2>3. InBpfCall' = InBpfCall
      BY <1>1 DEF InBpfCall, InCallOf, Is
    <2>4. \A u, v \in InBpfCall : u = v
      BY <1>3 DEF BpfInv, AloneInv
    <2> QED BY <1>3, <2>2, <2>3, <2>4 DEF AloneInv
  <1> QED
    BY <1>1, <1>2, <1>3 DEF BpfInv

\* The tables stay right while they do not change, as long as no thread drops
\* what they rely on.
LEMMA QuietTables ==
  ASSUME SlotsAgree, MarksAgree, UNCHANGED <<objs, stats>>,
         bpf'.list = bpf.list, bpf'.names = bpf.names, bpf'.recorded = bpf.recorded,
         \A u \in Threads : work[u].at \in {"stash", "mark"} => work'[u] = work[u],
         \A u \in Threads : work[u].at = "record" =>
           \/ work'[u] = work[u] \/ Marked(work[u].obj)
           \/ work'[u].at = "mark" /\ work'[u].obj = work[u].obj
  PROVE  SlotsAgree' /\ MarksAgree'
PROOF
  <1>1. \A o : /\ Patched(o)' <=> Patched(o)
               /\ IsStructOps(o)' <=> IsStructOps(o)
               /\ Marked(o)' <=> Marked(o)
    BY DEF Patched, MapName, CompiledIn, IsStructOps, Marked, SlotOf
  <1>2. SlotsAgree'
    <2> SUFFICES ASSUME NEW s \in Slots
                 PROVE  IF bpf.list[s] = 0 THEN bpf.names[s] = NoName /\ ~bpf.recorded[s]
                        ELSE /\ \A r \in Slots : bpf.list[r] = bpf.list[s] => r = s
                             /\ \/ /\ Patched(bpf.list[s])
                                   /\ bpf.names[s] = objs[bpf.list[s]].blob
                                \/ /\ bpf.names[s] = NoName
                                   /\ Patched(bpf.list[s]) =>
                                        \E t \in Threads :
                                          /\ work'[t].at = "stash" /\ work'[t].obj = bpf.list[s]
                                          /\ work'[t].name = objs[bpf.list[s]].blob
      BY <1>1 DEF SlotsAgree, Patched, MapName, CompiledIn
    <2>1. \A t \in Threads : work[t].at = "stash" => work'[t] = work[t]
      OBVIOUS
    <2> QED BY <2>1 DEF SlotsAgree
  <1>3. MarksAgree'
    <2>1. ASSUME NEW o \in DOMAIN objs, IsStructOps(o), objs[o].load # "none"
          PROVE  Marked(o) \/ \E t \in Threads : work'[t].at \in {"record", "mark"} /\ work'[t].obj = o
      <3>1. CASE Marked(o)
        BY <3>1
      <3>2. CASE ~Marked(o)
        <4>1. PICK t \in Threads : work[t].at \in {"record", "mark"} /\ work[t].obj = o
          BY <2>1, <3>2 DEF MarksAgree
        <4>2. CASE work[t].at = "mark"
          BY <4>1, <4>2
        <4>3. CASE work[t].at = "record"
          BY <3>2, <4>1, <4>3
        <4> QED BY <4>1, <4>2, <4>3
      <3> QED BY <3>1, <3>2
    <2>2. ASSUME NEW r \in stats
          PROVE  /\ r.obj \in DOMAIN objs /\ objs[r.obj].load # "none" /\ IsStructOps(r.obj)
                 /\ Marked(r.obj) \/ \E t \in Threads : work'[t].at = "mark" /\ work'[t].obj = r.obj
      <3>1. \A t \in Threads : work[t].at = "mark" => work'[t] = work[t]
        OBVIOUS
      <3> QED BY <3>1 DEF MarksAgree
    <2>3. \A o \in DOMAIN objs' : IsStructOps(o)' /\ objs'[o].load # "none" =>
            Marked(o)' \/ \E t \in Threads : work'[t].at \in {"record", "mark"} /\ work'[t].obj = o
      BY <1>1, <2>1
    <2>4. \A r \in stats' :
            /\ r.obj \in DOMAIN objs' /\ objs'[r.obj].load # "none" /\ IsStructOps(r.obj)'
            /\ Marked(r.obj)' \/ \E t \in Threads : work'[t].at = "mark" /\ work'[t].obj = r.obj
      BY <1>1, <2>2
    <2> QED BY <2>3, <2>4 DEF MarksAgree, Marked, IsStructOps, SlotOf
  <1> QED
    BY <1>2, <1>3

\* A call stays right about the object in its hand while nothing changes.
LEMMA QuietHeld ==
  ASSUME NEW t \in Threads, HeldAgrees(t), work'[t] = work[t], UNCHANGED <<objs, bpf, registered>>,
         threads'[t].index = threads[t].index
  PROVE  HeldAgrees(t)'
PROOF
  <1>1. \A o : /\ Patched(o)' <=> Patched(o)
               /\ IsStructOps(o)' <=> IsStructOps(o)
               /\ Marked(o)' <=> Marked(o)
               /\ SlotOf(o)' = SlotOf(o)
    BY DEF Patched, MapName, CompiledIn, IsStructOps, Marked, SlotOf
  <1> DEFINE o == work[t].obj
  <1>2. work'[t].obj = o
    OBVIOUS
  <1>3. /\ Patched(work[t].obj)' <=> Patched(o)
        /\ IsStructOps(work[t].obj)' <=> IsStructOps(o)
        /\ Marked(work[t].obj)' <=> Marked(o)
        /\ SlotOf(work[t].obj)' = SlotOf(o)
    BY <1>1, <1>2 DEF Patched, MapName, CompiledIn, IsStructOps, Marked, SlotOf
  <1> QED
    BY <1>3 DEF HeldAgrees

\* Objects that do not change are kept.
LEMMA SameObjects ==
  ASSUME objs' = objs
  PROVE  ObjsKept
PROOF
  BY DEF ObjsKept

\* The objects are right as long as none changes and none is registered.
LEMMA SameHold ==
  ASSUME ObjectsHold, UNCHANGED <<objs, registered>>
  PROVE  ObjectsHold'
PROOF
  BY DEF ObjectsHold, IsStructOps, Patched, MapName, CompiledIn

\* A thread that keeps its place, its call and its locals.
Stays(u) ==
  /\ work'[u] = work[u]
  /\ work[u].at # "idle" => /\ threads'[u].call = threads[u].call
                            /\ threads'[u].index = threads[u].index

\* A thread that has nothing in hand any more, and leaves nothing undone.
LetsGo(u) ==
  /\ work'[u].at \notin Holding /\ work[u].at \notin {"stash", "mark"}
  /\ work[u].at = "record" => Marked(work[u].obj)
  /\ work'[u].obj \in {0, work[u].obj} /\ work'[u].slot \in {0, work[u].slot}

\* A step of which the BPF state takes no notice.
LEMMA QuietStep ==
  ASSUME BpfInv, UNCHANGED <<objs, bpf, registered, stats, asked, pid>>,
         work' \in [Threads -> Locals], \A u \in Threads : Stays(u) \/ LetsGo(u),
         ~overlap' => ~overlap /\ \A v, w \in InBpfCall' : v = w, ExecInv'
  PROVE  BpfInv'
PROOF
  <1>1. /\ BpfTypes /\ ObjectsHold /\ \A u \in Threads : CallHolds(u)
        /\ ~overlap => AloneInv
    BY DEF BpfInv
  <1>2. ObjsKept
    BY SameObjects
  <1>3. TablesOK'
    <2>1. Len(objs) \in Nat /\ OBJ_LIST_SIZE \in Nat
      BY <1>1, TableTypes, ExecutorAssumption
    <2>2. 0 \in 0 .. Len(objs) /\ 0 \in 0 .. OBJ_LIST_SIZE
      BY <2>1
    <2>3. TablesOK
      BY <1>1 DEF BpfTypes
    <2>4. \A u \in Threads : /\ work[u].obj \in 0 .. Len(objs)
                             /\ work[u].slot \in 0 .. OBJ_LIST_SIZE
      BY <2>3 DEF TablesOK
    <2>5. ASSUME NEW u \in Threads
          PROVE  /\ work'[u].obj \in 0 .. Len(objs) /\ work'[u].name \in Names
                 /\ work'[u].slot \in 0 .. OBJ_LIST_SIZE
      <3>1. work'[u].name \in Names
        BY DEF Locals
      <3>2. work'[u].obj \in {0, work[u].obj} /\ work'[u].slot \in {0, work[u].slot}
        BY DEF Stays, LetsGo
      <3> QED BY <2>2, <2>4, <3>1, <3>2
    <2> QED BY <2>3, <2>5 DEF TablesOK
  <1>4. BpfTypes'
    <2>1. pid \in Pids /\ objs \in Seq(Object)
          /\ bpf \in [list : [Slots -> Nat], names : [Slots -> Names],
                      recorded : [Slots -> BOOLEAN], counter : Nat, accum : Lines]
      BY <1>1, TypesFlat
    <2> QED BY <1>3, <2>1 DEF BpfTypes, Locals, Places, Object, Lines
  <1>5. ObjectsHold'
    BY <1>1, SameHold
  <1>6. \A u \in Threads : CallHolds(u)'
    <2> SUFFICES ASSUME NEW u \in Threads PROVE CallHolds(u)'
      OBVIOUS
    <2>1. CASE Stays(u)
      BY <1>1, <1>2, <2>1, CallKept DEF Stays
    <2>2. CASE LetsGo(u)
      BY <2>2, NothingHeld DEF LetsGo
    <2> QED BY <2>1, <2>2
  <1>7. ASSUME ~overlap' PROVE AloneInv'
    <2>1. SlotsAgree /\ MarksAgree /\ \A u \in Threads : HeldAgrees(u)
      BY <1>1, <1>7 DEF AloneInv
    <2>2. \A u \in Threads : HeldAgrees(u)'
      <3> SUFFICES ASSUME NEW u \in Threads PROVE HeldAgrees(u)'
        OBVIOUS
      <3>1. CASE Stays(u) /\ work'[u].at \in Holding
        <4>1. work[u].at # "idle"
          BY <3>1 DEF Stays, Holding
        <4> QED BY <2>1, <3>1, <4>1, QuietHeld DEF Stays
      <3>2. CASE work'[u].at \notin Holding
        BY <3>2, NothingHeld
      <3> QED BY <3>1, <3>2 DEF LetsGo
    <2>3. SlotsAgree' /\ MarksAgree'
      <3>1. \A u \in Threads : work[u].at \in {"stash", "mark"} => work'[u] = work[u]
        BY DEF Stays, LetsGo
      <3>2. \A u \in Threads : work[u].at = "record" =>
              work'[u] = work[u] \/ Marked(work[u].obj)
        BY DEF Stays, LetsGo
      <3> QED BY <2>1, <3>1, <3>2, QuietTables
    <2> QED BY <1>7, <2>2, <2>3 DEF AloneInv
  <1>8. SelectedRegistered' /\ RecordedOnce'
    BY <1>2, <1>3, StepResults
  <1> QED
    BY <1>4, <1>5, <1>6, <1>7, <1>8 DEF BpfInv

\* The main thread gives a call only to a thread that has none.
LEMMA MainStays ==
  ASSUME ExecInv, Main, NEW u \in Threads
  PROVE  Stays(u)
PROOF
  <1>1. TypeOK /\ ThreadsAgree /\ work' = work
    BY DEF ExecInv, RunningExact, Main
  <1>2. SUFFICES ASSUME work[u].at # "idle"
                 PROVE  /\ threads'[u].call = threads[u].call
                        /\ threads'[u].index = threads[u].index
    BY <1>1 DEF Stays
  <1>3. threads[u].executing
    BY <1>1, <1>2 DEF ThreadsAgree
  <1>4. ASSUME NEW t, NEW at, handle_completion(t, at)
        PROVE  /\ threads'[u].call = threads[u].call
               /\ threads'[u].index = threads[u].index
    <2>1. threads' = threads \/ threads' = [threads EXCEPT ![t] = Complete(@)]
      BY <1>4 DEF handle_completion
    <2>2. /\ Complete(threads[u]).call = threads[u].call
          /\ Complete(threads[u]).index = threads[u].index
      BY <1>1 DEF Complete, TypeOK
    <2>3. DOMAIN threads = Threads
      BY <1>1 DEF TypeOK
    <2>4. threads'[u] = threads[u] \/ threads'[u] = Complete(threads[u])
      BY <2>1, <2>3
    <2> QED BY <2>2, <2>4
  <1>5. CASE ScanThread
    <2>1. \/ threads' = [threads EXCEPT ![scan].created = TRUE, ![scan].done = TRUE]
          \/ threads' = threads
          \/ handle_completion(scan, "schedule")
      BY <1>5 DEF ScanThread
    <2>2. CASE threads' = [threads EXCEPT ![scan].created = TRUE, ![scan].done = TRUE]
      BY <1>1, <2>2 DEF TypeOK
    <2> QED BY <1>4, <2>1, <2>2
  <1>6. ASSUME NEW call, NEW async, ScheduleCall(call, async)
        PROVE  /\ threads'[u].call = threads[u].call
               /\ threads'[u].index = threads[u].index
    <2>1. u # scan
      BY <1>3, <1>6 DEF ScheduleCall
    <2> QED BY <1>1, <1>6, <2>1 DEF ScheduleCall, TypeOK
  <1>7. CASE WaitDone
    BY <1>4, <1>7 DEF WaitDone
  <1>8. CASE DirectDone
    BY <1>4, <1>8 DEF DirectDone
  <1>9. CASE Sweep
    <2>1. threads' = threads \/ handle_completion(scan, pc)
      BY <1>9 DEF Sweep
    <2> QED BY <1>4, <2>1
  <1>10. CASE \/ NextCall \/ OutOfThreads \/ WaitTimeout \/ SweepDone \/ EndProgram
              \/ TailSweep \/ TailDeadline
    BY <1>10 DEF NextCall, OutOfThreads, WaitTimeout, SweepDone, EndProgram, TailSweep,
                 TailDeadline
  <1> QED
    BY <1>5, <1>6, <1>7, <1>8, <1>9, <1>10 DEF Main

\* The steps of the main thread.
LEMMA MainBpf ==
  ASSUME BpfInv, Main, ExecInv'
  PROVE  BpfInv'
PROOF
  <1>1. UNCHANGED <<work, objs, bpf, registered, stats, asked, pid, overlap>>
    BY DEF Main, bpfVars
  <1>2. \A u \in Threads : Stays(u)
    BY MainStays DEF BpfInv
  <1>3. work \in [Threads -> Locals]
    BY TableTypes DEF BpfInv
  <1>4. InBpfCall' = InBpfCall
    BY <1>1, <1>2 DEF InBpfCall, Is, Stays
  <1>5. ~overlap => \A v, w \in InBpfCall : v = w
    BY DEF BpfInv, AloneInv
  <1> QED
    BY <1>1, <1>2, <1>3, <1>4, <1>5, QuietStep

\* Taking a call: a second BPF call in progress is an overlap.
LEMMA BeginBpf ==
  ASSUME BpfInv, NEW t \in Threads, Begin(t), ExecInv'
  PROVE  BpfInv'
PROOF
  <1>1. /\ work[t].at = "idle" /\ threads' = [threads EXCEPT ![t].ready = FALSE]
        /\ work' = [work EXCEPT ![t] = [Idle EXCEPT !.at = "call"]]
        /\ overlap' = (overlap \/ (~Is(t, "other") /\ InBpfCall # {}))
        /\ UNCHANGED <<objs, bpf, registered, stats, asked, pid>>
    BY DEF Begin, At, bpfVars
  <1>2. work \in [Threads -> Locals] /\ TypeOK
    BY TableTypes DEF BpfInv, ExecInv, RunningExact
  <1> DEFINE q == [Idle EXCEPT !.at = "call"]
  <1>3. q \in Locals /\ q.at = "call" /\ q.obj = 0 /\ q.slot = 0
    BY NameKinds DEF Locals, Idle, Places
  <1> HIDE DEF q
  <1>4. /\ work' \in [Threads -> Locals] /\ work'[t] = q
        /\ \A u \in Threads : u # t => work'[u] = work[u]
    BY <1>1, <1>2, <1>3 DEF q
  <1>5. \A u \in Threads : threads'[u].call = threads[u].call /\ threads'[u].index = threads[u].index
    BY <1>1, <1>2 DEF TypeOK
  <1>6. LetsGo(t)
    BY <1>1, <1>3, <1>4 DEF LetsGo, Holding
  <1>7. \A u \in Threads : Stays(u) \/ LetsGo(u)
    BY <1>4, <1>5, <1>6 DEF Stays
  <1>8. ASSUME ~overlap' PROVE ~overlap /\ \A v, w \in InBpfCall' : v = w
    <2>1. ~overlap /\ (Is(t, "other") \/ InBpfCall = {})
      BY <1>1, <1>8
    <2>2. \A v, w \in InBpfCall : v = w
      BY <2>1 DEF BpfInv, AloneInv
    <2>3. \A v \in InBpfCall' : v \in InBpfCall \/ (v = t /\ ~Is(t, "other"))
      BY <1>4, <1>5 DEF InBpfCall, Is
    <2> QED BY <2>1, <2>2, <2>3
  <1> QED
    BY <1>1, <1>4, <1>7, <1>8, QuietStep

\* A call returns.
LEMMA ReturnBpf ==
  ASSUME BpfInv, NEW t \in Threads, Return(t), ExecInv'
  PROVE  BpfInv'
PROOF
  <1>1. /\ work[t].at = "return" /\ threads' = [threads EXCEPT ![t].done = TRUE]
        /\ work' = [work EXCEPT ![t] = Idle]
        /\ UNCHANGED <<objs, bpf, registered, stats, asked, pid, overlap>>
    BY DEF Return, At, bpfVars
  <1>2. work \in [Threads -> Locals] /\ TypeOK
    BY TableTypes DEF BpfInv, ExecInv, RunningExact
  <1>3. Idle \in Locals /\ Idle.at = "idle" /\ Idle.obj = 0 /\ Idle.slot = 0
    BY NameKinds DEF Locals, Idle, Places
  <1>4. /\ work' \in [Threads -> Locals] /\ work'[t] = Idle
        /\ \A u \in Threads : u # t => work'[u] = work[u]
    BY <1>1, <1>2, <1>3
  <1>5. \A u \in Threads : threads'[u].call = threads[u].call /\ threads'[u].index = threads[u].index
    BY <1>1, <1>2 DEF TypeOK
  <1>6. LetsGo(t)
    BY <1>1, <1>3, <1>4 DEF LetsGo, Holding
  <1>7. \A u \in Threads : Stays(u) \/ LetsGo(u)
    BY <1>4, <1>5, <1>6 DEF Stays
  <1>8. ~overlap => \A v, w \in InBpfCall' : v = w
    <2>1. ~overlap => \A v, w \in InBpfCall : v = w
      BY DEF BpfInv, AloneInv
    <2>2. \A v \in InBpfCall' : v \in InBpfCall
      BY <1>1, <1>4, <1>5 DEF InBpfCall, Is
    <2> QED BY <2>1, <2>2
  <1> QED
    BY <1>1, <1>4, <1>7, <1>8, QuietStep

\* A step that ends a call early or does nothing but end it.
LEMMA EndsBpf ==
  ASSUME BpfInv, NEW t \in Threads, InCall, Goto(t, "return"), work[t].at # "idle",
         UNCHANGED <<objs, bpf, registered, stats, asked>>,
         work[t].at \notin {"stash", "mark"}, work[t].at = "record" => Marked(work[t].obj), ExecInv'
  PROVE  BpfInv'
PROOF
  <1>1. UNCHANGED <<threads, pid, overlap>>
    BY DEF InCall, mainVars
  <1>2. work \in [Threads -> Locals]
    BY TableTypes DEF BpfInv
  <1>3. Becomes(t, "return", work[t].obj, work[t].name, work[t].slot, work[t].ok)
    BY <1>2, GotoDoes DEF Goto, Places
  <1>4. LetsGo(t)
    BY <1>3 DEF LetsGo, Becomes, Holding
  <1>5. \A u \in Threads : Stays(u) \/ LetsGo(u)
    BY <1>1, <1>3, <1>4 DEF Stays, Becomes
  <1>6. InBpfCall' = InBpfCall
    BY <1>1, <1>3 DEF InBpfCall, Is, Becomes
  <1>7. ~overlap => \A v, w \in InBpfCall : v = w
    BY DEF BpfInv, AloneInv
  <1> QED
    BY <1>1, <1>3, <1>5, <1>6, <1>7, QuietStep DEF Becomes

-----------------------------------------------------------------------------
(***************************************************************************)
(* The steps of the BPF calls.                                             *)
(***************************************************************************)

\* The file a BPF call names.
LEMMA CallFile ==
  ASSUME BpfInv, NEW t \in Threads, ~Is(t, "other")
  PROVE  FileOf(t) \in Files
PROOF
  <1>1. threads[t].call \in Calls
    BY DEF BpfInv, ExecInv, RunningExact, TypeOK
  <1> QED
    BY <1>1 DEF Calls, BpfCalls, Other, Is, FileOf

\* One more object.
LEMMA OpenedObject ==
  ASSUME NEW o \in Seq(Object), NEW q \in Object
  PROVE  /\ Append(o, q) \in Seq(Object) /\ Len(Append(o, q)) = Len(o) + 1 /\ Len(o) \in Nat
         /\ Append(o, q)[Len(o) + 1] = q
         /\ DOMAIN Append(o, q) = DOMAIN o \cup {Len(o) + 1} /\ Len(o) + 1 \notin DOMAIN o
         /\ \A x \in DOMAIN o : Append(o, q)[x] = o[x]
         /\ DOMAIN o = 1 .. Len(o)
PROOF
  OBVIOUS

\* syz_bpf_prog_open creates an object, with a free slot for it.
LEMMA OpenBpf ==
  ASSUME BpfInv, NEW t \in Threads, OpenObject(t), InCall, ExecInv'
  PROVE  BpfInv'
PROOF
  <1> DEFINE free == {s \in Slots : bpf.list[s] = 0}
             q == [file |-> FileOf(t), load |-> "none", blob |-> CompiledIn(FileOf(t))]
             n == Len(objs) + 1
  <1>1. /\ work[t].at = "call" /\ Is(t, "open") /\ UNCHANGED <<bpf, registered, stats, asked>>
        /\ UNCHANGED <<threads, pid, overlap>>
    BY DEF OpenObject, At, InCall, mainVars
  <1>2. ~Is(t, "other") /\ InCallOf(t)
    BY <1>1 DEF Is, InCallOf
  <1>3. CASE Goto(t, "return") /\ UNCHANGED objs
    BY <1>1, <1>3, EndsBpf
  <1>4. CASE /\ free # {} /\ objs' = Append(objs, q)
             /\ work' = [work EXCEPT ![t].at = "store", ![t].obj = n, ![t].slot = Min(free)]
    <2>1. BpfTypes /\ ObjectsHold
      BY DEF BpfInv
    <2>2. PICK m \in Slots : m = Min(free) /\ bpf.list[m] = 0 /\ m \in Nat /\ m # 0
                             /\ m \in 0 .. OBJ_LIST_SIZE
      <3>1. Min(free) \in free
        BY <1>4, FirstSlot
      <3>2. \A x \in Slots : x \in Nat /\ x # 0 /\ x \in 0 .. OBJ_LIST_SIZE
        BY ExecutorAssumption DEF Slots
      <3> QED BY <3>1, <3>2
    <2>3. q \in Object /\ q.file = FileOf(t) /\ q.load = "none" /\ q.blob = CompiledIn(FileOf(t))
      BY <1>2, CallFile, NameKinds DEF Object
    <2> HIDE DEF q
    <2>4. /\ work \in [Threads -> Locals] /\ objs \in Seq(Object)
          /\ bpf \in [list : [Slots -> Nat], names : [Slots -> Names],
                      recorded : [Slots -> BOOLEAN], counter : Nat, accum : Lines]
          /\ TablesOK
      BY TypesFlat DEF BpfInv
    <2>5. /\ objs' \in Seq(Object) /\ Len(objs') = n /\ Len(objs) \in Nat /\ n \in Nat
          /\ DOMAIN objs' = DOMAIN objs \cup {n} /\ objs'[n] = q /\ n \notin DOMAIN objs
          /\ \A x \in DOMAIN objs : objs'[x] = objs[x]
          /\ DOMAIN objs = 1 .. Len(objs)
      BY <1>4, <2>3, <2>4, OpenedObject
    <2> HIDE DEF n
    <2>6. Len(objs) <= n /\ n \in 0 .. n /\ n # 0 /\ \A x \in 0 .. Len(objs) : x \in 0 .. n /\ x # n
      BY <2>5 DEF n
    <2>7. Becomes(t, "store", n, work[t].name, m, work[t].ok)
      BY <1>4, <2>2, <2>4, <2>5, TakeSlotDoes DEF Places, Holding
    <2>8. BpfTypes'
      <3>1. \A r \in Slots : bpf.list[r] \in 0 .. n
        BY <2>4, <2>6 DEF TablesOK
      <3>2. registered \subseteq DOMAIN objs'
        BY <2>4, <2>5 DEF TablesOK
      <3> QED BY <1>1, <2>1, <2>2, <2>4, <2>5, <2>6, <2>7, <3>1, <3>2, StepTypes
    <2>9. ObjsKept
      BY <2>5 DEF ObjsKept
    <2>10. CallHolds(t)'
      <3>1. /\ work'[t].at = "store" /\ work'[t].obj = n /\ work'[t].slot = m
        BY <2>7 DEF Becomes
      <3>2. ~Is(t, "other")'
        BY <1>1, <1>2 DEF Is
      <3> QED BY <2>2, <2>6, <3>1, <3>2 DEF CallHolds
    <2>11. \A x \in DOMAIN objs : /\ IsStructOps(x)' <=> IsStructOps(x)
                                  /\ Patched(x)' <=> Patched(x)
      BY <2>5 DEF IsStructOps, Patched, MapName, CompiledIn
    <2>12. ObjectsHold'
      <3>1. ASSUME NEW x \in DOMAIN objs', IsStructOps(x)', objs'[x].load # "none"
            PROVE  Patched(x)'
        <4>1. x \in DOMAIN objs
          BY <2>3, <2>5, <3>1
        <4> QED BY <2>1, <2>5, <2>11, <3>1, <4>1 DEF ObjectsHold
      <3>2. ASSUME NEW x \in registered PROVE IsStructOps(x)' /\ objs'[x].load = "accepted"
        <4>1. x \in DOMAIN objs
          BY <2>4 DEF TablesOK
        <4> QED BY <2>1, <2>5, <2>11, <4>1 DEF ObjectsHold
      <3> QED BY <1>1, <3>1, <3>2 DEF ObjectsHold, IsStructOps, Patched, MapName, CompiledIn
    <2>13. ASSUME ~overlap PROVE SlotsAgree' /\ HeldAgrees(t)' /\ MarksAgree'
      <3>1. /\ SlotsAgree /\ MarksAgree
            /\ \A s \in Slots : bpf.list[s] # 0 =>
                 \/ Patched(bpf.list[s]) /\ bpf.names[s] = objs[bpf.list[s]].blob
                 \/ bpf.names[s] = NoName /\ ~Patched(bpf.list[s])
            /\ \A o \in DOMAIN objs : IsStructOps(o) /\ objs[o].load # "none" => Marked(o)
            /\ \A r \in stats : Marked(r.obj)
        BY <1>1, <1>2, <2>13, Settled
      <3>2. \A s \in Slots : bpf.list[s] # n /\ (bpf.list[s] # 0 => bpf.list[s] \in DOMAIN objs)
        BY <2>1, <2>4, <2>6, TableTypes DEF TablesOK
      <3>3. SlotsAgree'
        <4> SUFFICES ASSUME NEW s \in Slots
                     PROVE  IF bpf.list[s] = 0 THEN bpf.names[s] = NoName /\ ~bpf.recorded[s]
                            ELSE /\ \A r \in Slots : bpf.list[r] = bpf.list[s] => r = s
                                 /\ \/ /\ Patched(bpf.list[s])'
                                       /\ bpf.names[s] = objs'[bpf.list[s]].blob
                                    \/ bpf.names[s] = NoName /\ ~Patched(bpf.list[s])'
          BY <1>1 DEF SlotsAgree, Patched, MapName, CompiledIn
        <4>1. CASE bpf.list[s] = 0
          BY <3>1, <4>1 DEF SlotsAgree
        <4>2. CASE bpf.list[s] # 0
          <5>1. PICK x \in DOMAIN objs : x = bpf.list[s]
            BY <3>2, <4>2
          <5>2. (Patched(bpf.list[s])' <=> Patched(x)) /\ objs'[x] = objs[x]
            BY <1>1, <2>5, <5>1 DEF Patched, MapName, CompiledIn
          <5> QED BY <3>1, <4>2, <5>1, <5>2 DEF SlotsAgree
        <4> QED BY <4>1, <4>2
      <3>4. HeldAgrees(t)'
        <4>1. work'[t].at = "store" /\ work'[t].obj = n /\ work'[t].slot = m
          BY <2>7 DEF Becomes
        <4>2. {s \in Slots : bpf.list[s] = n} = {}
          BY <3>2
        <4>3. SlotOf(work[t].obj)' = {}
          BY <1>1, <4>1, <4>2 DEF SlotOf
        <4>4. ~Patched(work[t].obj)'
          BY <2>3, <2>5, <4>1 DEF Patched, MapName, CompiledIn
        <4> QED BY <1>1, <2>2, <4>1, <4>3, <4>4 DEF HeldAgrees
      <3>5. MarksAgree'
        <4>1. \A x : Marked(x)' <=> Marked(x)
          BY <1>1 DEF Marked, SlotOf
        <4>2. ASSUME NEW o \in DOMAIN objs', IsStructOps(o)', objs'[o].load # "none"
              PROVE  Marked(o)'
          <5>1. o \in DOMAIN objs
            BY <2>3, <2>5, <4>2
          <5> QED BY <2>5, <2>11, <3>1, <4>1, <4>2, <5>1
        <4>3. ASSUME NEW r \in stats
              PROVE  /\ r.obj \in DOMAIN objs' /\ objs'[r.obj].load # "none"
                     /\ IsStructOps(r.obj)' /\ Marked(r.obj)'
          <5>1. r.obj \in DOMAIN objs /\ objs[r.obj].load # "none" /\ IsStructOps(r.obj)
            BY <3>1 DEF MarksAgree
          <5> QED BY <2>5, <2>11, <3>1, <4>1, <5>1
        <4> QED BY <1>1, <4>2, <4>3 DEF MarksAgree, Marked, SlotOf, IsStructOps
      <3> QED BY <3>3, <3>4, <3>5
    <2>14. SelectedRegistered' /\ RecordedOnce'
      <3>1. TablesOK'
        BY <2>8 DEF BpfTypes
      <3> QED BY <1>1, <2>9, <3>1, StepResults
    <2>15. work'[t].at # "idle" /\ \A u \in Threads : u # t => work'[u] = work[u]
      BY <2>7 DEF Becomes
    <2> QED
      BY <1>2, <2>8, <2>9, <2>10, <2>12, <2>13, <2>14, <2>15, BpfStep
  <1> QED
    BY <1>3, <1>4 DEF OpenObject

\* A step of t within a BPF call that neither records nor asks for anything.
LEMMA CallStep ==
  ASSUME BpfInv, NEW t \in Threads, InCallOf(t), InCall,
         NEW a, NEW o, NEW n, NEW s, NEW k, Becomes(t, a, o, n, s, k), a # "idle",
         BpfTypes', ObjsKept, CallHolds(t)', ObjectsHold',
         ~overlap => SlotsAgree' /\ HeldAgrees(t)' /\ MarksAgree',
         UNCHANGED <<stats, asked>>, registered \subseteq registered', ExecInv'
  PROVE  BpfInv'
PROOF
  <1>1. overlap' = overlap
    BY DEF InCall
  <1>2. TablesOK'
    BY DEF BpfTypes
  <1>3. SelectedRegistered' /\ RecordedOnce'
    BY <1>1, <1>2, StepResults
  <1>4. work'[t].at # "idle" /\ \A u \in Threads : u # t => work'[u] = work[u]
    BY DEF Becomes
  <1> QED
    BY <1>3, <1>4, BpfStep

\* The types of the tables are those of their parts.
LEMMA TablesAre ==
  ASSUME NEW b, b \in [list : [Slots -> Nat], names : [Slots -> Names],
                       recorded : [Slots -> BOOLEAN], counter : Nat, accum : Lines]
  PROVE  /\ \A x \in [Slots -> Nat] :
              LET c == [b EXCEPT !.list = x]
              IN  /\ c \in [list : [Slots -> Nat], names : [Slots -> Names],
                            recorded : [Slots -> BOOLEAN], counter : Nat, accum : Lines]
                  /\ c.list = x /\ c.names = b.names /\ c.recorded = b.recorded
                  /\ c.counter = b.counter /\ c.accum = b.accum
         /\ \A x \in [Slots -> Names] :
              LET c == [b EXCEPT !.names = x]
              IN  /\ c \in [list : [Slots -> Nat], names : [Slots -> Names],
                            recorded : [Slots -> BOOLEAN], counter : Nat, accum : Lines]
                  /\ c.list = b.list /\ c.names = x /\ c.recorded = b.recorded
                  /\ c.counter = b.counter /\ c.accum = b.accum
         /\ \A x \in [Slots -> BOOLEAN] :
              LET c == [b EXCEPT !.recorded = x]
              IN  /\ c \in [list : [Slots -> Nat], names : [Slots -> Names],
                            recorded : [Slots -> BOOLEAN], counter : Nat, accum : Lines]
                  /\ c.list = b.list /\ c.names = b.names /\ c.recorded = x
                  /\ c.counter = b.counter /\ c.accum = b.accum
         /\ \A x \in Nat :
              LET c == [b EXCEPT !.counter = x]
              IN  /\ c \in [list : [Slots -> Nat], names : [Slots -> Names],
                            recorded : [Slots -> BOOLEAN], counter : Nat, accum : Lines]
                  /\ c.list = b.list /\ c.names = b.names /\ c.recorded = b.recorded
                  /\ c.counter = x /\ c.accum = b.accum
         /\ \A y \in Lines :
              LET c == [b EXCEPT !.accum = y]
              IN  /\ c \in [list : [Slots -> Nat], names : [Slots -> Names],
                            recorded : [Slots -> BOOLEAN], counter : Nat, accum : Lines]
                  /\ c.list = b.list /\ c.names = b.names /\ c.recorded = b.recorded
                  /\ c.counter = b.counter /\ c.accum = y
PROOF
  OBVIOUS

\* The object gets its slot.
LEMMA StoreBpf ==
  ASSUME BpfInv, NEW t \in Threads, StoreObject(t), InCall, ExecInv'
  PROVE  BpfInv'
PROOF
  <1>1. /\ work[t].at = "store" /\ UNCHANGED <<objs, registered, stats, asked>>
        /\ UNCHANGED <<threads, pid, overlap>>
        /\ bpf' = [bpf EXCEPT !.list[work[t].slot] = work[t].obj]
        /\ Goto(t, "return")
    BY DEF StoreObject, At, InCall, mainVars
  <1>2. work[t].at \in Holding
    BY <1>1 DEF Holding
  <1>3. InCallOf(t) /\ work[t].obj \in DOMAIN objs
    BY <1>2, HoldersAreIn
  <1>4. /\ BpfTypes /\ ObjectsHold /\ work[t].slot # 0 /\ work[t].obj # 0
    BY <1>1, <1>2 DEF BpfInv, CallHolds
  <1>5. /\ work \in [Threads -> Locals] /\ objs \in Seq(Object) /\ work[t].slot \in Slots
        /\ bpf.list \in [Slots -> Nat] /\ bpf.recorded \in [Slots -> BOOLEAN]
        /\ \A s \in Slots : bpf.list[s] # 0 => bpf.list[s] \in DOMAIN objs
    BY <1>4, TableTypes
  <1>6. PICK m \in Slots, o \in Nat : /\ m = work[t].slot /\ o = work[t].obj /\ o # 0
                                      /\ o \in DOMAIN objs
    BY <1>3, <1>4, <1>5 DEF Locals
  <1>7. bpf \in [list : [Slots -> Nat], names : [Slots -> Names],
                 recorded : [Slots -> BOOLEAN], counter : Nat, accum : Lines]
        /\ TablesOK
    BY <1>4, TypesFlat
  <1> DEFINE l == [bpf.list EXCEPT ![m] = o]
  <1>8. l \in [Slots -> Nat] /\ l[m] = o /\ \A s \in Slots : s # m => l[s] = bpf.list[s]
    BY <1>5
  <1>9. bpf' = [bpf EXCEPT !.list = l]
    BY <1>1, <1>6
  <1> HIDE DEF l
  <1>10. /\ bpf' \in [list : [Slots -> Nat], names : [Slots -> Names],
                      recorded : [Slots -> BOOLEAN], counter : Nat, accum : Lines]
         /\ bpf'.list = l /\ bpf'.names = bpf.names /\ bpf'.recorded = bpf.recorded
         /\ bpf'.accum = bpf.accum
    BY <1>7, <1>8, <1>9, TablesAre
  <1>11. Becomes(t, "return", o, work[t].name, m, work[t].ok)
    BY <1>1, <1>5, <1>6, GotoDoes DEF Goto, Places
  <1>12. BpfTypes'
    <2>1. o \in 0 .. Len(objs) /\ m \in 0 .. OBJ_LIST_SIZE
          /\ \A s \in Slots : bpf.list[s] \in 0 .. Len(objs)
      BY <1>6, <1>7 DEF TablesOK
    <2>2. \A s \in Slots : l[s] \in 0 .. Len(objs)
      BY <1>8, <2>1
    <2>3. Len(objs) <= Len(objs)
      BY <1>4, TableTypes
    <2>4. registered \subseteq DOMAIN objs
      BY <1>4, TableTypes
    <2> QED
      BY <1>1, <1>4, <1>5, <1>10, <1>11, <2>1, <2>2, <2>3, <2>4, StepTypes
  <1>13. ObjsKept /\ ObjectsHold'
    BY <1>1, <1>4, SameObjects, SameHold
  <1>14. work'[t].at \notin Holding
    BY <1>11 DEF Becomes, Holding
  <1>15. CallHolds(t)' /\ HeldAgrees(t)'
    BY <1>14, NothingHeld
  <1>16. ASSUME ~overlap PROVE SlotsAgree' /\ MarksAgree'
    <2>1. /\ SlotsAgree /\ MarksAgree
          /\ \A s \in Slots : bpf.list[s] # 0 =>
               \/ Patched(bpf.list[s]) /\ bpf.names[s] = objs[bpf.list[s]].blob
               \/ bpf.names[s] = NoName /\ ~Patched(bpf.list[s])
          /\ \A x \in DOMAIN objs : IsStructOps(x) /\ objs[x].load # "none" => Marked(x)
          /\ \A r \in stats : Marked(r.obj)
          /\ HeldAgrees(t)
      BY <1>1, <1>3, <1>16, Settled
    <2>2. bpf.list[m] = 0 /\ (\A s \in Slots : bpf.list[s] # o) /\ ~Patched(o)
      BY <1>1, <1>6, <2>1 DEF HeldAgrees, SlotOf
    <2>3. \A x : (Patched(x)' <=> Patched(x)) /\ (IsStructOps(x)' <=> IsStructOps(x))
      BY <1>1 DEF Patched, MapName, CompiledIn, IsStructOps
    <2>4. SlotsAgree'
      <3> SUFFICES ASSUME NEW s \in Slots
                   PROVE  IF l[s] = 0 THEN bpf.names[s] = NoName /\ ~bpf.recorded[s]
                          ELSE /\ \A r \in Slots : l[r] = l[s] => r = s
                               /\ \/ Patched(l[s]) /\ bpf.names[s] = objs[l[s]].blob
                                  \/ bpf.names[s] = NoName /\ ~Patched(l[s])
        BY <1>1, <1>10 DEF SlotsAgree, Patched, MapName, CompiledIn
      <3>1. CASE s = m
        <4>1. l[s] = o /\ bpf.names[s] = NoName
          BY <1>8, <2>1, <2>2, <3>1 DEF SlotsAgree
        <4> QED BY <1>6, <1>8, <2>2, <3>1, <4>1
      <3>2. CASE s # m
        <4>1. l[s] = bpf.list[s] /\ l[s] # o
          BY <1>8, <2>2, <3>2
        <4>2. CASE l[s] = 0
          BY <2>1, <4>1, <4>2 DEF SlotsAgree
        <4>3. CASE l[s] # 0
          <5>1. \A r \in Slots : l[r] = l[s] => r = s
            BY <1>8, <2>1, <4>1, <4>3 DEF SlotsAgree
          <5> QED BY <2>1, <4>1, <4>3, <5>1
        <4> QED BY <4>2, <4>3
      <3> QED BY <3>1, <3>2
    <2>5. ASSUME NEW x \in DOMAIN objs, Marked(x) PROVE Marked(x)'
      <3>1. x # 0
        BY <1>4, TableTypes
      <3>2. PICK s \in Slots : bpf.list[s] = x /\ bpf.recorded[s]
        BY <2>5 DEF Marked, SlotOf
      <3>3. l[s] = x
        BY <1>8, <2>2, <3>1, <3>2
      <3> QED BY <1>10, <3>2, <3>3 DEF Marked, SlotOf
    <2>6. MarksAgree'
      <3>1. ASSUME NEW x \in DOMAIN objs, IsStructOps(x)', objs[x].load # "none" PROVE Marked(x)'
        BY <2>1, <2>3, <2>5, <3>1
      <3>2. ASSUME NEW r \in stats
            PROVE  /\ r.obj \in DOMAIN objs /\ objs[r.obj].load # "none"
                   /\ IsStructOps(r.obj)' /\ Marked(r.obj)'
        <4>1. r.obj \in DOMAIN objs /\ objs[r.obj].load # "none" /\ IsStructOps(r.obj)
          BY <2>1 DEF MarksAgree
        <4> QED BY <2>1, <2>3, <2>5, <4>1
      <3> QED BY <1>1, <3>1, <3>2 DEF MarksAgree, Marked, SlotOf, IsStructOps
    <2> QED BY <2>4, <2>6
  <1> QED
    BY <1>1, <1>3, <1>11, <1>12, <1>13, <1>15, <1>16, CallStep

\* What find_bpf_object_by_basename finds is in some slot.
LEMMA FoundObject ==
  ASSUME BpfInv, NEW f, NEW obj \in find_bpf_object_by_basename(f), obj # 0
  PROVE  /\ obj \in DOMAIN objs /\ obj \in Nat /\ obj \in 0 .. Len(objs) /\ SlotOf(obj) # {}
PROOF
  <1> DEFINE found == {s \in Slots : /\ \A r \in 1 .. s : bpf.list[r] # 0
                                     /\ ObjName[objs[bpf.list[s]].file] = ObjName[f]}
  <1>1. found # {} /\ obj = bpf.list[Min(found)]
    BY DEF find_bpf_object_by_basename
  <1>2. Min(found) \in Slots
    BY <1>1, FirstSlot, SMTT(30)
  <1>3. obj \in DOMAIN objs /\ Len(objs) \in Nat /\ DOMAIN objs = 1 .. Len(objs)
    BY <1>1, <1>2, TableTypes DEF BpfInv
  <1> HIDE DEF found
  <1>4. SlotOf(obj) # {}
    BY <1>1, <1>2 DEF SlotOf
  <1> QED
    BY <1>3, <1>4

\* A step of t that takes the object o in its hand: what the tables say of the
\* objects does not change.
LEMMA TakeStep ==
  ASSUME BpfInv, NEW t \in Threads, InCallOf(t), InCall, work[t].at \in {"call", "patch"},
         NEW a, NEW o, NEW n, NEW s, NEW k, Becomes(t, a, o, n, s, k), a # "idle",
         o \in 0 .. Len(objs), s \in 0 .. OBJ_LIST_SIZE,
         UNCHANGED <<objs, registered, stats, asked>>,
         bpf' \in [list : [Slots -> Nat], names : [Slots -> Names],
                   recorded : [Slots -> BOOLEAN], counter : Nat, accum : Lines],
         bpf'.list = bpf.list, bpf'.names = bpf.names, bpf'.recorded = bpf.recorded,
         CallHolds(t)', ~overlap => HeldAgrees(t)', ExecInv'
  PROVE  BpfInv'
PROOF
  <1>1. /\ BpfTypes /\ ObjectsHold /\ TablesOK
    BY DEF BpfInv, BpfTypes
  <1>2. UNCHANGED <<threads, pid, overlap>>
    BY DEF InCall, mainVars
  <1>3. BpfTypes'
    <2>1. \A r \in Slots : bpf.list[r] \in 0 .. Len(objs)
      BY <1>1 DEF TablesOK
    <2>2. Len(objs) <= Len(objs) /\ objs \in Seq(Object) /\ registered \subseteq DOMAIN objs
      BY <1>1, TableTypes
    <2> QED BY <1>1, <1>2, <2>1, <2>2, StepTypes
  <1>4. ObjsKept /\ ObjectsHold'
    BY <1>1, SameObjects, SameHold
  <1>5. ASSUME ~overlap PROVE SlotsAgree' /\ MarksAgree'
    <2>1. /\ SlotsAgree /\ MarksAgree
          /\ \A u \in Threads : u # t => work[u].at \notin Holding
      BY <1>5, Settled
    <2>2. \A u \in Threads : work[u].at \notin {"stash", "mark", "record"}
      BY <2>1 DEF Holding
    <2> QED BY <2>1, <2>2, QuietTables
  <1> QED
    BY <1>2, <1>3, <1>4, <1>5, CallStep

\* syz_bpf_prog_load finds the object and draws a tag.
LEMMA LoadFindBpf ==
  ASSUME BpfInv, NEW t \in Threads, LoadFind(t), InCall, ExecInv'
  PROVE  BpfInv'
PROOF
  <1>1. /\ work[t].at = "call" /\ Is(t, "load") /\ UNCHANGED <<objs, registered, stats, asked>>
        /\ UNCHANGED <<threads, pid, overlap>>
    BY DEF LoadFind, At, InCall, mainVars
  <1>2. InCallOf(t) /\ ~Is(t, "other")' /\ BpfTypes /\ TablesOK
    BY <1>1 DEF Is, InCallOf, BpfInv, BpfTypes
  <1>3. /\ work \in [Threads -> Locals] /\ objs \in Seq(Object)
        /\ bpf \in [list : [Slots -> Nat], names : [Slots -> Names],
                    recorded : [Slots -> BOOLEAN], counter : Nat, accum : Lines]
        /\ work[t].slot \in 0 .. OBJ_LIST_SIZE /\ bpf.counter \in Nat
    BY <1>2, TypesFlat DEF TablesOK
  <1>4. PICK obj \in find_bpf_object_by_basename(FileOf(t)) :
          \/ obj = 0 /\ Goto(t, "return") /\ UNCHANGED bpf
          \/ /\ obj # 0 /\ ~IsStructOps(obj)
             /\ work' = [work EXCEPT ![t].at = "load", ![t].obj = obj]
             /\ UNCHANGED bpf
          \/ /\ obj # 0 /\ IsStructOps(obj)
             /\ work' = [work EXCEPT ![t].at = "patch", ![t].obj = obj, ![t].name = Tag(bpf.counter)]
             /\ bpf' = [bpf EXCEPT !.counter = @ + 1]
    BY DEF LoadFind
  <1>5. CASE Goto(t, "return") /\ UNCHANGED bpf
    BY <1>1, <1>5, EndsBpf
  <1>6. obj # 0 => /\ obj \in DOMAIN objs /\ obj \in Nat /\ obj \in 0 .. Len(objs)
                   /\ SlotOf(obj) # {}
    BY FoundObject
  <1>7. CASE /\ obj # 0 /\ ~IsStructOps(obj)
             /\ work' = [work EXCEPT ![t].at = "load", ![t].obj = obj]
             /\ UNCHANGED bpf
    <2>1. Becomes(t, "load", obj, work[t].name, work[t].slot, work[t].ok)
      BY <1>3, <1>6, <1>7, TakeObjectDoes DEF Places, Holding
    <2>2. /\ work'[t].at = "load" /\ work'[t].obj = obj
      BY <2>1 DEF Becomes
    <2>3. ~IsStructOps(work[t].obj)' /\ SlotOf(work[t].obj)' # {}
      BY <1>1, <1>6, <1>7, <2>2 DEF IsStructOps, SlotOf
    <2>4. CallHolds(t)'
      BY <1>2, <1>7, <2>2, <2>3 DEF CallHolds
    <2>5. HeldAgrees(t)'
      BY <2>2, <2>3 DEF HeldAgrees
    <2> QED BY <1>1, <1>2, <1>3, <1>6, <1>7, <2>1, <2>4, <2>5, TakeStep
  <1>8. CASE /\ obj # 0 /\ IsStructOps(obj)
             /\ work' = [work EXCEPT ![t].at = "patch", ![t].obj = obj, ![t].name = Tag(bpf.counter)]
             /\ bpf' = [bpf EXCEPT !.counter = @ + 1]
    <2>1. PICK n \in Pids \X Nat : n = Tag(bpf.counter) /\ n \in Names
      BY <1>2, TagType, NameKinds
    <2>2. Becomes(t, "patch", obj, n, work[t].slot, work[t].ok)
      BY <1>3, <1>6, <1>8, <2>1, TakeNamedDoes DEF Places, Holding
    <2>3. bpf.counter + 1 \in Nat
      BY <1>3
    <2>4. /\ bpf' \in [list : [Slots -> Nat], names : [Slots -> Names],
                       recorded : [Slots -> BOOLEAN], counter : Nat, accum : Lines]
          /\ bpf'.list = bpf.list /\ bpf'.names = bpf.names /\ bpf'.recorded = bpf.recorded
      BY <1>3, <1>8, <2>3, TablesAre
    <2>5. /\ work'[t].at = "patch" /\ work'[t].obj = obj /\ work'[t].name = n
      BY <2>2 DEF Becomes
    <2>6. IsStructOps(work[t].obj)' /\ SlotOf(work[t].obj)' # {}
      BY <1>1, <1>6, <1>8, <2>4, <2>5 DEF IsStructOps, SlotOf
    <2>7. CallHolds(t)'
      BY <1>2, <1>8, <2>1, <2>5, <2>6 DEF CallHolds
    <2>8. HeldAgrees(t)'
      BY <2>5, <2>6 DEF HeldAgrees
    <2> QED BY <1>1, <1>2, <1>3, <1>6, <1>8, <2>2, <2>4, <2>7, <2>8, TakeStep
  <1> QED
    BY <1>4, <1>5, <1>7, <1>8

\* brf_struct_ops_uniquify_name patches the name, or finds it patched.
LEMMA PatchBpf ==
  ASSUME BpfInv, NEW t \in Threads, PatchName(t), InCall, ExecInv'
  PROVE  BpfInv'
PROOF
  <1>1. /\ work[t].at = "patch" /\ UNCHANGED <<bpf, registered, stats, asked>>
        /\ UNCHANGED <<threads, pid, overlap>>
    BY DEF PatchName, At, InCall, mainVars
  <1>2. work[t].at \in Holding
    BY <1>1 DEF Holding
  <1>3. /\ InCallOf(t) /\ work[t].obj \in DOMAIN objs /\ objs[work[t].obj] \in Object
    BY <1>2, HoldersAreIn
  <1>4. /\ BpfTypes /\ TablesOK /\ ObjectsHold /\ CallHolds(t)
        /\ work[t].obj # 0 /\ IsStructOps(work[t].obj) /\ work[t].name \in Pids \X Nat
    BY <1>1, <1>2 DEF BpfInv, BpfTypes, CallHolds, Holding
  <1>5. /\ work \in [Threads -> Locals] /\ objs \in Seq(Object)
        /\ bpf \in [list : [Slots -> Nat], names : [Slots -> Names],
                    recorded : [Slots -> BOOLEAN], counter : Nat, accum : Lines]
        /\ work[t].slot \in 0 .. OBJ_LIST_SIZE /\ work[t].obj \in 0 .. Len(objs)
    BY <1>4, TypesFlat DEF TablesOK
  <1>6. PICK o \in DOMAIN objs, n \in Pids \X Nat :
          o = work[t].obj /\ n = work[t].name /\ o # 0 /\ IsStructOps(o)
    BY <1>3, <1>4
  <1>7. n \in Names \ {NoName} /\ \A f \in Files : n # CompiledIn(f)
    BY NameKinds
  <1>8. ~Is(t, "other")'
    BY <1>1, <1>3 DEF Is, InCallOf
  <1>9. CASE objs[o].blob # MapName(o)
    <2>1. work' = [work EXCEPT ![t].at = "stash", ![t].name = NoName] /\ UNCHANGED objs
      BY <1>6, <1>9 DEF PatchName
    <2>2. Becomes(t, "stash", o, NoName, work[t].slot, work[t].ok)
      BY <1>5, <1>6, <2>1, NameKinds, RenameDoes DEF Places, Holding
    <2>3. work'[t].at = "stash" /\ work'[t].obj = o /\ work'[t].name = NoName
      BY <2>2 DEF Becomes
    <2>4. IsStructOps(work[t].obj)' /\ Patched(work[t].obj)'
      BY <1>6, <1>9, <2>1, <2>3 DEF IsStructOps, Patched, MapName, CompiledIn
    <2>5. CallHolds(t)'
      BY <1>6, <1>8, <2>3, <2>4 DEF CallHolds
    <2>6. ASSUME ~overlap PROVE HeldAgrees(t)'
      <3>1. SlotOf(o) # {}
        <4>1. HeldAgrees(t)
          BY <1>3, <2>6, Settled
        <4>2. work[t].at \in Holding \ {"store"}
          BY <1>1, <1>2
        <4> QED BY <1>6, <4>1, <4>2 DEF HeldAgrees
      <3>2. SlotOf(work[t].obj)' # {}
        BY <1>1, <2>3, <3>1 DEF SlotOf
      <3> QED BY <2>3, <3>2 DEF HeldAgrees
    <2> QED BY <1>1, <1>3, <1>5, <1>6, <2>1, <2>2, <2>5, <2>6, TakeStep
  <1>10. CASE objs[o].blob = MapName(o)
    <2> DEFINE q == [objs[o] EXCEPT !.blob = n]
    <2>1. objs' = [objs EXCEPT ![o].blob = n] /\ work' = [work EXCEPT ![t].at = "stash"]
      BY <1>6, <1>10 DEF PatchName, Goto
    <2>2. q \in Object /\ q.blob = n /\ q.load = objs[o].load /\ q.file = objs[o].file
          /\ q.file \in Files
      BY <1>3, <1>6, <1>7 DEF Object
    <2>3. objs' = [objs EXCEPT ![o] = q]
      BY <2>1
    <2> HIDE DEF q
    <2>4. /\ objs' \in Seq(Object) /\ Len(objs') = Len(objs) /\ DOMAIN objs' = DOMAIN objs
          /\ objs'[o] = q /\ \A x \in DOMAIN objs : x # o => objs'[x] = objs[x]
      BY <1>5, <2>2, <2>3
    <2>5. Becomes(t, "stash", o, n, work[t].slot, work[t].ok)
      BY <1>5, <1>6, <2>1, GotoDoes DEF Places, Holding
    <2>6. work'[t].at = "stash" /\ work'[t].obj = o /\ work'[t].name = n
      BY <2>5 DEF Becomes
    <2>7. BpfTypes'
      <3>1. \A r \in Slots : bpf.list[r] \in 0 .. Len(objs')
        BY <1>4, <2>4 DEF TablesOK
      <3>2. Len(objs) <= Len(objs) /\ registered \subseteq DOMAIN objs'
        BY <1>4, <2>4, TableTypes
      <3> QED BY <1>1, <1>4, <1>5, <1>6, <2>4, <2>5, <3>1, <3>2, StepTypes
    <2>8. \A x \in DOMAIN objs :
            /\ IsStructOps(x)' <=> IsStructOps(x)
            /\ objs'[x].load = objs[x].load
            /\ x # o => (Patched(x)' <=> Patched(x))
      BY <2>2, <2>4 DEF IsStructOps, Patched, MapName, CompiledIn
    <2>9. ~Patched(o) /\ n # CompiledIn(q.file)
      BY <1>7, <1>10, <2>2 DEF Patched
    <2>10. ObjsKept
      <3>1. ASSUME NEW x \in DOMAIN objs
            PROVE  /\ objs'[x].file = objs[x].file
                   /\ Patched(x) => objs'[x].blob = objs[x].blob
                   /\ objs[x].load # "none" => objs'[x].load = objs[x].load
        <4>1. CASE x = o
          BY <2>2, <2>4, <2>9, <4>1
        <4>2. CASE x # o
          BY <2>4, <4>2
        <4> QED BY <4>1, <4>2
      <3> QED BY <2>4, <3>1 DEF ObjsKept
    <2>11. Patched(o)'
      BY <2>2, <2>4, <2>9 DEF Patched, MapName
    <2>12. CallHolds(t)'
      <3>1. IsStructOps(work[t].obj)' /\ Patched(work[t].obj)'
        BY <1>6, <2>6, <2>8, <2>11 DEF IsStructOps, Patched, MapName, CompiledIn
      <3> QED BY <1>6, <1>8, <2>6, <3>1 DEF CallHolds
    <2>13. ObjectsHold'
      <3>1. ASSUME NEW x \in DOMAIN objs, IsStructOps(x)', objs'[x].load # "none"
            PROVE  Patched(x)'
        <4>1. Patched(x)
          BY <1>4, <2>8, <3>1 DEF ObjectsHold
        <4> QED BY <2>8, <2>11, <4>1
      <3>2. ASSUME NEW x \in registered PROVE IsStructOps(x)' /\ objs'[x].load = "accepted"
        <4>1. x \in DOMAIN objs
          BY <1>4 DEF TablesOK
        <4> QED BY <1>4, <2>8, <4>1 DEF ObjectsHold
      <3> QED
        BY <1>1, <2>4, <3>1, <3>2 DEF ObjectsHold, IsStructOps, Patched, MapName, CompiledIn
    <2>14. ASSUME ~overlap PROVE SlotsAgree' /\ HeldAgrees(t)' /\ MarksAgree'
      <3>1. /\ SlotsAgree /\ MarksAgree /\ HeldAgrees(t)
            /\ \A s \in Slots : bpf.list[s] # 0 =>
                 \/ Patched(bpf.list[s]) /\ bpf.names[s] = objs[bpf.list[s]].blob
                 \/ bpf.names[s] = NoName /\ ~Patched(bpf.list[s])
            /\ \A x \in DOMAIN objs : IsStructOps(x) /\ objs[x].load # "none" => Marked(x)
            /\ \A r \in stats : Marked(r.obj)
        BY <1>1, <1>3, <2>14, Settled
      <3>2. SlotsAgree'
        <4> SUFFICES ASSUME NEW s \in Slots
                     PROVE  IF bpf.list[s] = 0 THEN bpf.names[s] = NoName /\ ~bpf.recorded[s]
                            ELSE /\ \A r \in Slots : bpf.list[r] = bpf.list[s] => r = s
                                 /\ \/ /\ Patched(bpf.list[s])'
                                       /\ bpf.names[s] = objs'[bpf.list[s]].blob
                                    \/ /\ bpf.names[s] = NoName
                                       /\ Patched(bpf.list[s])' =>
                                            \E u \in Threads :
                                              /\ work'[u].at = "stash"
                                              /\ work'[u].obj = bpf.list[s]
                                              /\ work'[u].name = objs'[bpf.list[s]].blob
          BY <1>1 DEF SlotsAgree, Patched, MapName, CompiledIn
        <4>1. CASE bpf.list[s] = 0
          BY <3>1, <4>1 DEF SlotsAgree
        <4>2. CASE bpf.list[s] = o
          <5>1. bpf.names[s] = NoName /\ objs'[o].blob = n
            BY <1>6, <2>2, <2>4, <2>9, <3>1, <4>2
          <5> QED BY <1>6, <2>6, <3>1, <4>2, <5>1 DEF SlotsAgree
        <4>3. CASE bpf.list[s] # 0 /\ bpf.list[s] # o
          <5>1. PICK x \in DOMAIN objs : x = bpf.list[s]
            BY <1>4, <4>3, TableTypes
          <5>2. (Patched(bpf.list[s])' <=> Patched(x)) /\ objs'[x] = objs[x]
            BY <1>1, <2>4, <2>8, <4>3, <5>1 DEF Patched, MapName, CompiledIn
          <5> QED BY <3>1, <4>3, <5>1, <5>2 DEF SlotsAgree
        <4> QED BY <4>1, <4>2, <4>3
      <3>3. HeldAgrees(t)'
        <4>1. work[t].at \in Holding \ {"store"}
          BY <1>1, <1>2
        <4>2. SlotOf(o) # {}
          BY <1>6, <3>1, <4>1 DEF HeldAgrees
        <4>3. SlotOf(work[t].obj)' # {} /\ objs'[o].blob = n
          BY <1>1, <2>2, <2>4, <2>6, <4>2 DEF SlotOf
        <4> QED BY <2>6, <4>3 DEF HeldAgrees
      <3>4. MarksAgree'
        <4>1. \A x : Marked(x)' <=> Marked(x)
          BY <1>1 DEF Marked, SlotOf
        <4>2. ASSUME NEW x \in DOMAIN objs', IsStructOps(x)', objs'[x].load # "none"
              PROVE  Marked(x)'
          BY <2>4, <2>8, <3>1, <4>1, <4>2
        <4>3. ASSUME NEW r \in stats
              PROVE  /\ r.obj \in DOMAIN objs' /\ objs'[r.obj].load # "none"
                     /\ IsStructOps(r.obj)' /\ Marked(r.obj)'
          <5>1. r.obj \in DOMAIN objs /\ objs[r.obj].load # "none" /\ IsStructOps(r.obj)
            BY <3>1 DEF MarksAgree
          <5> QED BY <2>4, <2>8, <3>1, <4>1, <5>1
        <4> QED BY <1>1, <4>2, <4>3 DEF MarksAgree, Marked, SlotOf, IsStructOps
      <3> QED BY <3>2, <3>3, <3>4
    <2> QED
      BY <1>1, <1>3, <2>5, <2>7, <2>10, <2>12, <2>13, <2>14, CallStep
  <1> QED
    BY <1>9, <1>10

\* The name is stashed in the object's slot.
LEMMA StashBpf ==
  ASSUME BpfInv, NEW t \in Threads, StashName(t), InCall, ExecInv'
  PROVE  BpfInv'
PROOF
  <1>1. /\ work[t].at = "stash" /\ UNCHANGED <<objs, registered, stats, asked>>
        /\ UNCHANGED <<threads, pid, overlap>>
        /\ Goto(t, "reset")
        /\ bpf' = [bpf EXCEPT
             !.names = [s \in Slots |-> IF s \in SlotOf(work[t].obj) /\ work[t].name # NoName
                                        THEN work[t].name ELSE @[s]]]
    BY DEF StashName, At, InCall, mainVars
  <1>2. work[t].at \in Holding
    BY <1>1 DEF Holding
  <1>3. /\ InCallOf(t) /\ work[t].obj \in DOMAIN objs /\ objs[work[t].obj] \in Object
    BY <1>2, HoldersAreIn
  <1>4. /\ BpfTypes /\ TablesOK /\ ObjectsHold
        /\ work[t].obj # 0 /\ IsStructOps(work[t].obj) /\ Patched(work[t].obj)
    <2>1. CallHolds(t)
      BY DEF BpfInv
    <2>2. IsStructOps(work[t].obj)
      BY <1>1, <2>1 DEF CallHolds, Holding
    <2> QED BY <1>1, <1>2, <2>1, <2>2 DEF BpfInv, BpfTypes, CallHolds
  <1>5. /\ work \in [Threads -> Locals] /\ objs \in Seq(Object)
        /\ bpf \in [list : [Slots -> Nat], names : [Slots -> Names],
                    recorded : [Slots -> BOOLEAN], counter : Nat, accum : Lines]
        /\ work[t].slot \in 0 .. OBJ_LIST_SIZE /\ work[t].obj \in 0 .. Len(objs)
    BY <1>4, TypesFlat DEF TablesOK
  <1>6. PICK o \in DOMAIN objs, n \in Names :
          o = work[t].obj /\ n = work[t].name /\ o # 0 /\ IsStructOps(o) /\ Patched(o)
    BY <1>3, <1>4, <1>5 DEF Locals
  <1> DEFINE l == [s \in Slots |-> IF bpf.list[s] = o /\ n # NoName THEN n ELSE bpf.names[s]]
  <1>7. l \in [Slots -> Names]
    BY <1>5
  <1>8. bpf' = [bpf EXCEPT !.names = l]
    <2>1. l = [s \in Slots |-> IF s \in SlotOf(work[t].obj) /\ work[t].name # NoName
                               THEN work[t].name ELSE bpf.names[s]]
      BY <1>6 DEF SlotOf
    <2> QED BY <1>1, <2>1
  <1>9. \A s \in Slots : l[s] = IF bpf.list[s] = o /\ n # NoName THEN n ELSE bpf.names[s]
    OBVIOUS
  <1> HIDE DEF l
  <1>11. /\ bpf' \in [list : [Slots -> Nat], names : [Slots -> Names],
                      recorded : [Slots -> BOOLEAN], counter : Nat, accum : Lines]
         /\ bpf'.list = bpf.list /\ bpf'.names = l /\ bpf'.recorded = bpf.recorded
    BY <1>5, <1>7, <1>8, TablesAre
  <1>12. Becomes(t, "reset", o, n, work[t].slot, work[t].ok)
    BY <1>1, <1>5, <1>6, GotoDoes DEF Goto, Places, Holding
  <1>13. work'[t].at = "reset" /\ work'[t].obj = o
    BY <1>12 DEF Becomes
  <1>14. BpfTypes'
    <2>1. \A r \in Slots : bpf'.list[r] \in 0 .. Len(objs)
      BY <1>4, <1>11 DEF TablesOK
    <2>2. Len(objs) <= Len(objs) /\ registered \subseteq DOMAIN objs
      BY <1>4, TableTypes
    <2> QED BY <1>1, <1>4, <1>5, <1>6, <1>11, <1>12, <2>1, <2>2, StepTypes
  <1>15. ObjsKept /\ ObjectsHold'
    BY <1>1, <1>4, SameObjects, SameHold
  <1>16. CallHolds(t)'
    <2>1. IsStructOps(work[t].obj)' /\ Patched(work[t].obj)'
      BY <1>1, <1>6, <1>13 DEF IsStructOps, Patched, MapName, CompiledIn
    <2>2. ~Is(t, "other")'
      BY <1>1, <1>3 DEF Is, InCallOf
    <2> QED BY <1>6, <1>13, <2>1, <2>2 DEF CallHolds
  <1>17. ASSUME ~overlap PROVE SlotsAgree' /\ HeldAgrees(t)' /\ MarksAgree'
    <2>1. /\ SlotsAgree /\ MarksAgree /\ HeldAgrees(t)
          /\ \A u \in Threads : u # t => work[u].at \notin Holding
          /\ \A x \in DOMAIN objs : IsStructOps(x) /\ objs[x].load # "none" => Marked(x)
          /\ \A r \in stats : Marked(r.obj)
      BY <1>1, <1>3, <1>17, Settled
    <2>2. /\ n \in {NoName, objs[o].blob} /\ SlotOf(o) # {}
      BY <1>1, <1>6, <2>1 DEF HeldAgrees, Holding
    <2>3. \A u \in Threads : work[u].at = "stash" => u = t
      BY <2>1 DEF Holding
    <2>4. objs[o].blob # NoName
      BY <1>3, <1>6 DEF Object
    <2>5. SlotsAgree'
      <3> SUFFICES ASSUME NEW s \in Slots
                   PROVE  IF bpf.list[s] = 0 THEN l[s] = NoName /\ ~bpf.recorded[s]
                          ELSE /\ \A r \in Slots : bpf.list[r] = bpf.list[s] => r = s
                               /\ \/ Patched(bpf.list[s]) /\ l[s] = objs[bpf.list[s]].blob
                                  \/ l[s] = NoName /\ ~Patched(bpf.list[s])
        BY <1>1, <1>11 DEF SlotsAgree, Patched, MapName, CompiledIn
      <3>1. CASE bpf.list[s] = 0
        BY <1>6, <1>9, <2>1, <3>1 DEF SlotsAgree
      <3>2. CASE bpf.list[s] = o
        <4>1. \A r \in Slots : bpf.list[r] = bpf.list[s] => r = s
          BY <1>6, <2>1, <3>2 DEF SlotsAgree
        <4>2. l[s] = objs[o].blob
          <5>1. CASE n # NoName
            BY <1>9, <2>2, <3>2, <5>1
          <5>2. CASE n = NoName
            <6>1. ~ \E u \in Threads : /\ work[u].at = "stash" /\ work[u].obj = bpf.list[s]
                                       /\ work[u].name = objs[bpf.list[s]].blob
              BY <1>6, <2>3, <2>4, <3>2, <5>2
            <6>2. bpf.names[s] = objs[o].blob
              BY <1>6, <2>1, <3>2, <6>1 DEF SlotsAgree
            <6> QED BY <1>9, <5>2, <6>2
          <5> QED BY <5>1, <5>2
        <4> QED BY <1>6, <3>2, <4>1, <4>2
      <3>3. CASE bpf.list[s] # 0 /\ bpf.list[s] # o
        <4>1. l[s] = bpf.names[s]
          BY <1>9, <3>3
        <4>2. ~ \E u \in Threads : /\ work[u].at = "stash" /\ work[u].obj = bpf.list[s]
                                   /\ work[u].name = objs[bpf.list[s]].blob
          BY <1>6, <2>3, <3>3
        <4> QED BY <2>1, <3>3, <4>1, <4>2 DEF SlotsAgree
      <3> QED BY <3>1, <3>2, <3>3
    <2>6. HeldAgrees(t)'
      <3>1. SlotOf(work[t].obj)' # {}
        BY <1>11, <1>13, <2>2 DEF SlotOf
      <3> QED BY <1>11, <1>13, <3>1 DEF HeldAgrees
    <2>7. MarksAgree'
      <3>1. \A x : (Marked(x)' <=> Marked(x)) /\ (IsStructOps(x)' <=> IsStructOps(x))
        BY <1>1, <1>11 DEF Marked, SlotOf, IsStructOps
      <3>2. ASSUME NEW x \in DOMAIN objs, IsStructOps(x)', objs[x].load # "none" PROVE Marked(x)'
        BY <2>1, <3>1, <3>2
      <3>3. ASSUME NEW r \in stats
            PROVE  /\ r.obj \in DOMAIN objs /\ objs[r.obj].load # "none"
                   /\ IsStructOps(r.obj)' /\ Marked(r.obj)'
        BY <2>1, <3>1 DEF MarksAgree
      <3> QED BY <1>1, <3>2, <3>3 DEF MarksAgree, Marked, SlotOf, IsStructOps
    <2> QED BY <2>5, <2>6, <2>7
  <1> QED
    BY <1>1, <1>3, <1>12, <1>14, <1>15, <1>16, <1>17, CallStep

\* The accumulator is emptied.
LEMMA ResetBpf ==
  ASSUME BpfInv, NEW t \in Threads, ResetAccum(t), InCall, ExecInv'
  PROVE  BpfInv'
PROOF
  <1>1. /\ work[t].at = "reset" /\ UNCHANGED <<objs, registered, stats, asked>>
        /\ UNCHANGED <<threads, pid, overlap>>
        /\ Goto(t, "load") /\ bpf' = [bpf EXCEPT !.accum = <<>>]
    BY DEF ResetAccum, At, InCall, mainVars
  <1>2. work[t].at \in Holding
    BY <1>1 DEF Holding
  <1>3. InCallOf(t) /\ work[t].obj \in DOMAIN objs
    BY <1>2, HoldersAreIn
  <1>4. /\ BpfTypes /\ TablesOK /\ ObjectsHold /\ CallHolds(t)
        /\ work[t].obj # 0 /\ IsStructOps(work[t].obj) /\ Patched(work[t].obj)
    <2>1. CallHolds(t) /\ BpfTypes /\ ObjectsHold
      BY DEF BpfInv
    <2>2. IsStructOps(work[t].obj)
      BY <1>1, <2>1 DEF CallHolds, Holding
    <2> QED BY <1>1, <1>2, <2>1, <2>2 DEF BpfTypes, CallHolds
  <1>5. /\ work \in [Threads -> Locals] /\ objs \in Seq(Object)
        /\ bpf \in [list : [Slots -> Nat], names : [Slots -> Names],
                    recorded : [Slots -> BOOLEAN], counter : Nat, accum : Lines]
        /\ work[t].slot \in 0 .. OBJ_LIST_SIZE /\ work[t].obj \in 0 .. Len(objs)
        /\ work[t].name \in Names
    BY <1>4, TypesFlat DEF TablesOK
  <1>6. <<>> \in Lines
    BY DEF Lines
  <1>7. /\ bpf' \in [list : [Slots -> Nat], names : [Slots -> Names],
                      recorded : [Slots -> BOOLEAN], counter : Nat, accum : Lines]
        /\ bpf'.list = bpf.list /\ bpf'.names = bpf.names /\ bpf'.recorded = bpf.recorded
        /\ bpf'.accum = <<>>
    BY <1>1, <1>5, <1>6, TablesAre
  <1>8. Becomes(t, "load", work[t].obj, work[t].name, work[t].slot, work[t].ok)
    BY <1>1, <1>5, GotoDoes DEF Goto, Places, Holding
  <1>9. /\ work'[t].at = "load" /\ work'[t].obj = work[t].obj
        /\ \A u \in Threads : u # t => work'[u] = work[u]
    BY <1>8 DEF Becomes
  <1>10. BpfTypes'
    <2>1. \A r \in Slots : bpf'.list[r] \in 0 .. Len(objs)
      BY <1>4, <1>7 DEF TablesOK
    <2>2. Len(objs) <= Len(objs) /\ registered \subseteq DOMAIN objs
      BY <1>4, TableTypes
    <2> QED BY <1>1, <1>4, <1>5, <1>7, <1>8, <2>1, <2>2, StepTypes
  <1>11. ObjsKept /\ ObjectsHold'
    BY <1>1, <1>4, SameObjects, SameHold
  <1>12. CallHolds(t)'
    <2>1. IsStructOps(work[t].obj)' /\ Patched(work[t].obj)'
      BY <1>1, <1>4, <1>9 DEF IsStructOps, Patched, MapName, CompiledIn
    <2>2. ~Is(t, "other")'
      BY <1>1, <1>3 DEF Is, InCallOf
    <2> QED BY <1>4, <1>9, <2>1, <2>2 DEF CallHolds
  <1>13. ASSUME ~overlap PROVE SlotsAgree' /\ HeldAgrees(t)' /\ MarksAgree'
    <2>1. /\ SlotsAgree /\ MarksAgree /\ HeldAgrees(t)
      BY <1>3, <1>13, Settled
    <2>2. \A u \in Threads : work[u].at \in {"stash", "mark", "record"} => work'[u] = work[u]
      BY <1>1, <1>9
    <2>3. SlotsAgree' /\ MarksAgree'
      BY <1>1, <1>7, <2>1, <2>2, QuietTables
    <2>4. SlotOf(work[t].obj) # {}
      BY <1>1, <1>2, <2>1 DEF HeldAgrees
    <2>5. SlotOf(work[t].obj)' # {}
      BY <1>7, <1>9, <2>4 DEF SlotOf
    <2>6. HeldAgrees(t)'
      BY <1>7, <1>9, <2>5 DEF HeldAgrees
    <2> QED BY <2>3, <2>6
  <1> QED
    BY <1>1, <1>3, <1>8, <1>10, <1>11, <1>12, <1>13, CallStep

\* The warnings of a load, appended to the accumulator.
LEMMA MoreLines ==
  ASSUME NEW acc \in Lines, NEW lines \in Seq(Kinds), NEW i \in Nat
  PROVE  LET new == [j \in DOMAIN lines |-> [by |-> i, kind |-> lines[j]]]
         IN  /\ acc \o new \in Lines
             /\ acc = <<>> => \A j \in DOMAIN (acc \o new) : (acc \o new)[j].by = i
PROOF
  <1> DEFINE new == [j \in DOMAIN lines |-> [by |-> i, kind |-> lines[j]]]
  <1>1. DOMAIN lines = 1 .. Len(lines) /\ Len(lines) \in Nat
        /\ \A j \in 1 .. Len(lines) : lines[j] \in Kinds
    OBVIOUS
  <1>2. new \in [1 .. Len(lines) -> [by : Nat, kind : Kinds]]
    BY <1>1
  <1>3. new \in Lines
    BY <1>1, <1>2 DEF Lines
  <1>4. \A j \in DOMAIN new : new[j].by = i
    OBVIOUS
  <1> HIDE DEF new
  <1>5. acc \o new \in Lines
    BY <1>3 DEF Lines
  <1>6. acc = <<>> => acc \o new = new
    BY <1>3 DEF Lines
  <1> QED
    BY <1>4, <1>5, <1>6 DEF new

\* bpf_object__load: the verdict of the first load stays, a second one fails.
LEMMA LoadBpf ==
  ASSUME BpfInv, NEW t \in Threads, LoadObject(t), InCall, ExecInv'
  PROVE  BpfInv'
PROOF
  <1>1. /\ work[t].at = "load" /\ UNCHANGED <<registered, stats, asked>>
        /\ UNCHANGED <<threads, pid, overlap>>
    BY DEF LoadObject, At, InCall, mainVars
  <1>2. work[t].at \in Holding
    BY <1>1 DEF Holding
  <1>3. /\ InCallOf(t) /\ work[t].obj \in DOMAIN objs /\ objs[work[t].obj] \in Object
    BY <1>2, HoldersAreIn
  <1>4. /\ BpfTypes /\ TablesOK /\ ObjectsHold /\ CallHolds(t)
        /\ work[t].obj # 0 /\ (IsStructOps(work[t].obj) => Patched(work[t].obj))
    BY <1>1, <1>2 DEF BpfInv, BpfTypes, CallHolds
  <1>5. /\ work \in [Threads -> Locals] /\ objs \in Seq(Object)
        /\ bpf \in [list : [Slots -> Nat], names : [Slots -> Names],
                    recorded : [Slots -> BOOLEAN], counter : Nat, accum : Lines]
        /\ work[t].slot \in 0 .. OBJ_LIST_SIZE /\ work[t].obj \in 0 .. Len(objs)
    BY <1>4, TypesFlat DEF TablesOK
  <1>6. PICK o \in DOMAIN objs :
          /\ o = work[t].obj /\ o # 0 /\ (IsStructOps(o) => Patched(o)) /\ objs[o] \in Object
          /\ o \in 0 .. Len(objs)
    BY <1>3, <1>4, <1>5
  <1>7. threads[t].index \in Nat
    <2>1. threads[t].index \in {0} \cup Indices
      BY DEF BpfInv, ExecInv, RunningExact, TypeOK
    <2>2. {0} \cup Indices \subseteq Nat
      BY IndicesCover
    <2> QED BY <2>1, <2>2
  <1>8. PICK ok \in BOOLEAN, lines \in Logs \cup {<<>>, <<"twice">>} :
          /\ IF objs[o].load # "none"
             THEN ~ok /\ lines = <<"twice">> /\ UNCHANGED objs
             ELSE /\ lines # <<"twice">> /\ (ok <=> lines = <<>>)
                  /\ objs' = [objs EXCEPT ![o].load = IF ok THEN "accepted" ELSE "rejected"]
          /\ bpf' = [bpf EXCEPT !.accum = @ \o [i \in DOMAIN lines |->
                                   [by |-> threads[t].index, kind |-> lines[i]]]]
          /\ work' = [work EXCEPT ![t].ok = ok,
                        ![t].at = IF IsStructOps(o) THEN "record" ELSE "return"]
    BY <1>6 DEF LoadObject
  <1>9. lines \in Seq(Kinds)
    <2>1. <<>> \in Seq(Kinds)
      OBVIOUS
    <2>2. <<"twice">> \in Seq(Kinds)
      <3>1. PICK w \in Kinds : w = "twice"
        BY DEF Kinds
      <3>2. <<w>> \in Seq(Kinds)
        BY SingletonSeq
      <3> QED BY <3>1, <3>2
    <2>3. Logs \subseteq Seq(Kinds)
      BY ExecutorAssumption
    <2> QED BY <2>1, <2>2, <2>3
  <1> DEFINE acc == bpf.accum \o [i \in DOMAIN lines |->
                                    [by |-> threads[t].index, kind |-> lines[i]]]
             a == IF IsStructOps(o) THEN "record" ELSE "return"
  <1>10. /\ acc \in Lines
         /\ bpf.accum = <<>> => \A j \in DOMAIN acc : acc[j].by = threads[t].index
    <2>1. bpf.accum \in Lines
      BY <1>5
    <2> QED BY <1>7, <1>9, <2>1, MoreLines
  <1>11. bpf' = [bpf EXCEPT !.accum = acc]
    BY <1>8
  <1> HIDE DEF acc
  <1>12. /\ bpf' \in [list : [Slots -> Nat], names : [Slots -> Names],
                      recorded : [Slots -> BOOLEAN], counter : Nat, accum : Lines]
         /\ bpf'.list = bpf.list /\ bpf'.names = bpf.names /\ bpf'.recorded = bpf.recorded
         /\ bpf'.accum = acc
    BY <1>5, <1>10, <1>11, TablesAre
  <1>13. a \in Places /\ a # "idle" /\ (a = "record" <=> IsStructOps(o))
         /\ (a # "record" => a = "return")
    BY DEF Places, Holding
  <1>14. work' = [work EXCEPT ![t].ok = ok, ![t].at = a]
    BY <1>8
  <1> HIDE DEF a
  <1>15. Becomes(t, a, o, work[t].name, work[t].slot, ok)
    BY <1>5, <1>6, <1>13, <1>14, VerdictDoes
  <1>16. work'[t].at = a /\ work'[t].obj = o /\ work'[t].ok = ok
    BY <1>15 DEF Becomes
  <1>17. /\ objs' \in Seq(Object) /\ Len(objs') = Len(objs) /\ DOMAIN objs' = DOMAIN objs
         /\ \A x \in DOMAIN objs : /\ objs'[x].file = objs[x].file /\ objs'[x].blob = objs[x].blob
                                   /\ x # o => objs'[x].load = objs[x].load
         /\ objs[o].load # "none" => objs'[o].load = objs[o].load
         /\ objs[o].load = "none" => (ok <=> objs'[o].load = "accepted")
         /\ objs'[o].load # "none"
    <2>1. CASE objs[o].load # "none"
      BY <1>5, <1>6, <1>8, <2>1
    <2>2. CASE objs[o].load = "none"
      <3> DEFINE q == [objs[o] EXCEPT !.load = IF ok THEN "accepted" ELSE "rejected"]
      <3>1. objs' = [objs EXCEPT ![o] = q]
        BY <1>8, <2>2
      <3>2. q \in Object /\ q.file = objs[o].file /\ q.blob = objs[o].blob
            /\ (ok <=> q.load = "accepted") /\ q.load # "none"
        BY <1>6 DEF Object
      <3> HIDE DEF q
      <3>3. /\ objs' \in Seq(Object) /\ Len(objs') = Len(objs) /\ DOMAIN objs' = DOMAIN objs
            /\ objs'[o] = q /\ \A x \in DOMAIN objs : x # o => objs'[x] = objs[x]
        BY <1>5, <3>1, <3>2
      <3> QED BY <2>2, <3>2, <3>3
    <2> QED BY <2>1, <2>2
  <1>18. BpfTypes'
    <2>1. \A r \in Slots : bpf'.list[r] \in 0 .. Len(objs')
      BY <1>4, <1>12, <1>17 DEF TablesOK
    <2>2. Len(objs) <= Len(objs') /\ registered \subseteq DOMAIN objs'
      BY <1>4, <1>17, TableTypes
    <2> QED BY <1>1, <1>4, <1>5, <1>6, <1>12, <1>15, <1>17, <2>1, <2>2, StepTypes
  <1>19. ObjsKept
    BY <1>17 DEF ObjsKept
  <1>20. \A x \in DOMAIN objs : /\ IsStructOps(x)' <=> IsStructOps(x)
                                /\ Patched(x)' <=> Patched(x)
    BY <1>17 DEF IsStructOps, Patched, MapName, CompiledIn
  <1>21. CallHolds(t)'
    <2>1. /\ IsStructOps(work[t].obj)' <=> IsStructOps(o)
          /\ Patched(work[t].obj)' <=> Patched(o)
      BY <1>16, <1>20 DEF IsStructOps, Patched, MapName, CompiledIn
    <2>2. ~Is(t, "other")'
      BY <1>1, <1>3 DEF Is, InCallOf
    <2>3. CASE a = "record"
      BY <1>6, <1>13, <1>16, <1>17, <2>1, <2>2, <2>3 DEF CallHolds
    <2>4. CASE a = "return"
      <3>1. work'[t].at \notin Holding
        BY <1>16, <2>4 DEF Holding
      <3> QED BY <3>1, NothingHeld
    <2> QED BY <1>13, <2>3, <2>4
  <1>22. ObjectsHold'
    <2>1. ASSUME NEW x \in DOMAIN objs, IsStructOps(x)', objs'[x].load # "none"
          PROVE  Patched(x)'
      <3>1. CASE x = o
        BY <1>6, <1>20, <2>1, <3>1
      <3>2. CASE x # o
        BY <1>4, <1>17, <1>20, <2>1, <3>2 DEF ObjectsHold
      <3> QED BY <3>1, <3>2
    <2>2. ASSUME NEW x \in registered PROVE IsStructOps(x)' /\ objs'[x].load = "accepted"
      <3>1. x \in DOMAIN objs
        BY <1>4 DEF TablesOK
      <3>2. IsStructOps(x) /\ objs[x].load = "accepted"
        BY <1>4 DEF ObjectsHold
      <3> QED BY <1>17, <1>20, <3>1, <3>2
    <2> QED
      BY <1>1, <1>17, <2>1, <2>2 DEF ObjectsHold, IsStructOps, Patched, MapName, CompiledIn
  <1>23. ASSUME ~overlap PROVE SlotsAgree' /\ HeldAgrees(t)' /\ MarksAgree'
    <2>1. /\ SlotsAgree /\ MarksAgree /\ HeldAgrees(t)
          /\ \A s \in Slots : bpf.list[s] # 0 =>
               \/ Patched(bpf.list[s]) /\ bpf.names[s] = objs[bpf.list[s]].blob
               \/ bpf.names[s] = NoName /\ ~Patched(bpf.list[s])
          /\ \A x \in DOMAIN objs : IsStructOps(x) /\ objs[x].load # "none" => Marked(x)
          /\ \A r \in stats : Marked(r.obj)
      BY <1>1, <1>3, <1>23, Settled
    <2>2. SlotOf(o) # {} /\ (IsStructOps(o) => bpf.accum = <<>>)
      BY <1>1, <1>2, <1>6, <2>1 DEF HeldAgrees
    <2>3. \A x : (Marked(x)' <=> Marked(x)) /\ SlotOf(x)' = SlotOf(x)
      BY <1>12 DEF Marked, SlotOf
    <2>4. SlotsAgree'
      <3> SUFFICES ASSUME NEW s \in Slots
                   PROVE  IF bpf.list[s] = 0 THEN bpf.names[s] = NoName /\ ~bpf.recorded[s]
                          ELSE /\ \A r \in Slots : bpf.list[r] = bpf.list[s] => r = s
                               /\ \/ /\ Patched(bpf.list[s])'
                                     /\ bpf.names[s] = objs'[bpf.list[s]].blob
                                  \/ bpf.names[s] = NoName /\ ~Patched(bpf.list[s])'
        BY <1>12 DEF SlotsAgree, Patched, MapName, CompiledIn
      <3>1. CASE bpf.list[s] = 0
        BY <2>1, <3>1 DEF SlotsAgree
      <3>2. CASE bpf.list[s] # 0
        <4>1. PICK x \in DOMAIN objs : x = bpf.list[s]
          BY <1>4, <3>2, TableTypes
        <4>2. (Patched(bpf.list[s])' <=> Patched(x)) /\ objs'[x].blob = objs[x].blob
          BY <1>12, <1>17, <4>1 DEF Patched, MapName, CompiledIn
        <4> QED BY <2>1, <3>2, <4>1, <4>2 DEF SlotsAgree
      <3> QED BY <3>1, <3>2
    <2>5. HeldAgrees(t)'
      <3>1. CASE a = "record"
        <4>1. IsStructOps(o) /\ bpf.accum = <<>>
          BY <1>13, <2>2, <3>1
        <4>2. /\ SlotOf(work[t].obj)' # {}
              /\ Marked(work[t].obj)' <=> Marked(o)
          BY <1>12, <1>16, <2>2 DEF Marked, SlotOf
        <4>3. ~Marked(o) => (ok <=> objs'[o].load = "accepted")
          BY <1>17, <2>1, <4>1
        <4>4. \A j \in DOMAIN bpf'.accum : bpf'.accum[j].by = threads'[t].index
          BY <1>1, <1>10, <1>12, <4>1
        <4> QED BY <1>16, <3>1, <4>2, <4>3, <4>4 DEF HeldAgrees
      <3>2. CASE a = "return"
        <4>1. work'[t].at \notin Holding
          BY <1>16, <3>2 DEF Holding
        <4> QED BY <4>1, NothingHeld
      <3> QED BY <1>13, <3>1, <3>2
    <2>6. MarksAgree'
      <3>1. ASSUME NEW x \in DOMAIN objs, IsStructOps(x)', objs'[x].load # "none"
            PROVE  Marked(x)' \/ \E u \in Threads : work'[u].at \in {"record", "mark"} /\ work'[u].obj = x
        <4>1. CASE x = o
          BY <1>13, <1>16, <1>20, <3>1, <4>1
        <4>2. CASE x # o
          BY <1>17, <1>20, <2>1, <2>3, <3>1, <4>2
        <4> QED BY <4>1, <4>2
      <3>2. ASSUME NEW r \in stats
            PROVE  /\ r.obj \in DOMAIN objs /\ objs'[r.obj].load # "none"
                   /\ IsStructOps(r.obj)' /\ Marked(r.obj)'
        <4>1. r.obj \in DOMAIN objs /\ objs[r.obj].load # "none" /\ IsStructOps(r.obj)
          BY <2>1 DEF MarksAgree
        <4> QED BY <1>17, <1>20, <2>1, <2>3, <4>1
      <3> QED BY <1>1, <1>17, <3>1, <3>2 DEF MarksAgree, Marked, SlotOf, IsStructOps
    <2> QED BY <2>4, <2>5, <2>6
  <1> QED
    BY <1>1, <1>3, <1>13, <1>15, <1>18, <1>19, <1>21, <1>22, <1>23, CallStep

\* The outcome is recorded, for the first time.
LEMMA RecordBpf ==
  ASSUME BpfInv, NEW t \in Threads, RecordOutcome(t), InCall, ExecInv'
  PROVE  BpfInv'
PROOF
  <1>1. /\ work[t].at = "record" /\ UNCHANGED <<objs, bpf, registered, asked>>
        /\ UNCHANGED <<threads, pid, overlap>>
    BY DEF RecordOutcome, At, InCall, mainVars
  <1>2. work[t].at \in Holding
    BY <1>1 DEF Holding
  <1>3. /\ InCallOf(t) /\ work[t].obj \in DOMAIN objs
    BY <1>2, HoldersAreIn
  <1>4. CASE Marked(work[t].obj)
    <2>1. Goto(t, "return") /\ UNCHANGED stats
      BY <1>4 DEF RecordOutcome, Marked
    <2> QED BY <1>1, <1>4, <2>1, EndsBpf
  <1>5. CASE ~Marked(work[t].obj)
    <2>1. /\ BpfTypes /\ TablesOK /\ ObjectsHold /\ CallHolds(t) /\ SelectedRegistered
      BY DEF BpfInv, BpfTypes
    <2>2. /\ work \in [Threads -> Locals] /\ objs \in Seq(Object)
          /\ bpf \in [list : [Slots -> Nat], names : [Slots -> Names],
                      recorded : [Slots -> BOOLEAN], counter : Nat, accum : Lines]
          /\ work[t].slot \in 0 .. OBJ_LIST_SIZE /\ work[t].obj \in 0 .. Len(objs)
      BY <2>1, TypesFlat DEF TablesOK
    <2>3. PICK o \in DOMAIN objs :
            /\ o = work[t].obj /\ o # 0 /\ IsStructOps(o) /\ Patched(o) /\ objs[o].load # "none"
            /\ o \in 0 .. Len(objs)
      <3>1. work[t].at \in Holding \ {"store", "load"}
        BY <1>1, <1>2
      <3> QED BY <1>1, <1>2, <1>3, <2>1, <2>2, <3>1 DEF CallHolds
    <2> DEFINE q == [obj |-> o, by |-> threads[t].index, ok |-> work[t].ok, log |-> bpf.accum,
                     reason |-> IF work[t].ok THEN 0 ELSE brf_verif_pick_reason(bpf.accum)]
    <2>4. Goto(t, "mark") /\ (stats' = stats \/ stats' = stats \cup {q})
      BY <1>5, <2>3 DEF RecordOutcome, Marked
    <2>5. q.obj = o /\ q.by = threads[t].index /\ q.ok = work[t].ok /\ q.log = bpf.accum
      OBVIOUS
    <2> HIDE DEF q
    <2>6. Becomes(t, "mark", o, work[t].name, work[t].slot, work[t].ok)
      BY <2>2, <2>3, <2>4, GotoDoes DEF Goto, Places, Holding
    <2>7. /\ work'[t].at = "mark" /\ work'[t].obj = o
          /\ \A u \in Threads : u # t => work'[u] = work[u]
      BY <2>6 DEF Becomes
    <2>8. BpfTypes'
      <3>1. \A r \in Slots : bpf'.list[r] \in 0 .. Len(objs)
        BY <1>1, <2>1 DEF TablesOK
      <3>2. Len(objs) <= Len(objs) /\ registered \subseteq DOMAIN objs
        BY <2>1, TableTypes
      <3> QED BY <1>1, <2>1, <2>2, <2>3, <2>6, <3>1, <3>2, StepTypes
    <2>9. ObjsKept /\ ObjectsHold'
      BY <1>1, <2>1, SameObjects, SameHold
    <2>10. CallHolds(t)'
      <3>1. IsStructOps(work[t].obj)' /\ Patched(work[t].obj)' /\ objs'[o].load # "none"
        BY <1>1, <2>3, <2>7 DEF IsStructOps, Patched, MapName, CompiledIn
      <3>2. ~Is(t, "other")'
        BY <1>1, <1>3 DEF Is, InCallOf
      <3> QED BY <2>3, <2>7, <3>1, <3>2 DEF CallHolds
    <2>11. ASSUME ~overlap
           PROVE  /\ SlotsAgree' /\ HeldAgrees(t)' /\ MarksAgree'
                  /\ \A r \in stats : r.obj # o
                  /\ work[t].ok <=> objs[o].load = "accepted"
                  /\ \A i \in DOMAIN bpf.accum : bpf.accum[i].by = threads[t].index
      <3>1. /\ SlotsAgree /\ MarksAgree /\ HeldAgrees(t)
            /\ \A u \in Threads : u # t => work[u].at \notin Holding
            /\ \A r \in stats : Marked(r.obj)
        BY <1>1, <1>3, <2>11, Settled
      <3>2. \A r \in stats : r.obj # o
        BY <1>5, <2>3, <3>1
      <3>3. /\ SlotOf(o) # {} /\ (work[t].ok <=> objs[o].load = "accepted")
            /\ \A i \in DOMAIN bpf.accum : bpf.accum[i].by = threads[t].index
        BY <1>1, <1>2, <1>5, <2>3, <3>1 DEF HeldAgrees
      <3>4. HeldAgrees(t)'
        <4>1. SlotOf(work[t].obj)' # {}
          BY <1>1, <2>7, <3>3 DEF SlotOf
        <4> QED BY <2>7, <4>1 DEF HeldAgrees
      <3>5. \A x : /\ Patched(x)' <=> Patched(x)
                   /\ IsStructOps(x)' <=> IsStructOps(x)
                   /\ Marked(x)' <=> Marked(x)
        BY <1>1 DEF Patched, MapName, CompiledIn, IsStructOps, Marked, SlotOf
      <3>6. \A u \in Threads : work[u].at \notin {"stash", "mark"} /\ (work[u].at = "record" => u = t)
        BY <1>1, <3>1 DEF Holding
      <3>7. SlotsAgree'
        <4> SUFFICES ASSUME NEW s \in Slots
                     PROVE  IF bpf.list[s] = 0 THEN bpf.names[s] = NoName /\ ~bpf.recorded[s]
                            ELSE /\ \A r \in Slots : bpf.list[r] = bpf.list[s] => r = s
                                 /\ \/ /\ Patched(bpf.list[s])
                                       /\ bpf.names[s] = objs[bpf.list[s]].blob
                                    \/ bpf.names[s] = NoName /\ ~Patched(bpf.list[s])
          BY <1>1 DEF SlotsAgree, Patched, MapName, CompiledIn
        <4> QED BY <3>1, <3>6 DEF SlotsAgree
      <3>8. MarksAgree'
        <4>1. ASSUME NEW x \in DOMAIN objs, IsStructOps(x), objs[x].load # "none"
              PROVE  Marked(x) \/ \E u \in Threads : work'[u].at \in {"record", "mark"} /\ work'[u].obj = x
          BY <2>3, <2>7, <3>1, <3>6, <4>1 DEF MarksAgree
        <4>2. ASSUME NEW r \in stats'
              PROVE  /\ r.obj \in DOMAIN objs /\ objs[r.obj].load # "none" /\ IsStructOps(r.obj)
                     /\ Marked(r.obj) \/ \E u \in Threads : work'[u].at = "mark" /\ work'[u].obj = r.obj
          <5>1. CASE r \in stats
            BY <3>1, <5>1 DEF MarksAgree
          <5>2. CASE r = q
            BY <2>3, <2>5, <2>7, <5>2
          <5> QED BY <2>4, <5>1, <5>2
        <4>3. \A x \in DOMAIN objs' : IsStructOps(x)' /\ objs'[x].load # "none" =>
                Marked(x)' \/ \E u \in Threads : work'[u].at \in {"record", "mark"} /\ work'[u].obj = x
          BY <1>1, <3>5, <4>1
        <4>4. \A r \in stats' :
                /\ r.obj \in DOMAIN objs' /\ objs'[r.obj].load # "none" /\ IsStructOps(r.obj)'
                /\ Marked(r.obj)' \/ \E u \in Threads : work'[u].at = "mark" /\ work'[u].obj = r.obj
          BY <1>1, <3>5, <4>2
        <4> QED BY <4>3, <4>4 DEF MarksAgree, Marked, IsStructOps, SlotOf
      <3> QED BY <3>2, <3>3, <3>4, <3>7, <3>8
    <2>12. RecordedOnce'
      <3> SUFFICES ASSUME ~overlap, NEW r \in stats'
                   PROVE  /\ \A s \in stats' : s.obj = r.obj => s = r
                          /\ r.ok <=> objs[r.obj].load = "accepted"
                          /\ \A i \in DOMAIN r.log : r.log[i].by = r.by
        BY <1>1 DEF RecordedOnce
      <3>1. RecordedOnce
        BY DEF BpfInv
      <3>2. \A s \in stats' : s \in stats \/ s = q
        BY <2>4
      <3>3. CASE r = q
        BY <2>5, <2>11, <3>2, <3>3
      <3>4. CASE r \in stats
        BY <2>5, <2>11, <3>1, <3>2, <3>4 DEF RecordedOnce
      <3> QED BY <3>2, <3>3, <3>4
    <2>13. SelectedRegistered'
      <3>1. TablesOK'
        BY <2>8 DEF BpfTypes
      <3> QED BY <1>1, <2>1, <3>1 DEF SelectedRegistered
    <2> QED
      BY <1>1, <1>3, <2>7, <2>8, <2>9, <2>10, <2>11, <2>12, <2>13, BpfStep
  <1> QED
    BY <1>4, <1>5

\* The object is marked.
LEMMA MarkBpf ==
  ASSUME BpfInv, NEW t \in Threads, MarkRecorded(t), InCall, ExecInv'
  PROVE  BpfInv'
PROOF
  <1>1. /\ work[t].at = "mark" /\ UNCHANGED <<objs, registered, stats, asked>>
        /\ UNCHANGED <<threads, pid, overlap>>
        /\ Goto(t, "return")
        /\ bpf' = [bpf EXCEPT !.recorded = [s \in Slots |-> @[s] \/ s \in SlotOf(work[t].obj)]]
    BY DEF MarkRecorded, At, InCall, mainVars
  <1>2. work[t].at \in Holding
    BY <1>1 DEF Holding
  <1>3. /\ InCallOf(t) /\ work[t].obj \in DOMAIN objs
    BY <1>2, HoldersAreIn
  <1>4. BpfTypes /\ TablesOK /\ ObjectsHold /\ work[t].obj # 0
    BY <1>2 DEF BpfInv, BpfTypes, CallHolds
  <1>5. /\ work \in [Threads -> Locals] /\ objs \in Seq(Object)
        /\ bpf \in [list : [Slots -> Nat], names : [Slots -> Names],
                    recorded : [Slots -> BOOLEAN], counter : Nat, accum : Lines]
        /\ work[t].slot \in 0 .. OBJ_LIST_SIZE /\ work[t].obj \in 0 .. Len(objs)
    BY <1>4, TypesFlat DEF TablesOK
  <1>6. PICK o \in DOMAIN objs : o = work[t].obj /\ o # 0 /\ o \in 0 .. Len(objs)
    BY <1>3, <1>4, <1>5
  <1> DEFINE l == [s \in Slots |-> bpf.recorded[s] \/ bpf.list[s] = o]
  <1>7. l \in [Slots -> BOOLEAN]
    BY <1>5
  <1>8. bpf' = [bpf EXCEPT !.recorded = l]
    <2>1. l = [s \in Slots |-> bpf.recorded[s] \/ s \in SlotOf(work[t].obj)]
      BY <1>6 DEF SlotOf
    <2> QED BY <1>1, <2>1
  <1>9. \A s \in Slots : l[s] <=> bpf.recorded[s] \/ bpf.list[s] = o
    OBVIOUS
  <1> HIDE DEF l
  <1>10. /\ bpf' \in [list : [Slots -> Nat], names : [Slots -> Names],
                      recorded : [Slots -> BOOLEAN], counter : Nat, accum : Lines]
         /\ bpf'.list = bpf.list /\ bpf'.names = bpf.names /\ bpf'.recorded = l
    BY <1>5, <1>7, <1>8, TablesAre
  <1>11. Becomes(t, "return", o, work[t].name, work[t].slot, work[t].ok)
    BY <1>1, <1>5, <1>6, GotoDoes DEF Goto, Places
  <1>12. BpfTypes'
    <2>1. \A r \in Slots : bpf'.list[r] \in 0 .. Len(objs)
      BY <1>4, <1>10 DEF TablesOK
    <2>2. Len(objs) <= Len(objs) /\ registered \subseteq DOMAIN objs
      BY <1>4, TableTypes
    <2> QED BY <1>1, <1>4, <1>5, <1>6, <1>10, <1>11, <2>1, <2>2, StepTypes
  <1>13. ObjsKept /\ ObjectsHold'
    BY <1>1, <1>4, SameObjects, SameHold
  <1>14. CallHolds(t)' /\ HeldAgrees(t)'
    <2>1. work'[t].at \notin Holding
      BY <1>11 DEF Becomes, Holding
    <2> QED BY <2>1, NothingHeld
  <1>15. ASSUME ~overlap PROVE SlotsAgree' /\ MarksAgree'
    <2>1. /\ SlotsAgree /\ MarksAgree /\ HeldAgrees(t)
          /\ \A u \in Threads : u # t => work[u].at \notin Holding
          /\ \A s \in Slots : bpf.list[s] # 0 =>
               \/ Patched(bpf.list[s]) /\ bpf.names[s] = objs[bpf.list[s]].blob
               \/ bpf.names[s] = NoName /\ ~Patched(bpf.list[s])
      BY <1>1, <1>3, <1>15, Settled
    <2>2. SlotsAgree'
      <3> SUFFICES ASSUME NEW s \in Slots
                   PROVE  IF bpf.list[s] = 0 THEN bpf.names[s] = NoName /\ ~l[s]
                          ELSE /\ \A r \in Slots : bpf.list[r] = bpf.list[s] => r = s
                               /\ \/ /\ Patched(bpf.list[s])
                                     /\ bpf.names[s] = objs[bpf.list[s]].blob
                                  \/ bpf.names[s] = NoName /\ ~Patched(bpf.list[s])
        BY <1>1, <1>10 DEF SlotsAgree, Patched, MapName, CompiledIn
      <3>1. CASE bpf.list[s] = 0
        BY <1>6, <1>9, <2>1, <3>1 DEF SlotsAgree
      <3>2. CASE bpf.list[s] # 0
        BY <2>1, <3>2 DEF SlotsAgree
      <3> QED BY <3>1, <3>2
    <2>3. Marked(o)'
      <3>1. SlotOf(o) # {}
        BY <1>1, <1>2, <1>6, <2>1 DEF HeldAgrees
      <3>2. PICK s \in Slots : bpf.list[s] = o
        BY <3>1 DEF SlotOf
      <3> QED BY <1>9, <1>10, <3>2 DEF Marked, SlotOf
    <2>4. \A x : Marked(x) => Marked(x)'
      BY <1>9, <1>10 DEF Marked, SlotOf
    <2>5. \A x : IsStructOps(x)' <=> IsStructOps(x)
      BY <1>1 DEF IsStructOps
    <2>6. \A u \in Threads : work[u].at \in {"record", "mark"} => work[u].obj = o
      BY <1>6, <2>1 DEF Holding
    <2>7. MarksAgree'
      <3>1. ASSUME NEW x \in DOMAIN objs, IsStructOps(x)', objs[x].load # "none" PROVE Marked(x)'
        BY <2>1, <2>3, <2>4, <2>5, <2>6, <3>1 DEF MarksAgree
      <3>2. ASSUME NEW r \in stats
            PROVE  /\ r.obj \in DOMAIN objs /\ objs[r.obj].load # "none"
                   /\ IsStructOps(r.obj)' /\ Marked(r.obj)'
        <4>1. /\ r.obj \in DOMAIN objs /\ objs[r.obj].load # "none" /\ IsStructOps(r.obj)
              /\ Marked(r.obj) \/ r.obj = o
          BY <2>1, <2>6 DEF MarksAgree
        <4> QED BY <2>3, <2>4, <2>5, <4>1
      <3> QED BY <1>1, <3>1, <3>2 DEF MarksAgree, Marked, SlotOf, IsStructOps
    <2> QED BY <2>2, <2>7
  <1> QED
    BY <1>1, <1>3, <1>11, <1>12, <1>13, <1>14, <1>15, CallStep

\* syz_bpf_prog_attach finds the object, and the name it was loaded with.
LEMMA AttachFindBpf ==
  ASSUME BpfInv, NEW t \in Threads, AttachFind(t), InCall, ExecInv'
  PROVE  BpfInv'
PROOF
  <1> DEFINE stashed(obj) == {bpf.names[s] : s \in SlotOf(obj)} \ {NoName}
             name(obj) == IF stashed(obj) = {} THEN MapName(obj)
                          ELSE CHOOSE n \in stashed(obj) : TRUE
  <1>1. /\ work[t].at = "call" /\ Is(t, "attach") /\ UNCHANGED <<objs, bpf, registered, stats, asked>>
        /\ UNCHANGED <<threads, pid, overlap>>
    BY DEF AttachFind, At, InCall, mainVars
  <1>2. InCallOf(t) /\ ~Is(t, "other")' /\ BpfTypes /\ TablesOK
    BY <1>1 DEF Is, InCallOf, BpfInv, BpfTypes
  <1>3. /\ work \in [Threads -> Locals] /\ objs \in Seq(Object)
        /\ bpf \in [list : [Slots -> Nat], names : [Slots -> Names],
                    recorded : [Slots -> BOOLEAN], counter : Nat, accum : Lines]
        /\ work[t].slot \in 0 .. OBJ_LIST_SIZE
    BY <1>2, TypesFlat DEF TablesOK
  <1>4. PICK obj \in find_bpf_object_by_basename(FileOf(t)) :
          IF obj = 0 \/ ~IsStructOps(obj)
          THEN Goto(t, "return")
          ELSE work' = [work EXCEPT ![t].at = "attach", ![t].obj = obj, ![t].name = name(obj)]
    BY DEF AttachFind
  <1>5. CASE obj = 0 \/ ~IsStructOps(obj)
    BY <1>1, <1>4, <1>5, EndsBpf
  <1>6. CASE obj # 0 /\ IsStructOps(obj)
    <2>1. /\ obj \in DOMAIN objs /\ obj \in Nat /\ obj \in 0 .. Len(objs) /\ SlotOf(obj) # {}
      BY <1>6, FoundObject
    <2>2. objs[obj] \in Object
      BY <1>2, <2>1, TableTypes
    <2>3. MapName(obj) \in Names
      BY <2>2, NameKinds DEF MapName, Object
    <2>4. stashed(obj) \subseteq Names
      BY <1>3 DEF SlotOf
    <2>5. PICK n \in Names : n = name(obj)
      BY <2>3, <2>4
    <2>6. work' = [work EXCEPT ![t].at = "attach", ![t].obj = obj, ![t].name = n]
      BY <1>4, <1>6, <2>5
    <2>7. ASSUME ~overlap PROVE n = objs[obj].blob
      <3>1. PICK s \in Slots : bpf.list[s] = obj
        BY <2>1 DEF SlotOf
      <3>2. /\ SlotsAgree
            /\ \/ Patched(obj) /\ bpf.names[s] = objs[obj].blob
               \/ bpf.names[s] = NoName /\ ~Patched(obj)
        BY <1>1, <1>2, <1>6, <2>7, <3>1, Settled
      <3>3. SlotOf(obj) = {s}
        BY <1>6, <3>1, <3>2 DEF SlotsAgree, SlotOf
      <3>4. stashed(obj) = {bpf.names[s]} \ {NoName}
        BY <3>3
      <3>5. objs[obj].blob # NoName
        BY <2>2 DEF Object
      <3>6. CASE Patched(obj) /\ bpf.names[s] = objs[obj].blob
        <4>1. stashed(obj) = {objs[obj].blob}
          BY <3>4, <3>5, <3>6
        <4> HIDE DEF stashed
        <4>2. name(obj) = CHOOSE x \in {objs[obj].blob} : TRUE
          BY <4>1
        <4> QED BY <2>5, <4>2
      <3>7. CASE bpf.names[s] = NoName /\ ~Patched(obj)
        <4>1. stashed(obj) = {}
          BY <3>4, <3>7
        <4> QED BY <2>5, <3>7, <4>1 DEF Patched
      <3> QED BY <3>2, <3>6, <3>7
    <2> HIDE DEF name, stashed
    <2>8. Becomes(t, "attach", obj, n, work[t].slot, work[t].ok)
      BY <1>3, <2>1, <2>6, TakeNamedDoes DEF Places, Holding
    <2>9. work'[t].at = "attach" /\ work'[t].obj = obj /\ work'[t].name = n
      BY <2>8 DEF Becomes
    <2>10. IsStructOps(work[t].obj)' /\ SlotOf(work[t].obj)' # {}
      BY <1>1, <1>6, <2>1, <2>9 DEF IsStructOps, SlotOf
    <2>11. CallHolds(t)'
      BY <1>2, <1>6, <2>9, <2>10 DEF CallHolds
    <2>12. ASSUME ~overlap PROVE HeldAgrees(t)'
      BY <1>1, <2>7, <2>9, <2>10, <2>12 DEF HeldAgrees
    <2> QED BY <1>1, <1>2, <1>3, <2>1, <2>8, <2>11, <2>12, TakeStep
  <1> QED
    BY <1>5, <1>6

\* brf_struct_ops_attach registers the object.
LEMMA AttachMapBpf ==
  ASSUME BpfInv, NEW t \in Threads, AttachMap(t), InCall, ExecInv'
  PROVE  BpfInv'
PROOF
  <1>1. /\ work[t].at = "attach" /\ UNCHANGED <<objs, bpf, stats, asked>>
        /\ UNCHANGED <<threads, pid, overlap>>
    BY DEF AttachMap, At, InCall, mainVars
  <1>2. work[t].at \in Holding
    BY <1>1 DEF Holding
  <1>3. /\ InCallOf(t) /\ work[t].obj \in DOMAIN objs
    BY <1>2, HoldersAreIn
  <1>4. CASE Goto(t, "return") /\ UNCHANGED registered
    BY <1>1, <1>4, EndsBpf
  <1>5. CASE /\ objs[work[t].obj].load = "accepted"
             /\ registered' = registered \cup {work[t].obj}
             /\ Goto(t, "select")
    <2>1. /\ BpfTypes /\ TablesOK /\ ObjectsHold /\ work[t].obj # 0 /\ IsStructOps(work[t].obj)
      BY <1>1, <1>2 DEF BpfInv, BpfTypes, CallHolds
    <2>2. /\ work \in [Threads -> Locals] /\ objs \in Seq(Object)
          /\ bpf \in [list : [Slots -> Nat], names : [Slots -> Names],
                      recorded : [Slots -> BOOLEAN], counter : Nat, accum : Lines]
          /\ work[t].slot \in 0 .. OBJ_LIST_SIZE /\ work[t].obj \in 0 .. Len(objs)
      BY <2>1, TypesFlat DEF TablesOK
    <2>3. PICK o \in DOMAIN objs : /\ o = work[t].obj /\ o # 0 /\ o \in 0 .. Len(objs)
                                   /\ IsStructOps(o) /\ objs[o].load = "accepted"
      BY <1>3, <1>5, <2>1, <2>2
    <2>4. Becomes(t, "select", o, work[t].name, work[t].slot, work[t].ok)
      BY <1>5, <2>2, <2>3, GotoDoes DEF Goto, Places, Holding
    <2>5. /\ work'[t].at = "select" /\ work'[t].obj = o /\ work'[t].name = work[t].name
          /\ \A u \in Threads : u # t => work'[u] = work[u]
      BY <2>4 DEF Becomes
    <2>6. BpfTypes'
      <3>1. \A r \in Slots : bpf.list[r] \in 0 .. Len(objs)
        BY <2>1 DEF TablesOK
      <3>2. Len(objs) <= Len(objs) /\ registered' \subseteq DOMAIN objs
        BY <1>5, <2>1, <2>3, TableTypes
      <3> QED BY <1>1, <2>1, <2>2, <2>3, <2>4, <3>1, <3>2, StepTypes
    <2>7. ObjsKept
      BY <1>1, SameObjects
    <2>8. ObjectsHold'
      BY <1>1, <1>5, <2>1, <2>3 DEF ObjectsHold, IsStructOps, Patched, MapName, CompiledIn
    <2>9. CallHolds(t)'
      <3>1. IsStructOps(work[t].obj)'
        BY <1>1, <2>3, <2>5 DEF IsStructOps
      <3>2. ~Is(t, "other")'
        BY <1>1, <1>3 DEF Is, InCallOf
      <3> QED BY <2>3, <2>5, <3>1, <3>2 DEF CallHolds
    <2>10. ASSUME ~overlap PROVE SlotsAgree' /\ HeldAgrees(t)' /\ MarksAgree'
      <3>1. /\ SlotsAgree /\ MarksAgree /\ HeldAgrees(t)
            /\ \A u \in Threads : u # t => work[u].at \notin Holding
        BY <1>3, <2>10, Settled
      <3>2. \A u \in Threads : work[u].at \notin {"stash", "mark", "record"}
        BY <1>1, <3>1 DEF Holding
      <3>3. SlotsAgree' /\ MarksAgree'
        BY <1>1, <3>1, <3>2, QuietTables
      <3>4. SlotOf(o) # {} /\ work[t].name = objs[o].blob
        BY <1>1, <1>2, <2>3, <3>1 DEF HeldAgrees
      <3>5. SlotOf(work[t].obj)' # {}
        BY <1>1, <2>5, <3>4 DEF SlotOf
      <3>6. HeldAgrees(t)'
        BY <1>1, <1>5, <2>3, <2>5, <3>4, <3>5 DEF HeldAgrees
      <3> QED BY <3>3, <3>6
    <2> QED
      BY <1>1, <1>3, <1>5, <2>4, <2>6, <2>7, <2>8, <2>9, <2>10, CallStep
  <1> QED
    BY <1>1, <1>4, <1>5 DEF AttachMap

\* brf_struct_ops_select writes the name under which the object is registered.
LEMMA SelectBpf ==
  ASSUME BpfInv, NEW t \in Threads, Select(t), InCall, ExecInv'
  PROVE  BpfInv'
PROOF
  <1>1. /\ work[t].at = "select" /\ UNCHANGED <<objs, bpf, registered, stats>>
        /\ UNCHANGED <<threads, pid, overlap>> /\ Goto(t, "return")
        /\ asked' = asked \cup {[obj |-> work[t].obj, name |-> work[t].name]}
    BY DEF Select, At, InCall, mainVars
  <1>2. work[t].at \in Holding
    BY <1>1 DEF Holding
  <1>3. InCallOf(t)
    BY <1>2, HoldersAreIn
  <1>4. /\ BpfTypes /\ TablesOK /\ ObjectsHold
    BY DEF BpfInv, BpfTypes
  <1>5. /\ work \in [Threads -> Locals] /\ objs \in Seq(Object)
        /\ bpf \in [list : [Slots -> Nat], names : [Slots -> Names],
                    recorded : [Slots -> BOOLEAN], counter : Nat, accum : Lines]
        /\ work[t].slot \in 0 .. OBJ_LIST_SIZE /\ work[t].obj \in 0 .. Len(objs)
    BY <1>4, TypesFlat DEF TablesOK
  <1>6. Becomes(t, "return", work[t].obj, work[t].name, work[t].slot, work[t].ok)
    BY <1>1, <1>5, GotoDoes DEF Goto, Places
  <1>7. /\ work'[t].at = "return" /\ \A u \in Threads : u # t => work'[u] = work[u]
    BY <1>6 DEF Becomes
  <1>8. BpfTypes'
    <2>1. \A r \in Slots : bpf.list[r] \in 0 .. Len(objs)
      BY <1>4 DEF TablesOK
    <2>2. Len(objs) <= Len(objs) /\ registered \subseteq DOMAIN objs
      BY <1>4, TableTypes
    <2> QED BY <1>1, <1>4, <1>5, <1>6, <2>1, <2>2, StepTypes
  <1>9. ObjsKept /\ ObjectsHold'
    BY <1>1, <1>4, SameObjects, SameHold
  <1>10. CallHolds(t)' /\ HeldAgrees(t)'
    <2>1. work'[t].at \notin Holding
      BY <1>7 DEF Holding
    <2> QED BY <2>1, NothingHeld
  <1>11. ASSUME ~overlap
         PROVE  /\ SlotsAgree' /\ MarksAgree'
                /\ work[t].obj \in registered /\ objs[work[t].obj].blob = work[t].name
    <2>1. /\ SlotsAgree /\ MarksAgree /\ HeldAgrees(t)
          /\ \A u \in Threads : u # t => work[u].at \notin Holding
      BY <1>3, <1>11, Settled
    <2>2. \A u \in Threads : work[u].at \notin {"stash", "mark", "record"}
      BY <1>1, <2>1 DEF Holding
    <2>3. SlotsAgree' /\ MarksAgree'
      BY <1>1, <2>1, <2>2, QuietTables
    <2> QED BY <1>1, <2>1, <2>3 DEF HeldAgrees
  <1>12. SelectedRegistered'
    <2>1. TablesOK'
      BY <1>8 DEF BpfTypes
    <2>2. ASSUME ~overlap, NEW a \in asked'
          PROVE  a.obj \in registered /\ objs[a.obj].blob = a.name
      <3>1. CASE a \in asked
        BY <2>2, <3>1 DEF BpfInv, SelectedRegistered
      <3>2. CASE a = [obj |-> work[t].obj, name |-> work[t].name]
        BY <1>11, <2>2, <3>2
      <3> QED BY <1>1, <2>2, <3>1, <3>2
    <2> QED BY <1>1, <2>1, <2>2 DEF SelectedRegistered
  <1>13. RecordedOnce'
    BY <1>1 DEF BpfInv, RecordedOnce
  <1> QED
    BY <1>3, <1>7, <1>8, <1>9, <1>10, <1>11, <1>12, <1>13, BpfStep

-----------------------------------------------------------------------------

\* The initial state: nothing opened, nobody in a call.
LEMMA BpfInit == Init => BpfInv
PROOF
  <1> SUFFICES ASSUME Init PROVE BpfInv
    OBVIOUS
  <1>1. ExecInv
    BY ExecInit
  <1>2. /\ work = [t \in Threads |-> Idle] /\ objs = <<>> /\ pid \in Pids
        /\ registered = {} /\ stats = {} /\ asked = {}
        /\ bpf = [list |-> [s \in Slots |-> 0], names |-> [s \in Slots |-> NoName],
                  recorded |-> [s \in Slots |-> FALSE], counter |-> 0, accum |-> <<>>]
    BY DEF Init
  <1>3. Idle \in Locals /\ Idle.at = "idle" /\ Idle.obj = 0 /\ Idle.slot = 0 /\ Idle.name = NoName
    BY NameKinds DEF Locals, Idle, Places
  <1>4. \A t \in Threads : work[t] = Idle
    BY <1>2
  <1>5. /\ \A s \in Slots : bpf.list[s] = 0 /\ bpf.names[s] = NoName /\ ~bpf.recorded[s]
        /\ bpf.counter = 0 /\ bpf.accum = <<>>
    BY <1>2
  <1>6. objs \in Seq(Object) /\ Len(objs) = 0 /\ DOMAIN objs = {}
    <2>1. <<>> \in Seq(Object) /\ Len(<<>>) = 0 /\ DOMAIN <<>> = {}
      OBVIOUS
    <2> QED BY <1>2, <2>1
  <1>7. TablesOK
    <2>1. 0 \in 0 .. Len(objs) /\ 0 \in 0 .. OBJ_LIST_SIZE /\ NoName \in Names
      BY <1>6, NameKinds, ExecutorAssumption
    <2> QED BY <1>2, <1>3, <1>4, <1>5, <2>1 DEF TablesOK
  <1>8. BpfTypes
    <2>1. work \in [Threads -> Locals]
      BY <1>2, <1>3
    <2>2. <<>> \in Lines
      BY DEF Lines
    <2>3. [s \in Slots |-> 0] \in [Slots -> Nat] /\ [s \in Slots |-> NoName] \in [Slots -> Names]
          /\ [s \in Slots |-> FALSE] \in [Slots -> BOOLEAN]
      BY NameKinds
    <2>4. bpf \in [list : [Slots -> Nat], names : [Slots -> Names],
                   recorded : [Slots -> BOOLEAN], counter : Nat, accum : Lines]
      BY <1>2, <2>2, <2>3
    <2> QED BY <1>2, <1>6, <1>7, <2>1, <2>4, TypesFlat
  <1>9. ObjectsHold /\ SelectedRegistered /\ RecordedOnce
    BY <1>2, <1>6, <1>7 DEF ObjectsHold, SelectedRegistered, RecordedOnce
  <1>10. \A t \in Threads : CallHolds(t) /\ HeldAgrees(t)
    BY <1>3, <1>4 DEF CallHolds, HeldAgrees, Holding
  <1>11. AloneInv
    <2>1. InBpfCall = {}
      BY <1>3, <1>4 DEF InBpfCall
    <2>2. SlotsAgree
      BY <1>5 DEF SlotsAgree
    <2>3. MarksAgree
      BY <1>2, <1>6 DEF MarksAgree
    <2> QED BY <1>10, <2>1, <2>2, <2>3 DEF AloneInv
  <1> QED
    BY <1>1, <1>8, <1>9, <1>10, <1>11 DEF BpfInv

\* Every step preserves the invariant.
LEMMA BpfNext == BpfInv /\ [Next]_vars => BpfInv'
PROOF
  <1> SUFFICES ASSUME BpfInv, [Next]_vars PROVE BpfInv'
    OBVIOUS
  <1>1. ExecInv'
    BY ExecStep DEF BpfInv
  <1>2. CASE Main
    BY <1>1, <1>2, MainBpf
  <1>3. ASSUME NEW t \in Threads, Worker(t) PROVE BpfInv'
    <2>1. CASE Begin(t)
      BY <1>1, <2>1, BeginBpf
    <2>2. CASE Return(t)
      BY <1>1, <2>2, ReturnBpf
    <2>3. CASE OtherCall(t) /\ InCall
      BY <1>1, <2>3, EndsBpf DEF OtherCall, At
    <2>4. CASE OpenObject(t) /\ InCall
      BY <1>1, <2>4, OpenBpf
    <2>5. CASE StoreObject(t) /\ InCall
      BY <1>1, <2>5, StoreBpf
    <2>6. CASE LoadFind(t) /\ InCall
      BY <1>1, <2>6, LoadFindBpf
    <2>7. CASE PatchName(t) /\ InCall
      BY <1>1, <2>7, PatchBpf
    <2>8. CASE StashName(t) /\ InCall
      BY <1>1, <2>8, StashBpf
    <2>8a. CASE ResetAccum(t) /\ InCall
      BY <1>1, <2>8a, ResetBpf
    <2>9. CASE LoadObject(t) /\ InCall
      BY <1>1, <2>9, LoadBpf
    <2>10. CASE RecordOutcome(t) /\ InCall
      BY <1>1, <2>10, RecordBpf
    <2>11. CASE MarkRecorded(t) /\ InCall
      BY <1>1, <2>11, MarkBpf
    <2>12. CASE AttachFind(t) /\ InCall
      BY <1>1, <2>12, AttachFindBpf
    <2>13. CASE AttachMap(t) /\ InCall
      BY <1>1, <2>13, AttachMapBpf
    <2>14. CASE Select(t) /\ InCall
      BY <1>1, <2>14, SelectBpf
    <2> QED
      BY <1>3, <2>1, <2>2, <2>3, <2>4, <2>5, <2>6, <2>7, <2>8, <2>8a, <2>9, <2>10, <2>11,
         <2>12, <2>13, <2>14 DEF Worker
  <1>4. CASE UNCHANGED vars
    <2>1. UNCHANGED <<work, threads, objs, bpf, registered, stats, asked, pid, overlap>>
      BY <1>4 DEF vars, mainVars, bpfVars
    <2>2. work \in [Threads -> Locals]
      BY TableTypes DEF BpfInv
    <2>3. \A u \in Threads : Stays(u)
      BY <2>1 DEF Stays
    <2>4. InBpfCall' = InBpfCall
      BY <2>1 DEF InBpfCall, Is
    <2>5. ~overlap => \A v, w \in InBpfCall : v = w
      BY DEF BpfInv, AloneInv
    <2> QED BY <1>1, <2>1, <2>2, <2>3, <2>4, <2>5, QuietStep
  <1> QED
    BY <1>2, <1>3, <1>4 DEF Next

\* The invariant of the BPF calls holds throughout: what every call holds in
\* hand, and, until two BPF calls overlap, what the shared tables say.
THEOREM BpfIsSound == Spec => []BpfInv
PROOF
  BY BpfInit, BpfNext, PTL DEF Spec

\* For any number of threads, slots and files and any program, and whatever
\* libbpf and the kernel answer: until two BPF calls overlap, the name attach
\* writes to the scheduler's sysctl is the name under which that very object is
\* registered, however often it was opened, loaded and attached before.
THEOREM SelectedIsRegistered == Spec => []SelectedRegistered
PROOF
  <1>1. BpfInv => SelectedRegistered
    BY DEF BpfInv
  <1> QED
    BY <1>1, BpfIsSound, PTL

\* Under the same condition an object has at most one verdict on record, that of
\* its one real load, with only that load's warnings.
THEOREM RecordedIsOnce == Spec => []RecordedOnce
PROOF
  <1>1. BpfInv => RecordedOnce
    BY DEF BpfInv
  <1> QED
    BY <1>1, BpfIsSound, PTL
=============================================================================
