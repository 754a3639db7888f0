-------------------------------- MODULE Gate --------------------------------
(***************************************************************************)
(* pkg/ipc/gate.go: the gate every program execution of a syz-fuzzer goes  *)
(* through (syz-fuzzer/proc.go, executeRaw).  It bounds how many           *)
(* executions run at once and how far the newest may run ahead of the      *)
(* oldest, and after each round of tickets it stops everybody to run a     *)
(* callback (leak checking) alone.                                         *)
(*                                                                         *)
(* An action is one critical section of g.cv.L.  The mutex is a variable   *)
(* only for the one section that lasts: Leave calls g.f() with it held.    *)
(***************************************************************************)
EXTENDS Integers, FiniteSets

CONSTANTS
  Procs,        \* goroutines that share the gate (Fuzzer.procs)
  C,            \* len(g.busy); NewGate(2*procs, ...) in syz-fuzzer
  HasCallback   \* g.f # nil: leak checking is enabled

ASSUME CAssumption == C \in Nat \ {0}
ASSUME CallbackAssumption == HasCallback \in BOOLEAN

None == "none"
ASSUME NoneAssumption == None \notin Procs

Slots == 0 .. C - 1

VARIABLES
  busy,     \* g.busy
  pos,      \* g.pos
  running,  \* g.running
  stop,     \* g.stop
  mutex,    \* who holds g.cv.L while g.f() runs, or None
  pc,       \* where each goroutine is
  ticket,   \* the index Enter returned to it
  since,    \* history: how many Enters have succeeded since its own did
  broken    \* history: a panic("broken gate") has fired

vars == <<busy, pos, running, stop, mutex, pc, ticket, since, broken>>

\* "idle": outside, or woken up in Enter and about to test the loop condition
\* "waitEnter", "waitStop": asleep in cv.Wait() of Enter and of Leave
\* "in": between Enter and Leave
\* "stopping": woken up in Leave and about to test g.running
\* "callback": running g.f() with the mutex held
Locations == {"idle", "waitEnter", "in", "waitStop", "stopping", "callback"}

BusySlots == {i \in Slots : busy[i]}

(***************************************************************************)
(* g.cv.Broadcast(): every sleeper becomes runnable.                       *)
(***************************************************************************)
Broadcast(pcs) ==
  [p \in Procs |-> CASE pcs[p] = "waitEnter" -> "idle"
                     [] pcs[p] = "waitStop"  -> "stopping"
                     [] OTHER                -> pcs[p]]

Init ==
  /\ busy = [i \in Slots |-> FALSE]
  /\ pos = 0
  /\ running = 0
  /\ stop = FALSE
  /\ mutex = None
  /\ pc = [p \in Procs |-> "idle"]
  /\ ticket = [p \in Procs |-> 0]
  /\ since = [p \in Procs |-> 0]
  /\ broken = FALSE

(***************************************************************************)
(* Enter: the loop condition holds, so sleep.                              *)
(***************************************************************************)
EnterWait(p) ==
  /\ pc[p] = "idle"
  /\ mutex = None
  /\ busy[pos] \/ stop
  /\ pc' = [pc EXCEPT ![p] = "waitEnter"]
  /\ UNCHANGED <<busy, pos, running, stop, mutex, ticket, since, broken>>

\* A slip: Enter without the test of busy[pos].
EnterIgnoresBusy(p) ==
  /\ pc[p] = "idle"
  /\ mutex = None
  /\ ~stop
  /\ ticket' = [ticket EXCEPT ![p] = pos]
  /\ pos' = IF pos + 1 >= C THEN 0 ELSE pos + 1
  /\ busy' = [busy EXCEPT ![pos] = TRUE]
  /\ running' = running + 1
  /\ broken' = (broken \/ running' > C)
  /\ pc' = [pc EXCEPT ![p] = "in"]
  /\ since' = [q \in Procs |-> IF q # p /\ pc[q] = "in" THEN since[q] + 1 ELSE 0]
  /\ UNCHANGED <<stop, mutex>>

(***************************************************************************)
(* Enter: take the slot at pos and move pos around the ring.               *)
(***************************************************************************)
Enter(p) ==
  /\ pc[p] = "idle"
  /\ mutex = None
  /\ ~(busy[pos] \/ stop)
  /\ ticket' = [ticket EXCEPT ![p] = pos]
  /\ pos' = IF pos + 1 >= C THEN 0 ELSE pos + 1
  /\ busy' = [busy EXCEPT ![pos] = TRUE]
  /\ running' = running + 1
  /\ broken' = (broken \/ running' > C)
  /\ pc' = [pc EXCEPT ![p] = "in"]
  /\ since' = [q \in Procs |-> IF q # p /\ pc[q] = "in" THEN since[q] + 1 ELSE 0]
  /\ UNCHANGED <<stop, mutex>>

\* Lines 52-59: give the slot back, with their two panics.
Release(idx) ==
  /\ busy' = [busy EXCEPT ![idx] = FALSE]
  /\ running' = running - 1

\* A slip: Leave wakes up only the goroutine that stopped the gate.
WakesOnlyStopped(idx) == running' = 0 /\ stop'

\* The test that ends Leave (line 72), on the values it sees there.
WakesSleepers(idx) == (idx = pos /\ ~stop') \/ (running' = 0 /\ stop')

(***************************************************************************)
(* Leave of a ticket that starts no callback.                              *)
(***************************************************************************)
Leave(p) ==
  LET idx == ticket[p] IN
  /\ pc[p] = "in"
  /\ mutex = None
  /\ ~(idx = 0 /\ HasCallback)
  /\ Release(idx)
  /\ broken' = (broken \/ ~busy[idx] \/ running' < 0)
  /\ UNCHANGED stop
  /\ LET pcs == [pc EXCEPT ![p] = "idle"]
     IN  pc' = IF WakesSleepers(idx) THEN Broadcast(pcs) ELSE pcs
  /\ since' = [since EXCEPT ![p] = 0]
  /\ UNCHANGED <<pos, mutex, ticket>>

\* A slip: "for g.running != 0" forgotten, so the callback starts at once.
LeaveStopAtOnce(p) ==
  LET idx == ticket[p] IN
  /\ pc[p] = "in"
  /\ mutex = None
  /\ idx = 0 /\ HasCallback
  /\ Release(idx)
  /\ broken' = (broken \/ ~busy[idx] \/ running' < 0 \/ stop)
  /\ pc' = [pc EXCEPT ![p] = "callback"]
  /\ mutex' = p
  /\ since' = [since EXCEPT ![p] = 0]
  /\ UNCHANGED <<pos, stop, ticket>>

\* A slip: "g.stop = true" forgotten, so others keep entering.
LeaveStopForgetsStop(p) ==
  LET idx == ticket[p] IN
  /\ pc[p] = "in"
  /\ mutex = None
  /\ idx = 0 /\ HasCallback
  /\ Release(idx)
  /\ broken' = (broken \/ ~busy[idx] \/ running' < 0 \/ stop)
  /\ IF running' # 0
     THEN /\ pc' = [pc EXCEPT ![p] = "waitStop"]
          /\ UNCHANGED mutex
     ELSE /\ pc' = [pc EXCEPT ![p] = "callback"]
          /\ mutex' = p
  /\ since' = [since EXCEPT ![p] = 0]
  /\ UNCHANGED <<pos, stop, ticket>>

(***************************************************************************)
(* Leave of ticket 0 with a callback: stop the gate, and sleep until the   *)
(* last activity is out unless it already is.                              *)
(***************************************************************************)
LeaveStop(p) ==
  LET idx == ticket[p] IN
  /\ pc[p] = "in"
  /\ mutex = None
  /\ idx = 0 /\ HasCallback
  /\ Release(idx)
  /\ broken' = (broken \/ ~busy[idx] \/ running' < 0 \/ stop)
  /\ stop' = (running' # 0)
  /\ IF running' # 0
     THEN /\ pc' = [pc EXCEPT ![p] = "waitStop"]
          /\ UNCHANGED mutex
     ELSE /\ pc' = [pc EXCEPT ![p] = "callback"]
          /\ mutex' = p
  /\ since' = [since EXCEPT ![p] = 0]
  /\ UNCHANGED <<pos, ticket>>

(***************************************************************************)
(* The loop of Leave, once woken: sleep again or lift stop and call g.f(). *)
(***************************************************************************)
Stopping(p) ==
  /\ pc[p] = "stopping"
  /\ mutex = None
  /\ IF running # 0
     THEN /\ pc' = [pc EXCEPT ![p] = "waitStop"]
          /\ UNCHANGED <<stop, mutex>>
     ELSE /\ stop' = FALSE
          /\ pc' = [pc EXCEPT ![p] = "callback"]
          /\ mutex' = p
  /\ UNCHANGED <<busy, pos, running, ticket, since, broken>>

\* A slip: nobody is woken up after the callback.
CallbackDoneNoBroadcast(p) ==
  /\ pc[p] = "callback"
  /\ mutex' = None
  /\ pc' = [pc EXCEPT ![p] = "idle"]
  /\ UNCHANGED <<busy, pos, running, stop, ticket, since, broken>>

(***************************************************************************)
(* g.f() returns: wake everybody and unlock.  The test of line 72 follows  *)
(* and can only broadcast again.                                           *)
(***************************************************************************)
CallbackDone(p) ==
  /\ pc[p] = "callback"
  /\ mutex' = None
  /\ pc' = Broadcast([pc EXCEPT ![p] = "idle"])
  /\ UNCHANGED <<busy, pos, running, stop, ticket, since, broken>>

Next ==
  \E p \in Procs :
    \/ EnterWait(p)
    \/ Enter(p)
    \/ Leave(p)
    \/ LeaveStop(p)
    \/ Stopping(p)
    \/ CallbackDone(p)

Spec == Init /\ [][Next]_vars

(***************************************************************************)
(* An execution ends (the executor is killed on a timeout), a woken        *)
(* goroutine is scheduled and gets the mutex (Go's mutex is starvation     *)
(* free), and g.f() returns (it runs a command under a timeout).  Nothing  *)
(* says that a goroutine asks to enter.                                    *)
(***************************************************************************)
Fairness ==
  \A p \in Procs :
    /\ SF_vars(Leave(p))
    /\ SF_vars(LeaveStop(p))
    /\ SF_vars(Stopping(p))
    /\ WF_vars(CallbackDone(p))

FairSpec == Spec /\ Fairness

-----------------------------------------------------------------------------
(***************************************************************************)
(* Properties.                                                             *)
(***************************************************************************)

\* Types, and the panics' conditions that are about one variable only.
TypeOK ==
  /\ busy \in [Slots -> BOOLEAN]
  /\ pos \in Slots
  /\ running \in 0 .. C
  /\ stop \in BOOLEAN
  /\ mutex \in Procs \cup {None}
  /\ pc \in [Procs -> Locations]
  /\ ticket \in [Procs -> Slots]
  /\ since \in [Procs -> Nat]
  /\ broken \in BOOLEAN

\* None of the four panic("broken gate") of Enter and Leave can fire.
NeverBroken == ~broken

\* The callback runs alone: no program executes while leaks are checked.
CallbackAlone ==
  \A p \in Procs : pc[p] = "callback" => \A q \in Procs : pc[q] # "in"

\* The concurrency window: "if a very old activity is still running it will
\* not let new activities to start" - fewer than C start while one runs.
WindowBounded == \A p \in Procs : pc[p] = "in" => since[p] < C

\* No lost wakeup: a goroutine sleeps in Enter only while the slot at pos is
\* taken, the gate is stopped or a callback (which ends in a Broadcast) runs,
\* and Leave's sleeper sleeps only while an activity is still running.
NoLostWakeup ==
  /\ \A p \in Procs :
       pc[p] = "waitEnter" => busy[pos] \/ stop \/ mutex # None
  /\ \A p \in Procs : pc[p] = "waitStop" => running # 0

\* A goroutine that stopped the gate in Leave gets out of Leave again, and so
\* the gate is not stopped for ever.
StopEnds ==
  \A p \in Procs : pc[p] \in {"waitStop", "stopping", "callback"} ~> pc[p] = "idle"

\* A sleeper in Enter is eventually woken up to try again.
SleepersWake == \A p \in Procs : pc[p] = "waitEnter" ~> pc[p] = "idle"

-----------------------------------------------------------------------------
(***************************************************************************)
(* The inductive invariant behind NeverBroken, CallbackAlone and           *)
(* WindowBounded.                                                          *)
(***************************************************************************)

\* Two activities never hold the same slot, and a slot is busy exactly while
\* an activity holds it.
SlotsHeld ==
  /\ \A p, q \in Procs :
       pc[p] = "in" /\ pc[q] = "in" /\ ticket[p] = ticket[q] => p = q
  /\ \A p \in Procs : pc[p] = "in" => busy[ticket[p]]
  /\ \A i \in Slots : busy[i] => \E p \in Procs : pc[p] = "in" /\ ticket[p] = i

RunningIsBusy == running = Cardinality(BusySlots)

\* The mutex is held exactly by the goroutine in the callback; the gate is
\* stopped exactly while one goroutine is in Leave's loop.
StopOwned ==
  /\ \A p \in Procs : pc[p] = "callback" <=> mutex = p
  /\ stop <=> \E p \in Procs : pc[p] \in {"waitStop", "stopping"}
  /\ \A p, q \in Procs :
       /\ pc[p] \in {"waitStop", "stopping", "callback"}
       /\ pc[q] \in {"waitStop", "stopping", "callback"}
       => p = q
  /\ stop => ~busy[0]
  /\ mutex # None => running = 0 /\ ~stop

\* The age of an activity is its distance behind pos on the ring.
AgeIsDistance ==
  \A p \in Procs : pc[p] = "in" =>
    since[p] = IF ticket[p] < pos THEN pos - ticket[p] - 1
                                  ELSE pos + C - ticket[p] - 1

GateInv ==
  /\ TypeOK
  /\ SlotsHeld
  /\ RunningIsBusy
  /\ StopOwned
  /\ AgeIsDistance
  /\ NeverBroken
  /\ NoLostWakeup

=============================================================================
