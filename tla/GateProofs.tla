----------------------------- MODULE GateProofs -----------------------------
(***************************************************************************)
(* Gate is correct for every set of goroutines and every ring size: GateInv *)
(* is inductive, and the panics, the callback's solitude, the concurrency  *)
(* window and the absence of lost wakeups follow from it.                  *)
(***************************************************************************)
EXTENDS Gate, FiniteSetTheorems, TLAPS

\* The ring's busy slots form a finite set of at most C of them.
LEMMA BusyFinite ==
  ASSUME busy \in [Slots -> BOOLEAN]
  PROVE  /\ IsFiniteSet(BusySlots)
         /\ Cardinality(BusySlots) \in Nat
         /\ Cardinality(BusySlots) <= C
<1>1. IsFiniteSet(Slots) /\ Cardinality(Slots) = C
  <2>1. 0 \in Int /\ C - 1 \in Int /\ ~(0 > C - 1)
    BY CAssumption
  <2>2. Cardinality(0 .. C - 1) = (C - 1) - 0 + 1 /\ IsFiniteSet(0 .. C - 1)
    BY <2>1, FS_Interval
  <2> QED  BY <2>2, CAssumption DEF Slots
<1>2. BusySlots \subseteq Slots
  BY DEF BusySlots
<1>3. IsFiniteSet(BusySlots) /\ Cardinality(BusySlots) <= Cardinality(Slots)
  BY <1>1, <1>2, FS_Subset
<1> QED  BY <1>1, <1>3, FS_CardinalityType

\* Taking the free slot at pos adds one busy slot and stays within the ring.
LEMMA TakeSlot ==
  ASSUME TypeOK, RunningIsBusy, ~busy[pos], busy' = [busy EXCEPT ![pos] = TRUE]
  PROVE  /\ Cardinality(BusySlots') = running + 1
         /\ running + 1 <= C
<1>1. BusySlots' = BusySlots \cup {pos} /\ pos \notin BusySlots
  BY DEF TypeOK, BusySlots
<1>2. busy' \in [Slots -> BOOLEAN]
  BY DEF TypeOK
<1>3. IsFiniteSet(BusySlots)
  BY BusyFinite DEF TypeOK
<1>4. Cardinality(BusySlots') = Cardinality(BusySlots) + 1
  BY <1>1, <1>3, FS_AddElement
<1>5. Cardinality(BusySlots') <= C
  <2>1. IsFiniteSet(Slots) /\ Cardinality(Slots) = C
    <3>1. 0 \in Int /\ C - 1 \in Int /\ ~(0 > C - 1)
      BY CAssumption
    <3>2. Cardinality(0 .. C - 1) = (C - 1) - 0 + 1 /\ IsFiniteSet(0 .. C - 1)
      BY <3>1, FS_Interval
    <3> QED  BY <3>2, CAssumption DEF Slots
  <2>2. BusySlots' \subseteq Slots
    BY DEF BusySlots
  <2> QED  BY <2>1, <2>2, FS_Subset
<1> QED  BY <1>4, <1>5 DEF RunningIsBusy

\* Giving a busy slot back removes one.
LEMMA GiveSlot ==
  ASSUME TypeOK, RunningIsBusy, NEW i \in Slots, busy[i], Release(i)
  PROVE  /\ running >= 1
         /\ running' \in 0 .. C
         /\ running' = Cardinality(BusySlots')
         /\ busy' \in [Slots -> BOOLEAN]
<1>1. BusySlots' = BusySlots \ {i} /\ i \in BusySlots
  BY DEF TypeOK, BusySlots, Release
<1>2. IsFiniteSet(BusySlots)
  BY BusyFinite DEF TypeOK
<1>3. /\ IsFiniteSet(BusySlots \ {i})
      /\ Cardinality(BusySlots \ {i}) = Cardinality(BusySlots) - 1
  BY <1>1, <1>2, FS_RemoveElement
<1>4. Cardinality(BusySlots') \in Nat
  BY <1>1, <1>3, FS_CardinalityType
<1>5. running' = running - 1 /\ busy' \in [Slots -> BOOLEAN]
  BY DEF TypeOK, Release
<1> QED  BY <1>1, <1>3, <1>4, <1>5, CAssumption DEF RunningIsBusy, TypeOK

\* With no slot busy, no activity is inside the gate.
LEMMA NobodyIn ==
  ASSUME TypeOK, SlotsHeld, RunningIsBusy, running = 0
  PROVE  \A p \in Procs : pc[p] # "in"
<1>1. IsFiniteSet(BusySlots) /\ Cardinality(BusySlots) = 0
  BY BusyFinite DEF TypeOK, RunningIsBusy
<1>2. BusySlots = {}
  BY <1>1, FS_EmptySet
<1> QED  BY <1>2 DEF TypeOK, SlotsHeld, BusySlots

LEMMA InitGateInv == Init => GateInv
<1> SUFFICES ASSUME Init PROVE GateInv
  OBVIOUS
<1>1. TypeOK
  <2>1. 0 \in Slots /\ 0 \in 0 .. C
    BY CAssumption DEF Slots
  <2>2. busy \in [Slots -> BOOLEAN] /\ stop \in BOOLEAN /\ broken \in BOOLEAN
    BY Zenon DEF Init
  <2>3. /\ pc \in [Procs -> Locations]
        /\ ticket \in [Procs -> Slots]
        /\ since \in [Procs -> Nat]
    BY <2>1 DEF Init, Locations
  <2> QED  BY <2>1, <2>2, <2>3, Zenon DEF Init, TypeOK
<1>2. RunningIsBusy
  <2>1. BusySlots = {}
    BY DEF Init, BusySlots
  <2> QED  BY <2>1, FS_EmptySet DEF Init, RunningIsBusy
<1>3. SlotsHeld /\ StopOwned /\ AgeIsDistance /\ NeverBroken /\ NoLostWakeup
  BY NoneAssumption, CAssumption
     DEF Init, SlotsHeld, StopOwned, AgeIsDistance, NeverBroken, NoLostWakeup, Slots
<1> QED  BY <1>1, <1>2, <1>3 DEF GateInv

LEMMA EnterWaitKeeps ==
  ASSUME GateInv, NEW p \in Procs, EnterWait(p)
  PROVE  GateInv'
<1> USE DEF GateInv, EnterWait
<1>1. TypeOK'
  BY DEF TypeOK, Locations
<1>2. SlotsHeld'
  BY DEF TypeOK, SlotsHeld
<1>3. RunningIsBusy'
  BY DEF RunningIsBusy, BusySlots
<1>4. StopOwned'
  BY NoneAssumption DEF TypeOK, StopOwned
<1>5. AgeIsDistance' /\ NeverBroken' /\ NoLostWakeup'
  BY DEF TypeOK, AgeIsDistance, NeverBroken, NoLostWakeup
<1> QED  BY <1>1, <1>2, <1>3, <1>4, <1>5

LEMMA EnterKeeps ==
  ASSUME GateInv, NEW p \in Procs, Enter(p)
  PROVE  GateInv'
<1> USE DEF GateInv
<1>1. /\ Cardinality(BusySlots') = running + 1
      /\ running + 1 <= C
  BY TakeSlot DEF Enter
<1>2. TypeOK'
  BY <1>1, CAssumption DEF Enter, TypeOK, Locations, Slots
<1>3. SlotsHeld'
  BY DEF Enter, TypeOK, SlotsHeld
<1>4. RunningIsBusy'
  BY <1>1 DEF Enter, RunningIsBusy
<1>5. StopOwned'
  BY NoneAssumption DEF Enter, TypeOK, StopOwned
<1>6. AgeIsDistance'
  <2>1. \A q \in Procs : q # p /\ pc[q] = "in" => ticket[q] # pos
    BY DEF Enter, TypeOK, SlotsHeld
  <2> QED
    BY <2>1, CAssumption DEF Enter, TypeOK, AgeIsDistance, Slots
<1>7. NeverBroken'
  <2>1. ~(running' > C)
    BY <1>1, CAssumption DEF Enter, TypeOK
  <2> QED  BY <2>1, Zenon DEF Enter, NeverBroken
<1>8. NoLostWakeup'
  BY DEF Enter, TypeOK, NoLostWakeup, StopOwned
<1> QED  BY <1>2, <1>3, <1>4, <1>5, <1>6, <1>7, <1>8

LEMMA LeaveKeeps ==
  ASSUME GateInv, NEW p \in Procs, Leave(p)
  PROVE  GateInv'
<1> USE DEF GateInv
<1> DEFINE idx == ticket[p]
           pcs == [pc EXCEPT ![p] = "idle"]
<1>1. idx \in Slots /\ busy[idx] /\ Release(idx)
  BY DEF Leave, TypeOK, SlotsHeld
<1>2. /\ running >= 1
      /\ running' \in 0 .. C
      /\ running' = Cardinality(BusySlots')
      /\ busy' \in [Slots -> BOOLEAN]
  BY <1>1, GiveSlot
<1>3. \/ pc' = pcs /\ ~WakesSleepers(idx)
      \/ pc' = Broadcast(pcs)
  BY DEF Leave
<1>4. pcs \in [Procs -> Locations]
  BY DEF TypeOK, Locations
<1>5. /\ pc' \in [Procs -> Locations]
      /\ \A q \in Procs : pc'[q] = "in" <=> pc[q] = "in" /\ q # p
      /\ \A q \in Procs : pc'[q] = "callback" <=> pc[q] = "callback"
      /\ \A q \in Procs : pc'[q] \in {"waitStop", "stopping"}
                          <=> pc[q] \in {"waitStop", "stopping"}
  BY <1>3, <1>4 DEF TypeOK, Broadcast, Locations, Leave
<1>6. TypeOK'
  BY <1>2, <1>5 DEF Leave, TypeOK
<1>7. SlotsHeld'
  <2>1. /\ ticket' = ticket /\ pc[p] = "in"
        /\ \A i \in Slots : busy'[i] <=> busy[i] /\ i # idx
    BY <1>1 DEF Leave, TypeOK, Release
  <2>2. \A q, r \in Procs :
          pc'[q] = "in" /\ pc'[r] = "in" /\ ticket'[q] = ticket'[r] => q = r
    BY <2>1, <1>5 DEF SlotsHeld
  <2>3. \A q \in Procs : pc'[q] = "in" => busy'[ticket'[q]]
    BY <2>1, <1>5 DEF SlotsHeld, TypeOK
  <2>4. \A i \in Slots : busy'[i] =>
          \E q \in Procs : pc'[q] = "in" /\ ticket'[q] = i
    BY <2>1, <1>5 DEF SlotsHeld
  <2> QED  BY <2>2, <2>3, <2>4 DEF SlotsHeld
<1>8. RunningIsBusy'
  BY <1>2 DEF RunningIsBusy
<1>9. StopOwned'
  <2>1. stop' = stop /\ mutex' = mutex /\ mutex = None
    BY DEF Leave
  <2>2. ~busy[0] => ~busy'[0]
    BY <1>1 DEF Release, TypeOK
  <2> QED  BY <1>5, <2>1, <2>2 DEF StopOwned
<1>10. AgeIsDistance'
  BY <1>5 DEF Leave, TypeOK, AgeIsDistance
<1>11. NeverBroken'
  BY <1>1, <1>2 DEF Leave, NeverBroken, TypeOK, Release
<1>12. NoLostWakeup'
  <2>1. CASE pc' = Broadcast(pcs)
    BY <2>1, <1>4 DEF Broadcast, NoLostWakeup
  <2>2. CASE pc' = pcs /\ ~WakesSleepers(idx)
    BY <2>2, <1>1 DEF Leave, TypeOK, NoLostWakeup, WakesSleepers, StopOwned, Release
  <2> QED  BY <1>3, <2>1, <2>2
<1> QED  BY <1>6, <1>7, <1>8, <1>9, <1>10, <1>11, <1>12

LEMMA LeaveStopKeeps ==
  ASSUME GateInv, NEW p \in Procs, LeaveStop(p)
  PROVE  GateInv'
<1> USE DEF GateInv
<1>1. ticket[p] = 0 /\ 0 \in Slots /\ busy[0] /\ Release(0)
  BY DEF LeaveStop, TypeOK, SlotsHeld
<1>2. /\ running >= 1
      /\ running' \in 0 .. C
      /\ running' = Cardinality(BusySlots')
      /\ busy' \in [Slots -> BOOLEAN]
  BY <1>1, GiveSlot
<1>3. /\ ~stop
      /\ \A q \in Procs : pc[q] \notin {"waitStop", "stopping", "callback"}
  BY <1>1, NoneAssumption DEF LeaveStop, StopOwned
<1>4. TypeOK'
  BY <1>2 DEF LeaveStop, TypeOK, Locations
<1>5. SlotsHeld'
  BY <1>1 DEF LeaveStop, TypeOK, SlotsHeld, Release
<1>6. RunningIsBusy'
  BY <1>2 DEF RunningIsBusy
<1>7. StopOwned'
  BY <1>1, <1>3, NoneAssumption DEF LeaveStop, TypeOK, StopOwned, Release
<1>8. AgeIsDistance'
  BY DEF LeaveStop, TypeOK, AgeIsDistance
<1>9. NeverBroken'
  BY <1>1, <1>2, <1>3 DEF LeaveStop, NeverBroken, TypeOK
<1>10. NoLostWakeup'
  BY <1>3, NoneAssumption DEF LeaveStop, TypeOK, NoLostWakeup
<1> QED  BY <1>4, <1>5, <1>6, <1>7, <1>8, <1>9, <1>10

LEMMA StoppingKeeps ==
  ASSUME GateInv, NEW p \in Procs, Stopping(p)
  PROVE  GateInv'
<1> USE DEF GateInv
<1>1. TypeOK'
  BY DEF Stopping, TypeOK, Locations
<1>2. SlotsHeld' /\ AgeIsDistance' /\ NeverBroken'
  BY DEF Stopping, TypeOK, SlotsHeld, AgeIsDistance, NeverBroken
<1>3. RunningIsBusy'
  BY DEF Stopping, RunningIsBusy, BusySlots
<1>4. StopOwned'
  BY NoneAssumption DEF Stopping, TypeOK, StopOwned
<1>5. NoLostWakeup'
  BY NoneAssumption DEF Stopping, TypeOK, NoLostWakeup, StopOwned
<1> QED  BY <1>1, <1>2, <1>3, <1>4, <1>5

LEMMA CallbackDoneKeeps ==
  ASSUME GateInv, NEW p \in Procs, CallbackDone(p)
  PROVE  GateInv'
<1> USE DEF GateInv
<1> DEFINE pcs == [pc EXCEPT ![p] = "idle"]
<1>1. pcs \in [Procs -> Locations]
  BY DEF TypeOK, Locations
<1>2. /\ pc' \in [Procs -> Locations]
      /\ \A q \in Procs : pc'[q] \notin {"waitEnter", "waitStop"}
      /\ \A q \in Procs : pc'[q] = "in" <=> pc[q] = "in"
      /\ \A q \in Procs : pc'[q] = "callback" <=> pc[q] = "callback" /\ q # p
      /\ \A q \in Procs : pc'[q] \in {"waitStop", "stopping"}
                          <=> pc[q] \in {"waitStop", "stopping"}
  BY <1>1 DEF CallbackDone, Broadcast, TypeOK, Locations
<1>3. TypeOK'
  BY <1>2 DEF CallbackDone, TypeOK
<1>4. SlotsHeld' /\ AgeIsDistance' /\ NeverBroken'
  <2>1. UNCHANGED <<busy, ticket, since, pos, broken>>
    BY DEF CallbackDone
  <2> QED  BY <1>2, <2>1 DEF SlotsHeld, AgeIsDistance, NeverBroken
<1>5. RunningIsBusy'
  BY DEF CallbackDone, RunningIsBusy, BusySlots
<1>6. StopOwned'
  BY <1>2, NoneAssumption DEF CallbackDone, TypeOK, StopOwned
<1>7. NoLostWakeup'
  BY <1>2 DEF NoLostWakeup
<1> QED  BY <1>3, <1>4, <1>5, <1>6, <1>7

-----------------------------------------------------------------------------
\* Every step of a goroutine in Enter and Leave keeps the invariant, so it
\* holds in every reachable state of the gate; the four panics of gate.go
\* (NeverBroken) and a lost wakeup (NoLostWakeup) are part of it.
THEOREM GateIsSound == Spec => []GateInv
<1>1. GateInv /\ [Next]_vars => GateInv'
  <2> SUFFICES ASSUME GateInv, [Next]_vars PROVE GateInv'
    OBVIOUS
  <2>1. CASE Next
    <3>1. PICK p \in Procs :
            \/ EnterWait(p) \/ Enter(p) \/ Leave(p)
            \/ LeaveStop(p) \/ Stopping(p) \/ CallbackDone(p)
      BY <2>1 DEF Next
    <3> QED
      BY <3>1, EnterWaitKeeps, EnterKeeps, LeaveKeeps, LeaveStopKeeps,
         StoppingKeeps, CallbackDoneKeeps
  <2>2. CASE UNCHANGED vars
    BY <2>2 DEF vars, GateInv, TypeOK, SlotsHeld, RunningIsBusy, BusySlots,
       StopOwned, AgeIsDistance, NeverBroken, NoLostWakeup
  <2> QED  BY <2>1, <2>2
<1> QED  BY InitGateInv, <1>1, PTL DEF Spec

\* Leave's callback never overlaps with an activity between Enter and Leave.
THEOREM CallbackRunsAlone == Spec => []CallbackAlone
<1>1. GateInv => CallbackAlone
  <2> SUFFICES ASSUME GateInv, NEW p \in Procs, pc[p] = "callback"
               PROVE  \A q \in Procs : pc[q] # "in"
    BY DEF CallbackAlone
  <2>1. running = 0
    BY NoneAssumption DEF GateInv, StopOwned
  <2> QED  BY <2>1, NobodyIn DEF GateInv
<1> QED  BY GateIsSound, <1>1, PTL

\* Enter lets fewer than C activities start while an older one still runs.
THEOREM WindowIsBounded == Spec => []WindowBounded
<1>1. GateInv => WindowBounded
  BY CAssumption DEF GateInv, WindowBounded, AgeIsDistance, TypeOK, Slots
<1> QED  BY GateIsSound, <1>1, PTL

\* No panic("broken gate") of Enter or Leave fires.
THEOREM GateNeverPanics == Spec => []NeverBroken
BY GateIsSound, PTL DEF GateInv

\* Every Broadcast that Enter's and Leave's sleepers need is made.
THEOREM GateLosesNoWakeup == Spec => []NoLostWakeup
BY GateIsSound, PTL DEF GateInv
=============================================================================
