---------------------------- MODULE VMLoopProofs ----------------------------
(***************************************************************************)
(* Proofs about module VMLoop, for any number of machines, any share of    *)
(* them reserved for fuzzing, any set of titles and any number of crashes: *)
(* no machine is lost or used twice, reproductions leave the machines that *)
(* must fuzz alone, no title is reproduced twice at a time, and the loop   *)
(* does not sleep beside a machine it could start.                         *)
(***************************************************************************)
EXTENDS VMLoop, TLAPS, FiniteSetTheorems, FunctionTheorems, SequenceTheorems
-----------------------------------------------------------------------------
(* Sequences of machine indices: what Put and Take do to them.             *)

\* Putting sequences together keeps what they hold, once if they share nothing.
LEMMA JoinedSeqs ==
  ASSUME NEW S, NEW s \in Seq(S), NEW t \in Seq(S)
  PROVE  /\ s \o t \in Seq(S) /\ Len(s \o t) = Len(s) + Len(t)
         /\ ToSet(s \o t) = ToSet(s) \cup ToSet(t)
         /\ IsInjective(s) /\ IsInjective(t) /\ ToSet(s) \cap ToSet(t) = {}
              => IsInjective(s \o t)
<1>1. s \o t \in Seq(S) /\ Len(s \o t) = Len(s) + Len(t)
  OBVIOUS
<1>2. \A i \in 1 .. Len(s) : i \in DOMAIN (s \o t) /\ (s \o t)[i] = s[i]
  OBVIOUS
<1>3. \A i \in 1 .. Len(t) : i + Len(s) \in DOMAIN (s \o t) /\ (s \o t)[i + Len(s)] = t[i]
  OBVIOUS
<1>4. \A k \in DOMAIN (s \o t) :
        \/ k \in 1 .. Len(s) /\ (s \o t)[k] = s[k]
        \/ k - Len(s) \in 1 .. Len(t) /\ (s \o t)[k] = t[k - Len(s)]
  OBVIOUS
<1>5. DOMAIN s = 1 .. Len(s) /\ DOMAIN t = 1 .. Len(t) /\ Len(s) \in Nat /\ Len(t) \in Nat
  OBVIOUS
<1>6. ToSet(s \o t) = ToSet(s) \cup ToSet(t)
  <2>1. ToSet(s \o t) \subseteq ToSet(s) \cup ToSet(t)
    BY <1>4, <1>5 DEF ToSet
  <2>2. ToSet(s) \subseteq ToSet(s \o t)
    BY <1>2, <1>5 DEF ToSet
  <2>3. ToSet(t) \subseteq ToSet(s \o t)
    BY <1>3, <1>5 DEF ToSet
  <2> QED
    BY <2>1, <2>2, <2>3
<1>7. ASSUME IsInjective(s), IsInjective(t), ToSet(s) \cap ToSet(t) = {}
      PROVE  IsInjective(s \o t)
  <2> SUFFICES ASSUME NEW i \in DOMAIN (s \o t), NEW j \in DOMAIN (s \o t),
                      (s \o t)[i] = (s \o t)[j]
               PROVE  i = j
    BY DEF IsInjective
  <2>1. \A a \in DOMAIN s, b \in DOMAIN t : s[a] # t[b]
    BY <1>7 DEF ToSet
  <2>2. (i \in 1 .. Len(s) /\ j \in 1 .. Len(s))
          \/ (i - Len(s) \in 1 .. Len(t) /\ j - Len(s) \in 1 .. Len(t)
               /\ t[i - Len(s)] = t[j - Len(s)])
    BY <2>1, <1>4, <1>5
  <2>3. i \in Nat /\ j \in Nat
    BY <1>1
  <2>4. CASE i \in 1 .. Len(s) /\ j \in 1 .. Len(s)
    BY <2>4, <1>2, <1>5, <1>7 DEF IsInjective
  <2>5. CASE i - Len(s) \in 1 .. Len(t) /\ j - Len(s) \in 1 .. Len(t)
               /\ t[i - Len(s)] = t[j - Len(s)]
    <3>1. i - Len(s) = j - Len(s)
      BY <2>5, <1>5, <1>7 DEF IsInjective
    <3> QED
      BY <3>1, <2>3, <1>5
  <2> QED
    BY <2>2, <2>4, <2>5
<1> QED
  BY <1>1, <1>6, <1>7

\* Take(n) cuts the last n indices off the pool: a sequence that holds everything
\* once becomes two that share nothing.
LEMMA CutSeq ==
  ASSUME NEW S, NEW s \in Seq(S), NEW n \in Nat, n <= Len(s)
  PROVE  LET a == SubSeq(s, 1, Len(s) - n)
             b == SubSeq(s, Len(s) - n + 1, Len(s))
         IN /\ a \in Seq(S) /\ Len(a) = Len(s) - n
            /\ b \in Seq(S) /\ Len(b) = n
            /\ ToSet(a) \cup ToSet(b) = ToSet(s)
            /\ IsInjective(s)
                 => IsInjective(a) /\ IsInjective(b) /\ ToSet(a) \cap ToSet(b) = {}
<1> DEFINE m == Len(s) - n
           a == SubSeq(s, 1, m)
           b == SubSeq(s, m + 1, Len(s))
<1>0. Len(s) \in Nat /\ m \in Nat /\ m + n = Len(s) /\ m <= Len(s)
  OBVIOUS
<1>1. \A i \in 1 .. Len(s) : s[i] \in S
  OBVIOUS
<1> HIDE DEF m
<1>2. /\ a \in Seq(S) /\ Len(a) = IF 1 <= m THEN m - 1 + 1 ELSE 0
      /\ \A i \in 1 .. m - 1 + 1 : a[i] = s[1 + i - 1]
  <2>1. \A i \in 1 .. m : s[i] \in S
    BY <1>0, <1>1
  <2> QED
    BY <1>0, <2>1, SubSeqProperties
<1>3. /\ b \in Seq(S) /\ Len(b) = IF m + 1 <= Len(s) THEN Len(s) - (m + 1) + 1 ELSE 0
      /\ \A i \in 1 .. Len(s) - (m + 1) + 1 : b[i] = s[m + 1 + i - 1]
  <2>1. \A i \in m + 1 .. Len(s) : s[i] \in S
    BY <1>0, <1>1
  <2> QED
    BY <1>0, <2>1, SubSeqProperties
<1> HIDE DEF a, b
<1>4. Len(a) = m /\ Len(b) = n
  BY <1>0, <1>2, <1>3
<1>5. \A i \in 1 .. m : a[i] = s[i]
  <2>1. \A i \in 1 .. m : i \in 1 .. m - 1 + 1 /\ 1 + i - 1 = i
    BY <1>0
  <2> QED
    BY <2>1, <1>2
<1>6. \A i \in 1 .. n : b[i] = s[m + i]
  <2>1. \A i \in 1 .. n : i \in 1 .. Len(s) - (m + 1) + 1 /\ m + 1 + i - 1 = m + i
    BY <1>0
  <2> QED
    BY <2>1, <1>3
<1>7. a \in Seq(S) /\ b \in Seq(S)
  BY <1>2, <1>3
<1>8. DOMAIN s = 1 .. Len(s) /\ DOMAIN a = 1 .. m /\ DOMAIN b = 1 .. n
  BY <1>4, <1>7
<1>9. ToSet(a) \cup ToSet(b) = ToSet(s)
  <2>1. ToSet(a) \subseteq ToSet(s)
    BY <1>0, <1>5, <1>8 DEF ToSet
  <2>2. ToSet(b) \subseteq ToSet(s)
    <3>1. \A i \in 1 .. n : m + i \in DOMAIN s /\ b[i] = s[m + i]
      BY <1>0, <1>6, <1>8
    <3>2. \A i \in DOMAIN b : b[i] \in {s[k] : k \in DOMAIN s}
      BY <3>1, <1>8, Zenon
    <3> QED
      BY <3>2, Zenon DEF ToSet
  <2>3. ASSUME NEW k \in DOMAIN s
        PROVE  s[k] \in ToSet(a) \cup ToSet(b)
    <3>1. CASE k \in 1 .. m
      BY <3>1, <1>5, <1>8 DEF ToSet
    <3>2. CASE k \notin 1 .. m
      <4>1. k - m \in 1 .. n /\ m + (k - m) = k
        BY <3>2, <1>0, <1>8
      <4>2. b[k - m] = s[k]
        BY <4>1, <1>6
      <4> QED
        BY <4>1, <4>2, <1>8 DEF ToSet
    <3> QED
      BY <3>1, <3>2
  <2> QED
    BY <2>1, <2>2, <2>3 DEF ToSet
<1>10. ASSUME IsInjective(s)
       PROVE  IsInjective(a) /\ IsInjective(b) /\ ToSet(a) \cap ToSet(b) = {}
  <2>0. \A i, j \in 1 .. Len(s) : s[i] = s[j] => i = j
    BY <1>8, <1>10 DEF IsInjective
  <2>1. IsInjective(a)
    BY <1>0, <1>5, <1>8, <2>0 DEF IsInjective
  <2>2. IsInjective(b)
    <3> SUFFICES ASSUME NEW i \in 1 .. n, NEW j \in 1 .. n, b[i] = b[j]
                 PROVE  i = j
      BY <1>8 DEF IsInjective
    <3>1. m + i \in 1 .. Len(s) /\ m + j \in 1 .. Len(s) /\ s[m + i] = s[m + j]
      BY <1>0, <1>6
    <3>2. m + i = m + j
      BY <3>1, <2>0
    <3> QED
      BY <3>2, <1>0
  <2>3. ASSUME NEW i \in 1 .. m, NEW j \in 1 .. n
        PROVE  a[i] # b[j]
    <3>1. i \in 1 .. Len(s) /\ m + j \in 1 .. Len(s) /\ i # m + j
      BY <1>0
    <3> QED
      BY <3>1, <2>0, <1>5, <1>6
  <2> QED
    BY <1>8, <2>1, <2>2, <2>3 DEF ToSet
<1>11. Len(a) = Len(s) - n
  BY <1>4 DEF m
<1> QED
  BY <1>4, <1>7, <1>9, <1>10, <1>11 DEF a, b, m

\* One index as a sequence.
LEMMA OneIndex ==
  ASSUME NEW S, NEW x \in S
  PROVE  <<x>> \in Seq(S) /\ Len(<<x>>) = 1 /\ ToSet(<<x>>) = {x} /\ IsInjective(<<x>>)
  BY DEF ToSet, IsInjective

\* The first machine of a reproduction and the others.
LEMMA FirstAndOthers ==
  ASSUME NEW S, NEW s \in Seq(S), s # <<>>
  PROVE  /\ Head(s) \in S /\ Tail(s) \in Seq(S)
         /\ ToSet(s) = {Head(s)} \cup ToSet(Tail(s))
         /\ IsInjective(s) => IsInjective(Tail(s)) /\ Head(s) \notin ToSet(Tail(s))
<1>1. Len(s) \in Nat /\ Len(s) >= 1 /\ DOMAIN s = 1 .. Len(s) /\ Head(s) = s[1] /\ s[1] \in S
  OBVIOUS
<1>2. /\ Tail(s) \in Seq(S) /\ DOMAIN Tail(s) = 1 .. Len(s) - 1
      /\ \A i \in 1 .. Len(s) - 1 : Tail(s)[i] = s[i + 1]
  OBVIOUS
<1>3. ToSet(s) = {Head(s)} \cup ToSet(Tail(s))
  <2>1. ASSUME NEW k \in DOMAIN s
        PROVE  s[k] \in {Head(s)} \cup ToSet(Tail(s))
    <3>1. k = 1 \/ (k - 1 \in 1 .. Len(s) - 1 /\ (k - 1) + 1 = k)
      BY <1>1
    <3>2. CASE k = 1
      BY <3>2, <1>1
    <3>3. CASE k - 1 \in 1 .. Len(s) - 1 /\ (k - 1) + 1 = k
      <4>1. Tail(s)[k - 1] = s[k]
        BY <3>3, <1>2
      <4> QED
        BY <4>1, <3>3, <1>2 DEF ToSet
    <3> QED
      BY <3>1, <3>2, <3>3
  <2>2. \A i \in DOMAIN Tail(s) : Tail(s)[i] \in ToSet(s)
    BY <1>1, <1>2 DEF ToSet
  <2>3. Head(s) \in ToSet(s)
    BY <1>1 DEF ToSet
  <2> QED
    BY <2>1, <2>2, <2>3 DEF ToSet
<1>4. ASSUME IsInjective(s)
      PROVE  IsInjective(Tail(s)) /\ Head(s) \notin ToSet(Tail(s))
  BY <1>1, <1>2, <1>4 DEF IsInjective, ToSet
<1> QED
  BY <1>1, <1>2, <1>3, <1>4

\* Put of one index.
LEMMA PutOne ==
  ASSUME NEW S, NEW s \in Seq(S), NEW x \in S
  PROVE  /\ s \o <<x>> \in Seq(S)
         /\ ToSet(s \o <<x>>) = ToSet(s) \cup {x}
         /\ IsInjective(s) /\ x \notin ToSet(s) => IsInjective(s \o <<x>>)
<1> DEFINE t == <<x>>
<1>1. t \in Seq(S) /\ ToSet(t) = {x} /\ IsInjective(t)
  BY OneIndex
<1> HIDE DEF t
<1>2. ToSet(s) \cap ToSet(t) = {} <=> x \notin ToSet(s)
  BY <1>1
<1>3. /\ s \o t \in Seq(S) /\ ToSet(s \o t) = ToSet(s) \cup {x}
      /\ IsInjective(s) /\ x \notin ToSet(s) => IsInjective(s \o t)
  BY <1>1, <1>2, JoinedSeqs
<1> QED
  BY <1>3 DEF t
-----------------------------------------------------------------------------
(* Type correctness.                                                       *)

\* A reproduction takes at least one machine.
LEMMA LoopConstants ==
  /\ instancesPerRepro \in Nat /\ instancesPerRepro >= 1 /\ maxReproVMs \in Nat
  /\ vmCount \in Nat /\ maxReproAttempts \in Nat /\ MaxCrashes \in Nat
  BY VMLoopAssumption DEF instancesPerRepro, maxReproVMs

\* No step leaves the types.
LEMMA TypeStep ==
  ASSUME TypeOK, ReproSizes, Next
  PROVE  TypeOK'
<1> USE LoopConstants DEF loopVars, poolVars, goVars, diskVars, envVars
<1>1. CASE LoopTop
  BY <1>1 DEF LoopTop, TypeOK
<1>2. CASE StartRepro
  <2> DEFINE k == instancesPerRepro
             last == Last(reproQueue)
             hd == SubSeq(ids, Len(ids) - k + 1, Len(ids))
  <2>1. k \in Nat /\ k <= Len(ids) /\ ids \in Seq(VMs)
    BY <1>2 DEF StartRepro, Take, CanTake, TypeOK
  <2>2. SubSeq(ids, 1, Len(ids) - k) \in Seq(VMs) /\ hd \in Seq(VMs)
    BY <2>1, CutSeq
  <2>3. reproQueue # <<>> /\ reproQueue \in Seq(Crashes)
    BY <1>2 DEF StartRepro, canRepro, TypeOK
  <2>4. last \in Crashes /\ Front(reproQueue) \in Seq(Crashes)
    BY <2>3 DEF Last, Front
  <2>5. /\ ids' = SubSeq(ids, 1, Len(ids) - k)
        /\ repros' = repros \cup {[crash |-> last, held |-> hd, st |-> "run"]}
        /\ reproQueue' = Front(reproQueue)
        /\ UNCHANGED <<pc, phase, todo, pendingRepro, reproducing, stopPending, stopped, Freed,
                       booted, fuzzing, runDone, reproDone, diskVars, envVars>>
    BY <1>2 DEF StartRepro, Take, Taken
  <2> HIDE DEF k, last, hd
  <2>6. [crash |-> last, held |-> hd, st |-> "run"]
          \in [crash : Crashes, held : Seq(VMs), st : {"run", "strace"}]
    BY <2>2, <2>4
  <2> QED
    BY <2>2, <2>4, <2>5, <2>6 DEF TypeOK
<1>3. CASE StartInstance
  <2>1. Len(ids) >= 1 /\ ids \in Seq(VMs)
    BY <1>3 DEF StartInstance, Take, CanTake, TypeOK
  <2>2. SubSeq(ids, 1, Len(ids) - 1) \in Seq(VMs)
    BY <2>1, CutSeq
  <2>3. Last(ids) \in VMs
    BY <2>1 DEF Last
  <2> QED
    BY <1>3, <2>2, <2>3 DEF StartInstance, Take, TypeOK
<1>4. CASE ToSelect
  BY <1>4 DEF ToSelect, TypeOK
<1>5. CASE WaitFreed
  BY <1>5 DEF WaitFreed, TypeOK
<1>6. CASE WaitShutdown
  BY <1>6 DEF WaitShutdown, TypeOK
<1>7. CASE WaitHubRepro
  <2>1. Head(hubReproQueue) \in Crashes /\ Tail(hubReproQueue) \in Seq(Crashes)
    BY <1>7, FirstAndOthers DEF WaitHubRepro, TypeOK
  <2> QED
    BY <1>7, <2>1 DEF WaitHubRepro, TypeOK
<1>8. CASE WaitNeedMoreRepros
  <2>1. [id |-> crashes + 1, title |-> HubTitle, hub |-> TRUE] \in Crashes
    BY <1>8 DEF WaitNeedMoreRepros, TypeOK, Crashes
  <2>2. hubReproQueue' \in Seq(Crashes)
    BY <1>8, <2>1, AppendProperties DEF WaitNeedMoreRepros, TypeOK
  <2>3. crashes' \in 0 .. MaxCrashes
    BY <1>8 DEF WaitNeedMoreRepros, TypeOK
  <2> QED
    BY <1>8, <2>2, <2>3 DEF WaitNeedMoreRepros, TypeOK
<1>9. ASSUME NEW c \in todo, VisitPending(c)
      PROVE  TypeOK'
  <2>1. c \in Crashes /\ c.title \in Titles \cup {HubTitle}
    BY DEF TypeOK, Crashes
  <2>2. Append(reproQueue, c) \in Seq(Crashes)
    BY <2>1, AppendProperties DEF TypeOK
  <2>3. todo' \subseteq pendingRepro' /\ pendingRepro' \subseteq Crashes
    BY <1>9 DEF VisitPending, TypeOK
  <2>4. reproducing' \subseteq Titles \cup {HubTitle} /\ reproQueue' \in Seq(Crashes)
    BY <1>9, <2>1, <2>2 DEF VisitPending, TypeOK
  <2> QED
    BY <1>9, <2>3, <2>4 DEF VisitPending, TypeOK
<1>10. ASSUME NEW f \in fuzzing, WaitStopRequest(f)
       PROVE  TypeOK'
  BY <1>10 DEF WaitStopRequest, TypeOK
<1>11. ASSUME NEW res \in runDone, WaitRunDone(res)
       PROVE  TypeOK'
  <2>1. res.idx \in VMs /\ res.crash \in Crashes \cup {NoCrash}
    BY DEF TypeOK
  <2>2. ids' \in Seq(VMs)
    BY <1>11, <2>1, OneIndex, JoinedSeqs DEF WaitRunDone, Put, TypeOK
  <2>3. pendingRepro' \subseteq Crashes /\ pendingRepro \subseteq pendingRepro'
    BY <1>11, <2>1 DEF WaitRunDone, TypeOK
  <2> QED
    BY <1>11, <2>2, <2>3 DEF WaitRunDone, Put, TypeOK
<1>12. ASSUME NEW res \in reproDone, WaitReproDone(res)
       PROVE  TypeOK'
  <2>1. reproLogs' \in [Titles -> 0 .. maxReproAttempts] /\ reproProg' \subseteq Titles
    <3>1. CASE res.ok
      BY <1>12, <3>1 DEF WaitReproDone, saveRepro, TypeOK
    <3>2. CASE ~res.ok
      BY <1>12, <3>2 DEF WaitReproDone, saveFailedRepro, TypeOK
    <3> QED
      BY <3>1, <3>2
  <2> QED
    BY <1>12, <2>1 DEF WaitReproDone, TypeOK
<1>13. CASE BootNext
  <2>1. booted \in VMs /\ booted' \in 0 .. vmCount
    BY <1>13 DEF BootNext, TypeOK, VMs
  <2>2. ids' \in Seq(VMs)
    BY <1>13, <2>1, OneIndex, JoinedSeqs DEF BootNext, Put, TypeOK
  <2> QED
    BY <1>13, <2>1, <2>2 DEF BootNext, Put, TypeOK
<1>14. CASE MachineCheck
  BY <1>14 DEF MachineCheck, TypeOK
<1>15. CASE PhaseTriagedHub
  BY <1>15 DEF PhaseTriagedHub, TypeOK
<1>16. CASE Interrupt
  BY <1>16 DEF Interrupt, TypeOK
<1>17. ASSUME NEW f \in fuzzing, InstanceUp(f)
       PROVE  TypeOK'
  BY <1>17 DEF InstanceUp, TypeOK
<1>18. ASSUME NEW f \in fuzzing, InstanceEnds(f)
       PROVE  TypeOK'
  BY <1>18 DEF InstanceEnds, TypeOK
<1>19. ASSUME NEW f \in fuzzing, InstanceCrashes(f)
       PROVE  TypeOK'
  <2>1. crashes' \in 0 .. MaxCrashes /\ crashes + 1 \in 1 .. MaxCrashes
    BY <1>19 DEF InstanceCrashes, TypeOK
  <2>2. \A t \in Titles : [id |-> crashes + 1, title |-> t, hub |-> FALSE] \in Crashes
    BY <2>1 DEF Crashes
  <2>3. runDone' \subseteq [idx : VMs, crash : Crashes \cup {NoCrash}]
    BY <1>19, <2>2 DEF InstanceCrashes, TypeOK
  <2> QED
    BY <1>19, <2>1, <2>3 DEF InstanceCrashes, TypeOK
<1>20. ASSUME NEW r \in repros, ReproEnds(r)
       PROVE  TypeOK'
  <2>1. r.held \in Seq(VMs) /\ r.crash \in Crashes
    BY DEF TypeOK
  <2>2. ids' \in Seq(VMs)
    BY <1>20, <2>1, JoinedSeqs DEF ReproEnds, Put, TypeOK
  <2>3. reproDone' \subseteq [crash : Crashes, ok : BOOLEAN]
    BY <1>20, <2>1 DEF ReproEnds, TypeOK
  <2> QED
    BY <1>20, <2>2, <2>3 DEF ReproEnds, Put, TypeOK
<1>21. ASSUME NEW r \in repros, ReproToStrace(r)
       PROVE  TypeOK'
  <2>1. r \in [crash : Crashes, held : Seq(VMs), st : {"run", "strace"}] /\ r.held # <<>>
    BY <1>21 DEF ReproToStrace, ReproSizes, TypeOK
  <2>2. Head(r.held) \in VMs /\ Tail(r.held) \in Seq(VMs)
    BY <2>1, FirstAndOthers
  <2>3. ids' \in Seq(VMs)
    BY <1>21, <2>2, JoinedSeqs DEF ReproToStrace, Put, TypeOK
  <2>4. <<Head(r.held)>> \in Seq(VMs)
    BY <2>2, OneIndex
  <2>5. [r EXCEPT !.st = "strace", !.held = <<Head(r.held)>>]
          \in [crash : Crashes, held : Seq(VMs), st : {"run", "strace"}]
    BY <2>1, <2>4
  <2> QED
    BY <1>21, <2>3, <2>5 DEF ReproToStrace, Put, TypeOK
<1>22. ASSUME NEW r \in repros, StraceEnds(r)
       PROVE  TypeOK'
  <2>1. r.held \in Seq(VMs) /\ r.crash \in Crashes
    BY DEF TypeOK
  <2>2. ids' \in Seq(VMs)
    BY <1>22, <2>1, JoinedSeqs DEF StraceEnds, Put, TypeOK
  <2>3. reproDone' \subseteq [crash : Crashes, ok : BOOLEAN]
    <3>1. [crash |-> r.crash, ok |-> TRUE] \in [crash : Crashes, ok : BOOLEAN]
      BY <2>1, Zenon
    <3>2. reproDone' = reproDone \cup {[crash |-> r.crash, ok |-> TRUE]}
      BY <1>22 DEF StraceEnds
    <3> QED
      BY <3>1, <3>2 DEF TypeOK
  <2> QED
    BY <1>22, <2>2, <2>3 DEF StraceEnds, Put, TypeOK
<1>23. CASE Exited
  BY <1>23 DEF Exited, vars, TypeOK
<1> QED
  BY <1>1, <1>2, <1>3, <1>4, <1>5, <1>6, <1>7, <1>8, <1>9, <1>10, <1>11, <1>12, <1>13, <1>14,
     <1>15, <1>16, <1>17, <1>18, <1>19, <1>20, <1>21, <1>22, <1>23 DEF Next, LoopStep, OtherStep

-----------------------------------------------------------------------------
(* Where the machines are.                                                 *)

\* What a machine does in its place moves nothing: a runInstance goroutine
\* that reaches another stage keeps its index.
LEMMA StageMovesNothing ==
  ASSUME OnePlaceOnly, NoneLost, NEW f \in fuzzing, NEW g, g.idx = f.idx,
         fuzzing' = (fuzzing \ {f}) \cup {g}, UNCHANGED <<ids, booted, runDone, repros>>
  PROVE  OnePlaceOnly' /\ NoneLost'
<1>1. Running' = Running
  BY DEF Running
<1>2. Pooled' = Pooled /\ Finished' = Finished /\ HeldByRepros' = HeldByRepros
  BY DEF Pooled, Finished, HeldByRepros
<1>3. \A h, k \in fuzzing' : h.idx = k.idx => h = k
  BY DEF OnePlaceOnly
<1> QED
  BY <1>1, <1>2, <1>3 DEF OnePlaceOnly, NoneLost

\* The end of a runInstance goroutine moves its index to the results.
LEMMA EndMovesIndex ==
  ASSUME OnePlaceOnly, NoneLost, NEW f \in fuzzing, NEW g, g.idx = f.idx,
         fuzzing' = fuzzing \ {f}, runDone' = runDone \cup {g},
         UNCHANGED <<ids, booted, repros>>
  PROVE  OnePlaceOnly' /\ NoneLost'
<1>1. Running' = Running \ {f.idx} /\ f.idx \in Running
  BY DEF Running, OnePlaceOnly
<1>2. Finished' = Finished \cup {f.idx}
  BY DEF Finished
<1>3. Pooled' = Pooled /\ HeldByRepros' = HeldByRepros
  BY DEF Pooled, HeldByRepros
<1>4. \A h, k \in fuzzing' : h.idx = k.idx => h = k
  BY DEF OnePlaceOnly
<1>5. f.idx \notin Finished
  BY <1>1 DEF OnePlaceOnly
<1>6. \A h, k \in runDone' : h.idx = k.idx => h = k
  BY <1>5 DEF OnePlaceOnly, Finished
<1> QED
  BY <1>1, <1>2, <1>3, <1>4, <1>6 DEF OnePlaceOnly, NoneLost

\* A reproduction that is over gives all its machines to the pool.
LEMMA ReproGivesBack ==
  ASSUME TypeOK, OnePlaceOnly, NoneLost, NEW r \in repros, repros' = repros \ {r},
         ids' = ids \o r.held, UNCHANGED <<booted, fuzzing, runDone>>
  PROVE  OnePlaceOnly' /\ NoneLost'
<1>1. ids \in Seq(VMs) /\ r.held \in Seq(VMs)
  BY DEF TypeOK
<1>2. ToSet(r.held) \subseteq HeldByRepros
  BY DEF HeldByRepros
<1>3. ToSet(ids) \cap ToSet(r.held) = {}
  BY <1>2 DEF OnePlaceOnly, Pooled
<1>4. IsInjective(ids') /\ Pooled' = Pooled \cup ToSet(r.held)
  <2>1. IsInjective(ids) /\ IsInjective(r.held)
    BY DEF OnePlaceOnly
  <2> QED
    BY <1>1, <1>3, <2>1, JoinedSeqs DEF Pooled
<1>5. HeldByRepros' = HeldByRepros \ ToSet(r.held)
  <2>1. \A q \in repros : q # r => ToSet(q.held) \cap ToSet(r.held) = {}
    BY DEF OnePlaceOnly
  <2>2. HeldByRepros' = UNION {ToSet(q.held) : q \in repros \ {r}}
    BY DEF HeldByRepros
  <2> QED
    BY <2>1, <2>2 DEF HeldByRepros
<1>6. Running' = Running /\ Finished' = Finished
  BY DEF Running, Finished
<1>7. /\ \A q \in repros' : IsInjective(q.held)
      /\ \A p, q \in repros' : p # q => ToSet(p.held) \cap ToSet(q.held) = {}
  BY DEF OnePlaceOnly
<1>8. /\ \A f, g \in fuzzing' : f.idx = g.idx => f = g
      /\ \A f, g \in runDone' : f.idx = g.idx => f = g
  BY DEF OnePlaceOnly
<1>9. /\ Pooled' \cap (Running' \cup Finished' \cup HeldByRepros') = {}
      /\ Running' \cap (Finished' \cup HeldByRepros') = {} /\ Finished' \cap HeldByRepros' = {}
  BY <1>2, <1>4, <1>5, <1>6 DEF OnePlaceOnly
<1>10. NoneLost'
  BY <1>2, <1>4, <1>5, <1>6 DEF NoneLost
<1> QED
  BY <1>4, <1>7, <1>8, <1>9, <1>10 DEF OnePlaceOnly

\* No step loses a machine or puts it in two places.
LEMMA PlaceStep ==
  ASSUME TypeOK, OnePlaceOnly, NoneLost, ReproSizes, Next
  PROVE  OnePlaceOnly' /\ NoneLost'
<1> USE LoopConstants DEF loopVars, poolVars, goVars, diskVars, envVars
<1>1. CASE UNCHANGED <<ids, booted, fuzzing, runDone, repros>>
  BY <1>1 DEF OnePlaceOnly, NoneLost, Pooled, Running, Finished, HeldByRepros
<1>2. CASE StartRepro
  <2> DEFINE k == instancesPerRepro
             a == SubSeq(ids, 1, Len(ids) - k)
             b == SubSeq(ids, Len(ids) - k + 1, Len(ids))
             r == [crash |-> Last(reproQueue), held |-> b, st |-> "run"]
  <2>1. k \in Nat /\ k <= Len(ids) /\ ids \in Seq(VMs)
    BY <1>2 DEF StartRepro, Take, CanTake, TypeOK
  <2>2. /\ a \in Seq(VMs) /\ b \in Seq(VMs) /\ ToSet(a) \cup ToSet(b) = ToSet(ids)
        /\ IsInjective(a) /\ IsInjective(b) /\ ToSet(a) \cap ToSet(b) = {}
    BY <2>1, CutSeq DEF OnePlaceOnly
  <2>3. /\ ids' = a /\ repros' = repros \cup {r}
        /\ booted' = booted /\ fuzzing' = fuzzing /\ runDone' = runDone
    BY <1>2 DEF StartRepro, Take, Taken
  <2>4. r.held = b
    OBVIOUS
  <2> HIDE DEF k, a, b, r
  <2>5. Pooled' = ToSet(a) /\ Pooled = ToSet(a) \cup ToSet(b)
    BY <2>2, <2>3 DEF Pooled
  <2>6. HeldByRepros' = HeldByRepros \cup ToSet(b)
    BY <2>3, <2>4 DEF HeldByRepros
  <2>7. Running' = Running /\ Finished' = Finished
    BY <2>3 DEF Running, Finished
  <2>8. /\ Pooled' \cap (Running' \cup Finished' \cup HeldByRepros') = {}
        /\ Running' \cap (Finished' \cup HeldByRepros') = {}
        /\ Finished' \cap HeldByRepros' = {}
    BY <2>2, <2>5, <2>6, <2>7 DEF OnePlaceOnly
  <2>9. NoneLost'
    BY <2>3, <2>5, <2>6, <2>7 DEF NoneLost
  <2>10. \A q \in repros : ToSet(q.held) \cap ToSet(b) = {}
    BY <2>5 DEF OnePlaceOnly, HeldByRepros
  <2>11. \A p, q \in repros' : p # q => ToSet(p.held) \cap ToSet(q.held) = {}
    BY <2>3, <2>4, <2>10 DEF OnePlaceOnly
  <2>12. \A q \in repros' : IsInjective(q.held)
    BY <2>2, <2>3, <2>4 DEF OnePlaceOnly
  <2>13. /\ \A f, g \in fuzzing' : f.idx = g.idx => f = g
         /\ \A f, g \in runDone' : f.idx = g.idx => f = g
    BY <2>3 DEF OnePlaceOnly
  <2> QED
    BY <2>2, <2>3, <2>8, <2>9, <2>11, <2>12, <2>13 DEF OnePlaceOnly
<1>3. CASE StartInstance
  <2> DEFINE a == SubSeq(ids, 1, Len(ids) - 1)
             b == SubSeq(ids, Len(ids) - 1 + 1, Len(ids))
             f == [idx |-> Last(ids), st |-> "boot"]
  <2>1. Len(ids) \in Nat /\ 1 <= Len(ids) /\ ids \in Seq(VMs)
    BY <1>3 DEF StartInstance, Take, CanTake, TypeOK
  <2>2. /\ a \in Seq(VMs) /\ b \in Seq(VMs) /\ Len(b) = 1 /\ ToSet(a) \cup ToSet(b) = ToSet(ids)
        /\ IsInjective(a) /\ ToSet(a) \cap ToSet(b) = {}
    BY <2>1, CutSeq DEF OnePlaceOnly
  <2>3. /\ ids' = a /\ fuzzing' = fuzzing \cup {f}
        /\ booted' = booted /\ repros' = repros /\ runDone' = runDone
    BY <1>3 DEF StartInstance, Take
  <2>4. f.idx = Last(ids)
    OBVIOUS
  <2>5. ToSet(b) = {Last(ids)}
    <3>1. \A i \in Len(ids) .. Len(ids) : ids[i] \in VMs
      BY <2>1
    <3>2. \A i \in 1 .. Len(ids) - Len(ids) + 1 :
            SubSeq(ids, Len(ids), Len(ids))[i] = ids[Len(ids) + i - 1]
      BY <2>1, <3>1, SubSeqProperties
    <3>3. SubSeq(ids, Len(ids), Len(ids))[1] = ids[Len(ids)]
      BY <2>1, <3>2
    <3>4. b = SubSeq(ids, Len(ids), Len(ids))
      BY <2>1
    <3> HIDE DEF b
    <3>5. DOMAIN b = {1} /\ b[1] = Last(ids)
      BY <2>2, <3>3, <3>4 DEF Last
    <3> QED
      BY <3>5 DEF ToSet
  <2> HIDE DEF a, b, f
  <2>6. Pooled' = ToSet(a) /\ Pooled = ToSet(a) \cup {Last(ids)} /\ Last(ids) \notin ToSet(a)
    BY <2>2, <2>3, <2>5 DEF Pooled
  <2>7. Running' = Running \cup {Last(ids)}
    BY <2>3, <2>4 DEF Running
  <2>8. Finished' = Finished /\ HeldByRepros' = HeldByRepros
    BY <2>3 DEF Finished, HeldByRepros
  <2>9. /\ Pooled' \cap (Running' \cup Finished' \cup HeldByRepros') = {}
        /\ Running' \cap (Finished' \cup HeldByRepros') = {}
        /\ Finished' \cap HeldByRepros' = {}
    BY <2>6, <2>7, <2>8 DEF OnePlaceOnly
  <2>10. NoneLost'
    BY <2>3, <2>6, <2>7, <2>8 DEF NoneLost
  <2>11. Last(ids) \notin Running
    BY <2>6 DEF OnePlaceOnly
  <2>12. \A g, h \in fuzzing' : g.idx = h.idx => g = h
    BY <2>3, <2>4, <2>11 DEF OnePlaceOnly, Running
  <2> QED
    BY <2>2, <2>3, <2>9, <2>10, <2>12 DEF OnePlaceOnly
<1>4. ASSUME NEW f \in fuzzing, WaitStopRequest(f)
      PROVE  OnePlaceOnly' /\ NoneLost'
  <2>1. [f EXCEPT !.st = "stop"].idx = f.idx
    BY DEF TypeOK
  <2> QED
    BY <1>4, <2>1, StageMovesNothing DEF WaitStopRequest
<1>5. ASSUME NEW f \in fuzzing, InstanceUp(f)
      PROVE  OnePlaceOnly' /\ NoneLost'
  <2>1. [f EXCEPT !.st = "run"].idx = f.idx
    BY DEF TypeOK
  <2> QED
    BY <1>5, <2>1, StageMovesNothing DEF InstanceUp
<1>6. ASSUME NEW f \in fuzzing, InstanceEnds(f)
      PROVE  OnePlaceOnly' /\ NoneLost'
  <2>1. [idx |-> f.idx, crash |-> NoCrash].idx = f.idx
    OBVIOUS
  <2> QED
    BY <1>6, <2>1, EndMovesIndex DEF InstanceEnds
<1>7. ASSUME NEW f \in fuzzing, InstanceCrashes(f)
      PROVE  OnePlaceOnly' /\ NoneLost'
  <2>1. PICK t \in Titles : runDone' = runDone \cup
          {[idx |-> f.idx, crash |-> [id |-> crashes + 1, title |-> t, hub |-> FALSE]]}
    BY <1>7 DEF InstanceCrashes
  <2>2. [idx |-> f.idx, crash |-> [id |-> crashes + 1, title |-> t, hub |-> FALSE]].idx = f.idx
    OBVIOUS
  <2> QED
    BY <1>7, <2>1, <2>2, EndMovesIndex DEF InstanceCrashes
<1>8. ASSUME NEW r \in repros, ReproEnds(r)
      PROVE  OnePlaceOnly' /\ NoneLost'
  BY <1>8, ReproGivesBack DEF ReproEnds, Put
<1>9. ASSUME NEW r \in repros, StraceEnds(r)
      PROVE  OnePlaceOnly' /\ NoneLost'
  BY <1>9, ReproGivesBack DEF StraceEnds, Put
<1>10. ASSUME NEW r \in repros, ReproToStrace(r)
       PROVE  OnePlaceOnly' /\ NoneLost'
  <2> DEFINE x == Head(r.held)
             t == Tail(r.held)
             q == [r EXCEPT !.st = "strace", !.held = <<Head(r.held)>>]
  <2>1. /\ r \in [crash : Crashes, held : Seq(VMs), st : {"run", "strace"}] /\ r.held # <<>>
        /\ ids \in Seq(VMs)
    BY <1>10 DEF ReproToStrace, ReproSizes, TypeOK
  <2>2. IsInjective(r.held) /\ IsInjective(ids)
    BY DEF OnePlaceOnly
  <2>3. /\ x \in VMs /\ t \in Seq(VMs) /\ ToSet(r.held) = {x} \cup ToSet(t)
        /\ IsInjective(t) /\ x \notin ToSet(t)
    BY <2>1, <2>2, FirstAndOthers
  <2>4. q.held = <<x>> /\ ToSet(<<x>>) = {x} /\ IsInjective(<<x>>)
    BY <2>1, <2>3, OneIndex
  <2>5. /\ ids' = ids \o t /\ repros' = (repros \ {r}) \cup {q}
        /\ booted' = booted /\ fuzzing' = fuzzing /\ runDone' = runDone
    BY <1>10 DEF ReproToStrace, Put
  <2> HIDE DEF x, t, q
  <2>6. ToSet(r.held) \subseteq HeldByRepros
    BY DEF HeldByRepros
  <2>7. ToSet(ids) \cap ToSet(t) = {}
    BY <2>3, <2>6 DEF OnePlaceOnly, Pooled
  <2>8. IsInjective(ids') /\ Pooled' = Pooled \cup ToSet(t)
    BY <2>1, <2>2, <2>3, <2>5, <2>7, JoinedSeqs DEF Pooled
  <2>9. \A p \in repros : p # r => ToSet(p.held) \cap ToSet(r.held) = {}
    BY DEF OnePlaceOnly
  <2>10. HeldByRepros' = HeldByRepros \ ToSet(t)
    <3> SUFFICES ASSUME NEW v
                 PROVE  v \in HeldByRepros' <=> v \in HeldByRepros /\ v \notin ToSet(t)
      OBVIOUS
    <3>1. v \in HeldByRepros' <=> \E p \in repros' : v \in ToSet(p.held)
      BY DEF HeldByRepros
    <3>2. v \in HeldByRepros <=> \E p \in repros : v \in ToSet(p.held)
      BY DEF HeldByRepros
    <3>3. v \in HeldByRepros' <=> v = x \/ \E p \in repros \ {r} : v \in ToSet(p.held)
      BY <3>1, <2>4, <2>5
    <3>4. v \in HeldByRepros
            <=> v \in ToSet(r.held) \/ \E p \in repros \ {r} : v \in ToSet(p.held)
      BY <3>2
    <3>5. v \in ToSet(r.held) => ~\E p \in repros \ {r} : v \in ToSet(p.held)
      BY <2>9
    <3> QED
      BY <3>3, <3>4, <3>5, <2>3
  <2>11. Running' = Running /\ Finished' = Finished
    BY <2>5 DEF Running, Finished
  <2>12. /\ Pooled' \cap (Running' \cup Finished' \cup HeldByRepros') = {}
         /\ Running' \cap (Finished' \cup HeldByRepros') = {}
         /\ Finished' \cap HeldByRepros' = {}
    BY <2>3, <2>6, <2>8, <2>10, <2>11 DEF OnePlaceOnly
  <2>13. NoneLost'
    BY <2>3, <2>5, <2>6, <2>8, <2>10, <2>11 DEF NoneLost
  <2>14. \A p, s \in repros' : p # s => ToSet(p.held) \cap ToSet(s.held) = {}
    BY <2>3, <2>4, <2>5, <2>9 DEF OnePlaceOnly
  <2>15. \A p \in repros' : IsInjective(p.held)
    BY <2>4, <2>5 DEF OnePlaceOnly
  <2>16. /\ \A f, g \in fuzzing' : f.idx = g.idx => f = g
         /\ \A f, g \in runDone' : f.idx = g.idx => f = g
    BY <2>5 DEF OnePlaceOnly
  <2> QED
    BY <2>8, <2>12, <2>13, <2>14, <2>15, <2>16 DEF OnePlaceOnly
<1>11. ASSUME NEW res \in runDone, WaitRunDone(res)
       PROVE  OnePlaceOnly' /\ NoneLost'
  <2> DEFINE x == res.idx
  <2>1. x \in VMs /\ ids \in Seq(VMs) /\ x \in Finished
    BY DEF TypeOK, Finished
  <2>2. /\ ids' = ids \o <<x>> /\ runDone' = runDone \ {res}
        /\ booted' = booted /\ fuzzing' = fuzzing /\ repros' = repros
    BY <1>11 DEF WaitRunDone, Put
  <2>3. Finished' = Finished \ {x}
    BY <2>2 DEF Finished, OnePlaceOnly
  <2> HIDE DEF x
  <2>4. x \notin ToSet(ids)
    BY <2>1 DEF OnePlaceOnly, Pooled
  <2>6. IsInjective(ids') /\ Pooled' = Pooled \cup {x}
    <3>1. IsInjective(ids)
      BY DEF OnePlaceOnly
    <3> QED
      BY <2>1, <2>2, <2>4, <3>1, PutOne DEF Pooled
  <2>7. Running' = Running /\ HeldByRepros' = HeldByRepros
    BY <2>2 DEF Running, HeldByRepros
  <2>8. /\ Pooled' \cap (Running' \cup Finished' \cup HeldByRepros') = {}
        /\ Running' \cap (Finished' \cup HeldByRepros') = {}
        /\ Finished' \cap HeldByRepros' = {}
    BY <2>1, <2>3, <2>6, <2>7 DEF OnePlaceOnly
  <2>9. NoneLost'
    BY <2>1, <2>2, <2>3, <2>6, <2>7 DEF NoneLost
  <2> QED
    BY <2>2, <2>6, <2>8, <2>9 DEF OnePlaceOnly
<1>12. CASE BootNext
  <2>1. booted \in VMs /\ ids \in Seq(VMs) /\ booted \in Nat
    BY <1>12 DEF BootNext, TypeOK, VMs
  <2>2. /\ ids' = ids \o <<booted>> /\ booted' = booted + 1
        /\ fuzzing' = fuzzing /\ runDone' = runDone /\ repros' = repros
    BY <1>12 DEF BootNext, Put
  <2>3. booted \notin 0 .. booted - 1 /\ 0 .. booted' - 1 = (0 .. booted - 1) \cup {booted}
    BY <2>1, <2>2
  <2>4. booted \notin Pooled \cup Running \cup Finished \cup HeldByRepros
    BY <2>3 DEF NoneLost
  <2>6. IsInjective(ids') /\ Pooled' = Pooled \cup {booted}
    <3>1. IsInjective(ids) /\ booted \notin ToSet(ids)
      BY <2>4 DEF OnePlaceOnly, Pooled
    <3> QED
      BY <2>1, <2>2, <3>1, PutOne DEF Pooled
  <2>7. Running' = Running /\ Finished' = Finished /\ HeldByRepros' = HeldByRepros
    BY <2>2 DEF Running, Finished, HeldByRepros
  <2>8. /\ Pooled' \cap (Running' \cup Finished' \cup HeldByRepros') = {}
        /\ Running' \cap (Finished' \cup HeldByRepros') = {}
        /\ Finished' \cap HeldByRepros' = {}
    BY <2>4, <2>6, <2>7 DEF OnePlaceOnly
  <2>9. NoneLost'
    BY <2>3, <2>6, <2>7 DEF NoneLost
  <2> QED
    BY <2>2, <2>6, <2>8, <2>9 DEF OnePlaceOnly
<1>13. CASE \/ LoopTop \/ ToSelect \/ WaitFreed \/ WaitShutdown \/ WaitHubRepro
            \/ WaitNeedMoreRepros \/ MachineCheck \/ PhaseTriagedHub \/ Interrupt \/ Exited
            \/ \E c \in todo : VisitPending(c)
            \/ \E res \in reproDone : WaitReproDone(res)
  BY <1>1, <1>13
     DEF LoopTop, ToSelect, WaitFreed, WaitShutdown, WaitHubRepro, WaitNeedMoreRepros,
         MachineCheck, PhaseTriagedHub, Interrupt, Exited, vars, VisitPending, WaitReproDone
<1> QED
  BY <1>2, <1>3, <1>4, <1>5, <1>6, <1>7, <1>8, <1>9, <1>10, <1>11, <1>12, <1>13
     DEF Next, LoopStep, OtherStep

-----------------------------------------------------------------------------
(* The loop's select.                                                      *)

\* The loop that waits waits for a machine or for enough of them.
LEMMA IdleStep ==
  ASSUME TypeOK, IdleOnlyForRepro, Next
  PROVE  IdleOnlyForRepro'
<1> SUFFICES ASSUME pc' = "wait", ~stopped', ~Freed', ids' # <<>>
             PROVE  (canRepro /\ ~CanTake(instancesPerRepro))'
  BY DEF IdleOnlyForRepro
<1> USE DEF loopVars, poolVars, goVars, diskVars, envVars
<1>1. CASE ToSelect
  <2>1. UNCHANGED <<ids, stopped, phase, reproQueue, numReproducing>>
    BY <1>1 DEF ToSelect
  <2>2. Len(ids) \in Nat /\ Len(ids) >= 1
    BY <2>1 DEF TypeOK
  <2>3. canRepro /\ ~CanTake(instancesPerRepro)
    BY <1>1, <2>1, <2>2 DEF ToSelect, CanTake
  <2> QED
    BY <2>1, <2>3 DEF canRepro, CanTake
<1>2. CASE UNCHANGED <<pc, stopped, Freed, ids, phase, reproQueue, numReproducing>>
  BY <1>2 DEF IdleOnlyForRepro, canRepro, CanTake
<1>3. CASE \/ WaitNeedMoreRepros \/ MachineCheck \/ PhaseTriagedHub \/ Interrupt \/ Exited
           \/ \E f \in fuzzing : InstanceUp(f) \/ InstanceEnds(f) \/ InstanceCrashes(f)
  BY <1>2, <1>3 DEF WaitNeedMoreRepros, MachineCheck, PhaseTriagedHub, Interrupt, Exited, vars,
                    InstanceUp, InstanceEnds, InstanceCrashes
<1>4. CASE \/ LoopTop \/ StartRepro \/ StartInstance \/ WaitFreed \/ WaitShutdown \/ WaitHubRepro
           \/ \E c \in todo : VisitPending(c)
           \/ \E f \in fuzzing : WaitStopRequest(f)
           \/ \E res \in runDone : WaitRunDone(res)
           \/ \E res \in reproDone : WaitReproDone(res)
  <2>1. pc' # "wait"
    BY <1>4 DEF LoopTop, StartRepro, StartInstance, WaitFreed, WaitShutdown, WaitHubRepro,
                VisitPending, WaitStopRequest, WaitRunDone, WaitReproDone
  <2> QED
    BY <2>1
<1>5. CASE \/ BootNext
           \/ \E r \in repros : ReproEnds(r) \/ ReproToStrace(r) \/ StraceEnds(r)
  <2>1. Freed'
    BY <1>5 DEF BootNext, ReproEnds, ReproToStrace, StraceEnds, Put
  <2> QED
    BY <2>1
<1> QED
  BY <1>1, <1>3, <1>4, <1>5 DEF Next, LoopStep, OtherStep
-----------------------------------------------------------------------------
(* Titles and reproductions.                                               *)

\* Fewer reproductions need no more machines.
LEMMA FewerFit ==
  ASSUME NEW n \in Nat, NEW m \in Nat, NEW k \in Nat, NEW b \in Nat, n <= m, m * k <= b
  PROVE  n * k <= b
<1>1. PICK d \in Nat : m = n + d
  <2>1. m - n \in Nat /\ m = n + (m - n)
    OBVIOUS
  <2> QED
    BY <2>1
<1>2. (n + d) * k = n * k + d * k /\ n * k \in Nat /\ d * k \in Nat
  OBVIOUS
<1>3. m * k = n * k + d * k
  BY <1>1, <1>2
<1> HIDE <1>1
<1> QED
  BY <1>2, <1>3

\* The end of a reproduction turns it into a result with the same crash.
LEMMA ReproReports ==
  ASSUME OneJobPerTitle, JobsFinite, ReproOnce, ReproSizes,
         NEW r \in repros, NEW g, g.crash = r.crash,
         repros' = repros \ {r}, reproDone' = reproDone \cup {g},
         UNCHANGED <<reproQueue, reproducing, numReproducing>>
  PROVE  OneJobPerTitle' /\ JobsFinite' /\ ReproOnce' /\ ReproSizes'
<1> DEFINE t == r.crash.title
<1>1. InRepro' = InRepro \ {t} /\ t \in InRepro
  BY DEF InRepro, OneJobPerTitle
<1>2. Reported' = Reported \cup {t}
  BY DEF Reported
<1>3. Queued' = Queued
  BY DEF Queued
<1>4. t \notin Reported /\ t \notin Queued
  BY <1>1 DEF OneJobPerTitle
<1>5. g \notin reproDone
  BY <1>4 DEF Reported
<1>6. /\ IsFiniteSet(repros') /\ Cardinality(repros') = Cardinality(repros) - 1
      /\ IsFiniteSet(reproDone') /\ Cardinality(reproDone') = Cardinality(reproDone) + 1
  BY <1>5, FS_AddElement, FS_RemoveElement DEF JobsFinite
<1>7. Cardinality(repros) \in Nat /\ Cardinality(reproDone) \in Nat
  BY FS_CardinalityType DEF JobsFinite
<1>8. JobsFinite'
  BY <1>6 DEF JobsFinite
<1>9. Cardinality(reproducing') = Cardinality(reproducing) /\ Len(reproQueue') = Len(reproQueue)
  OBVIOUS
<1>10. ReproOnce'
  <2>1. reproducing' = Queued' \cup InRepro' \cup Reported'
    BY <1>1, <1>2, <1>3 DEF ReproOnce
  <2>2. Cardinality(repros') + Cardinality(reproDone')
          = Cardinality(repros) + Cardinality(reproDone)
    BY <1>6, <1>7
  <2>3. numReproducing' = Cardinality(repros') + Cardinality(reproDone')
    BY <2>2 DEF ReproOnce
  <2>4. Len(reproQueue') + Cardinality(repros') + Cardinality(reproDone')
          = Len(reproQueue) + Cardinality(repros) + Cardinality(reproDone)
    BY <1>6, <1>7, <1>9
  <2> QED
    BY <1>9, <2>1, <2>3, <2>4 DEF ReproOnce
<1>11. OneJobPerTitle'
  <2>1. \A p, q \in repros' : p.crash.title = q.crash.title => p = q
    BY DEF OneJobPerTitle
  <2>2. \A p, q \in reproDone' : p.crash.title = q.crash.title => p = q
    BY <1>4 DEF OneJobPerTitle, Reported
  <2>3. \A i, j \in DOMAIN reproQueue' : reproQueue'[i].title = reproQueue'[j].title => i = j
    BY DEF OneJobPerTitle
  <2>4. Queued' \cap (InRepro' \cup Reported') = {} /\ InRepro' \cap Reported' = {}
    BY <1>1, <1>2, <1>3, <1>4 DEF OneJobPerTitle
  <2> QED
    BY <2>1, <2>2, <2>3, <2>4 DEF OneJobPerTitle
<1>12. ReproSizes'
  BY DEF ReproSizes
<1> QED
  BY <1>8, <1>10, <1>11, <1>12

\* No step queues a title that is queued or in reproduction, or miscounts.
LEMMA JobStep ==
  ASSUME TypeOK, OneJobPerTitle, JobsFinite, ReproOnce, ReproSizes, Next
  PROVE  OneJobPerTitle' /\ JobsFinite' /\ ReproOnce' /\ ReproSizes'
<1> USE DEF loopVars, poolVars, goVars, diskVars, envVars
<1>0. /\ Cardinality(repros) \in Nat /\ Cardinality(reproDone) \in Nat
      /\ Cardinality(reproducing) \in Nat /\ numReproducing \in Nat
      /\ Len(reproQueue) \in Nat /\ DOMAIN reproQueue = 1 .. Len(reproQueue)
  BY FS_CardinalityType DEF JobsFinite, ReproOnce, TypeOK
<1>1. CASE UNCHANGED <<reproQueue, reproducing, repros, reproDone, numReproducing>>
  <2>1. Queued' = Queued /\ InRepro' = InRepro /\ Reported' = Reported
    BY <1>1 DEF Queued, InRepro, Reported
  <2>2. OneJobPerTitle'
    BY <1>1, <2>1 DEF OneJobPerTitle
  <2>3. JobsFinite' /\ ReproOnce'
    BY <1>1, <2>1 DEF JobsFinite, ReproOnce
  <2>4. ReproSizes'
    BY <1>1 DEF ReproSizes
  <2> QED
    BY <2>2, <2>3, <2>4
<1>2. ASSUME NEW c \in todo, VisitPending(c)
      PROVE  OneJobPerTitle' /\ JobsFinite' /\ ReproOnce' /\ ReproSizes'
  <2>1. repros' = repros /\ reproDone' = reproDone /\ numReproducing' = numReproducing
    BY <1>2 DEF VisitPending
  <2>2. \/ UNCHANGED <<reproQueue, reproducing>>
        \/ /\ c.title \notin reproducing
           /\ reproducing' = reproducing \cup {c.title}
           /\ reproQueue' = Append(reproQueue, c)
    BY <1>2 DEF VisitPending
  <2>3. CASE UNCHANGED <<reproQueue, reproducing>>
    BY <2>1, <2>3, <1>1
  <2>4. CASE /\ c.title \notin reproducing
             /\ reproducing' = reproducing \cup {c.title}
             /\ reproQueue' = Append(reproQueue, c)
    <3> DEFINE n == Len(reproQueue)
    <3>1. c \in Crashes /\ reproQueue \in Seq(Crashes)
      BY DEF TypeOK
    <3>2. /\ Len(reproQueue') = n + 1 /\ DOMAIN reproQueue' = 1 .. n + 1
          /\ reproQueue'[n + 1] = c /\ \A i \in 1 .. n : reproQueue'[i] = reproQueue[i]
      BY <2>4, <3>1
    <3>3. n \in Nat /\ DOMAIN reproQueue = 1 .. n
      BY <1>0
    <3> HIDE DEF n
    <3>4. \A i \in 1 .. n + 1 : i \in 1 .. n \/ i = n + 1
      BY <3>3
    <3>5. Queued' = Queued \cup {c.title}
      <4>1. \A i \in 1 .. n : i \in 1 .. n + 1 /\ reproQueue'[i].title = reproQueue[i].title
        BY <3>2, <3>3
      <4>2. n + 1 \in 1 .. n + 1 /\ reproQueue'[n + 1].title = c.title
        BY <3>2, <3>3
      <4> QED
        BY <3>2, <3>3, <3>4, <4>1, <4>2 DEF Queued
    <3>6. InRepro' = InRepro /\ Reported' = Reported
      BY <2>1 DEF InRepro, Reported
    <3>7. c.title \notin Queued /\ c.title \notin InRepro /\ c.title \notin Reported
      BY <2>4 DEF ReproOnce
    <3>8. IsFiniteSet(reproducing') /\ Cardinality(reproducing') = Cardinality(reproducing) + 1
      BY <2>4, FS_AddElement DEF JobsFinite
    <3>9. ReproOnce'
      <4>1. reproducing' = Queued' \cup InRepro' \cup Reported'
        BY <2>4, <3>5, <3>6 DEF ReproOnce
      <4>2. Cardinality(reproducing) = n + Cardinality(repros) + Cardinality(reproDone)
        BY DEF ReproOnce, n
      <4>3. Cardinality(reproducing')
              = Len(reproQueue') + Cardinality(repros') + Cardinality(reproDone')
        BY <2>1, <3>2, <3>3, <3>8, <4>2, <1>0
      <4> QED
        BY <2>1, <4>1, <4>3 DEF ReproOnce
    <3>10. \A i, j \in DOMAIN reproQueue' :
             reproQueue'[i].title = reproQueue'[j].title => i = j
      <4>1. \A i \in 1 .. n : reproQueue[i].title # c.title
        BY <3>3, <3>7 DEF Queued
      <4>2. \A i, j \in 1 .. n : reproQueue[i].title = reproQueue[j].title => i = j
        BY <3>3 DEF OneJobPerTitle
      <4> QED
        BY <3>2, <3>4, <4>1, <4>2
    <3>11. Queued' \cap (InRepro' \cup Reported') = {} /\ InRepro' \cap Reported' = {}
      BY <3>5, <3>6, <3>7 DEF OneJobPerTitle
    <3>12. OneJobPerTitle'
      BY <2>1, <3>10, <3>11 DEF OneJobPerTitle
    <3>13. JobsFinite' /\ ReproSizes'
      BY <2>1, <3>8 DEF JobsFinite, ReproSizes
    <3> QED
      BY <3>9, <3>12, <3>13
  <2> QED
    BY <2>2, <2>3, <2>4
<1>3. CASE StartRepro
  <2> DEFINE k == instancesPerRepro
             n == Len(reproQueue)
             c == reproQueue[n]
             b == SubSeq(ids, Len(ids) - k + 1, Len(ids))
             r == [crash |-> c, held |-> b, st |-> "run"]
  <2>1. k \in Nat /\ k <= Len(ids) /\ ids \in Seq(VMs)
    BY <1>3, LoopConstants DEF StartRepro, Take, CanTake, TypeOK
  <2>2. Len(b) = k
    BY <2>1, CutSeq
  <2>3. /\ reproQueue # <<>> /\ (numReproducing + 1) * k <= maxReproVMs
        /\ numReproducing' = numReproducing + 1
        /\ repros' = repros \cup {r} /\ reproQueue' = Front(reproQueue)
        /\ reproDone' = reproDone /\ reproducing' = reproducing
    BY <1>3 DEF StartRepro, canRepro, Taken, Last
  <2>4. r.crash = c /\ r.held = b /\ r.st = "run"
    OBVIOUS
  <2>5. n \in Nat /\ n >= 1 /\ DOMAIN reproQueue = 1 .. n
    BY <2>3 DEF TypeOK
  <2>6. /\ Len(reproQueue') = n - 1 /\ DOMAIN reproQueue' = 1 .. n - 1
        /\ \A i \in 1 .. n - 1 : reproQueue'[i] = reproQueue[i]
    BY <2>3, <2>5 DEF Front, TypeOK
  <2> HIDE DEF k, n, c, b, r
  <2>7. n \in DOMAIN reproQueue /\ reproQueue[n] = c
    BY <2>5 DEF c
  <2>8. \A i \in 1 .. n : i = n \/ i \in 1 .. n - 1
    BY <2>5
  <2>9. \A i \in 1 .. n - 1 : i \in DOMAIN reproQueue /\ i # n
    BY <2>5
  <2>10. \A i \in 1 .. n - 1 : reproQueue[i].title # c.title
    BY <2>7, <2>9 DEF OneJobPerTitle
  <2>11. Queued' = Queued \ {c.title} /\ c.title \in Queued
    <3>1. Queued' = {reproQueue[i].title : i \in 1 .. n - 1}
      BY <2>6 DEF Queued
    <3>2. Queued = {reproQueue[i].title : i \in 1 .. n}
      BY <2>5 DEF Queued
    <3>3. {reproQueue[i].title : i \in 1 .. n}
            = {reproQueue[i].title : i \in 1 .. n - 1} \cup {c.title}
      BY <2>5, <2>7, <2>8, <2>9
    <3> QED
      BY <3>1, <3>2, <3>3, <2>10
  <2>12. InRepro' = InRepro \cup {c.title}
    BY <2>3, <2>4 DEF InRepro
  <2>13. Reported' = Reported
    BY <2>3 DEF Reported
  <2>14. c.title \notin InRepro /\ c.title \notin Reported
    BY <2>11 DEF OneJobPerTitle
  <2>15. r \notin repros
    BY <2>4, <2>14 DEF InRepro
  <2>16. IsFiniteSet(repros') /\ Cardinality(repros') = Cardinality(repros) + 1
    BY <2>3, <2>15, FS_AddElement DEF JobsFinite
  <2>17. ReproOnce'
    <3>1. reproducing' = Queued' \cup InRepro' \cup Reported'
      BY <2>3, <2>11, <2>12, <2>13 DEF ReproOnce
    <3>2. /\ Cardinality(reproducing) = n + Cardinality(repros) + Cardinality(reproDone)
          /\ numReproducing = Cardinality(repros) + Cardinality(reproDone)
      BY DEF ReproOnce, n
    <3>3. /\ Cardinality(reproducing')
               = Len(reproQueue') + Cardinality(repros') + Cardinality(reproDone')
          /\ numReproducing' = Cardinality(repros') + Cardinality(reproDone')
      BY <1>0, <2>3, <2>5, <2>6, <2>16, <3>2, SMTT(30)
    <3> QED
      BY <3>1, <3>3 DEF ReproOnce
  <2>18. OneJobPerTitle'
    <3>1. \A i, j \in DOMAIN reproQueue' :
            reproQueue'[i].title = reproQueue'[j].title => i = j
      BY <2>6, <2>9 DEF OneJobPerTitle
    <3>2. \A p, q \in repros' : p.crash.title = q.crash.title => p = q
      BY <2>3, <2>4, <2>14 DEF OneJobPerTitle, InRepro
    <3>3. Queued' \cap (InRepro' \cup Reported') = {} /\ InRepro' \cap Reported' = {}
      BY <2>11, <2>12, <2>13, <2>14 DEF OneJobPerTitle
    <3> QED
      BY <2>3, <3>1, <3>2, <3>3 DEF OneJobPerTitle
  <2>19. ReproSizes'
    <3>1. numReproducing' * instancesPerRepro <= maxReproVMs
      BY <2>3 DEF k
    <3>2. \A q \in repros' : Len(q.held) = IF q.st = "run" THEN instancesPerRepro ELSE 1
      BY <2>2, <2>3, <2>4 DEF ReproSizes, k
    <3> QED
      BY <3>1, <3>2 DEF ReproSizes
  <2>20. JobsFinite'
    BY <2>3, <2>16 DEF JobsFinite
  <2> QED
    BY <2>17, <2>18, <2>19, <2>20
<1>4. ASSUME NEW res \in reproDone, WaitReproDone(res)
      PROVE  OneJobPerTitle' /\ JobsFinite' /\ ReproOnce' /\ ReproSizes'
  <2> DEFINE t == res.crash.title
  <2>1. /\ reproDone' = reproDone \ {res} /\ numReproducing' = numReproducing - 1
        /\ reproducing' = reproducing \ {t}
        /\ reproQueue' = reproQueue /\ repros' = repros
    BY <1>4 DEF WaitReproDone
  <2>2. Reported' = Reported \ {t} /\ t \in Reported
    BY <2>1 DEF Reported, OneJobPerTitle
  <2>3. Queued' = Queued /\ InRepro' = InRepro
    BY <2>1 DEF Queued, InRepro
  <2> HIDE DEF t
  <2>4. t \notin Queued /\ t \notin InRepro /\ t \in reproducing
    BY <2>2 DEF OneJobPerTitle, ReproOnce
  <2>5. /\ IsFiniteSet(reproDone') /\ Cardinality(reproDone') = Cardinality(reproDone) - 1
        /\ IsFiniteSet(reproducing') /\ Cardinality(reproducing') = Cardinality(reproducing) - 1
    BY <2>1, <2>4, FS_RemoveElement DEF JobsFinite
  <2>6. Cardinality(reproDone') \in Nat
    BY <2>5, FS_CardinalityType
  <2>7. ReproOnce'
    <3>1. reproducing' = Queued' \cup InRepro' \cup Reported'
      BY <2>1, <2>2, <2>3, <2>4 DEF ReproOnce
    <3>2. Cardinality(reproducing')
            = Len(reproQueue') + Cardinality(repros') + Cardinality(reproDone')
      BY <1>0, <2>1, <2>5 DEF ReproOnce
    <3>3. numReproducing' = Cardinality(repros') + Cardinality(reproDone')
      BY <1>0, <2>1, <2>5 DEF ReproOnce
    <3> QED
      BY <3>1, <3>2, <3>3 DEF ReproOnce
  <2>8. OneJobPerTitle'
    BY <2>1, <2>2, <2>3 DEF OneJobPerTitle
  <2>9. ReproSizes'
    <3>1. numReproducing' \in Nat /\ numReproducing' <= numReproducing
      BY <1>0, <2>1, <2>5, <2>6 DEF ReproOnce
    <3>2. numReproducing' * instancesPerRepro <= maxReproVMs
      BY <1>0, <3>1, FewerFit, LoopConstants DEF ReproSizes
    <3> QED
      BY <2>1, <3>2 DEF ReproSizes
  <2>10. JobsFinite'
    BY <2>1, <2>5 DEF JobsFinite
  <2> QED
    BY <2>7, <2>8, <2>9, <2>10
<1>5. ASSUME NEW r \in repros, ReproEnds(r)
      PROVE  OneJobPerTitle' /\ JobsFinite' /\ ReproOnce' /\ ReproSizes'
  <2>1. PICK ok \in BOOLEAN : reproDone' = reproDone \cup {[crash |-> r.crash, ok |-> ok]}
    BY <1>5 DEF ReproEnds
  <2>2. [crash |-> r.crash, ok |-> ok].crash = r.crash
    OBVIOUS
  <2> QED
    BY <1>5, <2>1, <2>2, ReproReports DEF ReproEnds
<1>6. ASSUME NEW r \in repros, StraceEnds(r)
      PROVE  OneJobPerTitle' /\ JobsFinite' /\ ReproOnce' /\ ReproSizes'
  <2>1. [crash |-> r.crash, ok |-> TRUE].crash = r.crash
    OBVIOUS
  <2> QED
    BY <1>6, <2>1, ReproReports DEF StraceEnds
<1>7. ASSUME NEW r \in repros, ReproToStrace(r)
      PROVE  OneJobPerTitle' /\ JobsFinite' /\ ReproOnce' /\ ReproSizes'
  <2> DEFINE q == [r EXCEPT !.st = "strace", !.held = <<Head(r.held)>>]
  <2>1. r \in [crash : Crashes, held : Seq(VMs), st : {"run", "strace"}]
    BY DEF TypeOK
  <2>2. q.crash = r.crash /\ q.st = "strace" /\ Len(q.held) = 1
    BY <2>1
  <2>3. /\ repros' = (repros \ {r}) \cup {q}
        /\ UNCHANGED <<reproQueue, reproducing, reproDone, numReproducing>>
    BY <1>7 DEF ReproToStrace
  <2> HIDE DEF q
  <2>4. InRepro' = InRepro /\ Queued' = Queued /\ Reported' = Reported
    BY <2>2, <2>3 DEF InRepro, Queued, Reported
  <2>5. q \notin repros \ {r}
    BY <2>2 DEF OneJobPerTitle
  <2>6. IsFiniteSet(repros') /\ Cardinality(repros') = Cardinality(repros)
    <3> DEFINE others == repros \ {r}
    <3>1. IsFiniteSet(others) /\ Cardinality(others) = Cardinality(repros) - 1
      BY FS_RemoveElement DEF JobsFinite
    <3>2. repros' = others \cup {q} /\ q \notin others
      BY <2>3, <2>5
    <3> HIDE DEF others
    <3>3. IsFiniteSet(others \cup {q}) /\ Cardinality(others \cup {q}) = Cardinality(others) + 1
      BY <3>1, <3>2, FS_AddElement
    <3>4. IsFiniteSet(repros') /\ Cardinality(repros') = Cardinality(others) + 1
      BY <3>2, <3>3
    <3> QED
      BY <1>0, <3>1, <3>4
  <2>7. ReproOnce'
    BY <2>3, <2>4, <2>6 DEF ReproOnce
  <2>8. OneJobPerTitle'
    <3>1. \A p, s \in repros' : p.crash.title = s.crash.title => p = s
      BY <2>2, <2>3 DEF OneJobPerTitle
    <3> QED
      BY <2>3, <2>4, <3>1 DEF OneJobPerTitle
  <2>9. JobsFinite' /\ ReproSizes'
    BY <2>2, <2>3, <2>6 DEF JobsFinite, ReproSizes
  <2> QED
    BY <2>7, <2>8, <2>9
<1>8. CASE \/ LoopTop \/ StartInstance \/ ToSelect \/ WaitFreed \/ WaitShutdown \/ WaitHubRepro
           \/ WaitNeedMoreRepros \/ BootNext \/ MachineCheck \/ PhaseTriagedHub \/ Interrupt
           \/ Exited
           \/ \E f \in fuzzing : \/ WaitStopRequest(f) \/ InstanceUp(f) \/ InstanceEnds(f)
                                 \/ InstanceCrashes(f)
           \/ \E res \in runDone : WaitRunDone(res)
  BY <1>1, <1>8
     DEF LoopTop, StartInstance, ToSelect, WaitFreed, WaitShutdown, WaitHubRepro,
         WaitNeedMoreRepros, BootNext, MachineCheck, PhaseTriagedHub, Interrupt, Exited, vars,
         WaitStopRequest, InstanceUp, InstanceEnds, InstanceCrashes, WaitRunDone
<1> QED
  BY <1>2, <1>3, <1>4, <1>5, <1>6, <1>7, <1>8 DEF Next, LoopStep, OtherStep
-----------------------------------------------------------------------------
(* The theorems.                                                           *)

\* The loop starts with an empty pool and nothing to reproduce.
LEMMA LoopStarts ==
  ASSUME Init
  PROVE  LoopInv
<1> USE LoopConstants
<1>1. TypeOK
  <2>1. reproLogs \in [Titles -> 0 .. maxReproAttempts]
    BY DEF Init
  <2>2. /\ booted \in 0 .. vmCount /\ crashes \in 0 .. MaxCrashes
        /\ ids \in Seq(VMs) /\ reproQueue \in Seq(Crashes) /\ hubReproQueue \in Seq(Crashes)
    BY DEF Init
  <2> QED
    BY <2>1, <2>2 DEF Init, TypeOK
<1>2. Pooled = {} /\ Running = {} /\ Finished = {} /\ HeldByRepros = {}
  BY DEF Init, Pooled, Running, Finished, HeldByRepros, ToSet
<1>3. OnePlaceOnly
  <2>1. IsInjective(<<>>)
    BY DEF IsInjective
  <2> QED
    BY <1>2, <2>1 DEF Init, OnePlaceOnly
<1>4. NoneLost
  BY <1>2 DEF Init, NoneLost
<1>5. Queued = {} /\ InRepro = {} /\ Reported = {}
  BY DEF Init, Queued, InRepro, Reported
<1>6. OneJobPerTitle
  BY <1>5 DEF Init, OneJobPerTitle
<1>7. JobsFinite /\ ReproOnce
  BY <1>5, FS_EmptySet DEF Init, JobsFinite, ReproOnce
<1>8. ReproSizes
  BY DEF Init, ReproSizes
<1>9. IdleOnlyForRepro
  BY DEF Init, IdleOnlyForRepro
<1> QED
  BY <1>1, <1>3, <1>4, <1>6, <1>7, <1>8, <1>9 DEF LoopInv, VMsAccounted

\* Machines, jobs and their numbers agree in every reachable state, whatever
\* boots, crashes, ends or is stopped between two steps of the loop.
THEOREM LoopIsSound == Spec => []LoopInv
<1>1. Init => LoopInv
  BY LoopStarts
<1>2. LoopInv /\ [Next]_vars => LoopInv'
  <2> SUFFICES ASSUME LoopInv, [Next]_vars
               PROVE  LoopInv'
    OBVIOUS
  <2>0. /\ TypeOK /\ OnePlaceOnly /\ NoneLost /\ IdleOnlyForRepro
        /\ OneJobPerTitle /\ JobsFinite /\ ReproOnce /\ ReproSizes
    BY DEF LoopInv, VMsAccounted
  <2>1. CASE Next
    <3>1. TypeOK'
      BY <2>0, <2>1, TypeStep
    <3>2. OnePlaceOnly' /\ NoneLost'
      BY <2>0, <2>1, PlaceStep
    <3>3. IdleOnlyForRepro'
      BY <2>0, <2>1, IdleStep
    <3>4. OneJobPerTitle' /\ JobsFinite' /\ ReproOnce' /\ ReproSizes'
      BY <2>0, <2>1, JobStep
    <3> QED
      BY <3>1, <3>2, <3>3, <3>4 DEF LoopInv, VMsAccounted
  <2>2. CASE UNCHANGED vars
    <3>1. TypeOK'
      BY <2>0, <2>2 DEF TypeOK, vars, loopVars, poolVars, goVars, diskVars, envVars
    <3>2. OnePlaceOnly' /\ NoneLost'
      BY <2>0, <2>2 DEF OnePlaceOnly, NoneLost, Pooled, Running, Finished, HeldByRepros,
                        vars, loopVars, poolVars, goVars
    <3>3. IdleOnlyForRepro'
      BY <2>0, <2>2 DEF IdleOnlyForRepro, canRepro, CanTake, vars, loopVars, poolVars
    <3>4. OneJobPerTitle' /\ JobsFinite' /\ ReproOnce' /\ ReproSizes'
      <4>1. /\ reproQueue' = reproQueue /\ reproducing' = reproducing /\ repros' = repros
            /\ reproDone' = reproDone /\ numReproducing' = numReproducing
        BY <2>2 DEF vars, loopVars, goVars
      <4>2. Queued' = Queued /\ InRepro' = InRepro /\ Reported' = Reported
        BY <4>1 DEF Queued, InRepro, Reported
      <4>3. OneJobPerTitle'
        BY <2>0, <4>1, <4>2 DEF OneJobPerTitle
      <4>4. JobsFinite' /\ ReproOnce'
        BY <2>0, <4>1, <4>2 DEF JobsFinite, ReproOnce
      <4>5. ReproSizes'
        BY <2>0, <4>1 DEF ReproSizes
      <4> QED
        BY <4>3, <4>4, <4>5
    <3> QED
      BY <3>1, <3>2, <3>3, <3>4 DEF LoopInv, VMsAccounted
  <2> QED
    BY <2>1, <2>2
<1> QED
  BY <1>1, <1>2, PTL DEF Spec

\* No machine of the pool is lost or handed out twice, by whatever route it
\* comes back (a result, the end of a reproduction, strace).
THEOREM NoVMIsLost == Spec => []VMsAccounted
<1>1. LoopInv => VMsAccounted
  BY DEF LoopInv
<1> QED
  BY <1>1, LoopIsSound, PTL

\* A set of reproductions with at most k machines each holds at most k times
\* their number: the machines are the image of the slots they are held in.
LEMMA HeldAtMost ==
  ASSUME TypeOK, ReproSizes, IsFiniteSet(repros)
  PROVE  Cardinality(HeldByRepros) <= Cardinality(repros) * instancesPerRepro
<1> DEFINE k == instancesPerRepro
           slots == repros \X (1 .. k)
           used == {p \in slots : p[2] <= Len(p[1].held)}
           machine == [p \in used |-> p[1].held[p[2]]]
<1>0. k \in Nat /\ k >= 1
  BY LoopConstants
<1>1. ASSUME NEW r \in repros
      PROVE  /\ r.held \in Seq(VMs) /\ Len(r.held) \in Nat /\ Len(r.held) <= k
             /\ DOMAIN r.held = 1 .. Len(r.held)
  <2>1. r.held \in Seq(VMs)
    BY DEF TypeOK
  <2>2. Len(r.held) = k \/ Len(r.held) = 1
    BY DEF ReproSizes
  <2>3. Len(r.held) \in Nat /\ DOMAIN r.held = 1 .. Len(r.held)
    BY <2>1
  <2> HIDE DEF k
  <2>4. Len(r.held) <= k
    <3> DEFINE n == Len(r.held)
    <3>1. n \in Nat /\ (n = k \/ n = 1)
      BY <2>2, <2>3
    <3> HIDE DEF n
    <3>2. n <= k
      BY <1>0, <3>1
    <3> QED
      BY <3>2 DEF n
  <2> QED
    BY <2>1, <2>3, <2>4
<1> HIDE DEF k
<1>2. IsFiniteSet(1 .. k) /\ Cardinality(1 .. k) = k
  BY <1>0, FS_Interval
<1>3. IsFiniteSet(slots) /\ Cardinality(slots) = Cardinality(repros) * k
  BY <1>2, FS_Product
<1>4. IsFiniteSet(used) /\ Cardinality(used) <= Cardinality(slots)
  <2>1. used \in SUBSET slots
    OBVIOUS
  <2> HIDE DEF used, slots
  <2> QED
    BY <1>3, <2>1, FS_Subset
<1>5. machine \in Surjection(used, HeldByRepros)
  <2>1. ASSUME NEW p \in used
        PROVE  p[1].held[p[2]] \in HeldByRepros
    <3>1. p[1] \in repros /\ p[2] \in DOMAIN p[1].held
      BY <1>1
    <3>2. p[1].held[p[2]] \in ToSet(p[1].held)
      BY <3>1 DEF ToSet
    <3> QED
      BY <3>1, <3>2 DEF HeldByRepros
  <2>2. ASSUME NEW v \in HeldByRepros
        PROVE  \E p \in used : p[1].held[p[2]] = v
    <3>1. PICK r \in repros : v \in ToSet(r.held)
      BY DEF HeldByRepros
    <3>2. PICK i \in DOMAIN r.held : v = r.held[i]
      BY <3>1 DEF ToSet
    <3>3. i \in 1 .. k /\ i <= Len(r.held)
      BY <1>0, <1>1, <3>2
    <3>4. <<r, i>> \in used
      BY <3>3
    <3> QED
      BY <3>2, <3>4
  <2> HIDE DEF used
  <2>3. machine \in [used -> HeldByRepros]
    BY <2>1
  <2>4. \A v \in HeldByRepros : \E p \in used : machine[p] = v
    BY <2>2
  <2> QED
    BY <2>3, <2>4 DEF Surjection
<1> HIDE DEF machine, used, slots
<1>6. IsFiniteSet(HeldByRepros) /\ Cardinality(HeldByRepros) <= Cardinality(used)
  BY <1>4, <1>5, FS_Surjection
<1>7. /\ Cardinality(HeldByRepros) \in Nat /\ Cardinality(used) \in Nat
      /\ Cardinality(slots) \in Nat
  BY <1>3, <1>4, <1>6, FS_CardinalityType
<1>8. Cardinality(HeldByRepros) <= Cardinality(slots)
  BY <1>4, <1>6, <1>7
<1> QED
  BY <1>3, <1>8 DEF k

\* Reproductions leave FuzzingVMs machines alone, although a reproduction is
\* counted until its result is received and holds machines only before that.
THEOREM FuzzingVMsAreKept == Spec => []FuzzingVMsKept
<1>1. LoopInv => FuzzingVMsKept
  <2> SUFFICES ASSUME LoopInv
               PROVE  FuzzingVMsKept
    OBVIOUS
  <2>0. TypeOK /\ JobsFinite /\ ReproOnce /\ ReproSizes
    BY DEF LoopInv, VMsAccounted
  <2> DEFINE n == Cardinality(repros)
             m == Cardinality(reproDone)
             k == instancesPerRepro
  <2>1. n \in Nat /\ m \in Nat /\ k \in Nat /\ maxReproVMs \in Nat
    BY <2>0, FS_CardinalityType, LoopConstants DEF JobsFinite
  <2>2. numReproducing = n + m /\ numReproducing * k <= maxReproVMs
    BY <2>0 DEF ReproOnce, ReproSizes
  <2>3. Cardinality(HeldByRepros) <= n * k
    BY <2>0, HeldAtMost DEF JobsFinite
  <2>4. IsFiniteSet(HeldByRepros)
    <3>1. HeldByRepros \in SUBSET (0 .. booted - 1)
      BY DEF LoopInv, VMsAccounted, NoneLost
    <3>2. booted - 1 \in Int
      BY <2>0, LoopConstants DEF TypeOK
    <3>3. IsFiniteSet(0 .. booted - 1)
      BY <3>2, FS_Interval
    <3> QED
      BY <3>1, <3>3, FS_Subset
  <2>5. Cardinality(HeldByRepros) \in Nat
    BY <2>4, FS_CardinalityType
  <2> HIDE DEF n, m, k
  <2>6. n <= numReproducing /\ numReproducing \in Nat
    BY <2>1, <2>2
  <2>7. n * k <= maxReproVMs
    BY <2>1, <2>2, <2>6, FewerFit
  <2>8. n * k \in Nat
    BY <2>1
  <2> QED
    BY <2>1, <2>3, <2>5, <2>7, <2>8 DEF FuzzingVMsKept
<1> QED
  BY <1>1, LoopIsSound, PTL

\* The loop does not sleep beside a machine it could start.
THEOREM LoopIsNotIdle == Spec => []IdleOnlyForRepro
<1>1. LoopInv => IdleOnlyForRepro
  BY DEF LoopInv
<1> QED
  BY <1>1, LoopIsSound, PTL

\* No title is reproduced twice at a time, and none stays blocked.
THEOREM TitlesAreReproducedOnce == Spec => []ReproOnce
<1>1. LoopInv => ReproOnce
  BY DEF LoopInv
<1> QED
  BY <1>1, LoopIsSound, PTL
=============================================================================
