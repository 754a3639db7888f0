------------------------------ MODULE HubProofs -----------------------------
(***************************************************************************)
(* Proofs about syz-hub and the hub connectors (module Hub), for every     *)
(* number of managers, programs and reproducers and every page size: what  *)
(* the hub stores is what the managers have, paging and restarts skip      *)
(* nothing, a connector and the hub agree between rounds, and no           *)
(* reproducer is sent twice.                                               *)
(***************************************************************************)
EXTENDS Hub, TLAPS, FiniteSetTheorems, FunctionTheorems, WellFoundedInduction

-----------------------------------------------------------------------------
(***************************************************************************)
(* Numbers.                                                                *)
(***************************************************************************)

\* Sequence numbers are natural, so Min and Max find what they look for.
LEMMA LeastExists ==
  ASSUME NEW T \in SUBSET Nat, T # {}
  PROVE  \E n \in T : \A k \in T : n <= k
<1> DEFINE Below == {0 .. n : n \in T}
<1>1. ASSUME NEW n \in T PROVE IsFiniteSet(0 .. n) /\ 0 .. n \in SUBSET Nat
  BY FS_Interval
<1>2. Below \subseteq FiniteSubsetsOf(Nat) /\ Below # {}
  BY <1>1 DEF FiniteSubsetsOf
<1>3. PICK n \in T : \A U \in Below : <<U, 0 .. n>> \notin StrictSubsetOrdering(Nat)
  <2>1. PICK S \in Below : \A U \in Below : ~(<<U, S>> \in StrictSubsetOrdering(Nat))
    BY <1>2, FS_StrictSubsetOrderingWellFounded, WFMin
  <2> QED
    BY <2>1
<1>4. ASSUME NEW k \in T, k < n PROVE FALSE
  <2>1. n \in 0 .. n /\ n \notin 0 .. k /\ 0 .. k \subseteq 0 .. n
    BY <1>4
  <2>2. <<0 .. k, 0 .. n>> \in StrictSubsetOrdering(Nat)
    BY <1>2, <2>1 DEF StrictSubsetOrdering, FiniteSubsetsOf
  <2> QED
    BY <1>3, <2>2
<1>5. \A k \in T : k \in Nat /\ n \in Nat
  OBVIOUS
<1> QED
  BY <1>4, <1>5

LEMMA MinIs ==
  ASSUME NEW T \in SUBSET Nat, T # {}
  PROVE  Min(T) \in T /\ \A k \in T : Min(T) <= k
BY LeastExists DEF Min

LEMMA MaxIs ==
  ASSUME NEW n \in Nat, NEW T \in SUBSET (0 .. n), T # {}
  PROVE  Max(T) \in T /\ \A k \in T : Max(T) >= k
<1> DEFINE Gaps == {n - k : k \in T}
<1>1. \A k \in T : k \in Nat /\ n - k \in Nat
  OBVIOUS
<1>2. Gaps \in SUBSET Nat /\ Gaps # {}
  BY <1>1
<1>3. PICK g \in Gaps : \A h \in Gaps : g <= h
  BY <1>2, LeastExists
<1>4. PICK top \in T : g = n - top
  BY <1>3
<1>5. \A k \in T : n - top <= n - k
  BY <1>3, <1>4
<1>6. \A k \in T : top >= k
  BY <1>1, <1>5
<1> QED
  BY <1>6 DEF Max

-----------------------------------------------------------------------------
(***************************************************************************)
(* The hub's databases.                                                    *)
(***************************************************************************)

LEMMA AddInputsDoes ==
  ASSUME corpusSeq \in Nat, NEW c \in [Progs -> 0 .. corpusSeq], NEW inputs \in SUBSET Progs
  PROVE  /\ NextSeq(inputs) \in Nat /\ NextSeq(inputs) >= corpusSeq
         /\ addInputs(c, inputs) \in [Progs -> 0 .. NextSeq(inputs)]
         /\ \A p \in Progs :
              /\ c[p] # 0 => addInputs(c, inputs)[p] = c[p]
              /\ c[p] = 0 /\ p \notin inputs => addInputs(c, inputs)[p] = 0
              /\ c[p] = 0 /\ p \in inputs => addInputs(c, inputs)[p] = corpusSeq + 1
<1>1. NextSeq(inputs) \in Nat /\ NextSeq(inputs) >= corpusSeq
  BY DEF NextSeq
<1>2. ASSUME NEW p \in Progs
      PROVE  /\ c[p] # 0 => addInputs(c, inputs)[p] = c[p]
             /\ c[p] = 0 /\ p \notin inputs => addInputs(c, inputs)[p] = 0
             /\ c[p] = 0 /\ p \in inputs => addInputs(c, inputs)[p] = corpusSeq + 1
             /\ addInputs(c, inputs)[p] \in 0 .. NextSeq(inputs)
  <2>1. addInputs(c, inputs)[p] = IF p \in inputs /\ c[p] = 0 THEN NextSeq(inputs) ELSE c[p]
    BY DEF addInputs
  <2>2. c[p] \in 0 .. corpusSeq
    OBVIOUS
  <2>3. p \in inputs => NextSeq(inputs) = corpusSeq + 1
    BY DEF NextSeq
  <2> QED
    BY <1>1, <2>1, <2>2, <2>3
<1>3. addInputs(c, inputs) \in [Progs -> 0 .. NextSeq(inputs)]
  BY <1>2 DEF addInputs
<1> QED
  BY <1>1, <1>2, <1>3

LEMMA PurgeDoes ==
  ASSUME NEW n \in Nat, NEW c \in [Progs -> 0 .. n], NEW ms
  PROVE  /\ purgeCorpus(c, ms) \in [Progs -> 0 .. n]
         /\ \A p \in Progs :
              /\ (\E m \in Mgrs : p \in ms[m].corpus) => purgeCorpus(c, ms)[p] = c[p]
              /\ ~(\E m \in Mgrs : p \in ms[m].corpus) => purgeCorpus(c, ms)[p] = 0
BY DEF purgeCorpus

\* What the hub stores of a manager when it connects.
LEMMA ConnectedDoes ==
  ASSUME HubTypeOK, UnknownIsBlank, NEW m \in Mgrs, con[m].fresh \in BOOLEAN,
         NEW inputs \in SUBSET Progs
  PROVE  /\ Connected(m, inputs) \in ManagerStates(corpusSeq, reproSeq)
         /\ Connected(m, inputs).known /\ Connected(m, inputs).connected
         /\ Connected(m, inputs).corpus = inputs
         /\ \/ Connected(m, inputs).corpusSeq = 0
            \/ ~con[m].fresh /\ Connected(m, inputs).corpusSeq = mgrs[m].corpusSeq
         /\ Connected(m, inputs).reproSeq \in {mgrs[m].reproSeq, reproSeq}
<1> DEFINE g == createManager(m)
<1>1. mgrs[m] \in ManagerStates(corpusSeq, reproSeq) /\ corpusSeq \in Nat /\ reproSeq \in Nat
  BY DEF HubTypeOK
<1>2. /\ g \in ManagerStates(corpusSeq, reproSeq) /\ g.known = TRUE
      /\ g.corpusSeq = mgrs[m].corpusSeq /\ g.reproSeq \in {mgrs[m].reproSeq, reproSeq}
  <2>1. CASE mgrs[m].known
    <3>1. g = mgrs[m]
      BY <2>1 DEF createManager
    <3>2. mgrs[m].known = TRUE
      BY <1>1, <2>1 DEF ManagerStates
    <3> QED
      BY <1>1, <3>1, <3>2
  <2>2. CASE ~mgrs[m].known
    <3>1. g = [Unknown EXCEPT !.known = TRUE, !.reproSeq = reproSeq] /\ mgrs[m] = Unknown
      BY <2>2 DEF createManager, UnknownIsBlank
    <3>2. /\ mgrs[m].corpusSeq = 0
          /\ g = [known |-> TRUE, connected |-> FALSE, corpus |-> {}, corpusSeq |-> 0,
                  reproSeq |-> reproSeq, ownRepros |-> {}]
      BY <3>1 DEF Unknown
    <3> HIDE DEF g
    <3>3. g \in ManagerStates(corpusSeq, reproSeq)
      BY <1>1, <3>2 DEF ManagerStates
    <3> QED
      BY <3>2, <3>3
  <2> QED
    BY <2>1, <2>2
<1>3. Connected(m, inputs) = [g EXCEPT !.connected = TRUE, !.corpus = inputs,
                                       !.corpusSeq = IF con[m].fresh THEN 0 ELSE @,
                                       !.reproSeq = IF con[m].fresh THEN reproSeq ELSE @]
  BY DEF Connected
<1> HIDE DEF g
<1>4. g.corpusSeq \in 0 .. corpusSeq /\ g.reproSeq \in 0 .. reproSeq
  BY <1>2 DEF ManagerStates
<1>5. PICK cs \in 0 .. corpusSeq, rs \in 0 .. reproSeq :
        /\ cs = IF con[m].fresh THEN 0 ELSE g.corpusSeq
        /\ rs = IF con[m].fresh THEN reproSeq ELSE g.reproSeq
  BY <1>1, <1>4
<1>6. Connected(m, inputs) = [g EXCEPT !.connected = TRUE, !.corpus = inputs,
                                       !.corpusSeq = cs, !.reproSeq = rs]
  BY <1>2, <1>3, <1>5 DEF ManagerStates
<1> DEFINE h == Connected(m, inputs)
<1>7. /\ h \in ManagerStates(corpusSeq, reproSeq) /\ h.known = TRUE /\ h.connected = TRUE
      /\ h.corpus = inputs /\ h.corpusSeq = cs /\ h.reproSeq = rs
  BY <1>2, <1>5, <1>6 DEF ManagerStates
<1> QED
  BY <1>2, <1>5, <1>7

-----------------------------------------------------------------------------
(***************************************************************************)
(* The hub's side of the invariant: what it says of the hub's state and of *)
(* the histories.                                                          *)
(***************************************************************************)

\* What manager m has been served of the programs in c.
Got(m) == received[m] \cup dropped[m] \cup owned[m]

StoredIsShared ==
  /\ \A p \in Progs : corpus[p] # 0 => \E m \in Mgrs : p \in mgrs[m].corpus
  /\ \A m \in Mgrs : mgrs[m].connected => \A p \in mgrs[m].corpus : corpus[p] # 0

HubSide ==
  /\ HubTypeOK /\ StoredIsShared /\ UnknownIsBlank
  /\ \A m \in Mgrs : \A p \in Progs \cap Supports[m] :
       corpus[p] # 0 /\ corpus[p] <= mgrs[m].corpusSeq => p \in Got(m)
  /\ CorpusIsOwned
  /\ \A m \in Mgrs : \A r \in reproSent[m] : reproDB[r] # 0 /\ reproDB[r] <= mgrs[m].reproSeq

LEMMA HubSideStays ==
  ASSUME HubSide, UNCHANGED <<hubVars, histVars>>
  PROVE  HubSide'
BY DEF HubSide, hubVars, histVars, HubTypeOK, StoredIsShared, UnknownIsBlank, Got, CorpusIsOwned

\* ForgetIfFresh empties the history of a fresh manager and no other.
LEMMA ForgetDoes ==
  ASSUME NEW h \in [Mgrs -> SUBSET Progs], NEW m \in Mgrs
  PROVE  /\ ForgetIfFresh(h, m) \in [Mgrs -> SUBSET Progs]
         /\ \A j \in Mgrs : j # m \/ ~con[m].fresh => ForgetIfFresh(h, m)[j] = h[j]
BY DEF ForgetIfFresh

\* connect sends some of the corpus, whether or not it cuts it.
LEMMA SentDoes ==
  ASSUME NEW progs, NEW inputs \in Sent(progs)
  PROVE  inputs \subseteq progs
BY DEF Sent, kSubset

LEMMA ServeConnectKeeps ==
  ASSUME HubSide, NEW m \in Mgrs, con[m] \in ConnectorStates, NEW inputs \in SUBSET Progs,
         ServeConnect(m, inputs)
  PROVE  /\ HubSide'
         /\ \A j \in Mgrs \ {m} : mgrs'[j] = mgrs[j]
         /\ mgrs'[m].corpus = inputs
<1> DEFINE g == Connected(m, inputs)
           ms == [mgrs EXCEPT ![m] = g]
           c1 == addInputs(corpus, inputs)
           c2 == purgeCorpus(c1, ms)
           seq == NextSeq(inputs)
<1>0. HubTypeOK /\ UnknownIsBlank /\ StoredIsShared /\ CorpusIsOwned
  BY DEF HubSide
<1>1. inputs \in SUBSET Progs /\ con[m].fresh \in BOOLEAN
  BY DEF ConnectorStates
<1>2. /\ corpusSeq \in Nat /\ corpus \in [Progs -> 0 .. corpusSeq] /\ reproSeq \in Nat
      /\ reproDB \in [Repros -> 0 .. reproSeq]
      /\ mgrs \in [Mgrs -> ManagerStates(corpusSeq, reproSeq)]
      /\ received \in [Mgrs -> SUBSET Progs] /\ dropped \in [Mgrs -> SUBSET Progs]
      /\ owned \in [Mgrs -> SUBSET Progs] /\ reproSent \in [Mgrs -> SUBSET Repros]
  BY <1>0 DEF HubTypeOK
<1>3. /\ corpusSeq' = seq /\ corpus' = c2 /\ mgrs' = ms
      /\ owned' = [ForgetIfFresh(owned, m) EXCEPT ![m] = @ \cup inputs]
      /\ received' = ForgetIfFresh(received, m)
      /\ dropped' = ForgetIfFresh(dropped, m)
      /\ reproDB' = reproDB /\ reproSeq' = reproSeq /\ reproSent' = reproSent
  BY DEF ServeConnect
<1>4. /\ g \in ManagerStates(corpusSeq, reproSeq) /\ g.known /\ g.connected
      /\ g.corpus = inputs
      /\ g.corpusSeq = 0 \/ (~con[m].fresh /\ g.corpusSeq = mgrs[m].corpusSeq)
      /\ g.reproSeq \in {mgrs[m].reproSeq, reproSeq}
  BY <1>0, <1>1, ConnectedDoes
<1> HIDE DEF g
<1>5. /\ ms[m] = g /\ \A j \in Mgrs \ {m} : ms[j] = mgrs[j]
      /\ ms \in [Mgrs -> ManagerStates(corpusSeq, reproSeq)]
  BY <1>2, <1>4
<1> HIDE DEF ms
<1>6. /\ seq \in Nat /\ seq >= corpusSeq /\ c1 \in [Progs -> 0 .. seq]
      /\ \A p \in Progs : /\ corpus[p] # 0 => c1[p] = corpus[p]
                          /\ corpus[p] = 0 /\ p \notin inputs => c1[p] = 0
                          /\ corpus[p] = 0 /\ p \in inputs => c1[p] = corpusSeq + 1
  BY <1>1, <1>2, AddInputsDoes
<1> HIDE DEF c1, seq
<1>7. /\ c2 \in [Progs -> 0 .. seq]
      /\ \A p \in Progs : /\ (\E j \in Mgrs : p \in ms[j].corpus) => c2[p] = c1[p]
                          /\ ~(\E j \in Mgrs : p \in ms[j].corpus) => c2[p] = 0
  BY <1>6, PurgeDoes, ZenonT(60)
<1> HIDE DEF c2
<1>8. /\ owned' \in [Mgrs -> SUBSET Progs] /\ received' \in [Mgrs -> SUBSET Progs]
      /\ dropped' \in [Mgrs -> SUBSET Progs]
      /\ \A j \in Mgrs \ {m} : /\ owned'[j] = owned[j] /\ received'[j] = received[j]
                               /\ dropped'[j] = dropped[j]
      /\ ~con[m].fresh => /\ owned[m] \subseteq owned'[m] /\ received'[m] = received[m]
                          /\ dropped'[m] = dropped[m]
      /\ inputs \subseteq owned'[m]
  <2>1. /\ ForgetIfFresh(owned, m) \in [Mgrs -> SUBSET Progs]
        /\ \A j \in Mgrs : j # m \/ ~con[m].fresh => ForgetIfFresh(owned, m)[j] = owned[j]
    BY <1>2, ForgetDoes
  <2>2. /\ received' \in [Mgrs -> SUBSET Progs] /\ dropped' \in [Mgrs -> SUBSET Progs]
        /\ \A j \in Mgrs : j # m \/ ~con[m].fresh =>
             received'[j] = received[j] /\ dropped'[j] = dropped[j]
    BY <1>2, <1>3, ForgetDoes
  <2> DEFINE f == ForgetIfFresh(owned, m)
  <2>3. owned' = [f EXCEPT ![m] = f[m] \cup inputs]
    BY <1>3
  <2> HIDE DEF f
  <2>4. /\ owned' \in [Mgrs -> SUBSET Progs] /\ inputs \subseteq owned'[m]
        /\ \A j \in Mgrs \ {m} : owned'[j] = f[j]
        /\ f[m] \subseteq owned'[m]
    BY <1>1, <2>1, <2>3 DEF f
  <2> QED
    BY <2>1, <2>2, <2>4 DEF f
<1>9. HubTypeOK'
  <2>1. ms \in [Mgrs -> ManagerStates(seq, reproSeq)]
    <3>1. 0 .. corpusSeq \subseteq 0 .. seq
      BY <1>2, <1>6
    <3>2. ManagerStates(corpusSeq, reproSeq) \subseteq ManagerStates(seq, reproSeq)
      BY <3>1 DEF ManagerStates
    <3> QED
      BY <1>5, <3>2
  <2> QED
    BY <1>2, <1>3, <1>6, <1>7, <1>8, <2>1 DEF HubTypeOK
<1>10. StoredIsShared'
  <2>1. ASSUME NEW p \in Progs, c2[p] # 0 PROVE \E j \in Mgrs : p \in ms[j].corpus
    BY <1>7, <2>1
  <2>2. ASSUME NEW j \in Mgrs, ms[j].connected, NEW p \in ms[j].corpus PROVE c2[p] # 0
    <3>0. p \in Progs
      BY <1>5 DEF ManagerStates
    <3>1. c2[p] = c1[p]
      BY <1>7, <3>0
    <3>2. CASE j = m
      <4>1. p \in inputs
        BY <1>4, <1>5, <3>2
      <4> QED
        BY <1>2, <1>6, <3>0, <3>1, <4>1
    <3>3. CASE j # m
      <4>1. corpus[p] # 0
        BY <1>0, <1>5, <2>2, <3>3 DEF StoredIsShared
      <4> QED
        BY <1>6, <3>0, <3>1, <4>1
    <3> QED
      BY <3>2, <3>3
  <2> QED
    BY <1>3, <2>1, <2>2 DEF StoredIsShared
<1>11. UnknownIsBlank'
  BY <1>0, <1>3, <1>4, <1>5 DEF UnknownIsBlank
<1>12. ASSUME NEW j \in Mgrs, NEW p \in Progs \cap Supports[j], c2[p] # 0,
              c2[p] <= ms[j].corpusSeq
       PROVE  p \in Got(j)'
  <2>1. c2[p] = c1[p]
    BY <1>7, <1>12
  <2>2. ms[j].corpusSeq \in 0 .. corpusSeq
    BY <1>5 DEF ManagerStates
  <2>3. corpus[p] # 0 /\ c2[p] = corpus[p]
    <3>1. CASE corpus[p] # 0
      BY <1>6, <2>1, <3>1
    <3>2. CASE corpus[p] = 0 /\ p \in inputs
      <4>1. c2[p] = corpusSeq + 1
        BY <1>6, <2>1, <3>2
      <4> QED
        BY <1>2, <1>12, <2>2, <4>1
    <3>3. CASE corpus[p] = 0 /\ p \notin inputs
      BY <1>6, <1>12, <2>1, <3>3
    <3> QED
      BY <3>1, <3>2, <3>3
  <2>4. CASE j # m
    <3>1. p \in Got(j)
      BY <1>5, <1>12, <2>3, <2>4 DEF HubSide
    <3> QED
      BY <1>8, <2>4, <3>1 DEF Got
  <2>5. CASE j = m
    <3>1. g.corpusSeq # 0
      BY <1>2, <1>5, <1>12, <2>3, <2>5
    <3>2. ~con[m].fresh /\ g.corpusSeq = mgrs[m].corpusSeq
      BY <1>4, <3>1
    <3>3. p \in Got(m)
      BY <1>5, <1>12, <2>3, <2>5, <3>2 DEF HubSide
    <3> QED
      BY <1>8, <2>5, <3>2, <3>3 DEF Got
  <2> QED
    BY <2>4, <2>5
<1>13. CorpusIsOwned'
  BY <1>0, <1>3, <1>4, <1>5, <1>8 DEF CorpusIsOwned
<1>14. ASSUME NEW j \in Mgrs, NEW r \in reproSent[j]
       PROVE  reproDB[r] # 0 /\ reproDB[r] <= ms[j].reproSeq
  <2>1. reproDB[r] # 0 /\ reproDB[r] <= mgrs[j].reproSeq
    BY DEF HubSide
  <2>2. reproDB[r] \in 0 .. reproSeq
    BY <1>2
  <2> QED
    BY <1>2, <1>4, <1>5, <2>1, <2>2
<1>15. HubSide'
  <2>1. \A j \in Mgrs : \A p \in Progs \cap Supports[j] :
          corpus'[p] # 0 /\ corpus'[p] <= mgrs'[j].corpusSeq => p \in Got(j)'
    BY <1>3, <1>12
  <2>2. \A j \in Mgrs : \A r \in reproSent'[j] :
          reproDB'[r] # 0 /\ reproDB'[r] <= mgrs'[j].reproSeq
    BY <1>3, <1>14
  <2> QED
    BY <1>9, <1>10, <1>11, <1>13, <2>1, <2>2 DEF HubSide
<1> QED
  BY <1>3, <1>4, <1>5, <1>15

\* Make after a stop of the hub, whatever had reached the disk: c, ms and db,
\* with numbers up to n and k.
LEMMA ReloadKeeps ==
  ASSUME HubSide, NEW n \in Nat, NEW c \in [Progs -> 0 .. n],
         NEW k \in Nat, NEW db \in [Repros -> 0 .. k],
         \A r \in Repros : reproDB[r] # 0 => db[r] = reproDB[r],
         NEW ms \in [Mgrs -> ManagerStates(n, k)],
         \A m \in Mgrs : ~ms[m].known => ms[m] = Unknown,
         \A m \in Mgrs : ms[m].reproSeq >= mgrs[m].reproSeq,
         Reload(c, ms, db),
         received' \in [Mgrs -> SUBSET Progs], dropped' \in [Mgrs -> SUBSET Progs],
         owned' \in [Mgrs -> SUBSET Progs], reproSent' = reproSent,
         \A m \in Mgrs : \A p \in Progs \cap Supports[m] :
           c[p] # 0 /\ c[p] <= ms[m].corpusSeq => p \in Got(m)'
  PROVE  HubSide' /\ \A m \in Mgrs : ~mgrs'[m].connected
<1> DEFINE seqs == {0} \cup {c[p] : p \in Progs} \cup {ms[m].corpusSeq : m \in Mgrs}
           rseqs(M) == {0} \cup {db[r] : r \in Repros} \cup {ms[m].reproSeq : m \in M}
           new(m) == [ms[m] EXCEPT !.connected = FALSE, !.ownRepros = {},
                                   !.reproSeq = IF ms[m].reproSeq = 0 THEN Max(rseqs(Earlier[m]))
                                                ELSE ms[m].reproSeq]
<1>0. reproSeq \in Nat /\ reproDB \in [Repros -> 0 .. reproSeq]
      /\ reproSent \in [Mgrs -> SUBSET Repros]
  BY DEF HubSide, HubTypeOK
<1>1. /\ corpusSeq' = Max(seqs) /\ reproSeq' = Max(rseqs(Mgrs))
      /\ mgrs' = [m \in Mgrs |-> IF ~ms[m].known THEN Unknown ELSE new(m)]
      /\ corpus' = purgeCorpus(c, ms) /\ reproDB' = db
  BY DEF Reload
<1>2. \A m \in Mgrs : ms[m].corpusSeq \in 0 .. n /\ ms[m].reproSeq \in 0 .. k
  BY DEF ManagerStates
<1>3. /\ corpusSeq' \in Nat /\ \A p \in Progs : c[p] \in 0 .. corpusSeq'
      /\ \A m \in Mgrs : ms[m].corpusSeq \in 0 .. corpusSeq'
  <2>1. seqs \in SUBSET (0 .. n) /\ seqs # {}
    BY <1>2
  <2>2. Max(seqs) \in 0 .. n /\ \A i \in seqs : Max(seqs) >= i
    BY <2>1, MaxIs
  <2>3. /\ \A p \in Progs : c[p] \in seqs /\ c[p] \in 0 .. n
        /\ \A m \in Mgrs : ms[m].corpusSeq \in seqs
    OBVIOUS
  <2>4. corpusSeq' = Max(seqs)
    BY <1>1
  <2> HIDE DEF seqs
  <2> QED
    BY <1>2, <2>2, <2>3, <2>4
<1>4. /\ reproSeq' \in Nat /\ \A r \in Repros : db[r] \in 0 .. reproSeq'
      /\ \A m \in Mgrs : ms[m].reproSeq \in 0 .. reproSeq'
      /\ \A m \in Mgrs : Max(rseqs(Earlier[m])) \in 0 .. reproSeq'
  <2> DEFINE all == rseqs(Mgrs)
  <2>1. all \in SUBSET (0 .. k) /\ all # {}
    BY <1>2
  <2>2. Max(all) \in 0 .. k /\ \A i \in all : Max(all) >= i
    BY <2>1, MaxIs
  <2>3. /\ \A r \in Repros : db[r] \in all /\ db[r] \in 0 .. k
        /\ \A m \in Mgrs : ms[m].reproSeq \in all
    OBVIOUS
  <2>4. reproSeq' = Max(all)
    BY <1>1
  <2>5. ASSUME NEW m \in Mgrs PROVE Max(rseqs(Earlier[m])) \in all
    <3>1. Earlier[m] \subseteq Mgrs
      BY HubAssumption
    <3> DEFINE some == rseqs(Earlier[m])
    <3>2. some \subseteq all /\ some # {}
      BY <3>1
    <3>3. some \in SUBSET (0 .. k)
      BY <2>1, <3>2
    <3> HIDE DEF some, all
    <3>4. Max(some) \in some
      BY <3>2, <3>3, MaxIs
    <3> QED
      BY <3>2, <3>4 DEF some
  <2>6. \A m \in Mgrs : Max(rseqs(Earlier[m])) \in 0 .. k
    BY <2>1, <2>5
  <2> HIDE DEF all, rseqs
  <2> QED
    BY <1>2, <2>2, <2>3, <2>4, <2>5, <2>6
<1> HIDE DEF seqs, rseqs
<1>5. ASSUME NEW m \in Mgrs
      PROVE  /\ mgrs'[m] \in ManagerStates(corpusSeq', reproSeq')
             /\ ~mgrs'[m].connected /\ mgrs'[m].corpus = ms[m].corpus
             /\ mgrs'[m].corpusSeq = ms[m].corpusSeq
             /\ mgrs'[m].reproSeq >= ms[m].reproSeq
             /\ ~mgrs'[m].known => mgrs'[m] = Unknown
  <2>1. CASE ~ms[m].known
    <3>1. mgrs'[m] = Unknown /\ ms[m] = Unknown
      BY <1>1, <2>1
    <3>2. Unknown \in ManagerStates(corpusSeq', reproSeq') /\ ~Unknown.connected
      BY <1>3, <1>4 DEF Unknown, ManagerStates
    <3>3. Unknown.reproSeq >= Unknown.reproSeq
      BY DEF Unknown
    <3> QED
      BY <3>1, <3>2, <3>3
  <2>2. CASE ms[m].known
    <3> DEFINE early == Max(rseqs(Earlier[m]))
    <3>0. early \in 0 .. reproSeq' /\ ms[m].reproSeq \in 0 .. reproSeq'
      BY <1>4
    <3> HIDE DEF early
    <3>1. PICK rs \in 0 .. reproSeq' :
            /\ rs = IF ms[m].reproSeq = 0 THEN early ELSE ms[m].reproSeq
            /\ rs >= ms[m].reproSeq
      <4>1. CASE ms[m].reproSeq = 0
        BY <3>0, <4>1
      <4>2. CASE ms[m].reproSeq # 0
        BY <3>0, <4>2
      <4> QED
        BY <4>1, <4>2
    <3> DEFINE g == [ms[m] EXCEPT !.connected = FALSE, !.ownRepros = {}, !.reproSeq = rs]
    <3>2. mgrs'[m] = g
      BY <1>1, <2>2, <3>1 DEF early
    <3>3. /\ rs \in 0 .. reproSeq' /\ ms[m].corpusSeq \in 0 .. corpusSeq'
      BY <1>3, <1>4, <3>1
    <3>4. /\ g.known = ms[m].known /\ g.connected = FALSE /\ g.corpus = ms[m].corpus
          /\ g.corpusSeq = ms[m].corpusSeq /\ g.reproSeq = rs
          /\ g \in ManagerStates(corpusSeq', reproSeq')
      <4>1. ms[m] \in ManagerStates(n, k)
        OBVIOUS
      <4>2. /\ g.known = ms[m].known /\ g.connected = FALSE /\ g.corpus = ms[m].corpus
            /\ g.corpusSeq = ms[m].corpusSeq /\ g.reproSeq = rs
        BY ONLY <4>1 DEF ManagerStates
      <4>3. g \in ManagerStates(corpusSeq', reproSeq')
        BY ONLY <3>3, <4>1 DEF ManagerStates
      <4> QED
        BY ONLY <4>2, <4>3
    <3> QED
      BY <2>2, <3>1, <3>2, <3>4
  <2> QED
    BY <2>1, <2>2
<1>6. mgrs' \in [Mgrs -> ManagerStates(corpusSeq', reproSeq')]
  <2>1. DOMAIN mgrs' = Mgrs /\ mgrs' = [m \in Mgrs |-> mgrs'[m]]
    BY <1>1
  <2> QED
    BY <1>5, <2>1
<1>7. /\ corpus' \in [Progs -> 0 .. corpusSeq']
      /\ \A p \in Progs : /\ (\E m \in Mgrs : p \in ms[m].corpus) => corpus'[p] = c[p]
                          /\ ~(\E m \in Mgrs : p \in ms[m].corpus) => corpus'[p] = 0
  <2> DEFINE top == corpusSeq'
             d == purgeCorpus(c, ms)
  <2>1. c \in [Progs -> 0 .. top] /\ top \in Nat
    BY <1>3
  <2>2. corpus' = d
    BY <1>1
  <2> HIDE DEF top
  <2>3. /\ d \in [Progs -> 0 .. top]
        /\ \A p \in Progs : /\ (\E m \in Mgrs : p \in ms[m].corpus) => d[p] = c[p]
                            /\ ~(\E m \in Mgrs : p \in ms[m].corpus) => d[p] = 0
    BY <2>1, PurgeDoes
  <2> HIDE DEF d
  <2> QED
    BY <2>2, <2>3 DEF top
<1>8. HubTypeOK'
  <2>1. reproDB' \in [Repros -> 0 .. reproSeq']
    BY <1>1, <1>4
  <2> QED
    BY <1>0, <1>3, <1>4, <1>6, <1>7, <2>1 DEF HubTypeOK
<1>9. StoredIsShared'
  BY <1>5, <1>7 DEF StoredIsShared
<1>10. UnknownIsBlank' /\ CorpusIsOwned'
  BY <1>5 DEF UnknownIsBlank, CorpusIsOwned
<1>11. \A m \in Mgrs : \A p \in Progs \cap Supports[m] :
         corpus'[p] # 0 /\ corpus'[p] <= mgrs'[m].corpusSeq => p \in Got(m)'
  BY <1>5, <1>7
<1>12. ASSUME NEW m \in Mgrs, NEW r \in reproSent[m]
       PROVE  db[r] # 0 /\ db[r] <= mgrs'[m].reproSeq
  <2>1. r \in Repros /\ mgrs[m].reproSeq \in 0 .. reproSeq
    <3>1. mgrs[m] \in ManagerStates(corpusSeq, reproSeq)
      BY DEF HubSide, HubTypeOK
    <3> QED
      BY <1>0, <3>1 DEF ManagerStates
  <2>2. reproDB[r] # 0 /\ reproDB[r] <= mgrs[m].reproSeq
    BY DEF HubSide
  <2>3. db[r] = reproDB[r] /\ db[r] \in 0 .. reproSeq' /\ ms[m].reproSeq \in 0 .. reproSeq'
    BY <1>4, <2>1, <2>2
  <2>4. db[r] <= ms[m].reproSeq /\ ms[m].reproSeq >= mgrs[m].reproSeq
    BY <1>0, <2>1, <2>2, <2>3
  <2>5. mgrs'[m].reproSeq \in 0 .. reproSeq' /\ mgrs'[m].reproSeq >= ms[m].reproSeq
    BY <1>5 DEF ManagerStates
  <2> QED
    BY <1>4, <2>2, <2>3, <2>4, <2>5
<1>13. HubSide'
  <2>1. \A m \in Mgrs : \A r \in reproSent'[m] :
          reproDB'[r] # 0 /\ reproDB'[r] <= mgrs'[m].reproSeq
    BY <1>1, <1>12
  <2> QED
    BY <1>8, <1>9, <1>10, <1>11, <2>1 DEF HubSide
<1> QED
  BY <1>5, <1>13

LEMMA HubFacts ==
  ASSUME HubSide
  PROVE  /\ corpusSeq \in Nat /\ corpus \in [Progs -> 0 .. corpusSeq] /\ reproSeq \in Nat
         /\ reproDB \in [Repros -> 0 .. reproSeq]
         /\ mgrs \in [Mgrs -> ManagerStates(corpusSeq, reproSeq)]
         /\ received \in [Mgrs -> SUBSET Progs] /\ dropped \in [Mgrs -> SUBSET Progs]
         /\ owned \in [Mgrs -> SUBSET Progs] /\ reproSent \in [Mgrs -> SUBSET Repros]
         /\ \A m \in Mgrs : ~mgrs[m].known => mgrs[m] = Unknown
         /\ \A m \in Mgrs : mgrs[m].reproSeq \in Nat
BY DEF HubSide, HubTypeOK, UnknownIsBlank, ManagerStates

LEMMA HubRestartKeeps ==
  ASSUME HubSide, HubRestart
  PROVE  HubSide' /\ \A m \in Mgrs : ~mgrs'[m].connected
<1>1. /\ Reload(corpus, mgrs, reproDB) /\ received' = received /\ dropped' = dropped /\ owned' = owned
      /\ reproSent' = reproSent
  BY DEF HubRestart, histVars
<1>2. \A m \in Mgrs : \A p \in Progs \cap Supports[m] :
        corpus[p] # 0 /\ corpus[p] <= mgrs[m].corpusSeq => p \in Got(m)'
  BY <1>1 DEF HubSide, Got
<1>3. \A m \in Mgrs : mgrs[m].reproSeq >= mgrs[m].reproSeq
  BY HubFacts
<1> QED
  BY <1>1, <1>2, <1>3, HubFacts, ReloadKeeps

LEMMA CrashInConnectKeeps ==
  ASSUME HubSide, NEW m \in Mgrs, con[m] \in ConnectorStates, CrashInConnect(m)
  PROVE  HubSide' /\ \A j \in Mgrs : ~mgrs'[j].connected
<1>1. PICK inputs \in {{}} \cup Sent(con[m].corpus) :
        Reload(corpus, [mgrs EXCEPT ![m] = Connected(m, inputs)], reproDB)
  BY DEF CrashInConnect
<1>2. /\ owned' = ForgetIfFresh(owned, m) /\ received' = ForgetIfFresh(received, m)
      /\ dropped' = ForgetIfFresh(dropped, m) /\ reproSent' = reproSent
  BY DEF CrashInConnect
<1>3. inputs \in SUBSET Progs /\ con[m].fresh \in BOOLEAN
  <2>1. con[m].corpus \in SUBSET Progs /\ con[m].fresh \in BOOLEAN
    BY DEF ConnectorStates
  <2> QED
    BY <2>1, SentDoes
<1> DEFINE g == Connected(m, inputs)
           ms == [mgrs EXCEPT ![m] = g]
<1>4. /\ g \in ManagerStates(corpusSeq, reproSeq) /\ g.known
      /\ g.corpusSeq = 0 \/ (~con[m].fresh /\ g.corpusSeq = mgrs[m].corpusSeq)
      /\ g.reproSeq \in {mgrs[m].reproSeq, reproSeq}
  BY <1>3, ConnectedDoes DEF HubSide
<1> HIDE DEF g
<1>5. /\ ms \in [Mgrs -> ManagerStates(corpusSeq, reproSeq)] /\ ms[m] = g
      /\ \A j \in Mgrs \ {m} : ms[j] = mgrs[j]
  BY <1>4, HubFacts
<1>6. Reload(corpus, ms, reproDB)
  BY <1>1 DEF g
<1> HIDE DEF ms
<1>7. \A j \in Mgrs : ~ms[j].known => ms[j] = Unknown
  BY <1>4, <1>5, HubFacts
<1>8. ASSUME NEW j \in Mgrs PROVE ms[j].reproSeq >= mgrs[j].reproSeq
  <2>1. mgrs[j].reproSeq \in 0 .. reproSeq /\ reproSeq \in Nat
    BY HubFacts DEF ManagerStates
  <2> QED
    BY <1>4, <1>5, <2>1
<1>9. /\ owned' \in [Mgrs -> SUBSET Progs] /\ received' \in [Mgrs -> SUBSET Progs]
      /\ dropped' \in [Mgrs -> SUBSET Progs]
      /\ \A j \in Mgrs : j # m \/ ~con[m].fresh =>
           owned'[j] = owned[j] /\ received'[j] = received[j] /\ dropped'[j] = dropped[j]
  BY <1>2, HubFacts, ForgetDoes
<1>10. ASSUME NEW j \in Mgrs, NEW p \in Progs \cap Supports[j], corpus[p] # 0,
              corpus[p] <= ms[j].corpusSeq
       PROVE  p \in Got(j)'
  <2>1. ms[j].corpusSeq = mgrs[j].corpusSeq /\ (j # m \/ ~con[m].fresh)
    <3>1. CASE j # m
      BY <1>5, <3>1
    <3>2. CASE j = m
      <4>1. corpus[p] \in 0 .. corpusSeq /\ corpusSeq \in Nat
        BY HubFacts
      <4>2. g.corpusSeq # 0
        BY <1>5, <1>10, <3>2, <4>1
      <4> QED
        BY <1>4, <1>5, <3>2, <4>2
    <3> QED
      BY <3>1, <3>2
  <2>2. p \in Got(j)
    BY <1>10, <2>1 DEF HubSide
  <2> QED
    BY <1>9, <2>1, <2>2 DEF Got
<1> QED
  BY <1>2, <1>5, <1>6, <1>7, <1>8, <1>9, <1>10, HubFacts, ReloadKeeps

\* What Sync stores for a connected manager.
LEMMA KeptDoes ==
  ASSUME HubSide, NEW m \in Mgrs, con[m] \in ConnectorStates, mgrs[m].connected
  PROVE  /\ con[m].add \in SUBSET Progs /\ con[m].del \in SUBSET Progs
         /\ mgrs[m].corpus \in SUBSET Progs /\ mgrs[m].known
         /\ Kept(m) \in [Mgrs -> ManagerStates(corpusSeq, reproSeq)]
         /\ Kept(m)[m].corpus = mgrs[m].corpus \ con[m].del
         /\ Kept(m)[m].connected = mgrs[m].connected
         /\ \A j \in Mgrs \ {m} : Kept(m)[j] = mgrs[j]
         /\ \A j \in Mgrs : /\ Kept(m)[j].known = mgrs[j].known
                            /\ Kept(m)[j].corpusSeq = mgrs[j].corpusSeq
                            /\ Kept(m)[j].reproSeq = mgrs[j].reproSeq
<1> DEFINE S == mgrs[m].corpus \ con[m].del
           g == [mgrs[m] EXCEPT !.corpus = S]
<1>1. con[m].add \in SUBSET Progs /\ con[m].del \in SUBSET Progs
  BY DEF ConnectorStates
<1>2. mgrs[m].corpus \in SUBSET Progs /\ mgrs[m].known
  BY HubFacts DEF ManagerStates, Unknown
<1>3. Kept(m) = [mgrs EXCEPT ![m] = g]
  BY DEF Kept
<1>4. S \in SUBSET Progs
  BY <1>2
<1>5. mgrs \in [Mgrs -> ManagerStates(corpusSeq, reproSeq)]
  BY HubFacts
<1> HIDE DEF S
<1>6. /\ g \in ManagerStates(corpusSeq, reproSeq) /\ g.corpus = S
      /\ g.known = mgrs[m].known /\ g.connected = mgrs[m].connected
      /\ g.corpusSeq = mgrs[m].corpusSeq /\ g.reproSeq = mgrs[m].reproSeq
  <2>1. mgrs[m] \in ManagerStates(corpusSeq, reproSeq)
    BY <1>5
  <2> QED
    BY <1>4, <2>1 DEF ManagerStates
<1> HIDE DEF g
<1> QED
  BY <1>1, <1>2, <1>3, <1>5, <1>6 DEF S

LEMMA WithDoes ==
  ASSUME HubSide, NEW m \in Mgrs, con[m] \in ConnectorStates, mgrs[m].connected
  PROVE  /\ With(m) \in [Mgrs -> ManagerStates(corpusSeq, reproSeq)]
         /\ With(m)[m].corpus = (mgrs[m].corpus \ con[m].del) \cup con[m].add
         /\ With(m)[m].connected = mgrs[m].connected
         /\ \A j \in Mgrs \ {m} : With(m)[j] = mgrs[j]
         /\ \A j \in Mgrs : /\ With(m)[j].known = mgrs[j].known
                            /\ With(m)[j].corpusSeq = mgrs[j].corpusSeq
                            /\ With(m)[j].reproSeq = mgrs[j].reproSeq
<1> DEFINE kept == Kept(m)
           S == kept[m].corpus \cup con[m].add
           g == [kept[m] EXCEPT !.corpus = S]
<1>1. /\ con[m].add \in SUBSET Progs /\ mgrs[m].corpus \in SUBSET Progs
      /\ kept \in [Mgrs -> ManagerStates(corpusSeq, reproSeq)]
      /\ kept[m].corpus = mgrs[m].corpus \ con[m].del
      /\ kept[m].connected = mgrs[m].connected
      /\ \A j \in Mgrs \ {m} : kept[j] = mgrs[j]
      /\ \A j \in Mgrs : /\ kept[j].known = mgrs[j].known
                         /\ kept[j].corpusSeq = mgrs[j].corpusSeq
                         /\ kept[j].reproSeq = mgrs[j].reproSeq
  BY KeptDoes
<1>2. With(m) = [kept EXCEPT ![m] = g]
  BY DEF With
<1> HIDE DEF kept
<1>3. S \in SUBSET Progs
  BY <1>1
<1> HIDE DEF S
<1>4. /\ g \in ManagerStates(corpusSeq, reproSeq) /\ g.corpus = S
      /\ g.known = kept[m].known /\ g.connected = kept[m].connected
      /\ g.corpusSeq = kept[m].corpusSeq /\ g.reproSeq = kept[m].reproSeq
  <2>1. kept[m] \in ManagerStates(corpusSeq, reproSeq)
    BY <1>1
  <2> QED
    BY <1>3, <2>1 DEF ManagerStates
<1> HIDE DEF g
<1> QED
  BY <1>1, <1>2, <1>4 DEF S

LEMMA PurgedDoes ==
  ASSUME HubSide, NEW m \in Mgrs, con[m] \in ConnectorStates, mgrs[m].connected
  PROVE  /\ Purged(m) \in [Progs -> 0 .. corpusSeq]
         /\ \A p \in Progs :
              /\ Purged(m)[p] = corpus[p] \/ Purged(m)[p] = 0
              /\ Purged(m)[p] # 0 => \E j \in Mgrs : p \in Kept(m)[j].corpus
              /\ (\E j \in Mgrs : p \in Kept(m)[j].corpus) => Purged(m)[p] = corpus[p]
<1>1. corpusSeq \in Nat /\ corpus \in [Progs -> 0 .. corpusSeq]
  BY HubFacts
<1>2. CASE con[m].del = {}
  <2>1. Purged(m) = corpus
    BY <1>2 DEF Purged
  <2>2. \A j \in Mgrs : Kept(m)[j].corpus = mgrs[j].corpus
    BY <1>2, KeptDoes
  <2>3. \A p \in Progs : corpus[p] # 0 => \E j \in Mgrs : p \in mgrs[j].corpus
    BY DEF HubSide, StoredIsShared
  <2> QED
    BY <1>1, <2>1, <2>2, <2>3
<1>3. CASE con[m].del # {}
  <2>1. Purged(m) = purgeCorpus(corpus, Kept(m))
    BY <1>3 DEF Purged
  <2> DEFINE ms == Kept(m)
  <2>2. /\ purgeCorpus(corpus, ms) \in [Progs -> 0 .. corpusSeq]
        /\ \A p \in Progs :
             /\ (\E j \in Mgrs : p \in ms[j].corpus) => purgeCorpus(corpus, ms)[p] = corpus[p]
             /\ ~(\E j \in Mgrs : p \in ms[j].corpus) => purgeCorpus(corpus, ms)[p] = 0
    BY <1>1, PurgeDoes
  <2> QED
    BY <2>1, <2>2
<1> QED
  BY <1>2, <1>3

LEMMA MergedDoes ==
  ASSUME HubSide, NEW m \in Mgrs, con[m] \in ConnectorStates, mgrs[m].connected
  PROVE  LET seq == NextSeq(con[m].add)
         IN /\ seq \in Nat /\ seq >= corpusSeq /\ Merged(m) \in [Progs -> 0 .. seq]
            /\ ManagerStates(corpusSeq, reproSeq) \subseteq ManagerStates(seq, reproSeq)
            /\ \A p \in Progs :
                 /\ Purged(m)[p] # 0 => Merged(m)[p] = Purged(m)[p]
                 /\ Purged(m)[p] = 0 /\ p \notin con[m].add => Merged(m)[p] = 0
                 /\ Purged(m)[p] = 0 /\ p \in con[m].add => Merged(m)[p] = corpusSeq + 1
            /\ \A j \in Mgrs, p \in Progs :
                 Merged(m)[p] # 0 /\ Merged(m)[p] <= mgrs[j].corpusSeq =>
                   Merged(m)[p] = corpus[p]
<1> DEFINE add == con[m].add
           seq == NextSeq(add)
           c0 == Purged(m)
           c == Merged(m)
<1>1. add \in SUBSET Progs /\ corpusSeq \in Nat
  BY KeptDoes, HubFacts
<1>2. c0 \in [Progs -> 0 .. corpusSeq] /\ \A p \in Progs : c0[p] = corpus[p] \/ c0[p] = 0
  BY PurgedDoes
<1>3. c = addInputs(c0, add)
  BY DEF Merged
<1> HIDE DEF c0, c, add
<1>4. /\ seq \in Nat /\ seq >= corpusSeq /\ c \in [Progs -> 0 .. seq]
      /\ \A p \in Progs : /\ c0[p] # 0 => c[p] = c0[p]
                          /\ c0[p] = 0 /\ p \notin add => c[p] = 0
                          /\ c0[p] = 0 /\ p \in add => c[p] = corpusSeq + 1
  BY <1>1, <1>2, <1>3, AddInputsDoes
<1> HIDE DEF seq
<1>5. ASSUME NEW j \in Mgrs, NEW p \in Progs, c[p] # 0, c[p] <= mgrs[j].corpusSeq
      PROVE  c[p] = corpus[p]
  <2>1. mgrs[j].corpusSeq \in 0 .. corpusSeq
    BY HubFacts DEF ManagerStates
  <2>2. c[p] # corpusSeq + 1
    BY <1>1, <1>5, <2>1
  <2> QED
    BY <1>2, <1>4, <1>5, <2>2
<1>6. ManagerStates(corpusSeq, reproSeq) \subseteq ManagerStates(seq, reproSeq)
  <2>1. 0 .. corpusSeq \subseteq 0 .. seq
    BY <1>1, <1>4
  <2> QED
    BY <2>1 DEF ManagerStates
<1> QED
  BY <1>4, <1>5, <1>6 DEF c0, c, add, seq

LEMMA CrashInSyncKeeps ==
  ASSUME HubSide, NEW m \in Mgrs, con[m] \in ConnectorStates, CrashInSync(m)
  PROVE  HubSide' /\ \A j \in Mgrs : ~mgrs'[j].connected
<1> DEFINE add == con[m].add
           seq == NextSeq(add)
<1>1. /\ mgrs[m].connected
      /\ \/ Reload(corpus, Kept(m), reproDB) /\ owned' = owned
         \/ Reload(Purged(m), With(m), reproDB) /\ owned' = owned
         \/ /\ Reload(Merged(m), With(m), reproDB)
            /\ owned' = [owned EXCEPT ![m] = owned[m] \cup add]
      /\ received' = received /\ dropped' = dropped /\ reproSent' = reproSent
  BY DEF CrashInSync
<1>2. add \in SUBSET Progs
  BY <1>1, KeptDoes
<1>3. /\ owned' \in [Mgrs -> SUBSET Progs] /\ \A j \in Mgrs : owned[j] \subseteq owned'[j]
      /\ received' \in [Mgrs -> SUBSET Progs] /\ dropped' \in [Mgrs -> SUBSET Progs]
  BY <1>1, <1>2, HubFacts
<1>4. \A j \in Mgrs : \A p \in Progs \cap Supports[j] :
        corpus[p] # 0 /\ corpus[p] <= mgrs[j].corpusSeq => p \in Got(j)'
  BY <1>1, <1>3 DEF HubSide, Got
<1>5. ASSUME NEW n \in Nat, NEW c \in [Progs -> 0 .. n],
             NEW ms \in [Mgrs -> ManagerStates(n, reproSeq)], Reload(c, ms, reproDB),
             \A j \in Mgrs : /\ ms[j].known = mgrs[j].known
                             /\ ms[j].corpusSeq = mgrs[j].corpusSeq
                             /\ ms[j].reproSeq = mgrs[j].reproSeq,
             \A j \in Mgrs \ {m} : ms[j] = mgrs[j],
             \A j \in Mgrs, p \in Progs :
               c[p] # 0 /\ c[p] <= mgrs[j].corpusSeq => c[p] = corpus[p]
      PROVE  HubSide' /\ \A j \in Mgrs : ~mgrs'[j].connected
  <2>1. /\ \A j \in Mgrs : ~ms[j].known => ms[j] = Unknown
        /\ \A j \in Mgrs : ms[j].reproSeq >= mgrs[j].reproSeq
    BY <1>1, <1>5, KeptDoes, HubFacts
  <2>2. \A j \in Mgrs : \A p \in Progs \cap Supports[j] :
          c[p] # 0 /\ c[p] <= ms[j].corpusSeq => p \in Got(j)'
    BY <1>4, <1>5
  <2> QED
    BY <1>1, <1>3, <1>5, <2>1, <2>2, HubFacts, ReloadKeeps
<1>6. CASE Reload(corpus, Kept(m), reproDB)
  BY <1>1, <1>5, <1>6, KeptDoes, HubFacts
<1>7. CASE Reload(Purged(m), With(m), reproDB)
  <2> DEFINE c == Purged(m)
             ms == With(m)
  <2>1. /\ corpusSeq \in Nat /\ c \in [Progs -> 0 .. corpusSeq]
        /\ \A p \in Progs : c[p] = corpus[p] \/ c[p] = 0
    BY <1>1, PurgedDoes, HubFacts
  <2>2. /\ ms \in [Mgrs -> ManagerStates(corpusSeq, reproSeq)]
        /\ \A j \in Mgrs \ {m} : ms[j] = mgrs[j]
        /\ \A j \in Mgrs : /\ ms[j].known = mgrs[j].known
                           /\ ms[j].corpusSeq = mgrs[j].corpusSeq
                           /\ ms[j].reproSeq = mgrs[j].reproSeq
    BY <1>1, WithDoes
  <2>3. Reload(c, ms, reproDB)
    BY <1>7
  <2> HIDE DEF c, ms
  <2> QED
    BY <1>5, <2>1, <2>2, <2>3
<1>8. CASE Reload(Merged(m), With(m), reproDB)
  <2> DEFINE c == Merged(m)
             ms == With(m)
  <2>1. /\ seq \in Nat /\ c \in [Progs -> 0 .. seq]
        /\ \A j \in Mgrs, p \in Progs :
             c[p] # 0 /\ c[p] <= mgrs[j].corpusSeq => c[p] = corpus[p]
        /\ ManagerStates(corpusSeq, reproSeq) \subseteq ManagerStates(seq, reproSeq)
    BY <1>1, MergedDoes
  <2>2. /\ ms \in [Mgrs -> ManagerStates(corpusSeq, reproSeq)]
        /\ \A j \in Mgrs \ {m} : ms[j] = mgrs[j]
        /\ \A j \in Mgrs : /\ ms[j].known = mgrs[j].known
                           /\ ms[j].corpusSeq = mgrs[j].corpusSeq
                           /\ ms[j].reproSeq = mgrs[j].reproSeq
    BY <1>1, WithDoes
  <2>3. Reload(c, ms, reproDB)
    BY <1>8
  <2> HIDE DEF c, ms, seq
  <2>4. ms \in [Mgrs -> ManagerStates(seq, reproSeq)]
    BY <2>1, <2>2
  <2> QED
    BY <1>5, <2>1, <2>2, <2>3, <2>4
<1> QED
  BY <1>1, <1>6, <1>7, <1>8

-----------------------------------------------------------------------------
(***************************************************************************)
(* What Sync sends.                                                        *)
(***************************************************************************)

\* pendingInputs: whatever lies up to the number it returns is sent, or
\* belongs to what is given up.
LEMMA PendingDoes ==
  ASSUME NEW n \in Nat, NEW c \in [Progs -> 0 .. n], NEW m \in Mgrs,
         NEW mgr \in ManagerStates(n, reproSeq), NEW out \in pendingInputs(m, c, n, mgr)
  PROVE  /\ out.maxSeq \in 0 .. n
         /\ out.progs \in SUBSET Progs /\ out.skipped \in SUBSET Progs
         /\ \A p \in Pending(m, c, mgr) : c[p] <= out.maxSeq => p \in out.progs \cup out.skipped
<1> DEFINE records == Pending(m, c, mgr)
<1>1. records \in SUBSET Progs
  BY DEF Pending, Present
<1>2. /\ \A s \in SUBSET Progs : IsFiniteSet(s) /\ Cardinality(s) \in Nat
      /\ maxRecords \in Nat /\ capRecords \in Nat /\ maxRecords < capRecords
  BY HubAssumption, FS_Subset, FS_CardinalityType
<1>3. CASE Cardinality(records) <= maxRecords
  <2>1. out = [progs |-> records, maxSeq |-> n, more |-> 0, skipped |-> {}]
    BY <1>3 DEF pendingInputs
  <2> QED
    BY <1>1, <2>1
<1>4. CASE Cardinality(records) > maxRecords
  <2>1. PICK s \in Capped(c, records) :
          out = [progs |-> Page(c, s).progs, maxSeq |-> Page(c, s).maxSeq,
                 more |-> Cardinality(s \ Page(c, s).progs), skipped |-> records \ s]
    <3>1. ~(Cardinality(records) <= maxRecords)
      BY <1>1, <1>2, <1>4
    <3> QED
      BY <3>1 DEF pendingInputs
  <2>2. s \in SUBSET records /\ Cardinality(s) > maxRecords
    <3>1. CASE Cardinality(records) <= capRecords
      <4>1. s = records
        BY <2>1, <3>1 DEF Capped
      <4> QED
        BY <1>4, <4>1
    <3>2. CASE ~(Cardinality(records) <= capRecords)
      <4>1. s \in kSubset(capRecords, records)
        BY <2>1, <3>2 DEF Capped
      <4>2. s \in SUBSET records /\ Cardinality(s) = capRecords
        BY <4>1 DEF kSubset
      <4> QED
        BY <1>2, <4>2
    <3> QED
      BY <3>1, <3>2
  <2> HIDE DEF records
  <2> DEFINE upTo(k) == {p \in s : c[p] <= k}
             over == {q \in s : Cardinality(upTo(c[q])) > maxRecords}
             nums == {c[p] : p \in over}
             last == Min(nums)
  <2>3. Page(c, s) = [progs |-> upTo(last), maxSeq |-> last]
    BY DEF Page
  <2>4. s \in SUBSET Progs /\ \A p \in s : c[p] \in 0 .. n /\ c[p] \in Nat
    BY <1>1, <2>2
  <2>5. s # {}
    <3>1. s = {} => Cardinality(s) = 0
      BY FS_EmptySet
    <3> QED
      BY <1>2, <2>2, <3>1
  <2>6. over # {}
    <3> DEFINE all == {c[p] : p \in s}
    <3>1. all \in SUBSET (0 .. n) /\ all # {}
      BY <2>4, <2>5
    <3>2. Max(all) \in all /\ \A k \in all : Max(all) >= k
      BY <3>1, MaxIs
    <3>3. PICK q \in s : c[q] = Max(all)
      BY <3>2
    <3>4. \A p \in s : c[p] <= c[q]
      BY <2>4, <3>2, <3>3
    <3>5. upTo(c[q]) = s
      BY <3>4
    <3> QED
      BY <2>2, <3>5
  <2>7. last \in nums
    <3>1. nums \in SUBSET Nat /\ nums # {}
      BY <2>4, <2>6
    <3> HIDE DEF nums
    <3> QED
      BY <3>1, MinIs
  <2>8. last \in 0 .. n
    BY <2>4, <2>7
  <2> HIDE DEF last
  <2>9. out.progs = upTo(last) /\ out.maxSeq = last /\ out.skipped = records \ s
    BY <2>1, <2>3
  <2>10. \A p \in records : c[p] <= last => p \in out.progs \cup out.skipped
    BY <2>9
  <2>11. out.progs \in SUBSET Progs /\ out.skipped \in SUBSET Progs
    BY <1>1, <2>4, <2>9
  <2> QED
    BY <2>8, <2>9, <2>10, <2>11 DEF records
<1> QED
  BY <1>1, <1>2, <1>3, <1>4

\* PendingRepro moves to what it sends, never back and never past the end.
LEMMA AfterReproDoes ==
  ASSUME NEW end \in Nat, NEW db \in [Repros -> 0 .. end], NEW n \in Nat, NEW m \in Mgrs,
         NEW mgr \in ManagerStates(n, end)
  PROVE  LET next == NextRepro(m, mgr, db)
             g == AfterRepro(mgr, next, db, end)
         IN /\ g \in ManagerStates(n, end) /\ g.reproSeq >= mgr.reproSeq
            /\ g.known = mgr.known /\ g.connected = mgr.connected /\ g.corpus = mgr.corpus
            /\ g.corpusSeq = mgr.corpusSeq
            /\ next \in SUBSET Repros
            /\ \A r \in next : db[r] # 0 /\ db[r] <= g.reproSeq
<1> DEFINE next == NextRepro(m, mgr, db)
           nums == {db[r] : r \in next}
<1>1. mgr.reproSeq \in 0 .. end
  BY DEF ManagerStates
<1>2. \A r \in next : r \in Repros /\ db[r] # 0 /\ db[r] > mgr.reproSeq /\ db[r] \in 0 .. end
  BY DEF NextRepro, PendingRepros, Present
<1> HIDE DEF next
<1>3. PICK seq \in 0 .. end :
        /\ AfterRepro(mgr, next, db, end) = [mgr EXCEPT !.reproSeq = seq]
        /\ seq >= mgr.reproSeq /\ \A r \in next : db[r] <= seq
  <2>1. CASE next = {}
    BY <1>1, <2>1 DEF AfterRepro
  <2>2. CASE next # {}
    <3>1. nums \in SUBSET (0 .. end) /\ nums # {}
      BY <1>2, <2>2
    <3>2. Max(nums) \in nums /\ \A k \in nums : Max(nums) >= k
      BY <3>1, MaxIs
    <3>3. AfterRepro(mgr, next, db, end) = [mgr EXCEPT !.reproSeq = Max(nums)]
      BY <2>2 DEF AfterRepro
    <3>4. \A r \in next : db[r] \in nums
      OBVIOUS
    <3>5. PICK r \in next : Max(nums) = db[r]
      BY <3>2
    <3> DEFINE top == Max(nums)
    <3>6. top \in 0 .. end /\ top >= mgr.reproSeq
      BY <1>1, <1>2, <3>5
    <3>7. \A q \in next : db[q] <= top
      BY <1>2, <3>2, <3>4, <3>6
    <3> HIDE DEF nums, top
    <3> QED
      BY <3>3, <3>6, <3>7 DEF top
  <2> QED
    BY <2>1, <2>2
<1> DEFINE g == [mgr EXCEPT !.reproSeq = seq]
<1>4. /\ g \in ManagerStates(n, end) /\ g.reproSeq = seq
      /\ g.known = mgr.known /\ g.connected = mgr.connected /\ g.corpus = mgr.corpus
      /\ g.corpusSeq = mgr.corpusSeq
  BY DEF ManagerStates
<1> HIDE DEF g
<1>5. AfterRepro(mgr, next, db, end) = g
  BY <1>3 DEF g
<1>6. next \in SUBSET Repros
  BY <1>2
<1> QED
  BY <1>2, <1>3, <1>4, <1>5, <1>6 DEF next

\* AddRepro numbers the new reproducers behind the old ones.
LEMMA NumberedDoes ==
  ASSUME HubSide, NEW new \in SUBSET Repros, \A r \in new : reproDB[r] = 0,
         NEW order \in Bijection(new, 1 .. Cardinality(new))
  PROVE  LET db == Numbered(new, order)
             end == reproSeq + Cardinality(new)
         IN /\ end \in Nat /\ end >= reproSeq /\ db \in [Repros -> 0 .. end]
            /\ \A r \in Repros : reproDB[r] # 0 => db[r] = reproDB[r]
<1> DEFINE n == Cardinality(new)
<1>1. n \in Nat
  BY HubAssumption, FS_Subset, FS_CardinalityType
<1>2. order \in [new -> 1 .. n]
  BY Fun_BijectionProperties
<1>3. reproSeq \in Nat /\ reproDB \in [Repros -> 0 .. reproSeq]
  BY HubFacts
<1> HIDE DEF n
<1>4. reproSeq + n \in Nat /\ reproSeq + n >= reproSeq
  BY <1>1, <1>3
<1>5. ASSUME NEW r \in Repros
      PROVE  /\ r \in new => reproSeq + order[r] \in 0 .. reproSeq + n
             /\ reproDB[r] \in 0 .. reproSeq + n
  <2>1. reproDB[r] \in 0 .. reproSeq
    BY <1>3
  <2>2. r \in new => order[r] \in 1 .. n
    BY <1>2
  <2> QED
    BY <1>1, <1>3, <2>1, <2>2
<1> QED
  BY <1>4, <1>5 DEF n, Numbered

\* The manager after AddRepro.
LEMMA WithReprosDoes ==
  ASSUME reproSeq \in Nat, NEW n \in Nat, NEW mgr \in ManagerStates(n, reproSeq),
         NEW seq \in 0 .. n, NEW new \in SUBSET Repros, Cardinality(new) \in Nat
  PROVE  LET end == reproSeq + Cardinality(new)
             g == WithRepros([mgr EXCEPT !.corpusSeq = seq], new)
         IN /\ g \in ManagerStates(n, end) /\ g.reproSeq >= mgr.reproSeq
            /\ g.known = mgr.known /\ g.connected = mgr.connected /\ g.corpus = mgr.corpus
            /\ g.corpusSeq = seq
<1> DEFINE end == reproSeq + Cardinality(new)
           h == [mgr EXCEPT !.corpusSeq = seq]
<1>1. end \in Nat /\ end >= reproSeq
  OBVIOUS
<1>2. /\ h \in ManagerStates(n, reproSeq) /\ h.known = mgr.known /\ h.connected = mgr.connected
      /\ h.corpus = mgr.corpus /\ h.corpusSeq = seq /\ h.reproSeq = mgr.reproSeq
  BY DEF ManagerStates
<1>3. WithRepros(h, new) =
        [h EXCEPT !.ownRepros = @ \cup new,
                  !.reproSeq = IF @ = reproSeq THEN @ + Cardinality(new) ELSE @]
  BY DEF WithRepros
<1> HIDE DEF h
<1>4. h.reproSeq \in 0 .. reproSeq /\ h.ownRepros \in SUBSET Repros
  BY <1>2 DEF ManagerStates
<1>5. PICK rs \in 0 .. end :
        /\ rs = IF h.reproSeq = reproSeq THEN h.reproSeq + Cardinality(new) ELSE h.reproSeq
        /\ rs >= h.reproSeq
  BY <1>1, <1>4
<1> DEFINE g == [h EXCEPT !.ownRepros = h.ownRepros \cup new, !.reproSeq = rs]
<1>6. WithRepros(h, new) = g
  BY <1>2, <1>3, <1>5 DEF ManagerStates
<1> HIDE DEF end
<1>7. /\ g \in ManagerStates(n, end) /\ g.known = h.known /\ g.connected = h.connected
      /\ g.corpus = h.corpus /\ g.corpusSeq = h.corpusSeq /\ g.reproSeq = rs
  BY <1>2, <1>4, <1>5 DEF ManagerStates
<1> HIDE DEF g
<1> QED
  BY <1>2, <1>5, <1>6, <1>7 DEF h, end

\* A crash with some of the reproducers stored, and at most one number ahead.
LEMMA CrashInAddReproKeeps ==
  ASSUME HubSide, NEW m \in Mgrs, con[m] \in ConnectorStates, CrashInAddRepro(m)
  PROVE  HubSide' /\ \A j \in Mgrs : ~mgrs'[j].connected
<1> DEFINE add == con[m].add
           c == Merged(m)
           seq == NextSeq(add)
           mgr == With(m)[m]
           storedAt(k, S) == WithRepros([mgr EXCEPT !.corpusSeq = k], S)
<1>1. /\ mgrs[m].connected /\ received' = received /\ reproSent' = reproSent
      /\ owned' = [owned EXCEPT ![m] = @ \cup add]
  BY DEF CrashInAddRepro
<1>2. PICK out \in pendingInputs(m, c, seq, mgr), done \in SUBSET NewRepros(m), ahead \in {0, 1} :
        /\ \E order \in Bijection(done, 1 .. Cardinality(done)) :
             Reload(c, [mgrs EXCEPT ![m] = [storedAt(out.maxSeq, done) EXCEPT !.reproSeq = @ + ahead]],
                    Numbered(done, order))
        /\ dropped' = [dropped EXCEPT ![m] = @ \cup out.skipped \cup out.progs]
  BY DEF CrashInAddRepro
<1>3. PICK order \in Bijection(done, 1 .. Cardinality(done)) :
        Reload(c, [mgrs EXCEPT ![m] = [storedAt(out.maxSeq, done) EXCEPT !.reproSeq = @ + ahead]],
               Numbered(done, order))
  BY <1>2
<1>4. /\ add \in SUBSET Progs /\ done \in SUBSET Repros /\ Cardinality(done) \in Nat
      /\ \A r \in done : reproDB[r] = 0
  <2>1. add \in SUBSET Progs /\ NewRepros(m) \in SUBSET Repros /\ \A r \in NewRepros(m) : reproDB[r] = 0
    BY DEF ConnectorStates, NewRepros
  <2>2. done \in SUBSET Repros
    BY <2>1
  <2> QED
    BY <2>1, <2>2, HubAssumption, FS_Subset, FS_CardinalityType
<1>5. /\ corpusSeq \in Nat /\ reproSeq \in Nat
      /\ mgrs \in [Mgrs -> ManagerStates(corpusSeq, reproSeq)]
      /\ mgrs[m].corpus \subseteq owned[m]
      /\ \A j \in Mgrs : mgrs[j].reproSeq \in Nat /\ (~mgrs[j].known => mgrs[j] = Unknown)
  BY <1>1, HubFacts DEF HubSide, CorpusIsOwned
<1>6. /\ mgr \in ManagerStates(corpusSeq, reproSeq)
      /\ mgr.corpus = (mgrs[m].corpus \ con[m].del) \cup add
      /\ mgr.known = mgrs[m].known /\ mgr.corpusSeq = mgrs[m].corpusSeq
      /\ mgr.reproSeq = mgrs[m].reproSeq
  BY <1>1, WithDoes
<1>7. mgrs[m].known
  BY <1>1, KeptDoes
<1>8. /\ seq \in Nat /\ seq >= corpusSeq /\ c \in [Progs -> 0 .. seq]
      /\ ManagerStates(corpusSeq, reproSeq) \subseteq ManagerStates(seq, reproSeq)
      /\ \A j \in Mgrs, p \in Progs : c[p] # 0 /\ c[p] <= mgrs[j].corpusSeq => c[p] = corpus[p]
  BY <1>1, MergedDoes
<1> HIDE DEF c, seq, mgr, add
<1>9. mgr \in ManagerStates(seq, reproSeq)
  BY <1>6, <1>8
<1>10. /\ out.maxSeq \in 0 .. seq
       /\ out.progs \in SUBSET Progs /\ out.skipped \in SUBSET Progs
       /\ \A p \in Pending(m, c, mgr) : c[p] <= out.maxSeq => p \in out.progs \cup out.skipped
  BY <1>2, <1>8, <1>9, PendingDoes
<1> DEFINE end == reproSeq + Cardinality(done)
           k == end + 1
           db == Numbered(done, order)
           stored == storedAt(out.maxSeq, done)
           rs == stored.reproSeq + ahead
           g == [stored EXCEPT !.reproSeq = rs]
           ms == [mgrs EXCEPT ![m] = g]
<1>11. /\ end \in Nat /\ end >= reproSeq /\ db \in [Repros -> 0 .. end]
       /\ \A r \in Repros : reproDB[r] # 0 => db[r] = reproDB[r]
  BY <1>3, <1>4, NumberedDoes
<1>12. /\ stored \in ManagerStates(seq, end) /\ stored.reproSeq >= mgr.reproSeq
       /\ stored.known = mgr.known /\ stored.corpusSeq = out.maxSeq
  BY <1>4, <1>5, <1>8, <1>9, <1>10, WithReprosDoes
<1>13. Reload(c, ms, db)
  BY <1>3
<1> HIDE DEF end, db, stored
<1>14. /\ k \in Nat /\ db \in [Repros -> 0 .. k] /\ rs \in 0 .. k /\ rs >= mgrs[m].reproSeq
       /\ ManagerStates(seq, end) \subseteq ManagerStates(seq, k)
       /\ ManagerStates(seq, reproSeq) \subseteq ManagerStates(seq, k)
  <2>1. k \in Nat /\ 0 .. end \subseteq 0 .. k /\ 0 .. reproSeq \subseteq 0 .. k
    BY <1>5, <1>11
  <2>2. stored.reproSeq \in 0 .. end /\ mgr.reproSeq \in 0 .. reproSeq
    BY <1>6, <1>12 DEF ManagerStates
  <2>3. rs \in 0 .. k /\ rs >= mgrs[m].reproSeq
    BY <1>2, <1>5, <1>6, <1>11, <1>12, <2>2
  <2>4. /\ ManagerStates(seq, end) \subseteq ManagerStates(seq, k)
        /\ ManagerStates(seq, reproSeq) \subseteq ManagerStates(seq, k)
    BY <2>1 DEF ManagerStates
  <2> QED
    BY <1>11, <2>1, <2>3, <2>4
<1> HIDE DEF rs, k
<1>15. /\ g \in ManagerStates(seq, k) /\ g.known = mgrs[m].known
       /\ g.corpusSeq = out.maxSeq /\ g.reproSeq = rs
  <2>1. stored \in ManagerStates(seq, k)
    BY <1>12, <1>14
  <2> QED
    BY <1>6, <1>12, <1>14, <2>1 DEF ManagerStates
<1> HIDE DEF g
<1>16. /\ ms \in [Mgrs -> ManagerStates(seq, k)] /\ ms[m] = g
       /\ \A j \in Mgrs \ {m} : ms[j] = mgrs[j]
  BY <1>5, <1>8, <1>14, <1>15
<1> HIDE DEF ms
<1>17. /\ \A j \in Mgrs : ~ms[j].known => ms[j] = Unknown
       /\ \A j \in Mgrs : ms[j].reproSeq >= mgrs[j].reproSeq
  <2>1. \A j \in Mgrs : mgrs[j].reproSeq >= mgrs[j].reproSeq
    BY <1>5
  <2> QED
    BY <1>5, <1>7, <1>14, <1>15, <1>16, <2>1
<1>18. /\ received' \in [Mgrs -> SUBSET Progs] /\ dropped' \in [Mgrs -> SUBSET Progs]
       /\ owned' \in [Mgrs -> SUBSET Progs]
       /\ \A j \in Mgrs : received'[j] = received[j] /\ dropped[j] \subseteq dropped'[j]
                          /\ owned[j] \subseteq owned'[j]
       /\ out.progs \cup out.skipped \subseteq dropped'[m] /\ add \subseteq owned'[m]
  BY <1>1, <1>2, <1>4, <1>10, HubFacts
<1>19. ASSUME NEW j \in Mgrs, NEW p \in Progs \cap Supports[j], c[p] # 0,
              c[p] <= ms[j].corpusSeq
       PROVE  p \in Got(j)'
  <2>1. ASSUME c[p] <= mgrs[j].corpusSeq PROVE p \in Got(j)'
    <3>1. c[p] = corpus[p]
      BY <1>8, <1>19, <2>1
    <3>2. p \in Got(j)
      BY <1>19, <2>1, <3>1 DEF HubSide
    <3> QED
      BY <1>18, <3>2 DEF Got
  <2>2. CASE j # m
    BY <1>16, <1>19, <2>1, <2>2
  <2>3. CASE j = m /\ p \in mgr.corpus
    BY <1>5, <1>6, <1>18, <2>3 DEF Got
  <2>4. CASE j = m /\ p \notin mgr.corpus /\ ~(c[p] <= mgrs[m].corpusSeq)
    <3>1. mgrs[m].corpusSeq \in 0 .. corpusSeq /\ c[p] \in 0 .. seq
      BY <1>5, <1>8 DEF ManagerStates
    <3>2. p \in Pending(m, c, mgr)
      BY <1>5, <1>6, <1>8, <1>19, <2>4, <3>1 DEF Pending, Present
    <3>3. c[p] <= out.maxSeq
      BY <1>15, <1>16, <1>19, <2>4
    <3> QED
      BY <1>10, <1>18, <2>4, <3>2, <3>3 DEF Got
  <2> QED
    BY <2>1, <2>2, <2>3, <2>4
<1> QED
  BY <1>1, <1>8, <1>11, <1>13, <1>14, <1>16, <1>17, <1>18, <1>19, ReloadKeeps, ZenonT(60)

\* Hub.Sync.
LEMMA SyncKeeps ==
  ASSUME HubSide, NEW m \in Mgrs, con[m] \in ConnectorStates, NEW lost \in BOOLEAN,
         Sync(m, lost)
  PROVE  /\ HubSide'
         /\ \A j \in Mgrs \ {m} : mgrs'[j] = mgrs[j]
         /\ mgrs'[m].corpus = (mgrs[m].corpus \ con[m].del) \cup con[m].add
         /\ \E progs, more :
              con' = [con EXCEPT ![m] = IF lost THEN RoundOver(con[m], FALSE)
                                        ELSE Replied(con[m], progs, more)]
<1> DEFINE add == con[m].add
           del == con[m].del
           need == con[m].needRepros
           kept == Kept(m)
           c0 == Purged(m)
           c == Merged(m)
           seq == NextSeq(add)
           mgr == With(m)[m]
           new == NewRepros(m)
           end == reproSeq + Cardinality(new)
           dbOf(order) == Numbered(new, order)
           servedAt(k) == WithRepros([mgr EXCEPT !.corpusSeq = k], new)
<1>1. /\ mgrs[m].connected /\ corpus' = c /\ corpusSeq' = seq /\ reproSeq' = end
      /\ owned' = [owned EXCEPT ![m] = @ \cup add]
  BY DEF Sync
<1>2. PICK out \in pendingInputs(m, c, seq, mgr),
           order \in Bijection(new, 1 .. Cardinality(new)) :
        LET db == dbOf(order)
            served == servedAt(out.maxSeq)
            next == NextRepro(m, served, db)
        IN /\ reproDB' = db
           /\ mgrs' = [mgrs EXCEPT ![m] = IF need THEN AfterRepro(served, next, db, end)
                                          ELSE served]
           /\ reproSent' = [reproSent EXCEPT ![m] = IF need THEN @ \cup next ELSE @]
           /\ received' = [received EXCEPT ![m] = IF lost THEN @ ELSE @ \cup out.progs]
           /\ dropped' = [dropped EXCEPT ![m] =
                            @ \cup out.skipped \cup (IF lost THEN out.progs ELSE {})]
           /\ con' = [con EXCEPT ![m] =
                        IF lost THEN RoundOver(@, FALSE) ELSE Replied(@, out.progs, out.more)]
  <2>1. \E out \in pendingInputs(m, c, seq, mgr),
           order \in Bijection(new, 1 .. Cardinality(new)) :
          LET db == dbOf(order)
              served == servedAt(out.maxSeq)
              next == NextRepro(m, served, db)
          IN /\ reproDB' = db
             /\ mgrs' = [mgrs EXCEPT ![m] = IF need THEN AfterRepro(served, next, db, end)
                                            ELSE served]
             /\ reproSent' = [reproSent EXCEPT ![m] = IF need THEN @ \cup next ELSE @]
             /\ received' = [received EXCEPT ![m] = IF lost THEN @ ELSE @ \cup out.progs]
             /\ dropped' = [dropped EXCEPT ![m] =
                              @ \cup out.skipped \cup (IF lost THEN out.progs ELSE {})]
             /\ con' = [con EXCEPT ![m] =
                          IF lost THEN RoundOver(@, FALSE) ELSE Replied(@, out.progs, out.more)]
    BY DEF Sync
  <2> HIDE DEF c, seq, mgr, new, end, dbOf, servedAt
  <2> QED
    BY <2>1
<1>3. /\ add \in SUBSET Progs /\ del \in SUBSET Progs /\ new \in SUBSET Repros
      /\ \A r \in new : reproDB[r] = 0
  BY DEF ConnectorStates, NewRepros
<1>4. Cardinality(new) \in Nat
  BY <1>3, HubAssumption, FS_Subset, FS_CardinalityType
<1>5. /\ corpusSeq \in Nat /\ corpus \in [Progs -> 0 .. corpusSeq] /\ reproSeq \in Nat
      /\ reproDB \in [Repros -> 0 .. reproSeq]
      /\ mgrs \in [Mgrs -> ManagerStates(corpusSeq, reproSeq)]
      /\ received \in [Mgrs -> SUBSET Progs] /\ dropped \in [Mgrs -> SUBSET Progs]
      /\ owned \in [Mgrs -> SUBSET Progs] /\ reproSent \in [Mgrs -> SUBSET Repros]
  BY HubFacts
<1>6. mgrs[m].corpus \in SUBSET Progs /\ mgrs[m].known
  BY <1>1, HubFacts DEF ManagerStates, Unknown
<1> HIDE DEF add, del, new, need
<1> DEFINE S == (mgrs[m].corpus \ del) \cup add
<1>7. /\ kept[m].corpus = mgrs[m].corpus \ del
      /\ \A j \in Mgrs \ {m} : kept[j] = mgrs[j]
  BY <1>1, KeptDoes DEF del
<1>8. /\ mgr \in ManagerStates(corpusSeq, reproSeq) /\ mgr.corpus = S
      /\ mgr.known = mgrs[m].known /\ mgr.connected = mgrs[m].connected
      /\ mgr.corpusSeq = mgrs[m].corpusSeq /\ mgr.reproSeq = mgrs[m].reproSeq
  BY <1>1, WithDoes DEF add, del
<1>9. /\ c0 \in [Progs -> 0 .. corpusSeq]
      /\ \A p \in Progs : /\ c0[p] # 0 => c0[p] = corpus[p] /\ \E j \in Mgrs : p \in kept[j].corpus
                          /\ (\E j \in Mgrs : p \in kept[j].corpus) => c0[p] = corpus[p]
  BY <1>1, PurgedDoes
<1>10. /\ seq \in Nat /\ seq >= corpusSeq /\ c \in [Progs -> 0 .. seq]
       /\ \A p \in Progs : /\ c0[p] # 0 => c[p] = c0[p]
                           /\ c0[p] = 0 /\ p \notin add => c[p] = 0
                           /\ c0[p] = 0 /\ p \in add => c[p] = corpusSeq + 1
  BY <1>1, MergedDoes DEF add
<1>11. \A j \in Mgrs, p \in Progs : c[p] # 0 /\ c[p] <= mgrs[j].corpusSeq => c[p] = corpus[p]
  BY <1>1, MergedDoes DEF add
<1>12. ManagerStates(corpusSeq, reproSeq) \subseteq ManagerStates(seq, reproSeq)
  BY <1>1, MergedDoes DEF add
<1> HIDE DEF kept, mgr, c0, c, seq
<1>13. /\ out.maxSeq \in 0 .. seq
       /\ out.progs \in SUBSET Progs /\ out.skipped \in SUBSET Progs
       /\ \A p \in Pending(m, c, mgr) : c[p] <= out.maxSeq => p \in out.progs \cup out.skipped
  <2>1. mgr \in ManagerStates(seq, reproSeq)
    BY <1>8, <1>12
  <2> QED
    BY <1>2, <1>10, <2>1, PendingDoes
<1> DEFINE db == dbOf(order)
           served == servedAt(out.maxSeq)
           next == NextRepro(m, served, db)
           g == IF need THEN AfterRepro(served, next, db, end) ELSE served
           sent == IF need THEN reproSent[m] \cup next ELSE reproSent[m]
<1>14. /\ end \in Nat /\ end >= reproSeq /\ db \in [Repros -> 0 .. end]
       /\ \A r \in Repros : reproDB[r] # 0 => db[r] = reproDB[r]
  BY <1>2, <1>3, NumberedDoes
<1>15. /\ served \in ManagerStates(seq, end) /\ served.reproSeq >= mgr.reproSeq
       /\ served.known = mgr.known /\ served.connected = mgr.connected
       /\ served.corpus = mgr.corpus /\ served.corpusSeq = out.maxSeq
  <2>1. mgr \in ManagerStates(seq, reproSeq)
    BY <1>8, <1>12
  <2> QED
    BY <1>3, <1>4, <1>5, <1>10, <1>13, <2>1, WithReprosDoes, ZenonT(60)
<1>16. /\ reproDB' = db /\ mgrs' = [mgrs EXCEPT ![m] = g]
       /\ reproSent' = [reproSent EXCEPT ![m] = sent]
       /\ received' = [received EXCEPT ![m] = IF lost THEN received[m] ELSE received[m] \cup out.progs]
       /\ dropped' = [dropped EXCEPT ![m] =
                        dropped[m] \cup out.skipped \cup (IF lost THEN out.progs ELSE {})]
  BY <1>2
<1> HIDE DEF served, db, end
<1>17. /\ g \in ManagerStates(seq, end) /\ g.reproSeq >= mgr.reproSeq
       /\ g.known = mgr.known /\ g.connected = mgr.connected /\ g.corpus = mgr.corpus
       /\ g.corpusSeq = out.maxSeq
       /\ sent \in SUBSET Repros
       /\ \A r \in sent : r \in reproSent[m] \/ (db[r] # 0 /\ db[r] <= g.reproSeq)
  <2>1. CASE ~need
    BY <1>5, <1>15, <2>1
  <2>2. CASE need
    <3> DEFINE h == AfterRepro(served, next, db, end)
    <3>1. /\ h \in ManagerStates(seq, end) /\ h.reproSeq >= served.reproSeq
          /\ h.known = served.known /\ h.connected = served.connected /\ h.corpus = served.corpus
          /\ h.corpusSeq = served.corpusSeq
          /\ next \in SUBSET Repros
          /\ \A r \in next : db[r] # 0 /\ db[r] <= h.reproSeq
      BY <1>10, <1>14, <1>15, AfterReproDoes
    <3>2. g = h /\ sent = reproSent[m] \cup next
      BY <2>2
    <3>3. /\ h.reproSeq \in 0 .. end /\ served.reproSeq \in 0 .. end
          /\ mgr.reproSeq \in 0 .. reproSeq
      BY <1>8, <1>15, <3>1 DEF ManagerStates
    <3> HIDE DEF next, h, g, sent
    <3>4. h.reproSeq >= mgr.reproSeq
      BY <1>5, <1>14, <1>15, <3>1, <3>3
    <3> QED
      BY <1>5, <1>15, <3>1, <3>2, <3>4
  <2> QED
    BY <2>1, <2>2
<1> HIDE DEF g, sent, next
<1>18. /\ mgrs'[m] = g /\ \A j \in Mgrs \ {m} : mgrs'[j] = mgrs[j]
       /\ g.corpus = S /\ g.connected /\ g.known
  BY <1>1, <1>5, <1>6, <1>8, <1>16, <1>17
<1>19. /\ received' \in [Mgrs -> SUBSET Progs] /\ dropped' \in [Mgrs -> SUBSET Progs]
       /\ owned' \in [Mgrs -> SUBSET Progs] /\ reproSent' \in [Mgrs -> SUBSET Repros]
       /\ \A j \in Mgrs \ {m} : /\ received'[j] = received[j] /\ dropped'[j] = dropped[j]
                                /\ owned'[j] = owned[j] /\ reproSent'[j] = reproSent[j]
       /\ received[m] \subseteq received'[m] /\ dropped[m] \subseteq dropped'[m]
       /\ owned'[m] = owned[m] \cup add /\ reproSent'[m] = sent
       /\ out.progs \cup out.skipped \subseteq received'[m] \cup dropped'[m]
  <2>1. /\ owned' \in [Mgrs -> SUBSET Progs] /\ reproSent' \in [Mgrs -> SUBSET Repros]
        /\ \A j \in Mgrs \ {m} : owned'[j] = owned[j] /\ reproSent'[j] = reproSent[j]
        /\ owned'[m] = owned[m] \cup add /\ reproSent'[m] = sent
    BY <1>1, <1>3, <1>5, <1>16, <1>17
  <2>2. CASE lost
    BY <1>5, <1>13, <1>16, <2>1, <2>2
  <2>3. CASE ~lost
    BY <1>5, <1>13, <1>16, <2>1, <2>3
  <2> QED
    BY <2>2, <2>3
<1>20. HubTypeOK'
  <2>1. mgrs' \in [Mgrs -> ManagerStates(seq, end)]
    <3>1. ManagerStates(seq, reproSeq) \subseteq ManagerStates(seq, end)
      <4>1. 0 .. reproSeq \subseteq 0 .. end
        BY <1>5, <1>14
      <4> QED
        BY <4>1 DEF ManagerStates
    <3>2. mgrs \in [Mgrs -> ManagerStates(seq, end)]
      BY <1>5, <1>12, <3>1
    <3> QED
      BY <1>16, <1>17, <3>2
  <2>2. corpusSeq' = seq /\ reproSeq' = end /\ corpus' = c /\ reproDB' = db
    BY <1>1, <1>16 DEF end
  <2> QED
    BY <1>10, <1>14, <1>19, <2>1, <2>2 DEF HubTypeOK
<1>21. StoredIsShared'
  <2>0. corpus' = c
    BY <1>1
  <2>1. ASSUME NEW p \in Progs, c[p] # 0 PROVE \E j \in Mgrs : p \in mgrs'[j].corpus
    <3>1. CASE c0[p] # 0
      <4>1. PICK j \in Mgrs : p \in kept[j].corpus
        BY <1>9, <3>1
      <4> QED
        BY <1>7, <1>18, <4>1
    <3>2. CASE c0[p] = 0
      <4>1. p \in add
        BY <1>10, <2>1, <3>2
      <4> QED
        BY <1>18, <4>1
    <3> QED
      BY <3>1, <3>2
  <2>2. ASSUME NEW j \in Mgrs, mgrs'[j].connected, NEW p \in mgrs'[j].corpus PROVE c[p] # 0
    <3>1. CASE p \in Progs /\ p \in add
      <4>1. c[p] = c0[p] \/ c[p] = corpusSeq + 1
        BY <1>10, <3>1
      <4>2. corpusSeq + 1 # 0
        BY <1>5
      <4> QED
        BY <1>10, <3>1, <4>1, <4>2
    <3>2. CASE p \in kept[j].corpus /\ mgrs[j].connected /\ p \in mgrs[j].corpus
      <4>1. corpus[p] # 0 /\ p \in Progs
        BY <1>5, <3>2 DEF HubSide, StoredIsShared, ManagerStates
      <4> QED
        BY <1>9, <1>10, <3>2, <4>1
    <3>3. CASE j = m
      <4>1. p \in (mgrs[m].corpus \ del) \cup add
        BY <1>18, <2>2, <3>3
      <4> QED
        BY <1>1, <1>3, <1>7, <3>1, <3>2, <3>3, <4>1
    <3>4. CASE j # m
      <4>1. mgrs'[j] = mgrs[j] /\ kept[j] = mgrs[j]
        BY <1>7, <1>18, <3>4
      <4> QED
        BY <2>2, <3>2, <4>1
    <3> QED
      BY <3>3, <3>4
  <2> QED
    BY <2>0, <2>1, <2>2 DEF StoredIsShared
<1>22. UnknownIsBlank'
  BY <1>18, HubFacts DEF UnknownIsBlank
<1>23. CorpusIsOwned'
  <2>1. mgrs[m].corpus \subseteq owned[m] /\ \A j \in Mgrs : mgrs[j].connected => mgrs[j].corpus \subseteq owned[j]
    BY <1>1 DEF HubSide, CorpusIsOwned
  <2> QED
    BY <1>18, <1>19, <2>1 DEF CorpusIsOwned
<1>24. ASSUME NEW j \in Mgrs, NEW p \in Progs \cap Supports[j], c[p] # 0,
              c[p] <= mgrs'[j].corpusSeq
       PROVE  p \in Got(j)'
  <2>1. ASSUME c[p] <= mgrs[j].corpusSeq PROVE p \in Got(j)'
    <3>1. c[p] = corpus[p]
      BY <1>11, <1>24, <2>1
    <3>2. p \in Got(j)
      BY <1>24, <2>1, <3>1 DEF HubSide
    <3> QED
      BY <1>19, <3>2 DEF Got
  <2>2. CASE j # m
    BY <1>18, <1>24, <2>1, <2>2
  <2>3. CASE j = m /\ p \in S
    <3>1. mgrs[m].corpus \subseteq owned[m]
      BY <1>1 DEF HubSide, CorpusIsOwned
    <3> QED
      BY <1>19, <2>3, <3>1 DEF Got
  <2>4. CASE j = m /\ p \notin S /\ ~(c[p] <= mgrs[m].corpusSeq)
    <3>1. mgrs[m].corpusSeq \in 0 .. corpusSeq /\ c[p] \in 0 .. seq
      BY <1>5, <1>10 DEF ManagerStates
    <3>2. p \in Pending(m, c, mgr)
      BY <1>5, <1>8, <1>10, <1>24, <2>4, <3>1 DEF Pending, Present
    <3>3. c[p] <= out.maxSeq
      BY <1>17, <1>18, <1>24, <2>4
    <3>4. p \in out.progs \cup out.skipped
      BY <1>13, <3>2, <3>3
    <3> QED
      BY <1>19, <2>4, <3>4 DEF Got
  <2> QED
    BY <2>1, <2>2, <2>3, <2>4
<1>25. ASSUME NEW j \in Mgrs, NEW r \in reproSent'[j]
       PROVE  db[r] # 0 /\ db[r] <= mgrs'[j].reproSeq
  <2>1. ASSUME r \in reproSent[j] PROVE db[r] # 0 /\ db[r] <= mgrs[j].reproSeq
    <3>1. reproDB[r] # 0 /\ reproDB[r] <= mgrs[j].reproSeq /\ r \in Repros
      BY <1>5, <2>1 DEF HubSide
    <3> QED
      BY <1>14, <3>1
  <2>2. CASE j # m
    BY <1>18, <1>19, <2>1, <2>2
  <2>3. CASE j = m /\ r \in reproSent[m]
    <3>1. mgrs[m].reproSeq \in 0 .. reproSeq /\ g.reproSeq \in 0 .. end /\ g.reproSeq >= mgrs[m].reproSeq
      BY <1>5, <1>8, <1>17 DEF ManagerStates
    <3>2. db[r] # 0 /\ db[r] <= mgrs[m].reproSeq /\ db[r] \in 0 .. end
      BY <1>5, <1>14, <2>1, <2>3
    <3> QED
      BY <1>5, <1>14, <1>18, <2>3, <3>1, <3>2
  <2>4. CASE j = m /\ r \notin reproSent[m]
    BY <1>17, <1>18, <1>19, <1>25, <2>4
  <2> QED
    BY <2>2, <2>3, <2>4
<1>26. HubSide'
  <2>1. \A j \in Mgrs : \A p \in Progs \cap Supports[j] :
          corpus'[p] # 0 /\ corpus'[p] <= mgrs'[j].corpusSeq => p \in Got(j)'
    BY <1>1, <1>24
  <2>2. \A j \in Mgrs : \A r \in reproSent'[j] :
          reproDB'[r] # 0 /\ reproDB'[r] <= mgrs'[j].reproSeq
    BY <1>16, <1>25
  <2> QED
    BY <1>20, <1>21, <1>22, <1>23, <2>1, <2>2 DEF HubSide
<1>27. con' = [con EXCEPT ![m] = IF lost THEN RoundOver(con[m], FALSE)
                                   ELSE Replied(con[m], out.progs, out.more)]
  BY <1>2
<1> QED
  BY <1>18, <1>26, <1>27 DEF add, del

-----------------------------------------------------------------------------
(***************************************************************************)
(* The connectors' side of the invariant.                                  *)
(***************************************************************************)

\* A connector and what the hub has stored of its manager.
Agrees(c, mgr) ==
  /\ c.st = "sync" /\ mgr.connected =>
       (mgr.corpus \ c.del) \cup c.add = c.hubCorpus \ c.cut
  /\ c.st = "sleep" /\ c.hub /\ mgr.connected => mgr.corpus = c.hubCorpus \ c.cut

ConnectorSide ==
  /\ con \in [Mgrs -> ConnectorStates]
  /\ minimized \in [Mgrs -> SUBSET Progs] /\ found \in [Mgrs -> SUBSET Repros]
  /\ \A m \in Mgrs : con[m].cut \subseteq con[m].hubCorpus /\ Agrees(con[m], mgrs[m])

LEMMA RoundOverDoes ==
  ASSUME NEW c \in ConnectorStates, NEW ok \in BOOLEAN
  PROVE  /\ RoundOver(c, ok) \in ConnectorStates
         /\ RoundOver(c, ok).st = "sleep" /\ RoundOver(c, ok).hub = ok
         /\ RoundOver(c, ok).hubCorpus = c.hubCorpus /\ RoundOver(c, ok).cut = c.cut
<1>1. c.query \in 0 .. maxAttempts /\ maxAttempts \in Nat /\ c.doneOnce \in BOOLEAN
      /\ c.unreachable \in BOOLEAN
  BY HubAssumption DEF ConnectorStates
<1>2. PICK q \in 0 .. maxAttempts, d \in BOOLEAN, u \in BOOLEAN :
        /\ q = IF ok \/ c.doneOnce THEN 0 ELSE Min({c.query + 1, maxAttempts})
        /\ d = (c.doneOnce \/ ok)
        /\ u = (c.unreachable \/ (~ok /\ c.query + 1 >= maxAttempts /\ ~c.doneOnce))
  <2> DEFINE T == {c.query + 1, maxAttempts}
  <2>1. T \in SUBSET Nat /\ T # {}
    BY <1>1
  <2>2. Min(T) \in T /\ \A k \in T : Min(T) <= k
    BY <2>1, MinIs
  <2>3. Min(T) \in 0 .. maxAttempts
    BY <1>1, <2>2
  <2>4. (IF ok \/ c.doneOnce THEN 0 ELSE Min(T)) \in 0 .. maxAttempts
    <3> HIDE DEF T
    <3> QED
      BY <1>1, <2>3
  <2> HIDE DEF T
  <2>5. (c.doneOnce \/ ok) \in BOOLEAN
        /\ (c.unreachable \/ (~ok /\ c.query + 1 >= maxAttempts /\ ~c.doneOnce)) \in BOOLEAN
    OBVIOUS
  <2> QED
    BY <2>4, <2>5 DEF T
<1> DEFINE r == [c EXCEPT !.st = "sleep", !.hub = ok, !.doneOnce = d, !.query = q,
                          !.unreachable = u, !.corpus = {}, !.add = {}, !.del = {},
                          !.needRepros = FALSE]
<1>3. RoundOver(c, ok) = r
  BY <1>2 DEF RoundOver, ConnectorStates
<1>4. /\ r \in ConnectorStates /\ r.st = "sleep" /\ r.hub = ok
      /\ r.hubCorpus = c.hubCorpus /\ r.cut = c.cut
  BY <1>2, ZenonT(60) DEF ConnectorStates
<1> HIDE DEF r
<1> QED
  BY <1>3, <1>4

\* One connector moves, and at most what the hub has of its manager changes.
LEMMA ConnectorMoves ==
  ASSUME ConnectorSide, NEW m \in Mgrs, NEW c \in ConnectorStates,
         con' = [con EXCEPT ![m] = c], minimized' = minimized,
         found' \in [Mgrs -> SUBSET Repros],
         \A j \in Mgrs \ {m} : mgrs'[j] = mgrs[j] \/ ~mgrs'[j].connected,
         c.cut \subseteq c.hubCorpus, Agrees(c, mgrs'[m])
  PROVE  ConnectorSide'
<1>1. /\ con' \in [Mgrs -> ConnectorStates] /\ con'[m] = c
      /\ \A j \in Mgrs \ {m} : con'[j] = con[j]
  BY DEF ConnectorSide
<1>2. ASSUME NEW j \in Mgrs
      PROVE  con'[j].cut \subseteq con'[j].hubCorpus /\ Agrees(con'[j], mgrs'[j])
  <2>1. CASE j = m
    BY <1>1, <2>1
  <2>2. CASE j # m /\ mgrs'[j] = mgrs[j]
    BY <1>1, <2>2 DEF ConnectorSide
  <2>3. CASE j # m /\ ~mgrs'[j].connected
    BY <1>1, <2>3 DEF ConnectorSide, Agrees
  <2> QED
    BY <2>1, <2>2, <2>3
<1> QED
  BY <1>1, <1>2 DEF ConnectorSide

\* A round that failed: the connector has to connect again.
LEMMA FailedRound ==
  ASSUME ConnectorSide, NEW m \in Mgrs, con' = [con EXCEPT ![m] = RoundOver(con[m], FALSE)],
         minimized' = minimized, found' = found,
         \A j \in Mgrs \ {m} : mgrs'[j] = mgrs[j] \/ ~mgrs'[j].connected
  PROVE  ConnectorSide'
<1> DEFINE c == RoundOver(con[m], FALSE)
<1>1. /\ con[m] \in ConnectorStates /\ found \in [Mgrs -> SUBSET Repros]
      /\ con[m].cut \subseteq con[m].hubCorpus
  BY DEF ConnectorSide
<1>2. /\ c \in ConnectorStates /\ c.st = "sleep" /\ c.hub = FALSE
      /\ c.cut \subseteq c.hubCorpus
  BY <1>1, RoundOverDoes
<1> HIDE DEF c
<1>3. con' = [con EXCEPT ![m] = c]
  BY DEF c
<1>4. Agrees(c, mgrs'[m])
  BY <1>2 DEF Agrees
<1> QED
  BY <1>1, <1>2, <1>3, <1>4, ConnectorMoves

LEMMA WakeKeeps ==
  ASSUME ConnectorSide, NEW m \in Mgrs, Wake(m)
  PROVE  ConnectorSide'
<1> DEFINE c == [con[m] EXCEPT !.newRepros = @ \cup found[m]]
<1>1. /\ con[m] \in ConnectorStates /\ con[m].st = "sleep" /\ Agrees(con[m], mgrs[m])
      /\ con[m].cut \subseteq con[m].hubCorpus
      /\ mgrs' = mgrs /\ minimized' = minimized /\ found' = [found EXCEPT ![m] = {}]
      /\ minimized[m] \in SUBSET Progs /\ found[m] \in SUBSET Repros
      /\ found \in [Mgrs -> SUBSET Repros]
  BY DEF ConnectorSide, Wake, hubVars
<1>2. /\ c \in ConnectorStates /\ c.st = "sleep" /\ c.hub = con[m].hub
      /\ c.hubCorpus = con[m].hubCorpus /\ c.cut = con[m].cut
  BY <1>1 DEF ConnectorStates
<1>3. \/ con' = [con EXCEPT ![m] = [c EXCEPT !.st = "connect", !.corpus = minimized[m]]]
      \/ c.hub /\ \E need \in BOOLEAN : con' = [con EXCEPT ![m] = SyncArgs(c, minimized[m], need)]
  BY DEF Wake
<1>4. found' \in [Mgrs -> SUBSET Repros]
  BY <1>1
<1> HIDE DEF c
<1>5. CASE con' = [con EXCEPT ![m] = [c EXCEPT !.st = "connect", !.corpus = minimized[m]]]
  <2> DEFINE r == [c EXCEPT !.st = "connect", !.corpus = minimized[m]]
  <2>1. /\ r \in ConnectorStates /\ r.st = "connect"
        /\ r.cut = c.cut /\ r.hubCorpus = c.hubCorpus
    BY <1>1, <1>2 DEF ConnectorStates
  <2>2. con' = [con EXCEPT ![m] = r]
    BY <1>5
  <2> HIDE DEF r
  <2>3. Agrees(r, mgrs'[m])
    BY <2>1 DEF Agrees
  <2> QED
    BY <1>1, <1>2, <1>4, <2>1, <2>2, <2>3, ConnectorMoves
<1>6. ASSUME c.hub, NEW need \in BOOLEAN, con' = [con EXCEPT ![m] = SyncArgs(c, minimized[m], need)]
      PROVE  ConnectorSide'
  <2> DEFINE r == SyncArgs(c, minimized[m], need)
  <2>1. /\ r \in ConnectorStates /\ r.st = "sync" /\ r.add = minimized[m] \ c.hubCorpus
        /\ r.del = c.hubCorpus \ minimized[m] /\ r.hubCorpus = minimized[m]
        /\ r.cut = c.cut \cap minimized[m]
    <3>1. c.hubCorpus \in SUBSET Progs /\ minimized[m] \in SUBSET Progs /\ c.cut \in SUBSET Progs
      BY <1>1, <1>2 DEF ConnectorStates
    <3>2. /\ minimized[m] \ c.hubCorpus \in SUBSET Progs
          /\ c.hubCorpus \ minimized[m] \in SUBSET Progs /\ c.cut \cap minimized[m] \in SUBSET Progs
      BY <3>1
    <3> QED
      BY <1>2, <3>1, <3>2 DEF SyncArgs, ConnectorStates
  <2>2. con' = [con EXCEPT ![m] = r]
    BY <1>6
  <2> HIDE DEF r
  <2>3. ASSUME mgrs[m].connected
        PROVE  (mgrs[m].corpus \ r.del) \cup r.add = r.hubCorpus \ r.cut
    <3>1. mgrs[m].corpus = c.hubCorpus \ c.cut /\ c.cut \subseteq c.hubCorpus
      BY <1>1, <1>2, <1>6, <2>3 DEF Agrees
    <3> QED
      BY <2>1, <3>1
  <2>4. Agrees(r, mgrs'[m])
    BY <1>1, <2>1, <2>3 DEF Agrees
  <2> QED
    BY <1>1, <1>4, <2>1, <2>2, <2>4, ConnectorMoves
<1> QED
  BY <1>3, <1>5, <1>6

LEMMA ConnectDoneKeeps ==
  ASSUME ConnectorSide, NEW m \in Mgrs, NEW inputs \in Sent(con[m].corpus), NEW need \in BOOLEAN,
         \A j \in Mgrs \ {m} : mgrs'[j] = mgrs[j], mgrs'[m].corpus = inputs,
         minimized' = minimized, found' = found,
         con' = [con EXCEPT ![m] =
                   SyncArgs([con[m] EXCEPT !.hub = TRUE, !.hubCorpus = con[m].corpus,
                                           !.cut = con[m].corpus \ inputs, !.fresh = FALSE],
                            con[m].corpus, need)]
  PROVE  ConnectorSide'
<1> DEFINE all == con[m].corpus
           rest == all \ inputs
           c == [con[m] EXCEPT !.hub = TRUE, !.hubCorpus = all, !.cut = rest, !.fresh = FALSE]
<1>1. con[m] \in ConnectorStates /\ found' \in [Mgrs -> SUBSET Repros]
  BY DEF ConnectorSide
<1>2. all \in SUBSET Progs /\ inputs \subseteq all /\ rest \in SUBSET Progs
  BY <1>1, SentDoes DEF ConnectorStates
<1> DEFINE r == SyncArgs(c, all, need)
<1>3. con' = [con EXCEPT ![m] = r]
  OBVIOUS
<1> HIDE DEF all, rest
<1>4. c \in ConnectorStates /\ c.hubCorpus = all /\ c.cut = rest
  BY <1>1, <1>2 DEF ConnectorStates
<1> HIDE DEF c
<1>5. /\ r \in ConnectorStates /\ r.st = "sync" /\ r.add = {} /\ r.del = {}
      /\ r.hubCorpus = all /\ r.cut = rest \cap all
  <2>1. all \ c.hubCorpus = {} /\ c.hubCorpus \ all = {} /\ rest \cap all \in SUBSET Progs
    BY <1>2, <1>4
  <2> QED
    BY <1>2, <1>4, <2>1 DEF SyncArgs, ConnectorStates
<1> HIDE DEF r
<1>6. (mgrs'[m].corpus \ r.del) \cup r.add = r.hubCorpus \ r.cut /\ r.cut \subseteq r.hubCorpus
  BY <1>2, <1>5 DEF rest
<1>7. Agrees(r, mgrs'[m])
  BY <1>5, <1>6 DEF Agrees
<1> QED
  BY <1>1, <1>3, <1>5, <1>6, <1>7, ConnectorMoves

LEMMA SyncDoneKeeps ==
  ASSUME ConnectorSide, NEW m \in Mgrs, SyncDone(m),
         \A j \in Mgrs \ {m} : mgrs'[j] = mgrs[j],
         mgrs'[m].corpus = (mgrs[m].corpus \ con[m].del) \cup con[m].add,
         NEW progs, NEW more, con' = [con EXCEPT ![m] = Replied(con[m], progs, more)]
  PROVE  ConnectorSide'
<1>1. /\ con[m] \in ConnectorStates /\ found' \in [Mgrs -> SUBSET Repros]
      /\ minimized' = minimized /\ Agrees(con[m], mgrs[m])
      /\ con[m].cut \subseteq con[m].hubCorpus
  BY DEF ConnectorSide, SyncDone
<1>2. con[m].st = "sync" /\ mgrs[m].connected
  BY DEF SyncDone, Sync
<1>4. mgrs'[m].corpus = con[m].hubCorpus \ con[m].cut
  BY <1>1, <1>2 DEF Agrees
<1> DEFINE d == [con[m] EXCEPT !.add = {}, !.del = {}, !.newRepros = {}, !.needRepros = FALSE]
           r == Replied(con[m], progs, more)
<1>5. /\ d \in ConnectorStates /\ d.st = "sync" /\ d.add = {} /\ d.del = {}
      /\ d.hubCorpus = con[m].hubCorpus /\ d.cut = con[m].cut
  BY <1>1, <1>2 DEF ConnectorStates
<1>6. r = RoundOver(d, TRUE) \/ r = d
  BY DEF Replied
<1>7. con' = [con EXCEPT ![m] = r]
  OBVIOUS
<1> HIDE DEF d, r
<1>8. CASE r = d
  <2>1. Agrees(r, mgrs'[m])
    BY <1>4, <1>5, <1>8 DEF Agrees
  <2> QED
    BY <1>1, <1>5, <1>7, <1>8, <2>1, ConnectorMoves
<1>9. CASE r = RoundOver(d, TRUE)
  <2>1. /\ r \in ConnectorStates /\ r.st = "sleep"
        /\ r.hubCorpus = d.hubCorpus /\ r.cut = d.cut
    BY <1>5, <1>9, RoundOverDoes
  <2>2. Agrees(r, mgrs'[m])
    BY <1>4, <1>5, <2>1 DEF Agrees
  <2> QED
    BY <1>1, <1>5, <1>7, <2>1, <2>2, ConnectorMoves
<1> QED
  BY <1>6, <1>8, <1>9

-----------------------------------------------------------------------------
(***************************************************************************)
(* The theorems.                                                           *)
(***************************************************************************)

\* The invariant in two parts: what the hub's state says alone, and what relates
\* it to the connectors.
LEMMA TwoSides == HubInv <=> HubSide /\ ConnectorSide
<1>1. ASSUME HubTypeOK
      PROVE  /\ Present(corpus) = {p \in Progs : corpus[p] # 0}
             /\ Present(reproDB) = {r \in Repros : reproDB[r] # 0}
             /\ \A m \in Mgrs : mgrs[m].corpus \subseteq Progs /\ reproSent[m] \subseteq Repros
  BY <1>1 DEF HubTypeOK, Present, ManagerStates
<1>2. ASSUME HubInv PROVE HubSide
  <2>1. HubTypeOK /\ CorpusShared /\ UnknownIsBlank /\ CorpusIsOwned
    BY <1>2 DEF HubInv, CorpusShared, TypeOK
  <2>2. StoredIsShared
    BY <1>1, <2>1 DEF CorpusShared, StoredIsShared
  <2>3. \A m \in Mgrs : \A p \in Progs \cap Supports[m] :
          corpus[p] # 0 /\ corpus[p] <= mgrs[m].corpusSeq => p \in Got(m)
    BY <1>1, <1>2, <2>1 DEF HubInv, ServedAll, Got
  <2>4. \A m \in Mgrs : \A r \in reproSent[m] : reproDB[r] # 0 /\ reproDB[r] <= mgrs[m].reproSeq
    BY <1>1, <1>2, <2>1 DEF HubInv, SentIsPresent, ReproAtMostOnce
  <2> QED
    BY <2>1, <2>2, <2>3, <2>4 DEF HubSide
<1>3. ASSUME HubInv PROVE ConnectorSide
  <2>1. \A m \in Mgrs : con[m].cut \subseteq con[m].hubCorpus /\ Agrees(con[m], mgrs[m])
    BY <1>3 DEF HubInv, SyncAgrees, ConnectorAgrees, CutIsCounted, Agrees
  <2> QED
    BY <1>3, <2>1 DEF HubInv, CorpusShared, TypeOK, ConnectorSide
<1>4. ASSUME HubSide, ConnectorSide PROVE HubInv
  <2>1. HubTypeOK /\ StoredIsShared /\ UnknownIsBlank /\ CorpusIsOwned /\ TypeOK
    BY <1>4 DEF HubSide, ConnectorSide, TypeOK
  <2>2. CorpusShared
    BY <1>1, <2>1 DEF CorpusShared, StoredIsShared
  <2>3. ServedAll
    BY <1>1, <1>4, <2>1 DEF ServedAll, HubSide, Got
  <2>4. SyncAgrees /\ ConnectorAgrees /\ CutIsCounted
    BY <1>4 DEF SyncAgrees, ConnectorAgrees, CutIsCounted, ConnectorSide, Agrees
  <2>5. SentIsPresent /\ ReproAtMostOnce
    BY <1>1, <1>4, <2>1 DEF SentIsPresent, ReproAtMostOnce, HubSide
  <2> QED
    BY <2>1, <2>2, <2>3, <2>4, <2>5 DEF HubInv
<1> QED
  BY <1>2, <1>3, <1>4

LEMMA StartedDoes ==
  ASSUME NEW fresh \in BOOLEAN
  PROVE  /\ Started(fresh) \in ConnectorStates
         /\ Started(fresh).st = "sleep" /\ Started(fresh).hub = FALSE
         /\ Started(fresh).cut = {}
BY HubAssumption DEF Started, ConnectorStates

LEMMA InitHubInv ==
  ASSUME Init
  PROVE  HubSide /\ ConnectorSide
<1>1. Unknown \in ManagerStates(0, 0) /\ Unknown.corpus = {} /\ ~Unknown.connected
  BY DEF Unknown, ManagerStates
<1>2. HubTypeOK
  BY <1>1 DEF Init, HubTypeOK
<1>3. \A m \in Mgrs : mgrs[m] = Unknown /\ reproSent[m] = {}
  BY DEF Init
<1>4. HubSide
  BY <1>1, <1>2, <1>3 DEF Init, HubSide, StoredIsShared, UnknownIsBlank, CorpusIsOwned
<1>5. con \in [Mgrs -> ConnectorStates]
  BY StartedDoes DEF Init
<1>6. \A m \in Mgrs : con[m].cut \subseteq con[m].hubCorpus /\ Agrees(con[m], mgrs[m])
  BY <1>1, <1>3, StartedDoes DEF Init, Agrees
<1>7. ConnectorSide
  BY <1>5, <1>6 DEF Init, ConnectorSide
<1> QED
  BY <1>4, <1>7

\* Nothing at the hub changes, and no connector's call.
LEMMA ManagerMoves ==
  ASSUME HubSide, ConnectorSide, UNCHANGED <<hubVars, histVars, con>>,
         minimized' \in [Mgrs -> SUBSET Progs], found' \in [Mgrs -> SUBSET Repros]
  PROVE  HubSide' /\ ConnectorSide'
<1>1. HubSide'
  BY HubSideStays
<1>2. mgrs' = mgrs
  BY DEF hubVars
<1> QED
  BY <1>1, <1>2 DEF ConnectorSide

LEMMA NextHubInv ==
  ASSUME HubSide, ConnectorSide, [Next]_vars
  PROVE  HubSide' /\ ConnectorSide'
<1>0. /\ con \in [Mgrs -> ConnectorStates] /\ minimized \in [Mgrs -> SUBSET Progs]
      /\ found \in [Mgrs -> SUBSET Repros]
      /\ \A m \in Mgrs : con[m] \in ConnectorStates
  BY DEF ConnectorSide
<1>1. ASSUME NEW m \in Mgrs, ConnectorStep(m) PROVE HubSide' /\ ConnectorSide'
  <2>1. CASE Wake(m)
    <3>1. UNCHANGED <<hubVars, histVars>>
      BY <2>1 DEF Wake
    <3> QED
      BY <2>1, <3>1, HubSideStays, WakeKeeps
  <2>2. CASE Connect(m)
    <3>1. minimized' = minimized /\ found' = found /\ con[m].corpus \in SUBSET Progs
      BY <1>0, <2>2 DEF Connect, ConnectorStates
    <3>2. PICK inputs \in Sent(con[m].corpus), need \in BOOLEAN :
            /\ ServeConnect(m, inputs)
            /\ con' = [con EXCEPT ![m] =
                   SyncArgs([con[m] EXCEPT !.hub = TRUE, !.hubCorpus = con[m].corpus,
                                           !.cut = con[m].corpus \ inputs, !.fresh = FALSE],
                            con[m].corpus, need)]
      BY <2>2 DEF Connect
    <3>3. inputs \in SUBSET Progs
      BY <3>1, SentDoes
    <3>4. HubSide' /\ mgrs'[m].corpus = inputs /\ \A j \in Mgrs \ {m} : mgrs'[j] = mgrs[j]
      BY <1>0, <3>2, <3>3, ServeConnectKeeps
    <3> QED
      BY <3>1, <3>2, <3>4, ConnectDoneKeeps
  <2>3. CASE SyncRefused(m)
    <3>1. /\ UNCHANGED <<hubVars, histVars>> /\ mgrs' = mgrs /\ minimized' = minimized
          /\ found' = found /\ con' = [con EXCEPT ![m] = RoundOver(con[m], FALSE)]
      BY <2>3 DEF SyncRefused, hubVars
    <3> QED
      BY <3>1, HubSideStays, FailedRound
  <2>4. CASE SyncDone(m)
    <3>1. Sync(m, FALSE)
      BY <2>4 DEF SyncDone
    <3>2. /\ HubSide' /\ \A j \in Mgrs \ {m} : mgrs'[j] = mgrs[j]
          /\ mgrs'[m].corpus = (mgrs[m].corpus \ con[m].del) \cup con[m].add
          /\ \E progs, more : con' = [con EXCEPT ![m] = Replied(con[m], progs, more)]
      BY <1>0, <3>1, SyncKeeps, ZenonT(60)
    <3> QED
      BY <2>4, <3>2, SyncDoneKeeps
  <2> QED
    BY <1>1, <2>1, <2>2, <2>3, <2>4 DEF ConnectorStep
<1>2. ASSUME NEW m \in Mgrs, FaultStep(m) PROVE HubSide' /\ ConnectorSide'
  <2>1. CASE CallFails(m)
    <3>1. /\ UNCHANGED <<hubVars, histVars>> /\ mgrs' = mgrs /\ minimized' = minimized
          /\ found' = found /\ con' = [con EXCEPT ![m] = RoundOver(con[m], FALSE)]
      BY <2>1 DEF CallFails, hubVars
    <3> QED
      BY <3>1, HubSideStays, FailedRound
  <2>2. CASE ConnectReplyLost(m)
    <3>1. /\ minimized' = minimized /\ con[m].corpus \in SUBSET Progs
          /\ found' = found /\ con' = [con EXCEPT ![m] = RoundOver(con[m], FALSE)]
      BY <1>0, <2>2 DEF ConnectReplyLost, ConnectorStates
    <3>2. PICK inputs \in Sent(con[m].corpus) : ServeConnect(m, inputs)
      BY <2>2 DEF ConnectReplyLost
    <3>3. inputs \in SUBSET Progs
      BY <3>1, SentDoes
    <3> QED
      BY <1>0, <3>1, <3>2, <3>3, ServeConnectKeeps, FailedRound
  <2>3. CASE CrashInConnect(m)
    <3>1. /\ minimized' = minimized
          /\ found' = found /\ con' = [con EXCEPT ![m] = RoundOver(con[m], FALSE)]
      BY <2>3 DEF CrashInConnect
    <3> QED
      BY <1>0, <2>3, <3>1, CrashInConnectKeeps, FailedRound
  <2>4. CASE SyncReplyLost(m)
    <3>1. Sync(m, TRUE) /\ minimized' = minimized /\ found' = found
      BY <2>4 DEF SyncReplyLost
    <3>2. /\ HubSide' /\ \A j \in Mgrs \ {m} : mgrs'[j] = mgrs[j]
          /\ con' = [con EXCEPT ![m] = RoundOver(con[m], FALSE)]
      BY <1>0, <3>1, SyncKeeps
    <3> QED
      BY <3>1, <3>2, FailedRound
  <2>5. CASE CrashInSync(m)
    <3>1. /\ minimized' = minimized
          /\ found' = found /\ con' = [con EXCEPT ![m] = RoundOver(con[m], FALSE)]
      BY <2>5 DEF CrashInSync
    <3> QED
      BY <1>0, <2>5, <3>1, CrashInSyncKeeps, FailedRound
  <2>6. CASE CrashInAddRepro(m)
    <3>1. /\ minimized' = minimized
          /\ found' = found /\ con' = [con EXCEPT ![m] = RoundOver(con[m], FALSE)]
      BY <2>6 DEF CrashInAddRepro
    <3> QED
      BY <1>0, <2>6, <3>1, CrashInAddReproKeeps, FailedRound
  <2>7. CASE MgrRestart(m)
    <3>1. PICK left \in {{}, minimized[m]} :
            /\ minimized' = [minimized EXCEPT ![m] = left]
            /\ con' = [con EXCEPT ![m] = Started(left = {})]
      BY <2>7 DEF MgrRestart
    <3>2. UNCHANGED <<hubVars, histVars>> /\ mgrs' = mgrs /\ found' = [found EXCEPT ![m] = {}]
      BY <2>7 DEF MgrRestart, hubVars
    <3> DEFINE c == Started(left = {})
    <3>3. c \in ConnectorStates /\ c.st = "sleep" /\ c.hub = FALSE /\ c.cut = {}
      <4>1. (left = {}) \in BOOLEAN
        OBVIOUS
      <4> QED
        BY HubAssumption DEF Started, ConnectorStates
    <3>4. con' = [con EXCEPT ![m] = c]
      BY <3>1
    <3> HIDE DEF c
    <3>5. /\ con' \in [Mgrs -> ConnectorStates] /\ con'[m] = c
          /\ \A j \in Mgrs \ {m} : con'[j] = con[j]
      BY <1>0, <3>3, <3>4
    <3>6. \A j \in Mgrs : con'[j].cut \subseteq con'[j].hubCorpus /\ Agrees(con'[j], mgrs'[j])
      <4>1. c.cut \subseteq c.hubCorpus /\ Agrees(c, mgrs'[m])
        BY <3>3 DEF Agrees
      <4>2. \A j \in Mgrs : con[j].cut \subseteq con[j].hubCorpus /\ Agrees(con[j], mgrs[j])
        BY DEF ConnectorSide
      <4> QED
        BY <3>2, <3>5, <4>1, <4>2
    <3>7. minimized' \in [Mgrs -> SUBSET Progs] /\ found' \in [Mgrs -> SUBSET Repros]
      BY <1>0, <3>1, <3>2
    <3> QED
      BY <3>2, <3>5, <3>6, <3>7, HubSideStays DEF ConnectorSide
  <2> QED
    BY <1>2, <2>1, <2>2, <2>3, <2>4, <2>5, <2>6, <2>7 DEF FaultStep
<1>3. ASSUME NEW m \in Mgrs, ManagerStep(m) PROVE HubSide' /\ ConnectorSide'
  <2>1. /\ UNCHANGED <<hubVars, histVars, con>>
        /\ minimized' \in [Mgrs -> SUBSET Progs] /\ found' \in [Mgrs -> SUBSET Repros]
    <3>1. ASSUME NEW p \in Progs, MgrGains(m, p) \/ MgrLoses(m, p)
          PROVE  /\ UNCHANGED <<hubVars, histVars, con>>
                 /\ minimized' \in [Mgrs -> SUBSET Progs] /\ found' \in [Mgrs -> SUBSET Repros]
      BY <1>0, <3>1 DEF MgrGains, MgrLoses
    <3>2. ASSUME NEW r \in Repros, MgrFinds(m, r)
          PROVE  /\ UNCHANGED <<hubVars, histVars, con>>
                 /\ minimized' \in [Mgrs -> SUBSET Progs] /\ found' \in [Mgrs -> SUBSET Repros]
      BY <1>0, <3>2 DEF MgrFinds
    <3> QED
      BY <1>3, <3>1, <3>2 DEF ManagerStep
  <2> QED
    BY <2>1, ManagerMoves
<1>4. CASE HubRestart
  <2>1. HubSide' /\ \A m \in Mgrs : ~mgrs'[m].connected
    BY <1>4, HubRestartKeeps
  <2>2. con' = con /\ minimized' = minimized /\ found' = found
    BY <1>4 DEF HubRestart
  <2> QED
    BY <1>0, <2>1, <2>2 DEF ConnectorSide, Agrees
<1>5. CASE UNCHANGED vars
  <2>1. UNCHANGED <<hubVars, histVars, con>> /\ minimized' = minimized /\ found' = found
    BY <1>5 DEF vars
  <2> QED
    BY <1>0, <2>1, ManagerMoves
<1> QED
  BY <1>1, <1>2, <1>3, <1>4, <1>5 DEF Next

\* The inductive invariant of hub and connectors, through lost calls, crashes
\* of the hub in the middle of Connect and Sync, and restarts of either side.
THEOREM HubIsSound == Spec => []HubInv
<1>1. Init => HubSide /\ ConnectorSide
  BY InitHubInv
<1>2. (HubSide /\ ConnectorSide) /\ [Next]_vars => (HubSide /\ ConnectorSide)'
  BY NextHubInv
<1>3. HubSide /\ ConnectorSide => HubInv
  BY TwoSides
<1> QED
  BY <1>1, <1>2, <1>3, PTL DEF Spec

\* The hub's corpus database holds every program of a connected manager, and
\* none that no manager has (purgeCorpus, addInputs).
THEOREM CorpusIsShared == Spec => []CorpusShared
<1>1. HubInv => CorpusShared
  BY DEF HubInv
<1> QED
  BY <1>1, HubIsSound, PTL

\* pendingInputs skips nothing: what lies behind a manager's number was sent to
\* it, came from it, or is known to be lost or given up.
THEOREM NothingIsSkipped == Spec => []NothingSkipped
<1>1. HubInv => NothingSkipped
  BY DEF HubInv, ServedAll, NothingSkipped
<1> QED
  BY <1>1, HubIsSound, PTL

\* Between rounds a connector's hubCorpus is what the hub has stored, but for
\* what connect cut off, although sync updates it before the call.
THEOREM ConnectorsAgree == Spec => []ConnectorAgrees
<1>1. HubInv => ConnectorAgrees
  BY DEF HubInv
<1> QED
  BY <1>1, HubIsSound, PTL

\* PendingRepro never returns to a reproducer it has sent.
THEOREM ReprosAreSentOnce == Spec => []ReproAtMostOnce
<1>1. HubInv => ReproAtMostOnce
  BY DEF HubInv
<1> QED
  BY <1>1, HubIsSound, PTL
=============================================================================
