-------------------------------- MODULE Hub ---------------------------------
(***************************************************************************)
(* syz-hub and the hub connectors of the managers: managers exchange the   *)
(* programs of their corpora and their reproducers through a hub.          *)
(*                                                                         *)
(* The hub (syz-hub/state) numbers what it is given and remembers for each *)
(* manager how far it has been served; all of it but the connections, the  *)
(* call sets and ownRepros is on disk.  A connector (syz-manager/hub.go)   *)
(* wakes up every ten minutes, connects if it has to, and repeats          *)
(* Hub.Sync until nothing is left.  A call is one step at the hub, which   *)
(* serves calls under its mutex; the request or the reply may be lost (a   *)
(* call has a deadline), the hub may crash in the middle of one, and       *)
(* managers restart.  A call its caller gave up on is taken to be over     *)
(* before the caller's next one, ten minutes later.  A program stands for  *)
(* its hash and its text.                                                  *)
(***************************************************************************)
EXTENDS Integers, FiniteSets, FiniteSetsExt

CONSTANTS
  Mgrs, Progs, Repros,
  Supports,       \* Supports[m]: programs and reproducers all of whose calls m has
  maxRecords,     \* 100
  capRecords,     \* 100000
  maxConnect,     \* 100000: programs a connector sends when it connects
  maxAttempts,    \* 3
  Earlier,        \* Earlier[m]: managers whose directories are read before m's
  MaxChanges,     \* bound: changes of the managers' corpora and reproducers found
  MaxFaults       \* bound: lost messages, crashes and restarts

ASSUME HubAssumption ==
  /\ Supports \in [Mgrs -> SUBSET (Progs \cup Repros)]
  /\ maxRecords \in Nat /\ capRecords \in Nat /\ maxRecords < capRecords
  /\ maxConnect \in Nat /\ maxAttempts \in Nat \ {0}
  /\ Earlier \in [Mgrs -> SUBSET Mgrs]
  /\ MaxChanges \in Nat /\ MaxFaults \in Nat
  /\ IsFiniteSet(Progs) /\ IsFiniteSet(Repros)

VARIABLES
  corpus, corpusSeq,   \* st.Corpus: the sequence number of each program, 0 for none
  reproDB, reproSeq,   \* st.Repros likewise
  mgrs,                \* st.Managers
  con,                 \* the connectors
  minimized,           \* what getMinimizedCorpus returns at each manager
  found,               \* reproducers a manager found and has not handed over
  changes, faults,
  received,            \* history: programs a manager got from the hub since it was last fresh
  dropped,             \* history: programs sent in a reply that was lost, or given up
  owned,               \* history: programs it gave to the hub
  reproSent            \* history: reproducers the hub sent to a manager

hubVars == <<corpus, corpusSeq, reproDB, reproSeq, mgrs>>
histVars == <<received, dropped, owned, reproSent>>
vars == <<hubVars, con, minimized, found, changes, faults, histVars>>

\* A manager the hub has never heard of.
Unknown == [known |-> FALSE, connected |-> FALSE, corpus |-> {}, corpusSeq |-> 0,
            reproSeq |-> 0, ownRepros |-> {}]

\* A connector that has just been started.  cut is a history: the programs of
\* hubCorpus that Connect left out of its request.
Started(fresh) == [st |-> "sleep", hub |-> FALSE, hubCorpus |-> {}, cut |-> {},
                   newRepros |-> {}, fresh |-> fresh, query |-> 0, doneOnce |-> FALSE, unreachable |-> FALSE,
                   corpus |-> {}, add |-> {}, del |-> {}, needRepros |-> FALSE]

Init ==
  /\ corpus = [p \in Progs |-> 0] /\ corpusSeq = 0
  /\ reproDB = [r \in Repros |-> 0] /\ reproSeq = 0
  /\ mgrs = [m \in Mgrs |-> Unknown]
  /\ con = [m \in Mgrs |-> Started(TRUE)]
  /\ minimized = [m \in Mgrs |-> {}] /\ found = [m \in Mgrs |-> {}]
  /\ changes = 0 /\ faults = 0
  /\ received = [m \in Mgrs |-> {}] /\ dropped = [m \in Mgrs |-> {}]
  /\ owned = [m \in Mgrs |-> {}] /\ reproSent = [m \in Mgrs |-> {}]

Present(c) == {p \in DOMAIN c : c[p] # 0}
-----------------------------------------------------------------------------
(* The hub's state as it is on disk and as its operations compute it.      *)

\* purgeCorpus: programs no manager has are deleted.
purgeCorpus(c, ms) ==
  [p \in Progs |-> IF \E m \in Mgrs : p \in ms[m].corpus THEN c[p] ELSE 0]

\* addInputs: new programs get the next number, all the same one.
NextSeq(inputs) == IF inputs = {} THEN corpusSeq ELSE corpusSeq + 1
addInputs(c, inputs) ==
  [p \in Progs |-> IF p \in inputs /\ c[p] = 0 THEN NextSeq(inputs) ELSE c[p]]

\* createManager for a name without a directory: the corpus from the start,
\* only the reproducers to come.
createManager(m) == IF mgrs[m].known THEN mgrs[m]
                    ELSE [Unknown EXCEPT !.known = TRUE, !.reproSeq = reproSeq]

\* What pendingInputs may send: the programs m lacks, beyond its number and
\* within its calls; when they are too many, those with the lowest numbers of
\* the capRecords highest ones, cut between two numbers.  Ties in the order
\* are broken either way.
Pending(m, c, mgr) ==
  {p \in Present(c) : c[p] > mgr.corpusSeq /\ p \notin mgr.corpus /\ p \in Supports[m]}

Capped(c, records) ==
  IF Cardinality(records) <= capRecords THEN {records}
  ELSE {s \in kSubset(capRecords, records) : \A p \in s, q \in records \ s : c[q] <= c[p]}

\* A slip: the page is cut inside a group of programs with the same number.
PageCutsGroup(c, records) ==
  LET progs == CHOOSE s \in kSubset(maxRecords + 1, records) :
                 \A p \in s, q \in records \ s : c[p] <= c[q]
  IN [progs |-> progs, maxSeq |-> Max({c[p] : p \in progs})]

\* A slip: the manager is taken to have got the later pages as well.
PageToEnd(c, records) ==
  LET least == Min({c[p] : p \in records})
  IN [progs |-> {p \in records : c[p] = least}, maxSeq |-> Max({c[p] : p \in records})]

Page(c, records) ==
  LET upTo(n) == {p \in records : c[p] <= n}
      maxSeq == Min({c[p] : p \in {q \in records : Cardinality(upTo(c[q])) > maxRecords}})
  IN [progs |-> upTo(maxSeq), maxSeq |-> maxSeq]

pendingInputs(m, c, seq, mgr) ==
  LET records == Pending(m, c, mgr)
  IN IF Cardinality(records) <= maxRecords
     THEN {[progs |-> records, maxSeq |-> seq, more |-> 0, skipped |-> {}]}
     ELSE {LET page == Page(c, s)
           IN [progs |-> page.progs, maxSeq |-> page.maxSeq,
               more |-> Cardinality(s \ page.progs), skipped |-> records \ s] :
             s \in Capped(c, records)}

\* PendingRepro: the reproducer with the lowest number m has not seen.
PendingRepros(m, mgr, db) ==
  {r \in Present(db) : db[r] > mgr.reproSeq /\ r \notin mgr.ownRepros /\ r \in Supports[m]}
NextRepro(m, mgr, db) ==
  {r \in PendingRepros(m, mgr, db) : \A q \in PendingRepros(m, mgr, db) : db[r] <= db[q]}

\* Make after a stop of the hub: what is on disk, the numbers not lower than
\* any that was stored.  A manager whose reproducer number is 0 starts behind
\* the last one that the repro database and the directories before its own
\* have shown.
Reload(c, ms, db) ==
  LET seqs == {0} \cup {c[p] : p \in Progs} \cup {ms[m].corpusSeq : m \in Mgrs}
      rseqs(M) == {0} \cup {db[r] : r \in Repros} \cup {ms[m].reproSeq : m \in M}
  IN /\ corpusSeq' = Max(seqs)
     /\ reproSeq' = Max(rseqs(Mgrs))
     /\ mgrs' = [m \in Mgrs |->
          IF ~ms[m].known THEN Unknown
          ELSE [ms[m] EXCEPT !.connected = FALSE, !.ownRepros = {},
                             !.reproSeq = IF @ = 0 THEN Max(rseqs(Earlier[m])) ELSE @]]
     /\ corpus' = purgeCorpus(c, ms)
     /\ reproDB' = db
-----------------------------------------------------------------------------
(* The connector's loop.  A failed call closes the connection; after three *)
(* rounds without a success the manager is told not to wait for the hub    *)
(* (query counts no further than that, and not at all after a success).    *)

\* A slip: a failed Sync keeps the connection.
RoundOverStays(c, ok) ==
  [c EXCEPT !.st = "sleep", !.hub = ok \/ c.st = "sync", !.doneOnce = @ \/ ok,
            !.query = IF ok \/ c.doneOnce THEN 0 ELSE Min({@ + 1, maxAttempts}),
            !.corpus = {}, !.add = {}, !.del = {}, !.needRepros = FALSE]

RoundOver(c, ok) ==
  [c EXCEPT !.st = "sleep", !.hub = ok, !.doneOnce = @ \/ ok,
            !.query = IF ok \/ c.doneOnce THEN 0 ELSE Min({@ + 1, maxAttempts}),
            !.unreachable = @ \/ (~ok /\ c.query + 1 >= maxAttempts /\ ~c.doneOnce),
            !.corpus = {}, !.add = {}, !.del = {}, !.needRepros = FALSE]

\* What connect sends of its corpus: it is cut behind the first maxConnect
\* programs of a slice filled from a map.
Sent(progs) ==
  IF Cardinality(progs) <= maxConnect THEN {progs} ELSE kSubset(maxConnect, progs)

\* sync's arguments: what changed since the last time, and whether the VM
\* loop wants reproducers.
SyncArgs(c, snapshot, need) ==
  [c EXCEPT !.st = "sync", !.add = snapshot \ c.hubCorpus, !.del = c.hubCorpus \ snapshot,
            !.hubCorpus = snapshot, !.cut = @ \cap snapshot, !.needRepros = need]

Wake(m) ==
  LET c == [con[m] EXCEPT !.newRepros = @ \cup found[m]]
  IN /\ con[m].st = "sleep"
     /\ found' = [found EXCEPT ![m] = {}]
     /\ \/ /\ ~c.hub
           /\ con' = [con EXCEPT ![m] = [c EXCEPT !.st = "connect", !.corpus = minimized[m]]]
        \/ /\ c.hub
           /\ \E need \in BOOLEAN : con' = [con EXCEPT ![m] = SyncArgs(c, minimized[m], need)]
     /\ UNCHANGED <<hubVars, minimized, changes, faults, histVars>>

\* A lost message or a crash, of which there are at most MaxFaults.
Fault == faults < MaxFaults /\ faults' = faults + 1

\* The call fails before the hub has seen it.
CallFails(m) ==
  /\ con[m].st \in {"connect", "sync"}
  /\ Fault
  /\ con' = [con EXCEPT ![m] = RoundOver(@, FALSE)]
  /\ UNCHANGED <<hubVars, minimized, found, changes, histVars>>
-----------------------------------------------------------------------------
(* Hub.Connect.                                                            *)

\* A fresh manager gets the whole corpus again, and no old reproducer.
Connected(m, inputs) ==
  [createManager(m) EXCEPT
     !.connected = TRUE, !.corpus = inputs,
     !.corpusSeq = IF con[m].fresh THEN 0 ELSE @,
     !.reproSeq = IF con[m].fresh THEN reproSeq ELSE @]

ForgetIfFresh(h, m) == IF con[m].fresh THEN [h EXCEPT ![m] = {}] ELSE h

\* A slip: the corpus is purged by what the managers had before.
ServeConnectPurgesFirst(m, inputs) ==
  LET ms == [mgrs EXCEPT ![m] = Connected(m, inputs)]
  IN /\ corpusSeq' = NextSeq(inputs)
     /\ corpus' = purgeCorpus(addInputs(corpus, inputs), mgrs)
     /\ mgrs' = ms
     /\ owned' = [ForgetIfFresh(owned, m) EXCEPT ![m] = @ \cup inputs]
     /\ received' = ForgetIfFresh(received, m)
     /\ dropped' = ForgetIfFresh(dropped, m)
     /\ UNCHANGED <<reproDB, reproSeq, reproSent>>

\* The corpus the manager sends replaces the one stored for it.
ServeConnect(m, inputs) ==
  LET ms == [mgrs EXCEPT ![m] = Connected(m, inputs)]
  IN /\ corpusSeq' = NextSeq(inputs)
     /\ corpus' = purgeCorpus(addInputs(corpus, inputs), ms)
     /\ mgrs' = ms
     /\ owned' = [ForgetIfFresh(owned, m) EXCEPT ![m] = @ \cup inputs]
     /\ received' = ForgetIfFresh(received, m)
     /\ dropped' = ForgetIfFresh(dropped, m)
     /\ UNCHANGED <<reproDB, reproSeq, reproSent>>

\* connect counts the whole corpus as known to the hub, whatever it sent.
Connect(m) ==
  /\ con[m].st = "connect"
  /\ \E inputs \in Sent(con[m].corpus), need \in BOOLEAN :
       LET c == [con[m] EXCEPT !.hub = TRUE, !.hubCorpus = con[m].corpus,
                               !.cut = con[m].corpus \ inputs, !.fresh = FALSE]
       IN /\ ServeConnect(m, inputs)
          /\ con' = [con EXCEPT ![m] = SyncArgs(c, con[m].corpus, need)]
  /\ UNCHANGED <<minimized, found, changes, faults>>

ConnectReplyLost(m) ==
  /\ con[m].st = "connect"
  /\ Fault
  /\ \E inputs \in Sent(con[m].corpus) : ServeConnect(m, inputs)
  /\ con' = [con EXCEPT ![m] = RoundOver(@, FALSE)]
  /\ UNCHANGED <<minimized, found, changes>>

\* The hub dies in Connect: the manager's corpus file is removed and written
\* again before the new programs reach the hub's own.
CrashInConnect(m) ==
  /\ con[m].st = "connect"
  /\ Fault
  /\ \E inputs \in {{}} \cup Sent(con[m].corpus) :
       Reload(corpus, [mgrs EXCEPT ![m] = Connected(m, inputs)], reproDB)
  /\ owned' = ForgetIfFresh(owned, m)
  /\ received' = ForgetIfFresh(received, m)
  /\ dropped' = ForgetIfFresh(dropped, m)
  /\ con' = [con EXCEPT ![m] = RoundOver(@, FALSE)]
  /\ UNCHANGED <<minimized, found, changes, reproSent>>
-----------------------------------------------------------------------------
(* Hub.Sync.                                                               *)

\* A connector the hub does not know since its restart has to connect again.
SyncRefused(m) ==
  /\ con[m].st = "sync" /\ ~mgrs[m].connected
  /\ con' = [con EXCEPT ![m] = RoundOver(@, FALSE)]
  /\ UNCHANGED <<hubVars, minimized, found, changes, faults, histVars>>

\* What Sync stores: the manager's corpus without what it deleted, the hub's
\* purged of that, then both with what the manager added.
Kept(m) == [mgrs EXCEPT ![m].corpus = @ \ con[m].del]
Purged(m) == IF con[m].del = {} THEN corpus ELSE purgeCorpus(corpus, Kept(m))
With(m) == [Kept(m) EXCEPT ![m].corpus = @ \cup con[m].add]
Merged(m) == addInputs(Purged(m), con[m].add)

\* The reproducers the hub does not have yet, and some of them numbered.
NewRepros(m) == {r \in con[m].newRepros : reproDB[r] = 0}
Numbered(new, order) ==
  [r \in Repros |-> IF r \in new THEN reproSeq + order[r] ELSE reproDB[r]]

\* AddRepro: a manager that has seen everything stays at the end; one that
\* has not skips its own reproducers by name.
WithRepros(mgr, new) ==
  [mgr EXCEPT !.ownRepros = @ \cup new,
              !.reproSeq = IF @ = reproSeq THEN @ + Cardinality(new) ELSE @]

\* A slip: the manager stays where it is.
AfterReproStays(mgr, next, db, end) ==
  [mgr EXCEPT !.reproSeq = IF next = {} THEN end ELSE @]

\* PendingRepro moves on to the reproducer it returns, or to the end.
AfterRepro(mgr, next, db, end) ==
  [mgr EXCEPT !.reproSeq = IF next = {} THEN end ELSE Max({db[r] : r \in next})]

\* The connector takes the reply and calls again until nothing is left.
Replied(c, progs, more) ==
  LET d == [c EXCEPT !.add = {}, !.del = {}, !.newRepros = {}, !.needRepros = FALSE]
  IN IF Cardinality(progs) + more = 0 THEN RoundOver(d, TRUE) ELSE d

\* Deletions first, then additions, then what is pending.
Sync(m, lost) ==
  LET a == con[m]
      new == NewRepros(m)
      end == reproSeq + Cardinality(new)
  IN /\ a.st = "sync" /\ mgrs[m].connected
     /\ corpus' = Merged(m)
     /\ corpusSeq' = NextSeq(a.add)
     /\ reproSeq' = end
     /\ owned' = [owned EXCEPT ![m] = @ \cup a.add]
     /\ \E out \in pendingInputs(m, Merged(m), NextSeq(a.add), With(m)[m]),
           order \in Bijection(new, 1 .. Cardinality(new)) :
          LET db == Numbered(new, order)
              served == WithRepros([With(m)[m] EXCEPT !.corpusSeq = out.maxSeq], new)
              next == NextRepro(m, served, db)
          IN /\ reproDB' = db
             /\ mgrs' = [mgrs EXCEPT ![m] =
                  IF a.needRepros THEN AfterRepro(served, next, db, end) ELSE served]
             /\ reproSent' = [reproSent EXCEPT ![m] =
                  IF a.needRepros THEN @ \cup next ELSE @]
             /\ received' = [received EXCEPT ![m] = IF lost THEN @ ELSE @ \cup out.progs]
             /\ dropped' = [dropped EXCEPT ![m] =
                  @ \cup out.skipped \cup (IF lost THEN out.progs ELSE {})]
             /\ con' = [con EXCEPT ![m] =
                  IF lost THEN RoundOver(@, FALSE) ELSE Replied(@, out.progs, out.more)]

SyncDone(m) == Sync(m, FALSE) /\ UNCHANGED <<minimized, found, changes, faults>>
SyncReplyLost(m) == Sync(m, TRUE) /\ Fault /\ UNCHANGED <<minimized, found, changes>>

\* The hub dies in Sync: each file is flushed on its own, the manager's first,
\* its number saved last.
CrashInSync(m) ==
  /\ con[m].st = "sync" /\ mgrs[m].connected
  /\ Fault
  /\ \/ Reload(corpus, Kept(m), reproDB) /\ UNCHANGED owned
     \/ Reload(Purged(m), With(m), reproDB) /\ UNCHANGED owned
     \/ /\ Reload(Merged(m), With(m), reproDB)
        /\ owned' = [owned EXCEPT ![m] = @ \cup con[m].add]
  /\ con' = [con EXCEPT ![m] = RoundOver(@, FALSE)]
  /\ UNCHANGED <<minimized, found, changes, received, dropped, reproSent>>

\* The hub dies behind state.Sync, with some of the reproducers stored and
\* perhaps (ahead) the manager's number saved for one that is not: AddRepro
\* saves the number before it flushes the reproducer.
CrashInAddRepro(m) ==
  /\ con[m].st = "sync" /\ mgrs[m].connected
  /\ Fault
  /\ \E out \in pendingInputs(m, Merged(m), NextSeq(con[m].add), With(m)[m]),
        done \in SUBSET NewRepros(m), ahead \in {0, 1} :
       LET stored == WithRepros([With(m)[m] EXCEPT !.corpusSeq = out.maxSeq], done)
       IN /\ ahead = 1 => done # NewRepros(m) /\ mgrs[m].reproSeq = reproSeq
          /\ \E order \in Bijection(done, 1 .. Cardinality(done)) :
               Reload(Merged(m), [mgrs EXCEPT ![m] = [stored EXCEPT !.reproSeq = @ + ahead]],
                      Numbered(done, order))
          /\ dropped' = [dropped EXCEPT ![m] = @ \cup out.skipped \cup out.progs]
  /\ owned' = [owned EXCEPT ![m] = @ \cup con[m].add]
  /\ con' = [con EXCEPT ![m] = RoundOver(@, FALSE)]
  /\ UNCHANGED <<minimized, found, changes, received, reproSent>>
-----------------------------------------------------------------------------
(* Restarts, and what the managers find.                                   *)

HubRestart ==
  /\ Fault
  /\ Reload(corpus, mgrs, reproDB)
  /\ UNCHANGED <<con, minimized, found, changes, histVars>>

\* A manager is fresh when it starts with an empty corpus.
MgrRestart(m) ==
  /\ Fault
  /\ \E left \in {{}, minimized[m]} :
       /\ minimized' = [minimized EXCEPT ![m] = left]
       /\ con' = [con EXCEPT ![m] = Started(left = {})]
  /\ found' = [found EXCEPT ![m] = {}]
  /\ UNCHANGED <<hubVars, changes, histVars>>

Change == changes < MaxChanges /\ changes' = changes + 1

MgrGains(m, p) ==
  /\ p \in Supports[m] \ minimized[m]
  /\ Change
  /\ minimized' = [minimized EXCEPT ![m] = @ \cup {p}]
  /\ UNCHANGED <<hubVars, con, found, faults, histVars>>

MgrLoses(m, p) ==
  /\ p \in minimized[m]
  /\ Change
  /\ minimized' = [minimized EXCEPT ![m] = @ \ {p}]
  /\ UNCHANGED <<hubVars, con, found, faults, histVars>>

MgrFinds(m, r) ==
  /\ r \in Supports[m] \ found[m]
  /\ Change
  /\ found' = [found EXCEPT ![m] = @ \cup {r}]
  /\ UNCHANGED <<hubVars, con, minimized, faults, histVars>>

ConnectorStep(m) == Wake(m) \/ Connect(m) \/ SyncRefused(m) \/ SyncDone(m)
FaultStep(m) ==
  CallFails(m) \/ ConnectReplyLost(m) \/ CrashInConnect(m) \/ SyncReplyLost(m)
  \/ CrashInSync(m) \/ CrashInAddRepro(m) \/ MgrRestart(m)
ManagerStep(m) ==
  \/ \E p \in Progs : MgrGains(m, p) \/ MgrLoses(m, p)
  \/ \E r \in Repros : MgrFinds(m, r)

Next ==
  \/ \E m \in Mgrs : ConnectorStep(m) \/ FaultStep(m) \/ ManagerStep(m)
  \/ HubRestart

Spec == Init /\ [][Next]_vars

\* Connectors keep waking up, and calls that do not fail return.
FairSpec == Spec /\ \A m \in Mgrs : WF_vars(ConnectorStep(m))
-----------------------------------------------------------------------------
ConnectorStates ==
  [st : {"sleep", "connect", "sync"}, hub : BOOLEAN, hubCorpus : SUBSET Progs,
   cut : SUBSET Progs, newRepros : SUBSET Repros, fresh : BOOLEAN, query : 0 .. maxAttempts, doneOnce : BOOLEAN,
   unreachable : BOOLEAN, corpus : SUBSET Progs, add : SUBSET Progs, del : SUBSET Progs,
   needRepros : BOOLEAN]

\* Managers, their numbers within the hub's.
ManagerStates(seq, rseq) ==
  [known : BOOLEAN, connected : BOOLEAN, corpus : SUBSET Progs, corpusSeq : 0 .. seq,
   reproSeq : 0 .. rseq, ownRepros : SUBSET Repros]

HubTypeOK ==
  /\ corpusSeq \in Nat /\ corpus \in [Progs -> 0 .. corpusSeq]
  /\ reproSeq \in Nat /\ reproDB \in [Repros -> 0 .. reproSeq]
  /\ mgrs \in [Mgrs -> ManagerStates(corpusSeq, reproSeq)]
  /\ received \in [Mgrs -> SUBSET Progs] /\ dropped \in [Mgrs -> SUBSET Progs]
  /\ owned \in [Mgrs -> SUBSET Progs] /\ reproSent \in [Mgrs -> SUBSET Repros]

\* Type correctness, and the numbers of records and managers within the hub's.
TypeOK ==
  /\ HubTypeOK
  /\ con \in [Mgrs -> ConnectorStates]
  /\ minimized \in [Mgrs -> SUBSET Progs] /\ found \in [Mgrs -> SUBSET Repros]

\* The hub keeps every program of a connected manager and no program that no
\* manager has, although the two databases are flushed one after the other,
\* the hub may die in between, and deletions race with other managers' syncs.
CorpusShared ==
  /\ TypeOK
  /\ Present(corpus) \subseteq UNION {mgrs[m].corpus : m \in Mgrs}
  /\ \A m \in Mgrs : mgrs[m].connected => mgrs[m].corpus \subseteq Present(corpus)

\* A program the hub counts as served to a manager was sent to it, or came
\* from it, or was lost in a reply or given up for capRecords: paging and
\* restarts of the hub skip nothing.
NothingSkipped ==
  \A m \in Mgrs : mgrs[m].connected =>
    \A p \in Present(corpus) \cap Supports[m] :
      corpus[p] <= mgrs[m].corpusSeq => p \in received[m] \cup dropped[m] \cup owned[m]

\* Between rounds a connector and a hub that knows it agree on what the hub
\* has from it, whatever calls failed before and however the corpus changed
\* since: hubCorpus is updated before the call, so a failure must end in a new
\* Connect.  They agree up to what that Connect cut off, which no later round
\* makes up for.
ConnectorAgrees ==
  \A m \in Mgrs : con[m].st = "sleep" /\ con[m].hub /\ mgrs[m].connected =>
    mgrs[m].corpus = con[m].hubCorpus \ con[m].cut

\* A reproducer is not sent to the same manager twice: what it was sent lies
\* behind its number, through restarts and whatever reproducers it adds itself.
ReproAtMostOnce ==
  \A m \in Mgrs : \A r \in reproSent[m] : reproDB[r] <= mgrs[m].reproSeq

\* Once changes and faults end, the managers converge: a program that some
\* manager keeps in its corpus, and that connect did not cut off, has reached
\* every other manager that supports it, or was lost on the way in a reply.
Exchanged ==
  <>[](\A m, n \in Mgrs : \A p \in (minimized[m] \ con[m].cut) \cap Supports[n] :
         p \in received[n] \cup dropped[n] \cup owned[n])

\* A restart does not change which reproducers wait for a manager ("It is
\* persisted to and can be restored from a directory", of State).
RestartKeepsRepros ==
  [][HubRestart => \A m \in Mgrs :
       {r \in Present(reproDB) : reproDB[r] > mgrs[m].reproSeq}
         = {r \in Present(reproDB) : reproDB[r] > mgrs'[m].reproSeq}]_vars
-----------------------------------------------------------------------------
(***************************************************************************)
(* The inductive invariant behind the four invariants above.               *)
(***************************************************************************)

\* createManager makes a manager known before anything else is stored for it.
UnknownIsBlank == \A m \in Mgrs : ~mgrs[m].known => mgrs[m] = Unknown

\* NothingSkipped also of managers that are not connected: what was skipped
\* while they were away would stay skipped.
ServedAll ==
  \A m \in Mgrs : \A p \in Present(corpus) \cap Supports[m] :
    corpus[p] <= mgrs[m].corpusSeq => p \in received[m] \cup dropped[m] \cup owned[m]

\* What the hub has stored of a connected manager came from it.
CorpusIsOwned ==
  \A m \in Mgrs : mgrs[m].connected => mgrs[m].corpus \subseteq owned[m]

\* In a Sync that has not reached the hub yet: hubCorpus is what the hub will
\* have afterwards.
SyncAgrees ==
  \A m \in Mgrs : con[m].st = "sync" /\ mgrs[m].connected =>
    (mgrs[m].corpus \ con[m].del) \cup con[m].add = con[m].hubCorpus \ con[m].cut

\* Only what was counted as sent can have been cut off.
CutIsCounted == \A m \in Mgrs : con[m].cut \subseteq con[m].hubCorpus

\* Reproducers are never removed, so a number once passed stays passed.
SentIsPresent == \A m \in Mgrs : reproSent[m] \subseteq Present(reproDB)

\* All of it: the hub's files and the connectors' view of them.
HubInv ==
  /\ CorpusShared /\ UnknownIsBlank
  /\ ServedAll /\ CorpusIsOwned
  /\ SyncAgrees /\ ConnectorAgrees /\ CutIsCounted
  /\ SentIsPresent /\ ReproAtMostOnce
=============================================================================
