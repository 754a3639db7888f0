------------------------------ MODULE CorpusDB ------------------------------
(***************************************************************************)
(* pkg/db/db.go: the key-value database behind corpus.db and the hub's     *)
(* databases: a map in memory and a file that is a header followed by a    *)
(* log of records, replayed on Open and compacted now and then.            *)
(*                                                                         *)
(* A record is its key and value (the value stands for Val and Seq; NoVal  *)
(* for the seqDeleted of a deletion).  The encoding is abstracted to what  *)
(* decides how a file is read: whole records, and Torn, the place where a  *)
(* write stopped inside a record and reading fails.  The process can die   *)
(* in the middle of a write; the operating system does not.                *)
(***************************************************************************)
EXTENDS Integers, FiniteSets, SequencesExt

CONSTANTS
  Keys, Vals, NoVal, Torn,
  Versions,      \* user versions; 0 for a new database
  CompactRatio,  \* the 10 of Flush's uncompacted/10*9
  MaxPending,    \* bound: records pending before a flush
  ShortWrites    \* whether a failing write may have written a part

Entries == [key : Keys, val : Vals \cup {NoVal}]

ASSUME DBAssumption ==
  /\ CompactRatio \in Nat \ {0, 1}
  /\ ShortWrites \in BOOLEAN
  /\ 0 \in Versions
  /\ IsFiniteSet(Keys)
  /\ NoVal \notin Vals
  /\ Torn \notin Entries

VARIABLES
  up,          \* the process runs and has the database open
  Version,     \* db.Version
  Records,     \* db.Records; NoVal for a missing key
  uncompacted, \* db.uncompacted
  pending,     \* db.pending
  fileVersion, \* the user version in the file's header
  fileLog,     \* the records in the file
  result       \* what the last Flush or BumpVersion returned

vars == <<up, Version, Records, uncompacted, pending, fileVersion, fileLog, result>>
memVars == <<Version, Records, uncompacted, pending>>
fileVars == <<fileVersion, fileLog>>

Missing == [k \in Keys |-> NoVal]

Present(recs) == {k \in Keys : recs[k] # NoVal}

\* deserializeDB: records are applied one by one up to the first that cannot
\* be read.
Readable(log) ==
  LET bad == {i \in DOMAIN log : log[i] = Torn}
  IN  IF bad = {} THEN log
      ELSE SubSeq(log, 1, (CHOOSE i \in bad : \A j \in bad : i <= j) - 1)

Apply(recs, entry) == [recs EXCEPT ![entry.key] = entry.val]

\* All records of a log applied in their order: a key has the value of the
\* last record about it.
Replay(recs, log) ==
  [k \in Keys |->
     LET about == {i \in DOMAIN log : log[i].key = k}
     IN  IF about = {} THEN recs[k] ELSE log[Max(about)].val]

Contents(log) == Replay(Missing, Readable(log))

\* The logs that hold exactly these records, in map iteration order.
LogsOf(recs) ==
  {[i \in DOMAIN order |-> [key |-> order[i], val |-> recs[order[i]]]] :
     order \in SetToSeqs(Present(recs))}

Init ==
  /\ up = FALSE
  /\ Version = 0
  /\ Records = Missing
  /\ uncompacted = 0
  /\ pending = << >>
  /\ fileVersion = 0
  /\ fileLog = << >>
  /\ result = "ok"

-----------------------------------------------------------------------------
(***************************************************************************)
(* compact: write everything to a temporary file and rename it.  The       *)
(* rename is atomic, so a failure on the way leaves the file alone.        *)
(***************************************************************************)

compact(version, recs) ==
  /\ fileLog' \in LogsOf(recs)
  /\ fileVersion' = version
  /\ uncompacted' = Cardinality(Present(recs))
  /\ pending' = << >>

\* Open with repair: what can be read is kept, and the file is rewritten.
Open ==
  /\ ~up
  /\ up' = TRUE
  /\ Version' = fileVersion
  /\ Records' = Contents(fileLog)
  /\ compact(fileVersion, Contents(fileLog))
  /\ UNCHANGED result

-----------------------------------------------------------------------------
\* A slip: the entry that overwrites an existing key is not written.
SerializeNew(k, v) ==
  pending' = IF Records[k] = NoVal THEN Append(pending, [key |-> k, val |-> v]) ELSE pending

serialize(k, v) == pending' = Append(pending, [key |-> k, val |-> v])

Save(k, v) ==
  /\ up /\ Len(pending) < MaxPending
  /\ Records[k] # v
  /\ Records' = [Records EXCEPT ![k] = v]
  /\ serialize(k, v)
  /\ uncompacted' = uncompacted + 1
  /\ UNCHANGED <<up, Version, fileVars, result>>

\* A slip: the record is only removed from memory.
DeleteInMemory(k) ==
  /\ up /\ Len(pending) < MaxPending
  /\ Records[k] # NoVal
  /\ Records' = [Records EXCEPT ![k] = NoVal]
  /\ UNCHANGED <<up, Version, uncompacted, pending, fileVars, result>>

Delete(k) ==
  /\ up /\ Len(pending) < MaxPending
  /\ Records[k] # NoVal
  /\ Records' = [Records EXCEPT ![k] = NoVal]
  /\ serialize(k, NoVal)
  /\ uncompacted' = uncompacted + 1
  /\ UNCHANGED <<up, Version, fileVars, result>>

-----------------------------------------------------------------------------
(***************************************************************************)
(* Flush, and how it can end.                                              *)
(***************************************************************************)

\* A slip: the file is never compacted.
NeverCompact == FALSE

NeedsCompaction ==
  (uncompacted \div CompactRatio) * (CompactRatio - 1) > Cardinality(Present(Records))

FlushCompacts ==
  /\ NeedsCompaction
  /\ compact(Version, Records)
  /\ result' = "ok"
  /\ UNCHANGED <<up, Version, Records>>

FlushAppends ==
  /\ ~NeedsCompaction
  /\ fileLog' = fileLog \o pending
  /\ pending' = << >>
  /\ result' = "ok"
  /\ UNCHANGED <<up, Version, Records, uncompacted, fileVersion>>

\* The compaction, or opening the file, fails: nothing is written.
FlushFails ==
  /\ result' = "error"
  /\ UNCHANGED <<up, memVars, fileVars>>

\* What a write that stops after n records, or inside the next one, leaves.
Partial(n, inside) ==
  fileLog \o SubSeq(pending, 1, n) \o (IF inside THEN <<Torn>> ELSE << >>)

\* The write fails after a part was written: pending is kept, to be appended
\* again as a whole by the next Flush.
FlushShort ==
  /\ ShortWrites
  /\ ~NeedsCompaction /\ pending # << >>
  /\ \E n \in 0 .. Len(pending) - 1, inside \in BOOLEAN :
       /\ Len(fileLog) + n + Len(pending) <= 2 * MaxPending
       /\ fileLog' = Partial(n, inside)
  /\ result' = "error"
  /\ UNCHANGED <<up, memVars, fileVersion>>

Flush == up /\ (FlushCompacts \/ FlushAppends \/ FlushFails \/ FlushShort)

\* BumpVersion to the version the database already has is a Flush.
BumpVersion(v) ==
  /\ up
  /\ \/ Version = v /\ Flush
     \/ /\ Version # v
        /\ Version' = v
        /\ \/ compact(v, Records) /\ result' = "ok"
           \/ result' = "error" /\ UNCHANGED <<uncompacted, pending, fileVars>>
        /\ UNCHANGED <<up, Records>>

-----------------------------------------------------------------------------
\* The process dies; everything in memory goes.
Dead ==
  /\ up' = FALSE
  /\ Version' = 0
  /\ Records' = Missing
  /\ uncompacted' = 0
  /\ pending' = << >>
  /\ UNCHANGED <<fileVersion, result>>

Crash == up /\ Dead /\ UNCHANGED fileLog

\* It dies inside Flush's write.
CrashInFlush ==
  /\ up /\ ~NeedsCompaction /\ pending # << >>
  /\ \E n \in 0 .. Len(pending), inside \in BOOLEAN :
       /\ inside => n < Len(pending)
       /\ fileLog' = Partial(n, inside)
  /\ Dead

Next ==
  \/ Open
  \/ \E k \in Keys, v \in Vals : Save(k, v)
  \/ \E k \in Keys : Delete(k)
  \/ Flush
  \/ \E v \in Versions : BumpVersion(v)
  \/ Crash
  \/ CrashInFlush

Spec == Init /\ [][Next]_vars

-----------------------------------------------------------------------------
(***************************************************************************)
(* Properties.                                                             *)
(***************************************************************************)

TypeOK ==
  /\ up \in BOOLEAN
  /\ Version \in Versions /\ fileVersion \in Versions
  /\ Records \in [Keys -> Vals \cup {NoVal}]
  /\ uncompacted \in Nat
  /\ pending \in Seq(Entries)
  /\ fileLog \in Seq(Entries \cup {Torn})
  /\ result \in {"ok", "error"}

\* db.uncompacted, which decides about compaction, counts the records in the
\* file and those on their way to it.
CountExact ==
  /\ TypeOK
  /\ up => uncompacted = Len(fileLog) + Len(pending)

\* Flush keeps the file from growing: with nothing pending, its log is not
\* longer than the compaction ratio allows for the records there are.
FileBounded ==
  up /\ pending = << >> =>
    (Len(fileLog) \div CompactRatio) * (CompactRatio - 1)
      <= Cardinality(Present(Records))

\* The contents the abstract store has at each of its moments.
Moments ==
  [i \in 1 .. Len(pending) + 1 |->
     Replay(Contents(fileLog), SubSeq(pending, 1, i - 1))]

\* The abstract store forgets what was in memory when the process dies.
Store == INSTANCE KVStore WITH
  mem <- IF up THEN Records ELSE Contents(fileLog),
  history <- Moments

\* The database implements the store: Flush makes updates durable, and a crash
\* at any point, inside a write too, loses only a suffix of unflushed updates.
ImplementsStore == Store!KVSpec

\* "The database is cached in memory and mirrored on disk" (the package
\* comment): once a flush has succeeded and nothing is pending, opening the
\* file would give the records in memory.
RecordsMirrored ==
  up /\ pending = << >> /\ result = "ok" => Contents(fileLog) = Records

\* What makes the above inductive while no write fails in the middle.  An open
\* database has a file of whole records, and its memory is what the file holds
\* with the pending records applied; a closed one has nothing pending.
DBInv ==
  /\ CountExact
  /\ FileBounded
  /\ up => fileLog \in Seq(Entries) /\ Records = Replay(Contents(fileLog), pending)
  /\ ~up => pending = << >>
=============================================================================
