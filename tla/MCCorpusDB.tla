----------------------------- MODULE MCCorpusDB -----------------------------
(***************************************************************************)
(* CorpusDB on a small instance.  A compaction ratio of 2 makes compaction *)
(* happen after a few records.                                             *)
(***************************************************************************)
EXTENDS CorpusDB

\* Replay is what deserializeDB's loop computes, one Apply after the other.
ASSUME ReplayIsTheLoop ==
  \A recs \in [Keys -> Vals \cup {NoVal}], log \in SeqOf(Entries, 3) :
    Replay(recs, log) = FoldLeft(Apply, recs, log)

Symmetry == Permutations(Keys) \cup Permutations(Vals)
=============================================================================
