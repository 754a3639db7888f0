------------------------------ MODULE KVStore -------------------------------
(***************************************************************************)
(* What pkg/db promises its users (syz-manager, syz-hub): a map in memory, *)
(* mirrored on disk.  After a crash the store comes back with the contents *)
(* it had at the last successful flush or at some moment since then: no    *)
(* flushed update is lost, and updates are never reordered or torn.        *)
(***************************************************************************)
EXTENDS Integers, Sequences

CONSTANTS Keys, Vals, NoVal

VARIABLES
  mem,      \* the contents the user sees; NoVal for a missing key
  history,  \* the contents at the last flush and after each update since
  up        \* whether the process that uses the store runs

kvVars == <<mem, history, up>>

KVInit ==
  /\ mem = [k \in Keys |-> NoVal]
  /\ history = <<mem>>
  /\ up = FALSE

KVUpdate(k, v) ==
  /\ up
  /\ mem' = [mem EXCEPT ![k] = v]
  /\ history' = Append(history, mem')
  /\ UNCHANGED up

KVSync ==
  /\ up
  /\ history' = <<mem>>
  /\ UNCHANGED <<mem, up>>

KVCrash ==
  /\ up
  /\ \E i \in 1 .. Len(history) : mem' = history[i]
  /\ history' = <<mem'>>
  /\ up' = FALSE

KVRecover ==
  /\ ~up
  /\ up' = TRUE
  /\ UNCHANGED <<mem, history>>

KVNext ==
  \/ \E k \in Keys, v \in Vals \cup {NoVal} : KVUpdate(k, v)
  \/ KVSync
  \/ KVCrash
  \/ KVRecover

\* The whole promise: what pkg/db's Save, Delete, Flush, compact and Open do to
\* memory and file never leaves these steps.
KVSpec == KVInit /\ [][KVNext]_kvVars
=============================================================================
