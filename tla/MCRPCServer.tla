---------------------------- MODULE MCRPCServer -----------------------------
(***************************************************************************)
(* RPCServer on a small instance: one program whose signal is reported in  *)
(* two forms, one candidate, two VMs, a hub.                               *)
(***************************************************************************)
EXTENDS RPCServer, TLC

CONSTANTS e1, e2

MCLeftover == [p \in {} |-> NoProg]

\* One point of coverage only, or both and the first at a higher priority.
MCInputSignals == {FromRaw({e1}, 0), [e \in Elems |-> IF e = e1 THEN 1 ELSE 0]}

\* The manager starts with an empty corpus.db.
MCInitialDisk == {{}}

\* VMs are not told apart.
Symmetry == Permutations(VMs)
=============================================================================
