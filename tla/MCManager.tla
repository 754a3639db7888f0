----------------------------- MODULE MCManager ------------------------------
(***************************************************************************)
(* Manager on a small instance: one program of each kind that loadProg     *)
(* tells apart (runnable, broken, with disabled calls of which nothing is  *)
(* left), two coverage points and two priorities.  The runnable program    *)
(* is in corpus.db from the start or first reported by a fuzzer, and the   *)
(* hub has it too.                                                         *)
(***************************************************************************)
EXTENDS Manager

CONSTANTS ok, bad, dis, e1, e2

MCLeftover == [p \in {dis} |-> NoProg]

Sig(a, b) == [e \in {e1, e2} |-> IF e = e1 THEN a ELSE b]

\* One signal covers more, the other has the higher priority.
MCInputSignals == {Sig(0, 0), Sig(1, Absent)}

MCInitialDisk == {{bad, dis}, {ok, bad, dis}}
=============================================================================
