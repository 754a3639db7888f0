------------------------------ MODULE MCFuzzer ------------------------------
(***************************************************************************)
(* Fuzzer on small instances: one coverage point at two priorities or two  *)
(* coverage points, programs with flaky signal.                            *)
(***************************************************************************)
EXTENDS Fuzzer, TLC

CONSTANTS p1, p2

Uniform(prio) == [e \in Elems |-> prio]

\* p1 succeeds or fails (priority 1 or 0); p2 is a smaller variant of it.
MCOutcomes == [p \in {p1, p2} |-> IF p = p1 THEN {Uniform(0), Uniform(MaxPrio)}
                                            ELSE {Uniform(MaxPrio)}]
MCMinimizesTo == [p \in {p1, p2} |-> {p, p2}]

MCOtherSignals == {Uniform(0)}
MCOtherInputs == {[prog |-> p2, sig |-> Uniform(0)]}
MCCandidates == {[prog |-> p1, flags |-> {ProgMinimized, ProgSmashed}]}

\* As many as there are procs, so that the queue can have enough of them.
TwoCandidates == MCCandidates \cup {[prog |-> p2, flags |-> ProgNormal]}

\* Procs are not told apart.
Symmetry == Permutations(Procs)
=============================================================================
