--------------------------- MODULE MCBrfExecutor ----------------------------
(***************************************************************************)
(* BrfExecutor on a small instance: two threads, a table of two objects, a *)
(* scheduler and an ordinary object file.                                  *)
(***************************************************************************)
EXTENDS BrfExecutor

CONSTANTS sched, plain, twin

\* Two files whose names agree in their first 15 characters.
MCObjName == [f \in Files |-> IF f = twin THEN sched ELSE f]

\* Sequential programs are longer and use both files; with threads three calls
\* are one more than there are threads.
MCMaxCalls == [b \in BOOLEAN |-> IF b THEN 3 ELSE 6]
MCPrograms == [b \in BOOLEAN |-> IF b THEN {c \in Calls : c.file = sched \/ c = Other} ELSE Calls]

\* A line of another kind, a program-specific one, libbpf's wrapper.
MCLogs == {<<"map", "prog", "generic">>}
=============================================================================
