------------------------------- MODULE MCGate -------------------------------
(***************************************************************************)
(* Gate on a small instance.  With fewer slots than goroutines Enter waits *)
(* both for the window and for a stopped gate.                             *)
(***************************************************************************)
EXTENDS Gate
=============================================================================
