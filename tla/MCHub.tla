------------------------------- MODULE MCHub --------------------------------
(***************************************************************************)
(* Hub with two managers, one of which lacks the calls of one program.     *)
(***************************************************************************)
EXTENDS Hub, TLC

CONSTANTS m1, m2, p1, p2, p3, r1

MCEarlier == (m1 :> {}) @@ (m2 :> {m1})
MCSupports == (m1 :> {p1, p2, p3, r1}) @@ (m2 :> {p1, p2, r1})
=============================================================================
