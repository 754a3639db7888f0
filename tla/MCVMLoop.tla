------------------------------ MODULE MCVMLoop ------------------------------
(***************************************************************************)
(* VMLoop on a small pool: three machines of which one must fuzz, three    *)
(* per reproduction capped at two, one title besides the hub's and two     *)
(* crashes, with strace.                                                   *)
(***************************************************************************)
EXTENDS VMLoop
=============================================================================
