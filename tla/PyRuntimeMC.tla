---------------------------- MODULE PyRuntimeMC ----------------------------
(***************************************************************************)
(* Two-bit object ids and a store of three bytes: the third put of a small *)
(* value fills it, a large value fits only beside one small one.           *)
(***************************************************************************)
EXTENDS PyRuntime

MCSize == [d \in {"small", "large"} |-> IF d = "large" THEN 2 ELSE 1]
=============================================================================
