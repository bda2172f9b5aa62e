------------------------- MODULE GlobalSchedulerMC -------------------------
(***************************************************************************)
(* Two equal nodes with two CPUs and a smaller one with a GPU; a task that *)
(* fits every node, one that competes with it for the smaller one, and a   *)
(* lease that the smaller one grants by itself.                            *)
(***************************************************************************)
EXTENDS GlobalScheduler

MCTotal == [n \in Nodes |-> IF n = "small" THEN [r \in {"CPU", "GPU"} |-> 1]
                                           ELSE [r \in {"CPU"} |-> 2]]

MCNeed == [t \in Tasks |-> IF t = 2 THEN [r \in {"CPU", "GPU"} |-> 1]
                                    ELSE [r \in {"CPU"} |-> 1]]

MCHome == [t \in Tasks |-> IF t = 3 THEN "small" ELSE NoNode]
=============================================================================
