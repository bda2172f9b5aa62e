----------------------------- MODULE Allocation -----------------------------
(***************************************************************************)
(* What the resource accounting of one node promises its users: a set of   *)
(* holders, each of which holds what it asked for, in full, and which      *)
(* together never hold more than the node has.  ResourceManager and the    *)
(* scheduler that drives it implement this specification.                  *)
(***************************************************************************)
EXTENDS Resources

CONSTANTS Holders,   \* who may ask for resources
          Need,      \* Need[h]: the resource map h asks for
          Total      \* the resource map of the node

VARIABLE holders     \* those who hold what they asked for

Fits(S) == \A r \in Res : Demand(S, Need, r) <= get(Total, r)

Init == holders = {}

Acquire(h) ==
  /\ h \notin holders
  /\ Fits(holders \cup {h})
  /\ holders' = holders \cup {h}

Release(h) ==
  /\ h \in holders
  /\ holders' = holders \ {h}

Next == \E h \in Holders : Acquire(h) \/ Release(h)

Spec == Init /\ [][Next]_holders

\* Whoever holds resources gives them back.
FairSpec == Spec /\ \A h \in Holders : WF_holders(Release(h))
=============================================================================
