-------------------------- MODULE GlobalScheduler --------------------------
(***************************************************************************)
(* The GlobalScheduler (ray-scheduler global.rs) with its two policies     *)
(* (policy.rs), and the nodes it places tasks on.                          *)
(*                                                                         *)
(* The scheduler keeps one view per node, replaced by each report, and     *)
(* picks a node for a task from the views alone: placing a task does not   *)
(* change the view.  Reports and placements reach the nodes through code   *)
(* that the repository does not have; the nodes are modelled as external,  *)
(* from the comments on update_node and remove_node ("called when a        *)
(* heartbeat is received", "when a node dies or is removed"): a node takes *)
(* a snapshot of what it has available, the report arrives later, is lost  *)
(* or is overtaken by a newer one.  The tasks placed on a node allocate    *)
(* from what it really has, and so do the tasks its own scheduler runs     *)
(* (the global one is for "tasks that overflow local node capacity") and   *)
(* the leases its raylet grants, from the same ResourceManager.            *)
(***************************************************************************)
EXTENDS Resources, Sequences

CONSTANTS Nodes, Tasks,
          Need,    \* Need[t]: required_resources of the task
          Total,   \* Total[n]: the resources of the node
          Home,    \* Home[t]: the node that runs the task as its own, or that
                   \* grants it as a lease; NoNode: schedule_task places it
          NoNode

ASSUME GlobalAssumption ==
  /\ "CPU" \in Res /\ IsFiniteSet(Nodes) /\ IsFiniteSet(Tasks)
  /\ \A t \in Tasks : IsResMap(Need[t])
  /\ DOMAIN Total = Nodes /\ \A n \in Nodes : IsResMap(Total[n])
  /\ NoNode \notin Nodes /\ Home \in [Tasks -> Nodes \cup {NoNode}]

VARIABLES
  policy,     \* the SchedulingPolicy the scheduler was created with
  views,      \* GlobalScheduler.nodes: a NodeView, or "absent"
  place,      \* the node schedule_task returned for the task, or its home
  state,      \* external: whether the task waits on its node, holds its
              \* resources there or has ended
  available,  \* external: what each node really has available
  report,     \* external: the report each node has under way
  since,      \* ghost: the tasks that allocated on each node after the snapshot
              \* its view, and its report, comes from
  behind      \* ghost: those that allocated on the task's node after the
              \* snapshot the task was placed by

external == <<available, report>>
vars     == <<policy, views, place, state, external, since, behind>>

Absent == [is_alive |-> FALSE]
Views  == {n \in Nodes : views[n] # Absent}

Waiting(n) == {t \in Tasks : place[t] = n /\ state[t] = "waiting"}

Init ==
  /\ policy \in {"spread", "pack"}
  /\ views = [n \in Nodes |-> Absent]
  /\ place = Home
  /\ state = [t \in Tasks |-> IF Home[t] = NoNode THEN "new" ELSE "waiting"]
  /\ available = Total
  /\ report = [n \in Nodes |-> Absent]
  /\ since = [n \in Nodes |-> [view |-> {}, report |-> {}]]
  /\ behind = [t \in Tasks |-> {}]

-----------------------------------------------------------------------------
\* The policies walk over the eligible nodes in the order the views were
\* collected in.  max_by keeps the last of several maxima, min_by the first
\* of several minima.
CPU(n) == get(views[n].available, "CPU")

\* Mutant: the comparison is the other way round.
max_by_Min(eligible) ==
  LET best[i \in DOMAIN eligible] ==
        IF i = 1 THEN eligible[1]
        ELSE IF CPU(eligible[i]) <= CPU(best[i - 1]) THEN eligible[i] ELSE best[i - 1]
  IN  best[Len(eligible)]

max_by(eligible) ==
  LET best[i \in DOMAIN eligible] ==
        IF i = 1 THEN eligible[1]
        ELSE IF CPU(eligible[i]) >= CPU(best[i - 1]) THEN eligible[i] ELSE best[i - 1]
  IN  best[Len(eligible)]

min_by(eligible) ==
  LET best[i \in DOMAIN eligible] ==
        IF i = 1 THEN eligible[1]
        ELSE IF CPU(eligible[i]) < CPU(best[i - 1]) THEN eligible[i] ELSE best[i - 1]
  IN  best[Len(eligible)]

Eligible(required) ==
  {n \in Views : views[n].is_alive /\ can_satisfy(views[n].available, required)}

\* The orders in which a HashMap may yield the nodes of S.
Orders(S) == {s \in [1 .. Cardinality(S) -> S] : \A i, j \in DOMAIN s : s[i] = s[j] => i = j}

\* Without an alive node, or one with enough resources, the call fails.
schedule_task(t) ==
  /\ state[t] = "new"
  /\ Eligible(Need[t]) # {}
  /\ \E order \in Orders(Eligible(Need[t])) :
       LET n == IF policy = "spread" THEN max_by(order) ELSE min_by(order) IN
       /\ place' = [place EXCEPT ![t] = n]
       /\ state' = [state EXCEPT ![t] = "waiting"]
       /\ behind' = [behind EXCEPT ![t] = since[n].view]
  /\ UNCHANGED <<policy, views, external, since>>

\* Mutant: the total is taken for what is available.
update_node_Total(n, alive) ==
  /\ report[n] # Absent
  /\ views' = [views EXCEPT ![n] = [available |-> Total[n], is_alive |-> alive]]
  /\ report' = [report EXCEPT ![n] = Absent]
  /\ since' = [since EXCEPT ![n].view = since[n].report]
  /\ UNCHANGED <<policy, place, state, available, behind>>

update_node(n, alive) ==
  /\ report[n] # Absent
  /\ views' = [views EXCEPT ![n] = [available |-> report[n].available, is_alive |-> alive]]
  /\ report' = [report EXCEPT ![n] = Absent]
  /\ since' = [since EXCEPT ![n].view = since[n].report]
  /\ UNCHANGED <<policy, place, state, available, behind>>

remove_node(n) ==
  /\ n \in Views
  /\ views' = [views EXCEPT ![n] = Absent]
  /\ UNCHANGED <<policy, place, state, external, since, behind>>

-----------------------------------------------------------------------------
\* The nodes.  A report replaces one still under way.
Snapshot(n) ==
  /\ report' = [report EXCEPT ![n] = [available |-> available[n], is_alive |-> TRUE]]
  /\ since' = [since EXCEPT ![n].report = {}]
  /\ UNCHANGED <<policy, views, place, state, available, behind>>

LoseReport(n) ==
  /\ report[n] # Absent
  /\ report' = [report EXCEPT ![n] = Absent]
  /\ UNCHANGED <<policy, views, place, state, available, since, behind>>

\* The node's ResourceManager: try_allocate, for a task that the node runs or
\* a lease that it grants, and release at the end.
Allocate(t) ==
  LET n == place[t] IN
  /\ state[t] = "waiting"
  /\ can_satisfy(available[n], Need[t])
  /\ available' = [available EXCEPT ![n] = subtract(@, Need[t])]
  /\ state' = [state EXCEPT ![t] = "holding"]
  /\ since' = [since EXCEPT ![n] = [view |-> @.view \cup {t}, report |-> @.report \cup {t}]]
  /\ behind' = [q \in Tasks |-> IF q \in Waiting(n) \ {t} THEN behind[q] \cup {t} ELSE behind[q]]
  /\ UNCHANGED <<policy, views, place, report>>

End(t) ==
  /\ state[t] = "holding"
  /\ available' = [available EXCEPT ![place[t]] = add(@, Need[t])]
  /\ state' = [state EXCEPT ![t] = "ended"]
  /\ UNCHANGED <<policy, views, place, report, since, behind>>

-----------------------------------------------------------------------------
Next ==
  \/ \E t \in Tasks : schedule_task(t) \/ Allocate(t) \/ End(t)
  \/ \E n \in Nodes, alive \in BOOLEAN : update_node(n, alive)
  \/ \E n \in Nodes : remove_node(n) \/ Snapshot(n) \/ LoseReport(n)

Spec == Init /\ [][Next]_vars

-----------------------------------------------------------------------------
IsReport(v) == v = Absent \/ (v.is_alive \in BOOLEAN /\ IsResMap(v.available))

\* The state variables keep their types, a task has a node exactly once it was
\* placed, and what allocated behind a report or a task did so on its node.
TypeOK ==
  /\ policy \in {"spread", "pack"}
  /\ DOMAIN views = Nodes /\ DOMAIN report = Nodes /\ DOMAIN available = Nodes
  /\ \A n \in Nodes : IsReport(views[n]) /\ IsReport(report[n]) /\ IsResMap(available[n])
  /\ place \in [Tasks -> Nodes \cup {NoNode}]
  /\ state \in [Tasks -> {"new", "waiting", "holding", "ended"}]
  /\ \A t \in Tasks : place[t] = NoNode <=> state[t] = "new"
  /\ since \in [Nodes -> [view : SUBSET Tasks, report : SUBSET Tasks]]
  /\ \A n \in Nodes : \A q \in since[n].view \cup since[n].report : place[q] = n
  /\ behind \in [Tasks -> SUBSET Tasks]
  /\ \A t \in Tasks : \A q \in behind[t] : place[q] = place[t] /\ place[t] # NoNode

\* schedule_task returns an alive node that can satisfy the task by its view,
\* and no other such node has more CPU (spread) or less CPU (pack), in
\* whichever order the views are walked over.
BestNode ==
  [][\A t \in Tasks : place'[t] # place[t] =>
       LET n == place'[t]
           candidates == {m \in Views : views[m].is_alive /\ can_satisfy(views[m].available, Need[t])}
       IN  /\ n \in candidates
           /\ \A m \in candidates : IF policy = "spread" THEN CPU(m) <= CPU(n)
                                                         ELSE CPU(n) <= CPU(m)]_vars

\* A task that schedule_task placed and that finds too little left on its node
\* waits for no more than the node has handed out since the snapshot it was
\* placed by, and not got back: to other placements, which do not reduce the
\* view, to the node's own tasks or to leases.  In particular it fits at once
\* when the node has handed out nothing since, however late the report was.
PlacementBacked ==
  \A t \in Tasks : Home[t] = NoNode /\ state[t] = "waiting" =>
    \A r \in Res : get(Need[t], r) <= get(available[place[t]], r)
                     + Demand({q \in behind[t] : state[q] = "holding"}, Need, r)
=============================================================================
