-------------------------------- MODULE Gcs --------------------------------
(***************************************************************************)
(* The Global Control Store: InMemoryGcsStore (ray-gcs store.rs) behind    *)
(* GcsServer (server.rs).                                                  *)
(*                                                                         *)
(* Each table has a lock of its own and each store operation is one        *)
(* critical section.  A handler is one such section, and one action here,  *)
(* except report_node_heartbeat, which copies the node table, changes its  *)
(* copy of one entry and then registers that copy: two sections, between   *)
(* which any other request may be served.  Requests without a required     *)
(* field are refused and change nothing.  Queries change nothing either    *)
(* and are operators on the tables.                                        *)
(*                                                                         *)
(* A request may be repeated at any time, so retries and duplicates are    *)
(* among the behaviours.                                                   *)
(***************************************************************************)
EXTENDS ProtoConv

CONSTANTS NodeMsgs,    \* the NodeInfo messages clients register
          ActorMsgs,   \* the ActorSpec messages clients register
          JobMsgs,     \* the JobInfo messages clients add
          UsageMsgs,   \* the ResourceUsage messages nodes report
          IdMsgs,      \* the id fields of the other requests
          Avails,      \* the available_resources field of a heartbeat
          Reporters    \* heartbeat requests that may be served at a time

ASSUME GcsAssumption ==
  /\ \A m \in NodeMsgs : /\ m.node_id \in IdMsg \cup {Unset}
                         /\ m.address \in STRING
                         /\ m.total_resources = Unset \/ IsResourcesMsg(m.total_resources)
                         /\ m.available_resources = Unset \/ IsResourcesMsg(m.available_resources)
  /\ \A m \in ActorMsgs : m.actor_id \in IdMsg \cup {Unset} /\ m.job_id \in IdMsg \cup {Unset}
  /\ \A m \in JobMsgs : m.job_id \in IdMsg \cup {Unset}
  /\ \A m \in UsageMsgs : m.node_id \in IdMsg \cup {Unset}
  /\ IdMsgs \subseteq IdMsg \cup {Unset}
  /\ \A p \in Avails : p = Unset \/ IsResourcesMsg(p)

VARIABLES nodes, actors, jobs, resource_usage,   \* the tables
          heartbeat,   \* the entry each running heartbeat is about to write
          member,      \* ghost: what registrations and unregistrations alone
                       \* say of each node, with the availabilities reported
          raced        \* ghost: the nodes registered or unregistered while a
                       \* heartbeat held a copy of their entry

tables == <<nodes, actors, jobs, resource_usage>>
ghosts == <<member, raced>>
vars   == <<tables, heartbeat, ghosts>>

NodeIds == Id(IdLen)
Idle    == Unset

\* HashMap::insert and HashMap::remove.
insert(map, k, v) == [x \in DOMAIN map \cup {k} |-> IF x = k THEN v ELSE map[x]]
remove(map, k)    == [x \in DOMAIN map \ {k} |-> map[x]]

Empty == [x \in {} |-> 0]

Init ==
  /\ nodes = Empty
  /\ actors = Empty
  /\ jobs = Empty
  /\ resource_usage = Empty
  /\ heartbeat = [r \in Reporters |-> Idle]
  /\ member = Empty
  /\ raced = {}

\* Some running heartbeat holds a copy of the node's entry.
Held(id) == \E r \in Reporters : heartbeat[r] # Idle /\ heartbeat[r].node_id = id

\* A registration or unregistration settles what is known of the node, unless
\* a copy made before it is still to be written.
Settle(id) == raced' = IF Held(id) THEN raced \cup {id} ELSE raced \ {id}

-----------------------------------------------------------------------------
\* Nodes.
NodeOf(m) ==
  [node_id             |-> id_from_option(IdLen, m.node_id),
   address             |-> m.address,
   total_resources     |-> resources_from_option(m.total_resources),
   available_resources |-> resources_from_option(m.available_resources),
   is_alive            |-> TRUE]

\* InMemoryGcsStore::register_node.
StoreNode(n) == nodes' = insert(nodes, n.node_id, n)

register_node(m) ==
  LET n == NodeOf(m) IN
  /\ StoreNode(n)
  /\ member' = insert(member, n.node_id,
                      [address |-> n.address, total |-> n.total_resources,
                       reported |-> {n.available_resources}])
  /\ Settle(n.node_id)
  /\ UNCHANGED <<actors, jobs, resource_usage, heartbeat>>

unregister_node(p) ==
  LET id == id_from_proto(IdLen, p) IN
  /\ p # Unset
  /\ nodes' = remove(nodes, id)
  /\ member' = remove(member, id)
  /\ Settle(id)
  /\ UNCHANGED <<actors, jobs, resource_usage, heartbeat>>

\* `member` once the availability `now` of the node was reported.
Reported(id, now) ==
  insert(member, id, [address |-> member[id].address, total |-> member[id].total,
                      reported |-> member[id].reported \cup {now}])

\* report_node_heartbeat up to its register_node: a copy of the table is
\* searched for the node.  When it is not there, nothing more happens.
report_node_heartbeat(r, p, avail) ==
  LET id == id_from_proto(IdLen, p)
      now == resources_from_proto(avail)
  IN
  /\ heartbeat[r] = Idle
  /\ p # Unset
  /\ avail # Unset
  /\ id \in DOMAIN nodes
  /\ heartbeat' = [heartbeat EXCEPT ![r] =
                     [nodes[id] EXCEPT !.available_resources = now]]
  /\ member' = IF id \in DOMAIN member THEN Reported(id, now) ELSE member
  /\ UNCHANGED <<tables, raced>>

\* Mutant: the reported availability is taken for the node's total as well.
HeartbeatWrite_Total(r) ==
  /\ heartbeat[r] # Idle
  /\ StoreNode([heartbeat[r] EXCEPT !.total_resources = heartbeat[r].available_resources])
  /\ heartbeat' = [heartbeat EXCEPT ![r] = Idle]
  /\ UNCHANGED <<actors, jobs, resource_usage, ghosts>>

HeartbeatWrite(r) ==
  /\ heartbeat[r] # Idle
  /\ StoreNode(heartbeat[r])
  /\ heartbeat' = [heartbeat EXCEPT ![r] = Idle]
  /\ UNCHANGED <<actors, jobs, resource_usage, ghosts>>

get_all_node_info == {node_info_to_proto_fields(nodes[id]) : id \in DOMAIN nodes}

-----------------------------------------------------------------------------
\* Actors.  Nothing in the code moves an actor to Alive or Restarting.
register_actor(m) ==
  LET spec == actor_spec_from_proto(m) IN
  /\ spec # Unset
  /\ actors' = insert(actors, spec.actor_id,
                      [actor_id     |-> spec.actor_id,
                       job_id       |-> spec.job_id,
                       class_name   |-> spec.class_name,
                       state        |-> "Pending",
                       node_id      |-> default(IdLen),
                       num_restarts |-> 0])
  /\ UNCHANGED <<nodes, jobs, resource_usage, heartbeat, ghosts>>

\* Killing an unknown actor is an error.
kill_actor(p) ==
  LET id == id_from_proto(IdLen, p) IN
  /\ p # Unset
  /\ id \in DOMAIN actors
  /\ actors' = [actors EXCEPT ![id].state = "Dead"]
  /\ UNCHANGED <<nodes, jobs, resource_usage, heartbeat, ghosts>>

\* The reply to get_actor_info; Unset stands for an error status.
get_actor_info(p) ==
  LET id == id_from_proto(IdLen, p) IN
  IF p = Unset \/ id \notin DOMAIN actors
  THEN Unset ELSE actor_info_to_proto_fields(actors[id])

get_all_actor_info(job) ==
  {actor_info_to_proto_fields(actors[id]) :
     id \in {a \in DOMAIN actors : job # Unset => actors[a].job_id = id_from_proto(IdLen, job)}}

-----------------------------------------------------------------------------
\* Jobs.  The time is that of the server's clock or what the client sent.
add_job(m) ==
  LET id == id_from_option(IdLen, m.job_id) IN
  /\ jobs' = insert(jobs, id, [job_id |-> id, end_time |-> m.end_time, is_dead |-> m.is_dead])
  /\ UNCHANGED <<nodes, actors, resource_usage, heartbeat, ghosts>>

mark_job_finished(p) ==
  LET id == id_from_proto(IdLen, p) IN
  /\ p # Unset
  /\ id \in DOMAIN jobs
  /\ jobs' = [jobs EXCEPT ![id].is_dead = TRUE, ![id].end_time = "now"]
  /\ UNCHANGED <<nodes, actors, resource_usage, heartbeat, ghosts>>

get_all_job_info ==
  {[job_id   |-> id_to_option(jobs[id].job_id),
    end_time |-> jobs[id].end_time,
    is_dead  |-> jobs[id].is_dead] : id \in DOMAIN jobs}

-----------------------------------------------------------------------------
\* Resource usage: a table of its own, which no other request touches.
report_resource_usage(m) ==
  LET id == id_from_option(IdLen, m.node_id) IN
  /\ resource_usage' = insert(resource_usage, id,
                              [node_id   |-> id,
                               available |-> resources_from_option(m.available),
                               total     |-> resources_from_option(m.total)])
  /\ UNCHANGED <<nodes, actors, jobs, heartbeat, ghosts>>

get_all_resource_usage ==
  {[node_id   |-> id_to_option(resource_usage[id].node_id),
    available |-> resources_to_option(resource_usage[id].available),
    total     |-> resources_to_option(resource_usage[id].total)] :
     id \in DOMAIN resource_usage}

-----------------------------------------------------------------------------
Next ==
  \/ \E m \in NodeMsgs : register_node(m)
  \/ \E p \in IdMsgs : unregister_node(p)
  \/ \E r \in Reporters, p \in IdMsgs, avail \in Avails : report_node_heartbeat(r, p, avail)
  \/ \E r \in Reporters : HeartbeatWrite(r)
  \/ \E m \in ActorMsgs : register_actor(m)
  \/ \E p \in IdMsgs : kill_actor(p)
  \/ \E m \in JobMsgs : add_job(m)
  \/ \E p \in IdMsgs : mark_job_finished(p)
  \/ \E m \in UsageMsgs : report_resource_usage(m)

Spec == Init /\ [][Next]_vars

-----------------------------------------------------------------------------
IsNodeInfo(n) ==
  /\ n = [node_id |-> n.node_id, address |-> n.address, is_alive |-> n.is_alive,
          total_resources |-> n.total_resources,
          available_resources |-> n.available_resources]
  /\ n.node_id \in NodeIds /\ n.is_alive
  /\ IsResMap(n.total_resources) /\ IsResMap(n.available_resources)

IsActorInfo(a) ==
  /\ a = [actor_id |-> a.actor_id, job_id |-> a.job_id, class_name |-> a.class_name,
          state |-> a.state, node_id |-> a.node_id, num_restarts |-> 0]
  /\ a.actor_id \in NodeIds /\ a.job_id \in NodeIds
  /\ a.state \in {"Pending", "Dead"}

\* The state variables keep their types: tables are keyed by the id inside the
\* entry, of IdLen bytes whatever arrived on the wire.
TypeOK ==
  /\ DOMAIN nodes \subseteq NodeIds
  /\ \A id \in DOMAIN nodes : IsNodeInfo(nodes[id]) /\ nodes[id].node_id = id
  /\ DOMAIN actors \subseteq NodeIds
  /\ \A id \in DOMAIN actors : IsActorInfo(actors[id]) /\ actors[id].actor_id = id
  /\ DOMAIN jobs \subseteq NodeIds
  /\ DOMAIN resource_usage \subseteq NodeIds
  /\ DOMAIN heartbeat = Reporters
  /\ \A r \in Reporters : heartbeat[r] = Idle \/ IsNodeInfo(heartbeat[r])
  /\ DOMAIN member \subseteq NodeIds
  /\ raced \subseteq NodeIds

\* An entry, in the table or held by a heartbeat, says of its node what the
\* registrations said, with an availability reported since.
Agrees(n) ==
  /\ n.node_id \in DOMAIN member
  /\ n.address = member[n.node_id].address
  /\ n.total_resources = member[n.node_id].total
  /\ n.available_resources \in member[n.node_id].reported

\* The table lists the nodes that registered and did not unregister, as they
\* registered: an unregistered node does not come back and a re-registered one
\* does not get its old address back.  The exception is the lost update of
\* report_node_heartbeat: a node registered or unregistered between its two
\* store calls, until the next undisturbed (un)registration.
MembershipFaithful ==
  \A id \in NodeIds \ raced :
    /\ id \in DOMAIN nodes <=> id \in DOMAIN member
    /\ id \in DOMAIN nodes => Agrees(nodes[id])

\* The inductive invariant: what is about to be written agrees as well.
HeartbeatInv ==
  \A r \in Reporters :
    heartbeat[r] # Idle /\ heartbeat[r].node_id \notin raced => Agrees(heartbeat[r])

IInv == TypeOK /\ MembershipFaithful /\ HeartbeatInv

\* A client may use what it reads: the id of a listed actor, sent back, finds
\* the same actor, and so does the filter on its job; registering a listed
\* node again would leave its entry as it is.
RepliesUsable ==
  /\ \A a \in get_all_actor_info(Unset) :
       get_actor_info(a.actor_id) = a /\ a \in get_all_actor_info(a.job_id)
  /\ \A n \in get_all_node_info :
       LET core == NodeOf(n) IN core.node_id \in DOMAIN nodes /\ nodes[core.node_id] = core
=============================================================================
