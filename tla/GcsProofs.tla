----------------------------- MODULE GcsProofs -----------------------------
(***************************************************************************)
(* Proofs about the conversions of ProtoConv and about the GCS, for ids of *)
(* any length and any messages.                                            *)
(***************************************************************************)
EXTENDS Gcs, TLAPS

-----------------------------------------------------------------------------
(***************************************************************************)
(* Conversions                                                             *)
(***************************************************************************)

\* Whatever bytes arrive, from_slice makes an id of the right size of them.
LEMMA FromSliceSize ==
  ASSUME NEW size \in Nat, NEW s \in Seq(Byte)
  PROVE  from_slice(size, s) \in Id(size)
BY ByteAssumption DEF from_slice, Id

\* A message for an id is not an absent field.
LEMMA IdMsgPresent ==
  ASSUME NEW x
  PROVE  [id |-> x] # Unset
<1>1. "id" \in DOMAIN [id |-> x]
  OBVIOUS
<1>2. "id" \notin DOMAIN Unset
  BY DEF Unset
<1> QED
  BY <1>1, <1>2

\* The same for a message of resources.
LEMMA ResourcesMsgPresent ==
  ASSUME NEW x
  PROVE  [resource_map |-> x] # Unset
<1>1. "resource_map" \in DOMAIN [resource_map |-> x]
  OBVIOUS
<1>2. "resource_map" \notin DOMAIN Unset
  BY DEF Unset
<1> QED
  BY <1>1, <1>2

\* An id that to_vec wrote is read back by from_slice.
LEMMA IdRoundTrip ==
  ASSUME NEW size \in Nat, NEW i \in Id(size)
  PROVE  /\ from_slice(size, to_vec(i)) = i
         /\ id_from_proto(size, id_to_proto(i)) = i
         /\ id_from_option(size, id_to_option(i)) = i
         /\ id_to_proto(i) # Unset
         /\ id_to_option(i) # Unset
         /\ id_to_proto(i).id = i
<1>1. i \in Seq(Byte) /\ Len(i) = size /\ i = [k \in 1 .. size |-> i[k]]
  BY DEF Id
<1>2. from_slice(size, to_vec(i)) = i
  BY <1>1 DEF from_slice, to_vec
<1>3. id_to_proto(i) # Unset /\ id_to_proto(i).id = i
  BY IdMsgPresent DEF id_to_proto, to_vec
<1> QED
  BY <1>2, <1>3 DEF id_from_proto, id_to_proto, id_from_option, id_to_option

\* An id read from a message, or the default of an absent one, has its size.
LEMMA IdFromMessage ==
  ASSUME NEW p \in IdMsg \cup {Unset}
  PROVE  /\ p # Unset => id_from_proto(IdLen, p) \in NodeIds
         /\ id_from_option(IdLen, p) \in NodeIds
<1>1. p # Unset => id_from_proto(IdLen, p) \in NodeIds
  BY FromSliceSize, LengthAssumption DEF IdMsg, id_from_proto, NodeIds
<1>2. default(IdLen) \in NodeIds
  BY ByteAssumption DEF default, NodeIds, Id
<1> QED
  BY <1>1, <1>2 DEF id_from_option

\* Resource maps survive the wire.
LEMMA ResourcesRoundTrip ==
  ASSUME NEW m, IsResMap(m)
  PROVE  resources_from_option(resources_to_option(m)) = m
<1>1. m = [r \in DOMAIN m |-> m[r]]
  BY DEF IsResMap
<1>2. resources_to_option(m) = [resource_map |-> m]
  BY DEF resources_to_option, resources_to_proto
<1>3. resources_to_option(m) # Unset
  BY <1>2, ResourcesMsgPresent
<1> QED
  BY <1>1, <1>2, <1>3 DEF resources_from_option, resources_from_proto

\* What a message or its absence says of resources is a resource map.
LEMMA ResourcesFromMessage ==
  ASSUME NEW p, p = Unset \/ IsResourcesMsg(p)
  PROVE  IsResMap(resources_from_option(p))
<1>1. IsResMap([r \in {} |-> 0])
  BY DEF IsResMap
<1>2. CASE p = Unset
  BY <1>1, <1>2 DEF resources_from_option
<1>3. CASE p # Unset
  BY <1>3 DEF resources_from_option, resources_from_proto, IsResourcesMsg, IsResMap
<1> QED
  BY <1>2, <1>3

\* Lists of object ids survive the wire.
LEMMA ObjectIdsRoundTrip ==
  ASSUME NEW ids \in Seq(Id(ObjectIdLen))
  PROVE  object_ids_from_proto(object_ids_to_proto(ids)) = ids
<1>1. \A i \in DOMAIN ids : id_from_proto(ObjectIdLen, id_to_proto(ids[i])) = ids[i]
  BY IdRoundTrip, LengthAssumption
<1>2. ids = [i \in DOMAIN ids |-> ids[i]]
  OBVIOUS
<1> QED
  BY <1>1, <1>2 DEF object_ids_from_proto, object_ids_to_proto

\* A task specification that task_spec_to_proto wrote is read back unchanged by
\* task_spec_from_proto: the fields that are not kept are not in the core type.
THEOREM TaskSpecRoundTrip ==
  ASSUME NEW c,
         c = [task_id |-> c.task_id, job_id |-> c.job_id,
              function_name |-> c.function_name, function_payload |-> c.function_payload,
              return_ids |-> c.return_ids, dependency_ids |-> c.dependency_ids,
              required_resources |-> c.required_resources, max_retries |-> c.max_retries],
         c.task_id \in Id(IdLen), c.job_id \in Id(IdLen),
         c.return_ids \in Seq(Id(ObjectIdLen)), c.dependency_ids \in Seq(Id(ObjectIdLen)),
         IsResMap(c.required_resources)
  PROVE  task_spec_from_proto(task_spec_to_proto(c)) = c
<1> DEFINE p == task_spec_to_proto(c)
<1>1. /\ p.task_id = id_to_option(c.task_id) /\ p.job_id = id_to_option(c.job_id)
      /\ p.function_name = c.function_name /\ p.function_payload = c.function_payload
      /\ p.return_ids = object_ids_to_proto(c.return_ids)
      /\ p.dependency_ids = object_ids_to_proto(c.dependency_ids)
      /\ p.required_resources = resources_to_option(c.required_resources)
      /\ p.max_retries = c.max_retries
  BY DEF task_spec_to_proto
<1> HIDE DEF p
<1>2. /\ p.task_id # Unset /\ id_from_proto(IdLen, p.task_id) = c.task_id
      /\ p.job_id # Unset /\ id_from_proto(IdLen, p.job_id) = c.job_id
  BY <1>1, IdRoundTrip, LengthAssumption DEF id_to_option
<1>3. /\ object_ids_from_proto(p.return_ids) = c.return_ids
      /\ object_ids_from_proto(p.dependency_ids) = c.dependency_ids
      /\ resources_from_option(p.required_resources) = c.required_resources
  BY <1>1, ObjectIdsRoundTrip, ResourcesRoundTrip
<1>4. task_spec_from_proto(p) = c
  BY <1>1, <1>2, <1>3, Zenon DEF task_spec_from_proto
<1> QED
  BY <1>4 DEF p

\* The same for actor_spec_to_proto and actor_spec_from_proto.
THEOREM ActorSpecRoundTrip ==
  ASSUME NEW c,
         c = [actor_id |-> c.actor_id, job_id |-> c.job_id,
              class_name |-> c.class_name, class_payload |-> c.class_payload,
              constructor_args |-> c.constructor_args,
              required_resources |-> c.required_resources, max_restarts |-> c.max_restarts],
         c.actor_id \in Id(IdLen), c.job_id \in Id(IdLen),
         IsResMap(c.required_resources)
  PROVE  actor_spec_from_proto(actor_spec_to_proto(c)) = c
<1> DEFINE p == actor_spec_to_proto(c)
<1>1. /\ p.actor_id = id_to_option(c.actor_id) /\ p.job_id = id_to_option(c.job_id)
      /\ p.class_name = c.class_name /\ p.class_payload = c.class_payload
      /\ p.constructor_args = c.constructor_args
      /\ p.required_resources = resources_to_option(c.required_resources)
      /\ p.max_restarts = c.max_restarts
  BY DEF actor_spec_to_proto
<1> HIDE DEF p
<1>2. /\ p.actor_id # Unset /\ id_from_proto(IdLen, p.actor_id) = c.actor_id
      /\ p.job_id # Unset /\ id_from_proto(IdLen, p.job_id) = c.job_id
  BY <1>1, IdRoundTrip, LengthAssumption DEF id_to_option
<1>3. resources_from_option(p.required_resources) = c.required_resources
  BY <1>1, ResourcesRoundTrip
<1>4. actor_spec_from_proto(p) = c
  BY <1>1, <1>2, <1>3, Zenon DEF actor_spec_from_proto
<1> QED
  BY <1>4 DEF p

\* Every task status and every actor state survives the wire, and no two share
\* a number.
THEOREM EnumsRoundTrip ==
  /\ \A s \in TaskStatus : task_status_from_proto(task_status_to_proto(s)) = s
  /\ \A s \in ActorState : actor_state_from_proto(actor_state_to_proto(s)) = s
<1>1. ASSUME NEW s \in TaskStatus
      PROVE  task_status_from_proto(task_status_to_proto(s)) = s
  <2>1. task_status_to_proto(s) \in 1 .. 6
    BY DEF TaskStatus, task_status_to_proto
  <2>2. \A t \in TaskStatus : task_status_to_proto(t) = task_status_to_proto(s) => t = s
    BY DEF TaskStatus, task_status_to_proto
  <2> QED
    BY <2>1, <2>2 DEF task_status_from_proto
<1>2. ASSUME NEW s \in ActorState
      PROVE  actor_state_from_proto(actor_state_to_proto(s)) = s
  <2>1. actor_state_to_proto(s) \in 1 .. 4
    BY DEF ActorState, actor_state_to_proto
  <2>2. \A t \in ActorState : actor_state_to_proto(t) = actor_state_to_proto(s) => t = s
    BY DEF ActorState, actor_state_to_proto
  <2> QED
    BY <2>1, <2>2 DEF actor_state_from_proto
<1> QED
  BY <1>1, <1>2

-----------------------------------------------------------------------------
(***************************************************************************)
(* The GCS                                                                 *)
(***************************************************************************)

\* The entry that register_node makes of a message is well formed.
LEMMA NodeOfMessage ==
  ASSUME NEW m \in NodeMsgs
  PROVE  IsNodeInfo(NodeOf(m))
<1>1. NodeOf(m).node_id \in NodeIds
  BY IdFromMessage, GcsAssumption DEF NodeOf
<1>2. /\ IsResMap(NodeOf(m).total_resources)
      /\ IsResMap(NodeOf(m).available_resources)
  BY ResourcesFromMessage, GcsAssumption DEF NodeOf
<1> QED
  BY <1>1, <1>2 DEF IsNodeInfo, NodeOf

\* The tables start out empty.
LEMMA InitIInv == Init => IInv
<1> SUFFICES ASSUME Init PROVE IInv
  OBVIOUS
<1>1. DOMAIN Empty = {}
  BY DEF Empty
<1>2. TypeOK
  BY <1>1 DEF Init, TypeOK
<1>3. MembershipFaithful
  BY <1>1 DEF Init, MembershipFaithful
<1>4. HeartbeatInv
  BY DEF Init, HeartbeatInv
<1> QED
  BY <1>2, <1>3, <1>4 DEF IInv

\* register_node keeps the invariant: a copy of the old entry that is still to
\* be written puts the node among the raced ones.
LEMMA RegisterNodeInv ==
  ASSUME IInv, NEW m \in NodeMsgs, register_node(m)
  PROVE  IInv'
<1> DEFINE n == NodeOf(m)
           k == n.node_id
<1>1. IsNodeInfo(n) /\ k \in NodeIds
  BY NodeOfMessage DEF IsNodeInfo
<1> HIDE DEF n
<1>2. /\ nodes' = insert(nodes, k, n)
      /\ member' = insert(member, k, [address |-> n.address, total |-> n.total_resources,
                                      reported |-> {n.available_resources}])
      /\ Settle(k)
      /\ UNCHANGED <<actors, jobs, resource_usage, heartbeat>>
  BY DEF register_node, StoreNode, n
<1>3. /\ DOMAIN nodes' = DOMAIN nodes \cup {k} /\ nodes'[k] = n
      /\ \A x \in DOMAIN nodes : x # k => nodes'[x] = nodes[x]
      /\ DOMAIN member' = DOMAIN member \cup {k}
      /\ member'[k] = [address |-> n.address, total |-> n.total_resources,
                       reported |-> {n.available_resources}]
      /\ \A x \in DOMAIN member : x # k => member'[x] = member[x]
  BY <1>2, Zenon DEF insert
<1>4. raced' \subseteq NodeIds /\ raced \ {k} \subseteq raced'
  BY <1>1, <1>2 DEF Settle, IInv, TypeOK
<1>5. TypeOK'
  <2>1. \A x \in DOMAIN nodes' : IsNodeInfo(nodes'[x]) /\ nodes'[x].node_id = x
    BY <1>1, <1>3 DEF IInv, TypeOK
  <2>2. DOMAIN nodes' \subseteq NodeIds /\ DOMAIN member' \subseteq NodeIds
    BY <1>1, <1>3 DEF IInv, TypeOK
  <2> QED
    BY <1>2, <1>4, <2>1, <2>2 DEF IInv, TypeOK
<1>6. MembershipFaithful'
  <2> SUFFICES ASSUME NEW x \in NodeIds \ raced'
               PROVE  /\ x \in DOMAIN nodes' <=> x \in DOMAIN member'
                      /\ x \in DOMAIN nodes' => Agrees(nodes[x])'
    BY DEF MembershipFaithful
  <2>1. CASE x = k
    BY <1>1, <1>3, <2>1 DEF Agrees
  <2>2. CASE x # k
    BY <1>3, <1>4, <2>2 DEF IInv, TypeOK, MembershipFaithful, Agrees
  <2> QED
    BY <2>1, <2>2
<1>7. HeartbeatInv'
  <2> SUFFICES ASSUME NEW r \in Reporters, heartbeat[r] # Idle,
                      heartbeat[r].node_id \notin raced'
               PROVE  Agrees(heartbeat[r])'
    BY <1>2, Zenon DEF HeartbeatInv
  <2>1. heartbeat[r].node_id # k
    BY <1>2 DEF Settle, Held
  <2>2. Agrees(heartbeat[r])
    BY <1>4, <2>1 DEF IInv, HeartbeatInv
  <2> QED
    BY <1>2, <1>3, <2>1, <2>2 DEF Agrees
<1> QED
  BY <1>5, <1>6, <1>7 DEF IInv

\* So does unregister_node.
LEMMA UnregisterNodeInv ==
  ASSUME IInv, NEW p \in IdMsgs, unregister_node(p)
  PROVE  IInv'
<1> DEFINE k == id_from_proto(IdLen, p)
<1>1. k \in NodeIds
  BY IdFromMessage, GcsAssumption DEF unregister_node
<1> HIDE DEF k
<1>2. /\ nodes' = remove(nodes, k) /\ member' = remove(member, k)
      /\ Settle(k)
      /\ UNCHANGED <<actors, jobs, resource_usage, heartbeat>>
  BY DEF unregister_node, k
<1>3. /\ DOMAIN nodes' = DOMAIN nodes \ {k}
      /\ \A x \in DOMAIN nodes : x # k => nodes'[x] = nodes[x]
      /\ DOMAIN member' = DOMAIN member \ {k}
      /\ \A x \in DOMAIN member : x # k => member'[x] = member[x]
  BY <1>2, Zenon DEF remove
<1>4. raced' \subseteq NodeIds /\ raced \ {k} \subseteq raced'
  BY <1>1, <1>2 DEF Settle, IInv, TypeOK
<1>5. TypeOK'
  <2>1. \A x \in DOMAIN nodes' : IsNodeInfo(nodes'[x]) /\ nodes'[x].node_id = x
    BY <1>1, <1>3 DEF IInv, TypeOK
  <2>2. DOMAIN nodes' \subseteq NodeIds /\ DOMAIN member' \subseteq NodeIds
    BY <1>1, <1>3 DEF IInv, TypeOK
  <2> QED
    BY <1>2, <1>4, <2>1, <2>2 DEF IInv, TypeOK
<1>6. MembershipFaithful'
  <2> SUFFICES ASSUME NEW x \in NodeIds \ raced'
               PROVE  /\ x \in DOMAIN nodes' <=> x \in DOMAIN member'
                      /\ x \in DOMAIN nodes' => Agrees(nodes[x])'
    BY DEF MembershipFaithful
  <2>1. CASE x = k
    BY <1>3, <2>1
  <2>2. CASE x # k
    BY <1>3, <1>4, <2>2 DEF IInv, TypeOK, MembershipFaithful, Agrees
  <2> QED
    BY <2>1, <2>2
<1>7. HeartbeatInv'
  <2> SUFFICES ASSUME NEW r \in Reporters, heartbeat[r] # Idle,
                      heartbeat[r].node_id \notin raced'
               PROVE  Agrees(heartbeat[r])'
    BY <1>2, Zenon DEF HeartbeatInv
  <2>1. heartbeat[r].node_id # k
    BY <1>2 DEF Settle, Held
  <2>2. Agrees(heartbeat[r])
    BY <1>4, <2>1 DEF IInv, HeartbeatInv
  <2> QED
    BY <1>2, <1>3, <2>1, <2>2 DEF Agrees
<1> QED
  BY <1>5, <1>6, <1>7 DEF IInv

\* The first section of report_node_heartbeat: the copy agrees with the
\* registrations as the entry did, and the new availability counts as reported.
LEMMA HeartbeatInvReport ==
  ASSUME IInv, NEW q \in Reporters, NEW p \in IdMsgs, NEW avail \in Avails,
         report_node_heartbeat(q, p, avail)
  PROVE  IInv'
<1> DEFINE k == id_from_proto(IdLen, p)
           now == resources_from_proto(avail)
           n == [nodes[k] EXCEPT !.available_resources = now]
<1>1. /\ k \in DOMAIN nodes /\ heartbeat[q] = Idle
      /\ heartbeat' = [heartbeat EXCEPT ![q] = n]
      /\ member' = IF k \in DOMAIN member THEN Reported(k, now) ELSE member
      /\ UNCHANGED <<tables, raced>>
  BY DEF report_node_heartbeat
<1>2. IsResMap(now)
  <2>1. avail # Unset
    BY DEF report_node_heartbeat
  <2>2. IsResMap(resources_from_option(avail))
    BY ResourcesFromMessage, GcsAssumption
  <2> QED
    BY <2>1, <2>2 DEF resources_from_option
<1> HIDE DEF k, now
<1>3. IsNodeInfo(nodes[k]) /\ nodes[k].node_id = k /\ k \in NodeIds
  BY <1>1 DEF IInv, TypeOK
<1>4. /\ IsNodeInfo(n) /\ n.node_id = k
      /\ n.address = nodes[k].address /\ n.total_resources = nodes[k].total_resources
      /\ n.available_resources = now
  <2>1. PICK a, b, t, v :
          nodes[k] = [node_id |-> k, address |-> a, is_alive |-> b,
                      total_resources |-> t, available_resources |-> v]
    BY <1>3, Zenon DEF IsNodeInfo
  <2>2. n = [node_id |-> k, address |-> a, is_alive |-> b,
             total_resources |-> t, available_resources |-> now]
    BY <2>1
  <2> QED
    BY <1>2, <1>3, <2>1, <2>2 DEF IsNodeInfo
<1> HIDE DEF n
<1>5. DOMAIN heartbeat = Reporters
  BY DEF IInv, TypeOK
<1>6. /\ DOMAIN heartbeat' = Reporters /\ heartbeat'[q] = n
      /\ \A r \in Reporters : r # q => heartbeat'[r] = heartbeat[r]
  BY <1>1, <1>5
<1>7. /\ DOMAIN member' = DOMAIN member
      /\ \A x \in DOMAIN member : x # k => member'[x] = member[x]
      /\ k \in DOMAIN member =>
           member'[k] = [address |-> member[k].address, total |-> member[k].total,
                         reported |-> member[k].reported \cup {now}]
  <2>1. CASE k \in DOMAIN member
    BY <1>1, <2>1, Zenon DEF Reported, insert
  <2>2. CASE k \notin DOMAIN member
    BY <1>1, <2>2
  <2> QED
    BY <2>1, <2>2
<1>8. TypeOK'
  <2>1. \A r \in Reporters : heartbeat'[r] = Idle \/ IsNodeInfo(heartbeat'[r])
    BY <1>4, <1>6 DEF IInv, TypeOK
  <2> QED
    BY <1>1, <1>6, <1>7, <2>1, Zenon DEF IInv, TypeOK, tables, IsNodeInfo, IsActorInfo
<1>9. ASSUME NEW e, Agrees(e)
      PROVE  /\ e.node_id \in DOMAIN member'
             /\ e.address = member'[e.node_id].address
             /\ e.total_resources = member'[e.node_id].total
             /\ e.available_resources \in member'[e.node_id].reported
  <2>1. CASE e.node_id = k
    BY <1>7, <1>9, <2>1 DEF Agrees
  <2>2. CASE e.node_id # k
    BY <1>7, <1>9, <2>2 DEF Agrees
  <2> QED
    BY <2>1, <2>2
<1>10. MembershipFaithful'
  <2>1. ASSUME NEW x \in NodeIds \ raced, x \in DOMAIN nodes
        PROVE  Agrees(nodes[x])'
    <3>1. Agrees(nodes[x])
      BY <2>1 DEF IInv, MembershipFaithful
    <3> QED
      BY <1>1, <1>9, <3>1, Zenon DEF Agrees, tables
  <2> QED
    BY <1>1, <1>7, <2>1 DEF IInv, MembershipFaithful, tables
<1>11. HeartbeatInv'
  <2> SUFFICES ASSUME NEW r \in Reporters, heartbeat'[r] # Idle,
                      heartbeat'[r].node_id \notin raced
               PROVE  Agrees(heartbeat[r])'
    BY <1>1 DEF HeartbeatInv
  <2>1. CASE r = q
    <3>1. Agrees(nodes[k]) /\ k \in DOMAIN member
      BY <1>1, <1>3, <1>4, <1>6, <2>1 DEF IInv, MembershipFaithful, Agrees
    <3>2. now \in member'[k].reported
      BY <1>7, <3>1
    <3> QED
      BY <1>3, <1>4, <1>6, <1>9, <2>1, <3>1, <3>2 DEF Agrees
  <2>2. CASE r # q
    <3>1. Agrees(heartbeat[r])
      BY <1>6, <2>2 DEF IInv, HeartbeatInv
    <3> QED
      BY <1>6, <1>9, <2>2, <3>1, Zenon DEF Agrees
  <2> QED
    BY <2>1, <2>2
<1> QED
  BY <1>8, <1>10, <1>11 DEF IInv

\* The second section: unless the node is raced, the copy is as good as the
\* entry it replaces.
LEMMA HeartbeatInvWrite ==
  ASSUME IInv, NEW q \in Reporters, HeartbeatWrite(q)
  PROVE  IInv'
<1> DEFINE n == heartbeat[q]
           k == n.node_id
<1>1. n # Idle /\ IsNodeInfo(n) /\ k \in NodeIds
  BY DEF HeartbeatWrite, IInv, TypeOK, IsNodeInfo
<1>2. /\ nodes' = insert(nodes, k, n)
      /\ heartbeat' = [heartbeat EXCEPT ![q] = Idle]
      /\ UNCHANGED <<actors, jobs, resource_usage, member, raced>>
  BY DEF HeartbeatWrite, StoreNode, ghosts
<1>3. k \notin raced => Agrees(n)
  BY <1>1 DEF IInv, HeartbeatInv
<1> HIDE DEF n
<1>4. /\ DOMAIN nodes' = DOMAIN nodes \cup {k} /\ nodes'[k] = n
      /\ \A x \in DOMAIN nodes : x # k => nodes'[x] = nodes[x]
  BY <1>2, Zenon DEF insert
<1>5. DOMAIN heartbeat = Reporters
  BY DEF IInv, TypeOK
<1>6. /\ DOMAIN heartbeat' = Reporters /\ heartbeat'[q] = Idle
      /\ \A r \in Reporters : r # q => heartbeat'[r] = heartbeat[r]
  BY <1>2, <1>5
<1>7. TypeOK'
  <2>1. \A r \in Reporters : heartbeat'[r] = Idle \/ IsNodeInfo(heartbeat'[r])
    BY <1>6 DEF IInv, TypeOK
  <2>2. \A x \in DOMAIN nodes' : IsNodeInfo(nodes'[x]) /\ nodes'[x].node_id = x
    BY <1>1, <1>4 DEF IInv, TypeOK
  <2>3. DOMAIN nodes' \subseteq NodeIds
    BY <1>1, <1>4 DEF IInv, TypeOK
  <2> QED
    BY <1>2, <1>6, <2>1, <2>2, <2>3 DEF IInv, TypeOK
<1>8. MembershipFaithful'
  <2> SUFFICES ASSUME NEW x \in NodeIds \ raced
               PROVE  /\ x \in DOMAIN nodes' <=> x \in DOMAIN member
                      /\ x \in DOMAIN nodes' => Agrees(nodes[x])'
    BY <1>2 DEF MembershipFaithful
  <2>1. CASE x = k
    BY <1>2, <1>3, <1>4, <2>1 DEF Agrees
  <2>2. CASE x # k
    BY <1>2, <1>4, <2>2 DEF IInv, MembershipFaithful, Agrees
  <2> QED
    BY <2>1, <2>2
<1>9. HeartbeatInv'
  BY <1>2, <1>6 DEF IInv, HeartbeatInv, Agrees
<1> QED
  BY <1>7, <1>8, <1>9 DEF IInv

\* The requests on actors leave the nodes alone and keep the actor table typed.
LEMMA ActorsInv ==
  ASSUME IInv,
         \/ \E m \in ActorMsgs : register_actor(m)
         \/ \E p \in IdMsgs : kill_actor(p)
  PROVE  IInv'
<1>1. UNCHANGED <<nodes, jobs, resource_usage, heartbeat, member, raced>>
  BY Zenon DEF register_actor, kill_actor, ghosts
<1>2. /\ DOMAIN actors' \subseteq NodeIds
      /\ \A x \in DOMAIN actors' : IsActorInfo(actors'[x]) /\ actors'[x].actor_id = x
  <2>0. /\ DOMAIN actors \subseteq NodeIds
        /\ \A x \in DOMAIN actors : IsActorInfo(actors[x]) /\ actors[x].actor_id = x
    BY DEF IInv, TypeOK
  <2>1. ASSUME NEW m \in ActorMsgs, register_actor(m)
        PROVE  <1>2!1 /\ <1>2!2
    <3> DEFINE spec == actor_spec_from_proto(m)
    <3>1. m.actor_id \in IdMsg /\ m.job_id \in IdMsg
      BY <2>1, GcsAssumption DEF register_actor, actor_spec_from_proto
    <3>2. /\ spec.actor_id = id_from_proto(IdLen, m.actor_id)
          /\ spec.job_id = id_from_proto(IdLen, m.job_id)
      BY <2>1 DEF register_actor, actor_spec_from_proto
    <3>3. spec.actor_id \in NodeIds /\ spec.job_id \in NodeIds
      BY <3>1, <3>2, FromSliceSize, LengthAssumption DEF IdMsg, id_from_proto, NodeIds
    <3> HIDE DEF spec
    <3>4. PICK a : /\ a = [actor_id |-> spec.actor_id, job_id |-> spec.job_id,
                           class_name |-> spec.class_name, state |-> "Pending",
                           node_id |-> default(IdLen), num_restarts |-> 0]
                   /\ actors' = insert(actors, spec.actor_id, a)
      BY <2>1, Zenon DEF register_actor, spec
    <3>5. IsActorInfo(a) /\ a.actor_id = spec.actor_id
      BY <3>3, <3>4 DEF IsActorInfo
    <3>6. /\ DOMAIN actors' = DOMAIN actors \cup {spec.actor_id}
          /\ actors'[spec.actor_id] = a
          /\ \A x \in DOMAIN actors : x # spec.actor_id => actors'[x] = actors[x]
      BY <3>4, Zenon DEF insert
    <3> QED
      BY <2>0, <3>3, <3>5, <3>6
  <2>2. ASSUME NEW p \in IdMsgs, kill_actor(p)
        PROVE  <1>2!1 /\ <1>2!2
    <3> DEFINE k == id_from_proto(IdLen, p)
    <3>1. k \in DOMAIN actors /\ actors' = [actors EXCEPT ![k].state = "Dead"]
      BY <2>2 DEF kill_actor
    <3> HIDE DEF k
    <3>2. IsActorInfo(actors[k]) /\ actors[k].actor_id = k
      BY <2>0, <3>1
    <3>3. PICK j, c, z, n, w :
            actors[k] = [actor_id |-> k, job_id |-> j, class_name |-> c, state |-> z,
                         node_id |-> n, num_restarts |-> w]
      BY <3>2, Zenon DEF IsActorInfo
    <3>4. actors'[k] = [actor_id |-> k, job_id |-> j, class_name |-> c, state |-> "Dead",
                        node_id |-> n, num_restarts |-> w]
      BY <3>1, <3>3
    <3>5. IsActorInfo(actors'[k]) /\ actors'[k].actor_id = k
      BY <3>2, <3>3, <3>4 DEF IsActorInfo
    <3>6. /\ DOMAIN actors' = DOMAIN actors
          /\ \A x \in DOMAIN actors : x # k => actors'[x] = actors[x]
      BY <3>1
    <3> QED
      BY <2>0, <3>5, <3>6
  <2> QED
    BY <2>1, <2>2, Zenon
<1>3. TypeOK'
  BY <1>1, <1>2 DEF IInv, TypeOK
<1>4. MembershipFaithful' /\ HeartbeatInv'
  BY <1>1, Zenon DEF IInv, MembershipFaithful, HeartbeatInv, Agrees
<1> QED
  BY <1>3, <1>4 DEF IInv

\* The requests on jobs and resource usage keep those tables keyed by ids.
LEMMA JobsUsageInv ==
  ASSUME IInv,
         \/ \E m \in JobMsgs : add_job(m)
         \/ \E p \in IdMsgs : mark_job_finished(p)
         \/ \E m \in UsageMsgs : report_resource_usage(m)
  PROVE  IInv'
<1>1. UNCHANGED <<nodes, actors, heartbeat, member, raced>>
  BY Zenon DEF add_job, mark_job_finished, report_resource_usage, ghosts
<1>2. DOMAIN jobs' \subseteq NodeIds /\ DOMAIN resource_usage' \subseteq NodeIds
  <2>1. ASSUME NEW m \in JobMsgs, add_job(m)
        PROVE  DOMAIN jobs' \subseteq NodeIds /\ DOMAIN resource_usage' \subseteq NodeIds
    <3>1. id_from_option(IdLen, m.job_id) \in NodeIds
      BY IdFromMessage, GcsAssumption
    <3> QED
      BY <2>1, <3>1, Zenon DEF add_job, insert, IInv, TypeOK
  <2>2. ASSUME NEW p \in IdMsgs, mark_job_finished(p)
        PROVE  DOMAIN jobs' \subseteq NodeIds /\ DOMAIN resource_usage' \subseteq NodeIds
    BY <2>2 DEF mark_job_finished, IInv, TypeOK
  <2>3. ASSUME NEW m \in UsageMsgs, report_resource_usage(m)
        PROVE  DOMAIN jobs' \subseteq NodeIds /\ DOMAIN resource_usage' \subseteq NodeIds
    <3>1. id_from_option(IdLen, m.node_id) \in NodeIds
      BY IdFromMessage, GcsAssumption
    <3>2. DOMAIN resource_usage' = DOMAIN resource_usage \cup {id_from_option(IdLen, m.node_id)}
      BY <2>3, Zenon DEF report_resource_usage, insert
    <3> QED
      BY <2>3, <3>1, <3>2 DEF report_resource_usage, IInv, TypeOK
  <2> QED
    BY <2>1, <2>2, <2>3
<1>3. TypeOK'
  BY <1>1, <1>2 DEF IInv, TypeOK
<1>4. MembershipFaithful' /\ HeartbeatInv'
  BY <1>1, Zenon DEF IInv, MembershipFaithful, HeartbeatInv, Agrees
<1> QED
  BY <1>3, <1>4 DEF IInv

\* IInv holds in every reachable state of the GCS.
THEOREM Invariance == Spec => []IInv
<1>1. IInv /\ UNCHANGED vars => IInv'
  <2> SUFFICES ASSUME IInv, UNCHANGED vars PROVE IInv'
    OBVIOUS
  <2>1. UNCHANGED <<nodes, actors, jobs, resource_usage, heartbeat, member, raced>>
    BY DEF vars, tables, ghosts
  <2>2. TypeOK'
    BY <2>1 DEF IInv, TypeOK
  <2>3. MembershipFaithful' /\ HeartbeatInv'
    BY <2>1, Zenon DEF IInv, MembershipFaithful, HeartbeatInv, Agrees
  <2> QED
    BY <2>2, <2>3 DEF IInv
<1>2. IInv /\ Next => IInv'
  BY RegisterNodeInv, UnregisterNodeInv, HeartbeatInvReport, HeartbeatInvWrite,
     ActorsInv, JobsUsageInv, Zenon DEF Next
<1> QED
  BY InitIInv, <1>1, <1>2, PTL DEF Spec

\* Type correctness: ids of every entry have their size, whatever came in.
THEOREM TypeCorrect == Spec => []TypeOK
<1>1. IInv => TypeOK
  BY DEF IInv
<1> QED
  BY Invariance, <1>1, PTL

\* Unless a heartbeat overlaps a registration or unregistration of the same
\* node, the node table is what the registrations say.
THEOREM NodesFaithful == Spec => []MembershipFaithful
<1>1. IInv => MembershipFaithful
  BY DEF IInv
<1> QED
  BY Invariance, <1>1, PTL

\* Ids and entries that clients read can be sent back.
THEOREM RepliesAreUsable == Spec => []RepliesUsable
<1>1. TypeOK => RepliesUsable
  <2> SUFFICES ASSUME TypeOK PROVE RepliesUsable
    OBVIOUS
  <2>1. ASSUME NEW k \in DOMAIN actors
        PROVE  LET a == actor_info_to_proto_fields(actors[k]) IN
               get_actor_info(a.actor_id) = a /\ a \in get_all_actor_info(a.job_id)
    <3> DEFINE a == actor_info_to_proto_fields(actors[k])
    <3>1. actors[k].actor_id = k /\ k \in NodeIds /\ actors[k].job_id \in NodeIds
      BY DEF TypeOK, IsActorInfo
    <3>2. a.actor_id = id_to_option(k) /\ a.job_id = id_to_option(actors[k].job_id)
      BY <3>1 DEF actor_info_to_proto_fields
    <3> HIDE DEF a
    <3>3. /\ a.actor_id # Unset /\ id_from_proto(IdLen, a.actor_id) = k
          /\ a.job_id # Unset /\ id_from_proto(IdLen, a.job_id) = actors[k].job_id
      BY <3>1, <3>2, IdRoundTrip, LengthAssumption DEF id_to_option, NodeIds
    <3>4. get_actor_info(a.actor_id) = a
      BY <3>3, Zenon DEF get_actor_info, a
    <3>5. a \in get_all_actor_info(a.job_id)
      BY <3>3, Zenon DEF get_all_actor_info, a
    <3> QED
      BY <3>4, <3>5, Zenon DEF a
  <2>2. ASSUME NEW k \in DOMAIN nodes
        PROVE  LET core == NodeOf(node_info_to_proto_fields(nodes[k]))
               IN  core.node_id \in DOMAIN nodes /\ nodes[core.node_id] = core
    <3> DEFINE n == node_info_to_proto_fields(nodes[k])
    <3>1. IsNodeInfo(nodes[k]) /\ nodes[k].node_id = k /\ k \in NodeIds
      BY DEF TypeOK
    <3>2. /\ n.node_id = id_to_option(k) /\ n.address = nodes[k].address
          /\ n.total_resources = resources_to_option(nodes[k].total_resources)
          /\ n.available_resources = resources_to_option(nodes[k].available_resources)
      BY <3>1 DEF node_info_to_proto_fields
    <3> HIDE DEF n
    <3>3. id_from_option(IdLen, n.node_id) = k
      BY <3>1, <3>2, IdRoundTrip, LengthAssumption DEF NodeIds
    <3>4. /\ resources_from_option(n.total_resources) = nodes[k].total_resources
          /\ resources_from_option(n.available_resources) = nodes[k].available_resources
      BY <3>1, <3>2, ResourcesRoundTrip DEF IsNodeInfo
    <3>5. NodeOf(n) = [node_id |-> k, address |-> nodes[k].address,
                       total_resources |-> nodes[k].total_resources,
                       available_resources |-> nodes[k].available_resources,
                       is_alive |-> TRUE]
      BY <3>2, <3>3, <3>4, Zenon DEF NodeOf
    <3>6. nodes[k].is_alive = TRUE
      BY <3>1, Zenon DEF IsNodeInfo
    <3>7. NodeOf(n) = nodes[k]
      BY <3>1, <3>5, <3>6, Zenon DEF IsNodeInfo
    <3> QED
      BY <3>1, <3>7 DEF n
  <2> QED
    BY <2>1, <2>2, Zenon DEF RepliesUsable, get_all_actor_info, get_all_node_info
<1> QED
  BY TypeCorrect, <1>1, PTL
=============================================================================
