----------------------------- MODULE ProtoConv -----------------------------
(***************************************************************************)
(* Identifiers (ray-core id.rs) and the conversions between the messages   *)
(* of the gRPC services and the types of ray-core (proto_conv.rs).         *)
(*                                                                         *)
(* A message is a record with the fields of common.proto; an optional      *)
(* field that is absent holds Unset.  An id is a byte string on the wire,  *)
(* of any length, and a fixed number of bytes in the core: IdLen for       *)
(* tasks, actors, nodes and jobs (16 in the code), ObjectIdLen for objects *)
(* (28).  Names, payloads and arguments are opaque values.                 *)
(***************************************************************************)
EXTENDS Resources, Sequences

CONSTANTS Byte,         \* u8
          IdLen,        \* TaskId, ActorId, NodeId, JobId
          ObjectIdLen   \* ObjectId

ASSUME ByteAssumption == 0 \in Byte
ASSUME LengthAssumption == IdLen \in Nat /\ ObjectIdLen \in Nat

\* An absent optional field, and the result of a conversion that is refused.
Unset == [absent |-> TRUE]

\* The messages of common.proto for an id (one per kind) and for Resources.
IdMsg == [id : Seq(Byte)]
IsResourcesMsg(p) == p = [resource_map |-> p.resource_map] /\ IsResMap(p.resource_map)

-----------------------------------------------------------------------------
\* Identifiers of a given size.
Id(size) == [1 .. size -> Byte]

default(size) == [i \in 1 .. size |-> 0]

\* Short slices are padded with zeros, the end of long ones is dropped.
from_slice(size, slice) ==
  [i \in 1 .. size |-> IF i <= Len(slice) THEN slice[i] ELSE 0]

to_vec(id) == id

\* Mutant: the last byte is left out.
id_to_proto_Short(id) == [id |-> SubSeq(to_vec(id), 1, Len(id) - 1)]

\* From<ProtoId> and From<CoreId>.
id_from_proto(size, p) == from_slice(size, p.id)
id_to_proto(id) == [id |-> to_vec(id)]

id_from_option(size, opt) ==
  IF opt = Unset THEN default(size) ELSE id_from_proto(size, opt)

id_to_option(id) == id_to_proto(id)

-----------------------------------------------------------------------------
\* Resources: the core map is the message's map, entry by entry.
resources_from_proto(p) == [r \in DOMAIN p.resource_map |-> p.resource_map[r]]
resources_to_proto(m) == [resource_map |-> m]

resources_from_option(opt) ==
  IF opt = Unset THEN [r \in {} |-> 0] ELSE resources_from_proto(opt)

resources_to_option(m) == resources_to_proto(m)

-----------------------------------------------------------------------------
\* Task and actor specifications.
object_ids_from_proto(ps) ==
  [i \in DOMAIN ps |-> id_from_proto(ObjectIdLen, ps[i])]

object_ids_to_proto(ids) == [i \in DOMAIN ids |-> id_to_proto(ids[i])]

\* The task and job ids are required; caller_address and metadata are not kept.
task_spec_from_proto(p) ==
  IF p.task_id = Unset \/ p.job_id = Unset
  THEN Unset
  ELSE [task_id            |-> id_from_proto(IdLen, p.task_id),
        job_id             |-> id_from_proto(IdLen, p.job_id),
        function_name      |-> p.function_name,
        function_payload   |-> p.function_payload,
        return_ids         |-> object_ids_from_proto(p.return_ids),
        dependency_ids     |-> object_ids_from_proto(p.dependency_ids),
        required_resources |-> resources_from_option(p.required_resources),
        max_retries        |-> p.max_retries]

task_spec_to_proto(c) ==
  [task_id            |-> id_to_option(c.task_id),
   job_id             |-> id_to_option(c.job_id),
   function_name      |-> c.function_name,
   function_payload   |-> c.function_payload,
   return_ids         |-> object_ids_to_proto(c.return_ids),
   dependency_ids     |-> object_ids_to_proto(c.dependency_ids),
   required_resources |-> resources_to_option(c.required_resources),
   caller_address     |-> Unset,
   max_retries        |-> c.max_retries,
   metadata           |-> Unset]

actor_spec_from_proto(p) ==
  IF p.actor_id = Unset \/ p.job_id = Unset
  THEN Unset
  ELSE [actor_id           |-> id_from_proto(IdLen, p.actor_id),
        job_id             |-> id_from_proto(IdLen, p.job_id),
        class_name         |-> p.class_name,
        class_payload      |-> p.class_payload,
        constructor_args   |-> p.constructor_args,
        required_resources |-> resources_from_option(p.required_resources),
        max_restarts       |-> p.max_restarts]

actor_spec_to_proto(c) ==
  [actor_id           |-> id_to_option(c.actor_id),
   job_id             |-> id_to_option(c.job_id),
   class_name         |-> c.class_name,
   class_payload      |-> c.class_payload,
   constructor_args   |-> c.constructor_args,
   required_resources |-> resources_to_option(c.required_resources),
   max_restarts       |-> c.max_restarts,
   metadata           |-> Unset]

-----------------------------------------------------------------------------
\* Enumerations: the numbers are those of common.proto, where 0 stands for
\* "unspecified".  Numbers without a name become Pending.
TaskStatus == {"Pending", "Scheduled", "Running", "Finished", "Failed", "Cancelled"}

task_status_to_proto(s) ==
  CASE s = "Pending" -> 1 [] s = "Scheduled" -> 2 [] s = "Running"   -> 3
    [] s = "Finished" -> 4 [] s = "Failed"   -> 5 [] s = "Cancelled" -> 6

task_status_from_proto(v) ==
  IF v \in 1 .. 6 THEN CHOOSE s \in TaskStatus : task_status_to_proto(s) = v
                  ELSE "Pending"

ActorState == {"Pending", "Alive", "Restarting", "Dead"}

actor_state_to_proto(s) ==
  CASE s = "Pending" -> 1 [] s = "Alive" -> 2 [] s = "Restarting" -> 3 [] s = "Dead" -> 4

actor_state_from_proto(v) ==
  IF v \in 1 .. 4 THEN CHOOSE s \in ActorState : actor_state_to_proto(s) = v
                  ELSE "Pending"

-----------------------------------------------------------------------------
\* What the GCS replies with.  The message's other fields (start time, labels)
\* are left at their defaults.
node_info_to_proto_fields(n) ==
  [node_id             |-> id_to_option(n.node_id),
   address             |-> n.address,
   total_resources     |-> resources_to_option(n.total_resources),
   available_resources |-> resources_to_option(n.available_resources),
   is_alive            |-> n.is_alive]

actor_info_to_proto_fields(a) ==
  [actor_id     |-> id_to_option(a.actor_id),
   job_id       |-> id_to_option(a.job_id),
   class_name   |-> a.class_name,
   state        |-> actor_state_to_proto(a.state),
   node_id      |-> id_to_option(a.node_id),
   num_restarts |-> a.num_restarts]
=============================================================================
