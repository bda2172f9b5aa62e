------------------------------- MODULE GcsMC -------------------------------
(***************************************************************************)
(* A GCS whose ids are two bytes, asked by clients that send ids that are  *)
(* too short, too long or missing: "node" and its truncations are the same *)
(* node, and a missing id is the zero id.                                  *)
(***************************************************************************)
EXTENDS Gcs

wire(s) == [id |-> s]
cpu(n)  == [resource_map |-> [r \in {"CPU"} |-> n]]

MCNodeMsgs ==
  {[node_id |-> wire(<<1, 1>>), address |-> "a", total_resources |-> cpu(2),
    available_resources |-> cpu(2)],
   [node_id |-> wire(<<1, 1, 1>>), address |-> "b", total_resources |-> cpu(2),
    available_resources |-> Unset],
   [node_id |-> Unset, address |-> "a", total_resources |-> Unset,
    available_resources |-> cpu(2)]}

MCActorMsgs ==
  [actor_id : {Unset, wire(<<1>>)}, job_id : {wire(<<1, 1>>), wire(<<>>)}, class_name : {"C"},
   class_payload : {""}, constructor_args : {""}, required_resources : {Unset},
   max_restarts : {0}]

MCJobMsgs == [job_id : {Unset}, end_time : {"none"}, is_dead : BOOLEAN]

MCUsageMsgs == [node_id : {wire(<<1, 1>>)}, available : {Unset, cpu(1)}, total : {Unset}]

MCIdMsgs == {Unset, wire(<<>>), wire(<<1>>), wire(<<1, 1>>)}

MCAvails == {Unset, cpu(1)}
=============================================================================
