------------------------------- MODULE NodeMC -------------------------------
(***************************************************************************)
(* A node with one CPU.  Task 1 comes over gRPC under an id that is cut to *)
(* length, task 2 from submit_fn; both, and a lease, want the one CPU.     *)
(***************************************************************************)
EXTENDS Node, TLC

CONSTANTS rpc, fn, lease

cpu == [resource_map |-> [r \in {"CPU"} |-> 1]]
wire(s) == [id |-> s]

MCTaskMsg ==
  [s \in Subs |->
     [task_id |-> wire(<<1, 1>>), job_id |-> wire(<<>>), function_name |-> "f",
      function_payload |-> "", return_ids |-> <<wire(<<1>>), wire(<<0>>)>>,
      dependency_ids |-> <<>>, required_resources |-> cpu,
      caller_address |-> Conv!Unset, max_retries |-> 0, metadata |-> Conv!Unset]]

MCTotal    == [r \in {"CPU"} |-> 1]
MCTaskIds  == Conv!Id(IdLen)
MCTaskOf   == [s \in Subs |-> IF s = rpc THEN <<1>> ELSE <<0>>]
MCNeed     == [s \in Subs |-> [r \in {"CPU"} |-> 1]]
MCFnReturn == [s \in {fn} |-> <<2>>]
MCFnName   == [s \in Subs |-> "f"]
MCLeaseMsg == [l \in Leases |-> cpu]
MCIdMsgs   == {Conv!Unset, wire(<<1, 0>>)}
MCPutIds   == {<<1>>}
MCDeleteIds == {<<1>>}
MCGetIds   == {<<1>>}
MCLists    == {<<wire(<<1, 0>>), wire(<<2>>)>>}

\* Functions are told apart by nothing but their identity.
FnSymmetry == Permutations(Fns)
=============================================================================
