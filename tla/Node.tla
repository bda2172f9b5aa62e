-------------------------------- MODULE Node --------------------------------
(***************************************************************************)
(* One node: the local scheduler with the function registry that executes  *)
(* its tasks (executor.rs) and the object store that keeps their results,  *)
(* behind its two front ends, LocalRuntime (ray-runtime lib.rs) for calls  *)
(* in the same process and RayletServer (ray-raylet server.rs) for gRPC.   *)
(*                                                                         *)
(* Both front ends are thin: a call of either is a call of a component.    *)
(* Worker leases are the exception: the server allocates them from the     *)
(* ResourceManager beside the scheduler.  The store is reduced to what the *)
(* front ends see of it: which objects are there, that a put may fail, and *)
(* that whoever has the runtime may put and remove objects by its handle   *)
(* on the store (object_store()).                                          *)
(***************************************************************************)
EXTENDS LocalScheduler

CONSTANTS Byte, IdLen, ObjectIdLen,
          TaskMsg,     \* TaskMsg[s]: the TaskSpec of a submission over gRPC
          FnSubs,      \* the submissions made by submit_fn
          FnReturn,    \* FnReturn[s]: the ObjectId submit_fn draws
          FnName,      \* FnName[s]: the function_name of the spec
          Fns,         \* implementations that are registered
          Leases,      \* lease requests; each is made at most once
          LeaseMsg,    \* LeaseMsg[l]: its required_resources
          IdMsgs,      \* the task_id of cancel and status requests
          PutIds,      \* the ObjectIds put_object draws or the store is handed
          DeleteIds,   \* the ObjectIds removed by the handle on the store
          GetIds,      \* the ObjectIds get_object is called with
          Lists,       \* object_ids of get_object_locations
          Readers,     \* callers of get_object and get_object_locations
          NoFn

Conv == INSTANCE ProtoConv

TaskSpecOf(s) == Conv!task_spec_from_proto(TaskMsg[s])
LeaseNeed == [l \in Leases |-> Conv!resources_from_option(LeaseMsg[l])]
Objects == Conv!Id(ObjectIdLen)

\* The submissions whose return_ids is not empty.
HasReturn ==
  {s \in Subs : s \notin FnSubs => /\ TaskSpecOf(s) # Conv!Unset
                                  /\ TaskSpecOf(s).return_ids # <<>>}

\* The scheduler's constants are what the front ends make of the calls.  Ids
\* drawn by TaskId::new are not in use.
ASSUME NodeAssumption ==
  /\ 0 \in Byte /\ IdLen \in Nat /\ ObjectIdLen \in Nat
  /\ IdMsgs \subseteq Conv!IdMsg \cup {Conv!Unset}
  /\ TaskIds = Conv!Id(IdLen)
  /\ FnSubs \subseteq Subs
  /\ \A s \in FnSubs : /\ Need[s] = [r \in {"CPU"} |-> 1]
                       /\ \A q \in Subs \ {s} : TaskOf[q] # TaskOf[s]
                       /\ FnReturn[s] \in Objects
  /\ \A s \in Subs \ FnSubs :
       /\ TaskMsg[s].return_ids \in Seq(Conv!IdMsg)
       /\ TaskSpecOf(s) # Conv!Unset =>
            /\ TaskOf[s] = TaskSpecOf(s).task_id
            /\ Need[s] = TaskSpecOf(s).required_resources
  /\ IsFiniteSet(Leases) /\ Leases \cap Subs = {}
  /\ \A l \in Leases : IsResMap(LeaseNeed[l])
  /\ NoFn \notin Fns
  /\ PutIds \cup DeleteIds \cup GetIds \subseteq Objects /\ Lists \subseteq Seq(Conv!IdMsg)

VARIABLES
  fns,         \* FunctionRegistryExecutor.fns
  code,        \* the function each execution has taken out of the registry
  result,      \* what became of each execution
  stored,      \* the objects in the store: who wrote their data
  removed,     \* ghost: objects that were removed and not put again
  leases,      \* the leases that were granted
  given_back,  \* ghost: those that release_worker_lease was called for
  call,        \* the call of every reader
  seen,        \* ghost: the objects there at some time since its call began
  steady       \* ghost: the objects there all the time since its call began

nodeVars == <<fns, code, result, stored, removed, leases, given_back, call>>
history  == <<seen, steady>>
allVars  == <<vars, nodeVars, history>>

Results == {"none", "stored", "put_failed", "no_return_id", "failed"}

\* The object that gets the task's result: the first of return_ids.
ReturnId(s) == IF s \in FnSubs THEN FnReturn[s] ELSE TaskSpecOf(s).return_ids[1]

NoData == [by |-> "nobody"]
NoCall == [op |-> "none"]

NodeInit ==
  /\ Init
  /\ fns = [n \in {FnName[s] : s \in Subs} |-> NoFn]
  /\ code = [s \in Subs |-> NoFn]
  /\ result = [s \in Subs |-> "none"]
  /\ stored = [o \in Objects |-> NoData]
  /\ removed = {}
  /\ leases = {}
  /\ given_back = {}
  /\ call = [c \in Readers |-> NoCall]
  /\ seen = [c \in Readers |-> {}]
  /\ steady = [c \in Readers |-> {}]

-----------------------------------------------------------------------------
\* Front ends of the scheduler.
submit_fn(s) ==
  /\ s \in FnSubs
  /\ submit_task(s)
  /\ UNCHANGED nodeVars

submit_task_rpc(s) ==
  /\ s \notin FnSubs
  /\ TaskSpecOf(s) # Conv!Unset
  /\ submit_task(s)
  /\ UNCHANGED nodeVars

cancel_task_rpc(p) ==
  /\ p # Conv!Unset
  /\ cancel_task(Conv!id_from_proto(IdLen, p))
  /\ UNCHANGED nodeVars

get_task_status_rpc(p, c) ==
  /\ p # Conv!Unset
  /\ get_task_status(Conv!id_from_proto(IdLen, p), c)
  /\ UNCHANGED nodeVars

Returned(c) == call[c].op \in {"none", "got"}

\* No call is in progress when the last handle goes.
shutdown ==
  /\ \A c \in Readers : Returned(c)
  /\ drop_handles
  /\ UNCHANGED nodeVars

-----------------------------------------------------------------------------
\* The registry.  execute takes a copy of the function under the read lock and
\* runs it after that, so that a later (un)registration does not affect it.
register_fn(n, f) ==
  /\ open
  /\ fns' = [fns EXCEPT ![n] = f]
  /\ UNCHANGED <<vars, code, result, stored, removed, leases, given_back, call>>

unregister_fn(n) ==
  /\ open
  /\ fns' = [fns EXCEPT ![n] = NoFn]
  /\ UNCHANGED <<vars, code, result, stored, removed, leases, given_back, call>>

Lookup(s) ==
  /\ stage[s] = "execute" /\ code[s] = NoFn
  /\ fns[FnName[s]] # NoFn
  /\ code' = [code EXCEPT ![s] = fns[FnName[s]]]
  /\ UNCHANGED <<vars, fns, result, stored, removed, leases, given_back, call>>

Fail(s) ==
  /\ ExecuteErr(s)
  /\ result' = [result EXCEPT ![s] = "failed"]
  /\ UNCHANGED <<fns, code, stored, removed, leases, given_back, call>>

LookupErr(s) ==
  /\ code[s] = NoFn /\ fns[FnName[s]] = NoFn
  /\ Fail(s)

\* The function returns an error, or panics.
RunErr(s) ==
  /\ code[s] # NoFn
  /\ Fail(s)

RunOk(s) ==
  /\ code[s] # NoFn
  /\ ExecuteOk(s)
  /\ UNCHANGED nodeVars

\* Mutant: the function is looked up again when the result is stored.
PutStored_Again(s) ==
  LET f == IF fns[FnName[s]] = NoFn THEN code[s] ELSE fns[FnName[s]] IN
  /\ s \in HasReturn
  /\ Put(s)
  /\ result' = [result EXCEPT ![s] = "stored"]
  /\ stored' = [stored EXCEPT ![ReturnId(s)] = [by |-> "task", sub |-> s, fn |-> f]]
  /\ removed' = removed \ {ReturnId(s)}
  /\ UNCHANGED <<fns, code, leases, given_back, call>>

\* The result is put under the first return id, whatever was there before.
PutStored(s) ==
  /\ s \in HasReturn
  /\ Put(s)
  /\ result' = [result EXCEPT ![s] = "stored"]
  /\ stored' = [stored EXCEPT ![ReturnId(s)] = [by |-> "task", sub |-> s, fn |-> code[s]]]
  /\ removed' = removed \ {ReturnId(s)}
  /\ UNCHANGED <<fns, code, leases, given_back, call>>

\* The store refuses the result, or there is no return id to put it under.
PutNothing(s) ==
  /\ Put(s)
  /\ result' = [result EXCEPT ![s] = IF s \in HasReturn THEN "put_failed" ELSE "no_return_id"]
  /\ UNCHANGED <<fns, code, stored, removed, leases, given_back, call>>

-----------------------------------------------------------------------------
\* Leases.  A request that cannot be satisfied is answered at once.
request_worker_lease(l) ==
  /\ open /\ l \notin leases
  /\ try_allocate(LeaseNeed[l])
  /\ leases' = leases \cup {l}
  /\ UNCHANGED <<chan, open, loopVars, stage, worker, query,
                 fns, code, result, stored, removed, given_back, call>>

\* Mutant: the lease's resources are released, but the lease is kept.
release_worker_lease_Twice(l) ==
  /\ open /\ l \in leases
  /\ given_back' = given_back \cup {l}
  /\ available' = add(available, LeaseNeed[l])
  /\ UNCHANGED <<chan, open, loopVars, stage, worker, query,
                 fns, code, result, stored, removed, leases, call>>

\* A no-op that reports success.
release_worker_lease(l) ==
  /\ open /\ l \in leases
  /\ given_back' = given_back \cup {l}
  /\ UNCHANGED <<vars, fns, code, result, stored, removed, leases, call>>

-----------------------------------------------------------------------------
\* Objects.  put_object draws a new ObjectId; by the handle on the store any id
\* can be put, that of a task's result included.
put_object(o) ==
  /\ open
  /\ stored' = [stored EXCEPT ![o] = [by |-> "client"]]
  /\ removed' = removed \ {o}
  /\ UNCHANGED <<vars, fns, code, result, leases, given_back, call>>

\* By the handle on the store: delete, or remove_reference when it takes the
\* last reference.
delete(o) ==
  /\ open /\ stored[o] # NoData
  /\ stored' = [stored EXCEPT ![o] = NoData]
  /\ removed' = removed \cup {o}
  /\ UNCHANGED <<vars, fns, code, result, leases, given_back, call>>

get_object(c, o) ==
  /\ open /\ Returned(c)
  /\ call' = [call EXCEPT ![c] = [op |-> "get", obj |-> o]]
  /\ UNCHANGED <<vars, fns, code, result, stored, removed, leases, given_back>>

\* store.get looks before it gives up; it gives up at some time.
GetReturn(c) ==
  /\ call[c].op = "get"
  /\ call' = [call EXCEPT ![c] = [op |-> "got", obj |-> call[c].obj,
                                  data |-> stored[call[c].obj]]]
  /\ UNCHANGED <<vars, fns, code, result, stored, removed, leases, given_back>>

\* wait_for_object does not wait: it answers from one look.
ObjectOf(p) == Conv!id_from_proto(ObjectIdLen, p)
wait_for_object(p) == stored[ObjectOf(p)] # NoData

get_object_locations(c, list) ==
  /\ open /\ Returned(c)
  /\ call' = [call EXCEPT ![c] = [op |-> "locate", asked |-> list, todo |-> list,
                                  locations |-> <<>>]]
  /\ UNCHANGED <<vars, fns, code, result, stored, removed, leases, given_back>>

\* Mutant: the loop ends at the first object that is not there.
LocateNext_Stop(c) ==
  LET p == Head(call[c].todo) IN
  /\ call[c].op = "locate" /\ call[c].todo # <<>>
  /\ call' = [call EXCEPT ![c] =
                [op |-> "locate", asked |-> call[c].asked,
                 todo |-> IF wait_for_object(p) THEN Tail(call[c].todo) ELSE <<>>,
                 locations |-> IF wait_for_object(p) THEN Append(call[c].locations, p)
                                                     ELSE call[c].locations]]
  /\ UNCHANGED <<vars, fns, code, result, stored, removed, leases, given_back>>

\* One iteration of the loop over object_ids: one look at the store.
LocateNext(c) ==
  LET p == Head(call[c].todo) IN
  /\ call[c].op = "locate" /\ call[c].todo # <<>>
  /\ call' = [call EXCEPT ![c] =
                [op |-> "locate", asked |-> call[c].asked, todo |-> Tail(call[c].todo),
                 locations |-> IF wait_for_object(p) THEN Append(call[c].locations, p)
                                                     ELSE call[c].locations]]
  /\ UNCHANGED <<vars, fns, code, result, stored, removed, leases, given_back>>

LocateReturn(c) ==
  /\ call[c].op = "locate" /\ call[c].todo = <<>>
  /\ call' = [call EXCEPT ![c] = NoCall]
  /\ UNCHANGED <<vars, fns, code, result, stored, removed, leases, given_back>>

-----------------------------------------------------------------------------
Execution(s) ==
  \/ Lookup(s) \/ LookupErr(s) \/ RunErr(s) \/ RunOk(s)
  \/ PutStored(s) \/ PutNothing(s)

Scheduling ==
  /\ \/ EventLoop
     \/ \E s \in Subs : GetWorker(s) \/ ReturnWorker(s) \/ release(s)
     \/ \E c \in Clients : get_task_status_return(c)
  /\ UNCHANGED nodeVars

NodeAction ==
  \/ Scheduling
  \/ \E s \in Subs : submit_fn(s) \/ submit_task_rpc(s) \/ Execution(s)
  \/ \E p \in IdMsgs : cancel_task_rpc(p) \/ \E c \in Clients : get_task_status_rpc(p, c)
  \/ shutdown
  \/ \E n \in DOMAIN fns : unregister_fn(n) \/ \E f \in Fns : register_fn(n, f)
  \/ \E l \in Leases : request_worker_lease(l) \/ release_worker_lease(l)
  \/ \E o \in PutIds : put_object(o)
  \/ \E o \in DeleteIds : delete(o)
  \/ \E c \in Readers :
       \/ \E o \in GetIds : get_object(c, o)
       \/ \E list \in Lists : get_object_locations(c, list)
       \/ GetReturn(c) \/ LocateNext(c) \/ LocateReturn(c)

\* What every reader could have found in the store since its call began.
Present == {o \in Objects : stored[o] # NoData}
Observe ==
  LET locating(c) == call[c].op = "locate" /\ call'[c].op = "locate" IN
  /\ seen' = [c \in Readers |-> IF locating(c) THEN seen[c] \cup Present' ELSE Present']
  /\ steady' = [c \in Readers |-> IF locating(c) THEN steady[c] \cap Present' ELSE Present']

NodeNext == NodeAction /\ Observe

NodeSpec == NodeInit /\ [][NodeNext]_allVars

-----------------------------------------------------------------------------
Data  == {NoData, [by |-> "client"]} \cup [by : {"task"}, sub : Subs, fn : Fns]
Calls == {NoCall}
         \cup [op : {"get"}, obj : Objects]
         \cup [op : {"got"}, obj : Objects, data : Data]
         \cup [op : {"locate"}, asked : Seq(Conv!IdMsg), todo : Seq(Conv!IdMsg),
               locations : Seq(Conv!IdMsg)]

\* The node's variables keep their types.
NodeTypeOK ==
  /\ fns \in [{FnName[s] : s \in Subs} -> Fns \cup {NoFn}]
  /\ code \in [Subs -> Fns \cup {NoFn}]
  /\ result \in [Subs -> Results]
  /\ stored \in [Objects -> Data]
  /\ removed \subseteq Objects
  /\ given_back \cup leases \subseteq Leases
  /\ call \in [Readers -> Calls]
  /\ seen \in [Readers -> SUBSET Objects]
  /\ steady \in [Readers -> SUBSET Objects]
  /\ IsResMap(available)

\* The ResourceManager's books balance with the scheduler and the lease
\* requests allocating from it side by side: what is available, what running
\* tasks hold and what was ever leased add up to the node's total.  A lease
\* that was given back still counts, since release_worker_lease does nothing.
NodeConservation ==
  \A r \in Res :
    get(available, r) + Demand(Allocated, Need, r) + Demand(leases, LeaseNeed, r)
      = get(Total, r)

\* d, found under the id o, is the output of the function that was registered
\* when the execution of its task began; it was found, ran and succeeded, and o
\* is the task's own return id.
Genuine(o, d) ==
  /\ d.sub \in HasReturn /\ ReturnId(d.sub) = o
  /\ d.fn = code[d.sub] /\ d.fn # NoFn
  /\ result[d.sub] = "stored" /\ stage[d.sub] \in {"return_worker", "release", "done"}

\* What is in the store as a task's result, and what get_object has returned as
\* one, is genuine.  Conversely, where a result was put there is data until it
\* is removed by the handle on the store.  A task that failed, or was cancelled
\* while it was queued, leaves nothing.
ResultsGenuine ==
  /\ \A o \in Objects : stored[o].by = "task" => Genuine(o, stored[o])
  /\ \A c \in Readers : call[c].op = "got" /\ call[c].data.by = "task" =>
       Genuine(call[c].obj, call[c].data)
  /\ \A s \in Subs : result[s] = "stored" =>
       stored[ReturnId(s)] # NoData \/ ReturnId(s) \in removed

\* Among what a call k of get_object_locations has looked at, it has found no
\* object outside S and left out none of T.
Located(k, S, T) ==
  /\ \A i \in DOMAIN k.locations : ObjectOf(k.locations[i]) \in S
  /\ \A i \in 1 .. Len(k.asked) - Len(k.todo) : ObjectOf(k.asked[i]) \in T =>
       \E j \in DOMAIN k.locations : k.locations[j] = k.asked[i]

\* get_object_locations looks at one object after the other while others put
\* and remove them.  Its reply names no object that was never there during the
\* call, and of those asked for it leaves out none that was there throughout,
\* whatever came before it in the request.
LocationsRight ==
  \A c \in Readers : call[c].op = "locate" => Located(call[c], seen[c], steady[c])
=============================================================================
