----------------------------- MODULE NodeProofs -----------------------------
(***************************************************************************)
(* Proofs about the node: the scheduler's invariants survive next to the   *)
(* front ends, and the books of the ResourceManager balance although tasks *)
(* and leases allocate from it side by side.                               *)
(***************************************************************************)
EXTENDS Node, LocalSchedulerProofs

\* The leases are requests that were made, and only granted ones are returned.
LeaseBooks == leases \subseteq Leases /\ given_back \subseteq leases

\* The inductive invariant: the scheduler's, except that its own Conservation
\* does not hold beside leases; NodeConservation takes its place.
NodeInv == QueueInv /\ LeaseBooks /\ NodeConservation

-----------------------------------------------------------------------------
\* The task id of a request, however long its bytes are, is a TaskId.
LEMMA RequestTaskId ==
  ASSUME NEW p \in IdMsgs, p # Conv!Unset
  PROVE  Conv!id_from_proto(IdLen, p) \in TaskIds
<1>1. p \in Conv!IdMsg /\ 0 \in Byte /\ IdLen \in Nat /\ TaskIds = Conv!Id(IdLen)
  BY Zenon, NodeAssumption
<1>2. p.id \in Seq(Byte)
  BY <1>1 DEF Conv!IdMsg
<1>3. Conv!from_slice(IdLen, p.id) \in Conv!Id(IdLen)
  BY <1>1, <1>2 DEF Conv!from_slice, Conv!Id
<1> QED BY Zenon, <1>1, <1>3 DEF Conv!id_from_proto

\* Every step of the node is a step of the scheduler (or none) that leaves the
\* leases alone, or it grants a lease.
LEMMA NodeStep ==
  ASSUME [NodeNext]_allVars
  PROVE  \/ /\ [Next]_vars /\ leases' = leases
            /\ given_back' = given_back \/ \E l \in leases : given_back' = given_back \cup {l}
         \/ \E l \in Leases : request_worker_lease(l)
<1> DEFINE Quiet == /\ [Next]_vars /\ leases' = leases
                    /\ given_back' = given_back
                       \/ \E l \in leases : given_back' = given_back \cup {l}
           Goal  == Quiet \/ \E l \in Leases : request_worker_lease(l)
<1> SUFFICES Goal
  BY Zenon
<1>1. ASSUME Next \/ UNCHANGED vars, UNCHANGED <<leases, given_back>> PROVE Goal
  BY Zenon, <1>1
<1> HIDE DEF Goal
<1>2. CASE Scheduling
  <2>1. Next
    BY Zenon, <1>2 DEF Scheduling, Next, BackgroundTask
  <2> QED BY Zenon, <1>1, <1>2, <2>1 DEF Scheduling, nodeVars
<1>3. ASSUME NEW s \in Subs, submit_fn(s) \/ submit_task_rpc(s) PROVE Goal
  BY Zenon, <1>1, <1>3 DEF submit_fn, submit_task_rpc, Next, nodeVars
<1>4. ASSUME NEW s \in Subs, Execution(s) PROVE Goal
  BY Zenon, <1>1, <1>4 DEF Execution, Lookup, LookupErr, RunErr, RunOk, Fail, PutStored,
                           PutNothing, Next, BackgroundTask, nodeVars
<1>5. ASSUME NEW p \in IdMsgs, cancel_task_rpc(p) PROVE Goal
  BY Zenon, <1>1, <1>5, RequestTaskId DEF cancel_task_rpc, Next, nodeVars
<1>6. ASSUME NEW p \in IdMsgs, NEW c \in Clients, get_task_status_rpc(p, c) PROVE Goal
  BY Zenon, <1>1, <1>6, RequestTaskId DEF get_task_status_rpc, Next, nodeVars
<1>7. CASE shutdown
  BY Zenon, <1>1, <1>7 DEF shutdown, Next, nodeVars
<1>8. ASSUME NEW n, unregister_fn(n) \/ \E f \in Fns : register_fn(n, f) PROVE Goal
  BY Zenon, <1>1, <1>8 DEF unregister_fn, register_fn
<1>9. ASSUME NEW l \in Leases, request_worker_lease(l) PROVE Goal
  BY Zenon, <1>9 DEF Goal
<1>10. ASSUME NEW l \in Leases, release_worker_lease(l) PROVE Goal
  BY Zenon, <1>10 DEF release_worker_lease, Goal
<1>11. ASSUME NEW o, put_object(o) \/ delete(o) PROVE Goal
  BY Zenon, <1>1, <1>11 DEF put_object, delete
<1> DEFINE Reads(c) == \/ \E o \in GetIds : get_object(c, o)
                       \/ \E list \in Lists : get_object_locations(c, list)
                       \/ GetReturn(c) \/ LocateNext(c) \/ LocateReturn(c)
<1>12. ASSUME NEW c \in Readers, Reads(c) PROVE Goal
  BY Zenon, <1>1, <1>12 DEF get_object, get_object_locations, GetReturn, LocateNext, LocateReturn
<1>13. CASE UNCHANGED allVars
  BY Zenon, <1>1, <1>13 DEF allVars, nodeVars
<1>14. CASE NodeNext
  <2>1. \/ Scheduling \/ shutdown
        \/ \E s \in Subs : submit_fn(s) \/ submit_task_rpc(s) \/ Execution(s)
        \/ \E p \in IdMsgs : cancel_task_rpc(p)
        \/ \E p \in IdMsgs : \E c \in Clients : get_task_status_rpc(p, c)
        \/ \E n \in DOMAIN fns : unregister_fn(n) \/ \E f \in Fns : register_fn(n, f)
        \/ \E l \in Leases : request_worker_lease(l) \/ release_worker_lease(l)
        \/ \E o : put_object(o) \/ delete(o)
        \/ \E c \in Readers : Reads(c)
    BY Zenon, <1>14 DEF NodeNext, NodeAction
  <2>2. CASE \E p \in IdMsgs : \E c \in Clients : get_task_status_rpc(p, c)
    BY Zenon, <1>6, <2>2
  <2> HIDE DEF Reads
  <2>3. CASE \E c \in Readers : Reads(c)
    BY Zenon, <1>12, <2>3
  <2>4. CASE \E s \in Subs : submit_fn(s) \/ submit_task_rpc(s) \/ Execution(s)
    BY Zenon, <1>3, <1>4, <2>4
  <2>5. CASE \E n \in DOMAIN fns : unregister_fn(n) \/ \E f \in Fns : register_fn(n, f)
    BY Zenon, <1>8, <2>5
  <2>6. CASE \E l \in Leases : request_worker_lease(l) \/ release_worker_lease(l)
    BY Zenon, <1>9, <1>10, <2>6
  <2>7. CASE \E p \in IdMsgs : cancel_task_rpc(p)
    BY Zenon, <1>5, <2>7
  <2>8. CASE \E o : put_object(o) \/ delete(o)
    BY Zenon, <1>11, <2>8
  <2> QED BY Zenon, <1>2, <1>7, <2>1, <2>2, <2>3, <2>4, <2>5, <2>6, <2>7, <2>8
<1> QED BY Zenon, <1>13, <1>14

-----------------------------------------------------------------------------
\* What leases hold is a natural number, and one more lease adds its request.
LEMMA LeaseDemand ==
  ASSUME leases \subseteq Leases, NEW r \in Res
  PROVE  /\ Demand(leases, LeaseNeed, r) \in Nat
         /\ \A l \in Leases \ leases :
              Demand(leases \cup {l}, LeaseNeed, r)
                = Demand(leases, LeaseNeed, r) + get(LeaseNeed[l], r)
<1>1. IsFiniteSet(Leases) /\ \A l \in Leases : IsResMap(LeaseNeed[l])
  BY Zenon, NodeAssumption
<1>2. IsFiniteSet(leases)
  BY <1>1, FS_Subset
<1>3. Demand(leases, LeaseNeed, r) \in Nat
  BY Zenon, <1>1, <1>2, UnitsFinite
<1>4. ASSUME NEW l \in Leases, l \notin leases
      PROVE  Demand(leases \cup {l}, LeaseNeed, r)
               = Demand(leases, LeaseNeed, r) + get(LeaseNeed[l], r)
  <2>1. \A g \in leases \cup {l} : IsResMap(LeaseNeed[g])
    BY Zenon, <1>1
  <2> QED BY <1>2, <1>4, <2>1, DemandAdd
<1> QED BY Zenon, <1>3, <1>4

\* What running tasks hold is a natural number.
LEMMA TaskDemand ==
  ASSUME NEW r \in Res
  PROVE  Demand(Allocated, Need, r) \in Nat
<1>1. Allocated \subseteq Subs
  BY DEF Allocated
<1>2. IsFiniteSet(Allocated)
  BY <1>1, SchedulerAssumption, FS_Subset
<1> QED BY Zenon, <1>1, <1>2, SchedulerAssumption, UnitsFinite

\* A granted lease moves its request from what is available to what is leased.
LEMMA LeaseStep ==
  ASSUME NodeInv, NEW l \in Leases, request_worker_lease(l)
  PROVE  /\ NodeInv' /\ Allocated' = Allocated
<1> USE DEF NodeInv
<1>1. /\ IsResMap(available) /\ IsResMap(LeaseNeed[l])
      /\ can_satisfy(available, LeaseNeed[l])
      /\ available' = subtract(available, LeaseNeed[l])
      /\ l \notin leases /\ leases' = leases \cup {l} /\ given_back' = given_back
  BY Zenon, NodeAssumption DEF request_worker_lease, try_allocate, QueueInv, TypeOK
<1>2. /\ IsResMap(available')
      /\ \A r : get(available', r) = get(available, r) - get(LeaseNeed[l], r)
  BY Zenon, <1>1, SubtractGet
<1>3. UNCHANGED <<chan, open, loop, pending, still, status, stage, worker, query>>
  BY Zenon DEF request_worker_lease, loopVars
<1>4. Allocated' = Allocated
  BY Zenon, <1>3 DEF Allocated
<1>5. QueueInv'
  <2>1. TypeOK'
    BY Zenon, <1>2, <1>3 DEF QueueInv, TypeOK
  <2>2. ExactlyOnce'
    BY <1>3 DEF QueueInv, ExactlyOnce, NoneLost, NoneDuplicated
  <2>3. StatusAgrees' /\ SeenHasStatus'
    BY Zenon, <1>3 DEF QueueInv, StatusAgrees, SeenHasStatus
  <2>4. ReadYourSubmit' /\ StillLocal'
    BY Zenon, <1>3 DEF QueueInv, ReadYourSubmit, StillLocal
  <2>5. QueriesInFlight'
    BY <1>3 DEF QueueInv, QueriesInFlight
  <2> QED BY Zenon, <2>1, <2>2, <2>3, <2>4, <2>5 DEF QueueInv
<1>6. LeaseBooks'
  BY Zenon, <1>1 DEF LeaseBooks
<1>7. ASSUME NEW r \in Res
      PROVE  get(available', r) + Demand(Allocated, Need, r) + Demand(leases', LeaseNeed, r)
               = get(Total, r)
  <2>1. Demand(leases', LeaseNeed, r) = Demand(leases, LeaseNeed, r) + get(LeaseNeed[l], r)
    BY Zenon, <1>1, LeaseDemand DEF LeaseBooks
  <2>2. get(available', r) = get(available, r) - get(LeaseNeed[l], r)
    BY Zenon, <1>2
  <2>3. /\ get(available, r) \in Nat /\ get(LeaseNeed[l], r) \in Nat
        /\ Demand(leases, LeaseNeed, r) \in Nat /\ Demand(Allocated, Need, r) \in Nat
    BY Zenon, <1>1, GetType, LeaseDemand, TaskDemand DEF LeaseBooks
  <2>4. get(available, r) + Demand(Allocated, Need, r) + Demand(leases, LeaseNeed, r)
          = get(Total, r)
    BY Zenon DEF NodeConservation
  <2> QED BY <2>1, <2>2, <2>3, <2>4
<1> QED BY Zenon, <1>4, <1>5, <1>6, <1>7 DEF NodeConservation

\* A step of the scheduler balances the books around what is leased.
LEMMA SchedulerStep ==
  ASSUME NodeInv, [Next]_vars, leases' = leases,
         given_back' = given_back \/ \E l \in leases : given_back' = given_back \cup {l}
  PROVE  NodeInv'
<1> USE DEF NodeInv
<1>1. QueueInv'
  BY Zenon, NextQueueInv
<1>2. LeaseBooks'
  BY Zenon DEF LeaseBooks
<1>3. PICK K : K = [r \in Res |-> get(Total, r) - Demand(leases, LeaseNeed, r)]
  OBVIOUS
<1>4. ASSUME NEW r \in Res, NEW a \in Nat, NEW d \in Nat
      PROVE  a + d = K[r] <=> a + d + Demand(leases, LeaseNeed, r) = get(Total, r)
  <2>1. get(Total, r) \in Nat /\ Demand(leases, LeaseNeed, r) \in Nat
    BY Zenon, SchedulerAssumption, GetType, LeaseDemand DEF LeaseBooks
  <2>2. K[r] = get(Total, r) - Demand(leases, LeaseNeed, r)
    BY Zenon, <1>3
  <2> QED BY <2>1, <2>2
<1>5. \A r \in Res : get(available, r) \in Nat /\ Demand(Allocated, Need, r) \in Nat
  BY Zenon, GetType, TaskDemand DEF QueueInv, TypeOK
<1>6. \A r \in Res : get(available', r) \in Nat /\ Demand(Allocated', Need, r) \in Nat
  <2>1. IsResMap(available')
    BY Zenon, <1>1 DEF QueueInv, TypeOK
  <2>2. Allocated' \subseteq Subs
    BY DEF Allocated
  <2>3. IsFiniteSet(Allocated')
    BY <2>2, SchedulerAssumption, FS_Subset
  <2> QED BY Zenon, <2>1, <2>2, <2>3, SchedulerAssumption, GetType, UnitsFinite
<1>7. Balance(K)
  BY Zenon, <1>4, <1>5 DEF Balance, NodeConservation
<1>8. Balance(K)'
  BY Zenon, <1>7, BalanceSteps DEF QueueInv, ExactlyOnce
<1>9. ASSUME NEW r \in Res
      PROVE  get(available', r) + Demand(Allocated', Need, r) + Demand(leases', LeaseNeed, r)
               = get(Total, r)
  BY Zenon, <1>4, <1>6, <1>8 DEF Balance
<1> QED BY Zenon, <1>1, <1>2, <1>9 DEF NodeConservation

-----------------------------------------------------------------------------
\* The invariant holds when the node starts: no task runs, nothing is leased.
LEMMA InitNodeInv == NodeInit => NodeInv
<1> SUFFICES ASSUME NodeInit PROVE NodeInv
  OBVIOUS
<1>1. IInv
  BY Zenon, InitIInv DEF NodeInit
<1>2. LeaseBooks /\ leases = {}
  BY Zenon DEF NodeInit, LeaseBooks
<1>3. ASSUME NEW r \in Res
      PROVE  get(available, r) + Demand(Allocated, Need, r) + Demand(leases, LeaseNeed, r)
               = get(Total, r)
  <2>1. Demand(leases, LeaseNeed, r) = 0
    BY Zenon, <1>2, DemandEmpty
  <2>2. get(available, r) + Demand(Allocated, Need, r) = get(Total, r)
    BY Zenon, <1>1 DEF IInv, Conservation
  <2>3. get(available, r) \in Nat /\ Demand(Allocated, Need, r) \in Nat
    BY Zenon, <1>1, GetType, TaskDemand DEF IInv, TypeOK
  <2> QED BY <2>1, <2>2, <2>3
<1>4. QueueInv
  BY Zenon, <1>1 DEF IInv, QueueInv
<1> QED BY Zenon, <1>2, <1>3, <1>4 DEF NodeInv, NodeConservation

\* Every step of the node preserves it.
LEMMA NextNodeInv == NodeInv /\ [NodeNext]_allVars => NodeInv'
BY Zenon, NodeStep, SchedulerStep, LeaseStep

\* Beside the front ends, the registry, the store and the leases, the inductive
\* invariant of the node holds in every reachable state.
THEOREM NodeInvariance == NodeSpec => []NodeInv
BY InitNodeInv, NextNodeInv, PTL DEF NodeSpec

\* What is available, what running tasks hold and what was ever leased add up to
\* the node's total, with any number of tasks and leases (try_allocate, release
\* and request_worker_lease).
THEOREM NodeResources == NodeSpec => []NodeConservation
<1>1. NodeInv => NodeConservation BY DEF NodeInv
<1> QED BY <1>1, NodeInvariance, PTL

\* The promises of the scheduler to its callers survive in the node: no
\* submission is lost or dispatched twice, task_statuses tells the truth, and a
\* query made after a submission knows the task, although leases compete with
\* the tasks for the resources.
THEOREM SchedulerInNode == NodeSpec => [](ExactlyOnce /\ StatusAgrees /\ ReadYourSubmit)
<1>1. NodeInv => ExactlyOnce /\ StatusAgrees /\ ReadYourSubmit
  BY Zenon DEF NodeInv, QueueInv
<1> QED BY <1>1, NodeInvariance, PTL

(***************************************************************************)
(* The results of the tasks, and who reads them                            *)
(***************************************************************************)

After == {"return_worker", "release", "done"}

\* How far an execution is and what it left behind go together: a function was
\* found before its result is put, and there is an outcome only after that.
ExecInv ==
  \A s \in Subs :
    /\ stage[s] = "put" => code[s] # NoFn
    /\ result[s] # "none" => stage[s] \in After
    /\ result[s] = "stored" => s \in HasReturn /\ code[s] # NoFn

\* What a reader could have found since its call began includes all that is
\* there, and what it could have found all the time is there.
Observed == \A c \in Readers : steady[c] \subseteq Present /\ Present \subseteq seen[c]

\* What a call of get_object_locations has still to look at is the rest of what
\* it was asked for.
Rest(k) ==
  /\ Len(k.todo) <= Len(k.asked)
  /\ \A j \in 1 .. Len(k.todo) : k.todo[j] = k.asked[Len(k.asked) - Len(k.todo) + j]

TodoIsRest == \A c \in Readers : call[c].op = "locate" => Rest(call[c])

\* The inductive invariant of the results, next to NodeInv.
ResultInv ==
  NodeTypeOK /\ ExecInv /\ ResultsGenuine /\ Observed /\ TodoIsRest /\ LocationsRight

\* The object id of a message, however long its bytes are, is an ObjectId.
LEMMA RequestObjectId ==
  ASSUME NEW p \in Conv!IdMsg
  PROVE  ObjectOf(p) \in Objects
<1>1. 0 \in Byte /\ ObjectIdLen \in Nat
  BY Zenon, NodeAssumption
<1>2. p.id \in Seq(Byte)
  BY DEF Conv!IdMsg
<1>3. Conv!from_slice(ObjectIdLen, p.id) \in Conv!Id(ObjectIdLen)
  BY <1>1, <1>2 DEF Conv!from_slice, Conv!Id
<1> QED BY Zenon, <1>3 DEF ObjectOf, Conv!id_from_proto, Objects

\* The return ids of a specification are ObjectIds, however long the bytes in
\* the message are.
LEMMA ReturnIdType ==
  ASSUME NEW s \in HasReturn
  PROVE  ReturnId(s) \in Objects
<1>1. CASE s \in FnSubs
  BY Zenon, <1>1, NodeAssumption DEF ReturnId
<1>2. CASE s \notin FnSubs
  <2> DEFINE ps == TaskMsg[s].return_ids
             rs == [i \in DOMAIN ps |-> Conv!id_from_proto(ObjectIdLen, ps[i])]
  <2>1. s \in Subs /\ ps \in Seq(Conv!IdMsg)
    BY Zenon, <1>2, NodeAssumption DEF HasReturn
  <2>2. TaskSpecOf(s).return_ids = rs /\ rs # <<>>
    <3>1. TaskSpecOf(s) # Conv!Unset /\ TaskSpecOf(s).return_ids # <<>>
      BY Zenon, <1>2 DEF HasReturn
    <3>2. TaskSpecOf(s).return_ids = Conv!object_ids_from_proto(ps)
      BY <3>1 DEF TaskSpecOf, Conv!task_spec_from_proto
    <3> QED BY Zenon, <3>1, <3>2 DEF Conv!object_ids_from_proto
  <2> HIDE DEF ps
  <2>3. ASSUME NEW i \in DOMAIN ps PROVE Conv!id_from_proto(ObjectIdLen, ps[i]) \in Objects
    <3>1. ps[i] \in Conv!IdMsg
      BY <2>1
    <3> QED BY Zenon, <3>1, RequestObjectId DEF ObjectOf
  <2>4. rs \in Seq(Objects) /\ Len(rs) = Len(ps)
    BY <2>1, <2>3
  <2>5. 1 \in DOMAIN ps
    BY <2>1, <2>2, <2>4, EmptySeq
  <2> QED BY Zenon, <1>2, <2>2, <2>3, <2>5 DEF ReturnId
<1> QED BY Zenon, <1>1, <1>2

\* A step in which no execution ends: nobody begins to put a result or goes
\* back to before it.
Calm ==
  \A s \in Subs : /\ stage'[s] = "put" => stage[s] = "put"
                  /\ stage[s] \in After => stage'[s] \in After

\* One submission moves on.
LEMMA CalmMove ==
  ASSUME TypeOK, NEW s \in Subs, NEW to, stage' = [stage EXCEPT ![s] = to],
         to # "put", stage[s] \in After => to \in After
  PROVE  Calm
<1>1. stage'[s] = to /\ \A q \in Subs \ {s} : stage'[q] = stage[q]
  BY Zenon DEF TypeOK
<1> QED BY Zenon, <1>1 DEF Calm

\* The steps of the event loop are calm.
LEMMA LoopCalm ==
  ASSUME TypeOK, NoneLost, EventLoop
  PROVE  Calm
<1>1. ASSUME UNCHANGED stage PROVE Calm
  BY Zenon, <1>1 DEF Calm
<1>2. ASSUME NEW s \in Subs, stage[s] \in {"sent", "queued"},
             \/ stage' = [stage EXCEPT ![s] = "get_worker"]
             \/ stage' = [stage EXCEPT ![s] = "queued"]
      PROVE  Calm
  <2>1. stage[s] \notin After
    BY Zenon, <1>2 DEF After
  <2> QED BY Zenon, <1>2, <2>1, CalmMove
<1>3. ASSUME HandleSubmitDispatch \/ HandleSubmitQueue PROVE Calm
  BY Zenon, <1>2, <1>3, HeadStage DEF HandleSubmitDispatch, HandleSubmitQueue, Dispatch
<1>4. ASSUME DrainDispatch PROVE Calm
  BY Zenon, <1>2, <1>4, HeadStage DEF DrainDispatch, Dispatch
<1>5. ASSUME HandleCancel \/ LoopExit PROVE Calm
  <2>1. \A s \in Subs : \/ stage'[s] = stage[s]
                        \/ stage[s] = "queued" /\ stage'[s] \in {"cancelled", "dropped"}
    BY Zenon, <1>5 DEF HandleCancel, LoopExit
  <2> QED BY Zenon, <2>1 DEF Calm, After
<1>6. ASSUME HandleGetStatus \/ DrainKeep \/ DrainEnd PROVE Calm
  BY Zenon, <1>1, <1>6 DEF HandleGetStatus, DrainKeep, DrainEnd
<1> QED BY Zenon, <1>3, <1>4, <1>5, <1>6 DEF EventLoop

\* So are the calls of the front ends, and what a background task does before
\* it executes and after it has put its result.
LEMMA FrontCalm ==
  ASSUME TypeOK, NoneLost,
         \/ Scheduling \/ shutdown
         \/ \E s \in Subs : submit_fn(s) \/ submit_task_rpc(s)
         \/ \E p \in IdMsgs : cancel_task_rpc(p)
         \/ \E p \in IdMsgs : \E c \in Clients : get_task_status_rpc(p, c)
  PROVE  Calm /\ UNCHANGED nodeVars
<1>1. UNCHANGED nodeVars
  BY Zenon DEF Scheduling, shutdown, submit_fn, submit_task_rpc, cancel_task_rpc,
               get_task_status_rpc
<1>2. ASSUME UNCHANGED stage PROVE Calm
  BY Zenon, <1>2 DEF Calm
<1>3. ASSUME NEW s \in Subs, submit_fn(s) \/ submit_task_rpc(s) PROVE Calm
  <2>1. stage[s] = "new" /\ stage' = [stage EXCEPT ![s] = "sent"]
    BY Zenon, <1>3 DEF submit_fn, submit_task_rpc, submit_task
  <2> QED BY Zenon, <2>1, CalmMove DEF After
<1>4. ASSUME NEW s \in Subs, GetWorker(s) \/ ReturnWorker(s) \/ release(s) PROVE Calm
  <2>1. \/ stage[s] = "get_worker" /\ stage' = [stage EXCEPT ![s] = "execute"]
        \/ stage[s] = "return_worker" /\ stage' = [stage EXCEPT ![s] = "release"]
        \/ stage[s] = "release" /\ stage' = [stage EXCEPT ![s] = "done"]
    BY Zenon, <1>4 DEF GetWorker, ReturnWorker, release, Step
  <2>2. CASE stage' = [stage EXCEPT ![s] = "execute"] /\ stage[s] = "get_worker"
    BY Zenon, <2>2, CalmMove DEF After
  <2>3. CASE stage' = [stage EXCEPT ![s] = "release"] /\ stage[s] = "return_worker"
    BY Zenon, <2>3, CalmMove DEF After
  <2>4. CASE stage' = [stage EXCEPT ![s] = "done"] /\ stage[s] = "release"
    BY Zenon, <2>4, CalmMove DEF After
  <2> QED BY Zenon, <2>1, <2>2, <2>3, <2>4
<1>5. ASSUME NEW c, get_task_status_return(c) PROVE Calm
  BY Zenon, <1>2, <1>5 DEF get_task_status_return
<1>6. ASSUME NEW p, cancel_task_rpc(p) \/ \E c \in Clients : get_task_status_rpc(p, c) PROVE Calm
  BY Zenon, <1>2, <1>6 DEF cancel_task_rpc, get_task_status_rpc, cancel_task, get_task_status
<1>7. ASSUME shutdown PROVE Calm
  BY Zenon, <1>2, <1>7 DEF shutdown, drop_handles
<1> QED BY Zenon, <1>1, <1>3, <1>4, <1>5, <1>6, <1>7, LoopCalm DEF Scheduling

-----------------------------------------------------------------------------
\* A result lasts: its submission keeps its outcome and its function.
Lasting ==
  \A s \in Subs : result[s] = "stored" => result'[s] = "stored" /\ code'[s] = code[s]

\* What is genuine stays genuine while results last.
LEMMA StaysGenuine ==
  ASSUME ExecInv', Lasting, NEW o, NEW d, Genuine(o, d)
  PROVE  Genuine(o, d)'
<1>1. PICK s : s = d.sub
  OBVIOUS
<1>2. /\ s \in HasReturn /\ ReturnId(s) = o /\ d.fn = code[s] /\ d.fn # NoFn
      /\ result[s] = "stored"
  BY Zenon, <1>1 DEF Genuine
<1>3. s \in Subs
  BY Zenon, <1>2 DEF HasReturn
<1>4. result'[s] = "stored" /\ code'[s] = code[s]
  BY Zenon, <1>2, <1>3 DEF Lasting
<1>5. stage'[s] \in After
  BY Zenon, <1>3, <1>4 DEF ExecInv
<1> QED BY Zenon, <1>1, <1>2, <1>4, <1>5 DEF Genuine, After, HasReturn, ReturnId, TaskSpecOf

\* Where results were put there is data, or it was removed.
StoredOrRemoved ==
  \A s \in Subs : result[s] = "stored" => stored[ReturnId(s)] # NoData \/ ReturnId(s) \in removed

\* What a step does to the registry, the executions and the store.
ResultStep ==
  /\ fns' \in [{FnName[s] : s \in Subs} -> Fns \cup {NoFn}]
  /\ code' \in [Subs -> Fns \cup {NoFn}]
  /\ result' \in [Subs -> Results]
  /\ stored' \in [Objects -> Data]
  /\ removed' \subseteq Objects
  /\ ExecInv' /\ Lasting /\ StoredOrRemoved'
  /\ \A o \in Objects : stored'[o].by = "task" => \/ stored'[o] = stored[o]
                                                  \/ Genuine(o, stored[o])'

\* What a step does to the calls of get_object: what one returns it has found.
CallStep ==
  \A c \in Readers : \/ call'[c] = call[c]
                     \/ call'[c].op # "got"
                     \/ /\ call'[c].obj \in Objects
                        /\ call'[c].data = stored[call'[c].obj]

\* Then all that is stored and was returned stays genuine.
LEMMA GenuineStep ==
  ASSUME ResultsGenuine, ResultStep, CallStep
  PROVE  ResultsGenuine'
<1>0. ExecInv' /\ Lasting
  BY Zenon DEF ResultStep
<1>1. ASSUME NEW o \in Objects, stored'[o].by = "task" PROVE Genuine(o, stored[o])'
  <2>1. CASE stored'[o] = stored[o]
    <3>1. PICK d : d = stored[o]
      OBVIOUS
    <3>2. Genuine(o, d)
      BY Zenon, <1>1, <2>1, <3>1 DEF ResultsGenuine
    <3>3. Genuine(o, d)'
      BY Zenon, <1>0, <3>2, StaysGenuine
    <3> QED BY Zenon, <2>1, <3>1, <3>3 DEF Genuine
  <2>2. CASE stored'[o] # stored[o]
    BY Zenon, <1>1, <2>2 DEF ResultStep
  <2> QED BY Zenon, <2>1, <2>2
<1>2. ASSUME NEW c \in Readers, call'[c].op = "got", call'[c].data.by = "task"
      PROVE  Genuine(call[c].obj, call[c].data)'
  <2>1. PICK o, d : o = call'[c].obj /\ d = call'[c].data
    OBVIOUS
  <2>2. Genuine(o, d)
    <3>1. CASE call'[c] = call[c]
      BY Zenon, <1>2, <2>1, <3>1 DEF ResultsGenuine
    <3>2. CASE call'[c] # call[c]
      <4>1. o \in Objects /\ d = stored[o] /\ d.by = "task"
        BY Zenon, <1>2, <2>1, <3>2 DEF CallStep
      <4> QED BY Zenon, <4>1 DEF ResultsGenuine
    <3> QED BY Zenon, <3>1, <3>2
  <2>3. Genuine(o, d)'
    BY Zenon, <1>0, <2>2, StaysGenuine
  <2> QED BY Zenon, <2>1, <2>3 DEF Genuine
<1>3. StoredOrRemoved'
  BY Zenon DEF ResultStep
<1> QED BY Zenon, <1>1, <1>2, <1>3 DEF ResultsGenuine, StoredOrRemoved, Genuine

\* The data of the store, by kind.
LEMMA DataTypes ==
  /\ NoData \in Data /\ NoData.by # "task"
  /\ [by |-> "client"] \in Data /\ [by |-> "client"] # NoData /\ [by |-> "client"].by # "task"
  /\ \A s \in Subs, f \in Fns : /\ [by |-> "task", sub |-> s, fn |-> f] \in Data
                                /\ [by |-> "task", sub |-> s, fn |-> f] # NoData
BY DEF Data, NoData

\* What a calm step keeps of the executions.
LEMMA CalmExec ==
  ASSUME ExecInv, Calm, UNCHANGED <<code, result>>
  PROVE  ExecInv'
<1>1. ASSUME NEW s \in Subs
      PROVE  /\ stage'[s] = "put" => code'[s] # NoFn
             /\ result'[s] # "none" => stage'[s] \in After
             /\ result'[s] = "stored" => s \in HasReturn /\ code'[s] # NoFn
  BY Zenon DEF Calm, ExecInv
<1> QED BY Zenon, <1>1 DEF ExecInv, HasReturn, TaskSpecOf

\* An execution moves on: it ends, or a result of its function is put.
LEMMA MoveExec ==
  ASSUME ExecInv, TypeOK, NodeTypeOK, NEW s \in Subs, stage[s] \in {"execute", "put"},
         code' = code, NEW to \in {"put", "return_worker"}, stage' = [stage EXCEPT ![s] = to],
         NEW r \in Results, result' = [result EXCEPT ![s] = r],
         to = "put" => code[s] # NoFn /\ r = "none",
         r = "stored" => s \in HasReturn /\ code[s] # NoFn
  PROVE  /\ ExecInv' /\ Lasting /\ result' \in [Subs -> Results]
         /\ result'[s] = r /\ \A q \in Subs \ {s} : result'[q] = result[q]
<1>1. /\ stage'[s] = to /\ \A q \in Subs \ {s} : stage'[q] = stage[q]
  BY Zenon DEF TypeOK
<1>2. /\ result'[s] = r /\ \A q \in Subs \ {s} : result'[q] = result[q]
      /\ result' \in [Subs -> Results]
  BY Zenon DEF NodeTypeOK
<1>3. result[s] = "none"
  BY Zenon DEF ExecInv, After
<1>4. r # "none" => to \in After
  BY Zenon DEF After
<1>5. ASSUME NEW q \in Subs
      PROVE  /\ stage'[q] = "put" => code'[q] # NoFn
             /\ result'[q] # "none" => stage'[q] \in After
             /\ result'[q] = "stored" => q \in HasReturn /\ code'[q] # NoFn
  <2>1. CASE q = s
    BY Zenon, <1>1, <1>2, <1>4, <2>1
  <2>2. CASE q # s
    BY Zenon, <1>1, <1>2, <2>2 DEF ExecInv
  <2> QED BY Zenon, <2>1, <2>2
<1>6. ExecInv'
  BY Zenon, <1>5 DEF ExecInv, HasReturn, TaskSpecOf
<1>7. Lasting
  BY Zenon, <1>2, <1>3 DEF Lasting
<1> QED BY Zenon, <1>2, <1>6, <1>7

\* A step that stores and removes nothing.
LEMMA NothingStored ==
  ASSUME NodeTypeOK, ResultsGenuine, ExecInv', Lasting, UNCHANGED <<stored, removed>>,
         fns' \in [{FnName[s] : s \in Subs} -> Fns \cup {NoFn}],
         code' \in [Subs -> Fns \cup {NoFn}], result' \in [Subs -> Results],
         \A s \in Subs : result'[s] = "stored" => result[s] = "stored"
  PROVE  ResultStep
<1>1. StoredOrRemoved'
  BY Zenon DEF ResultsGenuine, StoredOrRemoved, ReturnId, TaskSpecOf
<1> QED BY Zenon, <1>1 DEF ResultStep, NodeTypeOK

\* One object gets the data d, or loses it; the result of s is put with it.
LEMMA ObjectStep ==
  ASSUME NodeTypeOK, ResultsGenuine, ExecInv', Lasting, UNCHANGED <<fns, code>>,
         result' \in [Subs -> Results],
         NEW o \in Objects, NEW d \in Data, stored' = [stored EXCEPT ![o] = d],
         removed' = IF d = NoData THEN removed \cup {o} ELSE removed \ {o},
         \A s \in Subs : result'[s] = "stored" => result[s] = "stored" \/ ReturnId(s) = o,
         d.by = "task" => Genuine(o, d)'
  PROVE  ResultStep
<1>1. /\ stored'[o] = d /\ \A p \in Objects \ {o} : stored'[p] = stored[p]
      /\ stored' \in [Objects -> Data]
  BY Zenon DEF NodeTypeOK
<1>2. removed' \subseteq Objects
  BY Zenon DEF NodeTypeOK
<1>3. ASSUME NEW s \in Subs, result'[s] = "stored"
      PROVE  stored'[ReturnId(s)] # NoData \/ ReturnId(s) \in removed'
  <2>1. CASE ReturnId(s) = o
    BY Zenon, <1>1, <2>1
  <2>2. CASE ReturnId(s) # o
    <3>1. result[s] = "stored"
      BY Zenon, <1>3, <2>2
    <3>2. s \in HasReturn
      BY Zenon, <1>3 DEF ExecInv, HasReturn, TaskSpecOf
    <3>3. stored'[ReturnId(s)] = stored[ReturnId(s)]
      BY Zenon, <1>1, <2>2, <3>2, ReturnIdType
    <3>4. stored[ReturnId(s)] # NoData \/ ReturnId(s) \in removed
      BY Zenon, <3>1 DEF ResultsGenuine
    <3> QED BY Zenon, <2>2, <3>3, <3>4
  <2> QED BY Zenon, <2>1, <2>2
<1>4. StoredOrRemoved'
  BY Zenon, <1>3 DEF StoredOrRemoved, ReturnId, TaskSpecOf
<1>5. ASSUME NEW p \in Objects, stored'[p].by = "task"
      PROVE  stored'[p] = stored[p] \/ Genuine(p, stored[p])'
  <2>1. CASE p = o
    BY Zenon, <1>1, <1>5, <2>1 DEF Genuine
  <2>2. CASE p # o
    BY Zenon, <1>1, <2>2
  <2> QED BY Zenon, <2>1, <2>2
<1> QED BY Zenon, <1>1, <1>2, <1>4, <1>5 DEF ResultStep, NodeTypeOK

\* The steps of an execution.
LEMMA ExecutionResult ==
  ASSUME NodeTypeOK, TypeOK, ExecInv, ResultsGenuine, NEW s \in Subs, Execution(s)
  PROVE  ResultStep /\ call' = call
<1>0. call' = call
  BY Zenon DEF Execution, Lookup, LookupErr, RunErr, RunOk, Fail, PutStored, PutNothing, nodeVars
<1>1. /\ fns \in [{FnName[q] : q \in Subs} -> Fns \cup {NoFn}]
      /\ code \in [Subs -> Fns \cup {NoFn}] /\ result \in [Subs -> Results]
  BY Zenon DEF NodeTypeOK
<1>2. CASE Lookup(s)
  <2>1. /\ stage[s] = "execute" /\ fns[FnName[s]] # NoFn
        /\ code' = [code EXCEPT ![s] = fns[FnName[s]]]
        /\ UNCHANGED <<fns, result, stored, removed, stage>>
    BY Zenon, <1>2 DEF Lookup, vars
  <2>2. code' \in [Subs -> Fns \cup {NoFn}]
    <3>1. fns[FnName[s]] \in Fns \cup {NoFn}
      BY <1>1
    <3> QED BY Zenon, <1>1, <2>1, <3>1
  <2>3. \A q \in Subs \ {s} : code'[q] = code[q]
    BY Zenon, <1>1, <2>1
  <2>4. result[s] = "none"
    BY Zenon, <2>1 DEF ExecInv, After
  <2>5. ExecInv'
    <3>1. ASSUME NEW q \in Subs
          PROVE  /\ stage'[q] = "put" => code'[q] # NoFn
                 /\ result'[q] # "none" => stage'[q] \in After
                 /\ result'[q] = "stored" => q \in HasReturn /\ code'[q] # NoFn
      BY Zenon, <2>1, <2>3, <2>4 DEF ExecInv
    <3> QED BY Zenon, <3>1 DEF ExecInv, HasReturn, TaskSpecOf
  <2>6. Lasting
    BY Zenon, <2>1, <2>3, <2>4 DEF Lasting
  <2> QED BY Zenon, <1>0, <1>1, <2>1, <2>2, <2>5, <2>6, NothingStored
<1>3. ASSUME NEW to \in {"put", "return_worker"}, stage' = [stage EXCEPT ![s] = to],
             NEW r \in Results \ {"stored"}, result' = [result EXCEPT ![s] = r],
             stage[s] \in {"execute", "put"}, to = "put" => code[s] # NoFn /\ r = "none",
             UNCHANGED <<fns, code, stored, removed>>
      PROVE  ResultStep
  <2>1. /\ ExecInv' /\ Lasting /\ result' \in [Subs -> Results]
        /\ result'[s] = r /\ \A q \in Subs \ {s} : result'[q] = result[q]
    BY Zenon, <1>3, MoveExec
  <2>2. \A q \in Subs : result'[q] = "stored" => result[q] = "stored"
    BY Zenon, <1>3, <2>1
  <2> QED BY Zenon, <1>1, <1>3, <2>1, <2>2, NothingStored
<1>4. CASE Fail(s)
  <2>1. /\ stage[s] = "execute" /\ stage' = [stage EXCEPT ![s] = "return_worker"]
        /\ result' = [result EXCEPT ![s] = "failed"]
        /\ UNCHANGED <<fns, code, stored, removed>>
    BY Zenon, <1>4 DEF Fail, ExecuteErr, Step
  <2>2. "failed" \in Results \ {"stored"}
    BY Zenon DEF Results
  <2> QED BY Zenon, <1>0, <1>3, <2>1, <2>2
<1>5. CASE RunOk(s)
  <2>1. /\ stage[s] = "execute" /\ stage' = [stage EXCEPT ![s] = "put"] /\ code[s] # NoFn
        /\ UNCHANGED <<fns, code, result, stored, removed>>
    BY Zenon, <1>5 DEF RunOk, ExecuteOk, Step, nodeVars
  <2>2. result[s] = "none"
    BY Zenon, <2>1 DEF ExecInv, After
  <2>3. result' = [result EXCEPT ![s] = "none"] /\ "none" \in Results \ {"stored"}
    BY <1>1, <2>1, <2>2 DEF Results
  <2> QED BY Zenon, <1>0, <1>3, <2>1, <2>3
<1>6. CASE PutNothing(s)
  <2>1. PICK r : /\ r \in Results \ {"stored"} /\ result' = [result EXCEPT ![s] = r]
    <3>1. {"put_failed", "no_return_id"} \subseteq Results \ {"stored"}
      BY DEF Results
    <3> QED BY Zenon, <1>6, <3>1 DEF PutNothing
  <2>2. /\ stage[s] = "put" /\ stage' = [stage EXCEPT ![s] = "return_worker"]
        /\ UNCHANGED <<fns, code, stored, removed>>
    BY Zenon, <1>6 DEF PutNothing, Put, Step
  <2> QED BY Zenon, <1>0, <1>3, <2>1, <2>2
<1>7. CASE PutStored(s)
  <2>1. PICK o, d : o = ReturnId(s) /\ d = [by |-> "task", sub |-> s, fn |-> code[s]]
    OBVIOUS
  <2>2. /\ stage[s] = "put" /\ stage' = [stage EXCEPT ![s] = "return_worker"]
        /\ UNCHANGED <<fns, code>> /\ s \in HasReturn
        /\ result' = [result EXCEPT ![s] = "stored"]
        /\ stored' = [stored EXCEPT ![o] = d] /\ removed' = removed \ {o}
    BY Zenon, <1>7, <2>1 DEF PutStored, Put, Step
  <2>3. code[s] # NoFn /\ code[s] \in Fns
    BY Zenon, <1>1, <2>2 DEF ExecInv
  <2>4. "stored" \in Results
    BY Zenon DEF Results
  <2>5. /\ ExecInv' /\ Lasting /\ result' \in [Subs -> Results]
        /\ result'[s] = "stored" /\ \A q \in Subs \ {s} : result'[q] = result[q]
    BY Zenon, <2>2, <2>3, <2>4, MoveExec
  <2>6. d \in Data /\ d # NoData /\ d.sub = s /\ d.fn = code[s]
    BY Zenon, <2>1, <2>3, DataTypes
  <2>7. o \in Objects
    BY Zenon, <2>1, <2>2, ReturnIdType
  <2>8. Genuine(o, d)'
    <3>1. stage'[s] \in After
      BY Zenon, <2>5 DEF ExecInv
    <3> QED BY Zenon, <2>1, <2>2, <2>3, <2>5, <2>6, <3>1
              DEF Genuine, After, HasReturn, ReturnId, TaskSpecOf
  <2>9. \A q \in Subs : result'[q] = "stored" => result[q] = "stored" \/ ReturnId(q) = o
    BY Zenon, <2>1, <2>5
  <2>10. removed' = IF d = NoData THEN removed \cup {o} ELSE removed \ {o}
    BY Zenon, <2>2, <2>6
  <2> QED BY Zenon, <1>0, <2>2, <2>5, <2>6, <2>7, <2>8, <2>9, <2>10, ObjectStep
<1> QED BY Zenon, <1>2, <1>4, <1>5, <1>6, <1>7 DEF Execution, LookupErr, RunErr

-----------------------------------------------------------------------------
\* While a call of get_object_locations goes on, what it could have found only
\* grows and what it could have found all the time only shrinks.
Watching ==
  \A c \in Readers : call[c].op = "locate" /\ call'[c].op = "locate" =>
    seen[c] \subseteq seen'[c] /\ steady'[c] \subseteq steady[c]

LEMMA ObserveStep ==
  ASSUME NodeTypeOK, Observed, Observe \/ UNCHANGED <<stored, call, seen, steady>>
  PROVE  /\ seen' \in [Readers -> SUBSET Objects] /\ steady' \in [Readers -> SUBSET Objects]
         /\ Observed' /\ Watching
<1>1. CASE UNCHANGED <<stored, call, seen, steady>>
  BY Zenon, <1>1 DEF NodeTypeOK, Observed, Present, Watching
<1>2. CASE Observe
  <2>1. PICK P : P = Present'
    OBVIOUS
  <2>2. P \subseteq Objects
    BY Zenon, <2>1 DEF Present
  <2>3. \A c \in Readers : seen[c] \subseteq Objects /\ steady[c] \subseteq Objects
    BY Zenon DEF NodeTypeOK
  <2>4. PICK L : L = [c \in Readers |-> call[c].op = "locate" /\ call'[c].op = "locate"]
    OBVIOUS
  <2>5. /\ seen' = [c \in Readers |-> IF L[c] THEN seen[c] \cup P ELSE P]
        /\ steady' = [c \in Readers |-> IF L[c] THEN steady[c] \cap P ELSE P]
    BY <1>2, <2>1, <2>4 DEF Observe
  <2>6. ASSUME NEW c \in Readers
        PROVE  /\ seen'[c] \subseteq Objects /\ steady'[c] \subseteq Objects
               /\ steady'[c] \subseteq P /\ P \subseteq seen'[c]
               /\ L[c] => seen[c] \subseteq seen'[c] /\ steady'[c] \subseteq steady[c]
    BY Zenon, <2>2, <2>3, <2>5
  <2>7. seen' \in [Readers -> SUBSET Objects] /\ steady' \in [Readers -> SUBSET Objects]
    BY Zenon, <2>5, <2>6
  <2>8. Observed'
    BY Zenon, <2>1, <2>6 DEF Observed
  <2>9. Watching
    BY Zenon, <2>4, <2>6 DEF Watching
  <2> QED BY Zenon, <2>7, <2>8, <2>9
<1> QED BY Zenon, <1>1, <1>2

\* More to have been found, and less to have been missed, makes no reply wrong.
LEMMA LocatedGrows ==
  ASSUME NEW k, NEW S, NEW T, NEW S2, NEW T2, Located(k, S, T), S \subseteq S2, T2 \subseteq T
  PROVE  Located(k, S2, T2)
BY Zenon DEF Located

\* The call of one reader at most changes, to k.
LEMMA OneCall ==
  ASSUME NodeTypeOK, TodoIsRest, LocationsRight, Watching,
         NEW c, NEW k, k \in Calls, call' = call \/ (c \in Readers /\ call' = [call EXCEPT ![c] = k]),
         k.op = "got" => k.obj \in Objects /\ k.data = stored[k.obj],
         k.op = "locate" => Rest(k) /\ Located(k, seen'[c], steady'[c])
  PROVE  call' \in [Readers -> Calls] /\ CallStep /\ TodoIsRest' /\ LocationsRight'
<1>1. call \in [Readers -> Calls]
  BY Zenon DEF NodeTypeOK
<1>2. call' \in [Readers -> Calls]
  BY Zenon, <1>1
<1>3. \A b \in Readers : call'[b] = call[b] \/ (b = c /\ call'[b] = k)
  BY Zenon, <1>1
<1>4. CallStep
  BY Zenon, <1>3 DEF CallStep
<1>5. ASSUME NEW b \in Readers, call'[b].op = "locate"
      PROVE  Rest(call'[b]) /\ Located(call'[b], seen'[b], steady'[b])
  <2>1. CASE call'[b] = call[b]
    <3>1. Rest(call[b]) /\ Located(call[b], seen[b], steady[b])
      BY Zenon, <1>5, <2>1 DEF TodoIsRest, LocationsRight
    <3>2. seen[b] \subseteq seen'[b] /\ steady'[b] \subseteq steady[b]
      BY Zenon, <1>5, <2>1 DEF Watching
    <3>3. Located(call[b], seen'[b], steady'[b])
      BY Zenon, <3>1, <3>2, LocatedGrows
    <3> QED BY Zenon, <2>1, <3>1, <3>3
  <2>2. CASE b = c /\ call'[b] = k
    BY Zenon, <1>5, <2>2
  <2> QED BY Zenon, <1>3, <2>1, <2>2
<1>6. TodoIsRest'
  BY Zenon, <1>5 DEF TodoIsRest, Rest
<1>7. LocationsRight'
  BY Zenon, <1>5 DEF LocationsRight, Located, ObjectOf
<1> QED BY Zenon, <1>2, <1>4, <1>6, <1>7

\* Looking at the head of todo: it is the next one that was asked for.
LEMMA NextAsked ==
  ASSUME NEW X, NEW a \in Seq(X), NEW t \in Seq(X), t # <<>>, Len(t) <= Len(a),
         \A j \in 1 .. Len(t) : t[j] = a[Len(a) - Len(t) + j]
  PROVE  /\ Head(t) = a[Len(a) - Len(t) + 1] /\ Head(t) \in X /\ Tail(t) \in Seq(X)
         /\ Len(a) - Len(Tail(t)) = (Len(a) - Len(t)) + 1
         /\ Len(Tail(t)) <= Len(a)
         /\ \A j \in 1 .. Len(Tail(t)) : Tail(t)[j] = a[Len(a) - Len(Tail(t)) + j]
<1>1. Len(t) \in Nat \ {0} /\ Len(a) \in Nat
  BY EmptySeq
<1>2. Len(Tail(t)) = Len(t) - 1 /\ Tail(t) \in Seq(X)
  BY <1>1
<1>3. Head(t) = t[1] /\ 1 \in 1 .. Len(t) /\ t[1] \in X
  BY <1>1
<1>4. ASSUME NEW j \in 1 .. Len(Tail(t))
      PROVE  Tail(t)[j] = a[Len(a) - Len(Tail(t)) + j]
  <2>1. Tail(t)[j] = t[j + 1] /\ j + 1 \in 1 .. Len(t)
    BY <1>1, <1>2
  <2>2. Len(a) - Len(t) + (j + 1) = Len(a) - Len(Tail(t)) + j
    BY <1>1, <1>2
  <2>3. t[j + 1] = a[Len(a) - Len(t) + (j + 1)]
    BY Zenon, <2>1
  <2> QED BY Zenon, <2>1, <2>2, <2>3
<1>5. Head(t) = a[Len(a) - Len(t) + 1]
  BY Zenon, <1>3
<1>6. Len(a) - Len(Tail(t)) = (Len(a) - Len(t)) + 1 /\ Len(Tail(t)) <= Len(a)
  BY <1>1, <1>2
<1> QED BY Zenon, <1>2, <1>3, <1>4, <1>5, <1>6

\* One look of get_object_locations keeps its reply right.
LEMMA LookRight ==
  ASSUME NodeTypeOK, Observed, TodoIsRest, LocationsRight, Watching,
         NEW c \in Readers, LocateNext(c)
  PROVE  call' \in [Readers -> Calls] /\ CallStep /\ TodoIsRest' /\ LocationsRight'
<1>1. call[c].op = "locate" /\ call[c].todo # <<>> /\ call[c] \in Calls
  BY Zenon DEF LocateNext, NodeTypeOK
<1>2. PICK a, t, ls : a = call[c].asked /\ t = call[c].todo /\ ls = call[c].locations
  OBVIOUS
<1>3. a \in Seq(Conv!IdMsg) /\ t \in Seq(Conv!IdMsg) /\ ls \in Seq(Conv!IdMsg)
  BY <1>1, <1>2 DEF Calls, NoCall
<1>4. PICK p, ms, k : /\ p = Head(t)
                      /\ ms = IF wait_for_object(p) THEN Append(ls, p) ELSE ls
                      /\ k = [op |-> "locate", asked |-> a, todo |-> Tail(t), locations |-> ms]
  OBVIOUS
<1>5. call' = [call EXCEPT ![c] = k]
  BY Zenon, <1>2, <1>4 DEF LocateNext
<1>6. Rest(call[c]) /\ Located(call[c], seen[c], steady[c])
  BY Zenon, <1>1 DEF TodoIsRest, LocationsRight
<1>7. /\ p = a[Len(a) - Len(t) + 1] /\ p \in Conv!IdMsg /\ Tail(t) \in Seq(Conv!IdMsg)
      /\ Len(a) - Len(Tail(t)) = (Len(a) - Len(t)) + 1
      /\ Len(Tail(t)) <= Len(a)
      /\ \A j \in 1 .. Len(Tail(t)) : Tail(t)[j] = a[Len(a) - Len(Tail(t)) + j]
  <2>1. t # <<>> /\ Len(t) <= Len(a) /\ \A j \in 1 .. Len(t) : t[j] = a[Len(a) - Len(t) + j]
    BY Zenon, <1>1, <1>2, <1>6 DEF Rest
  <2>2. PICK X : X = Conv!IdMsg
    OBVIOUS
  <2>3. a \in Seq(X) /\ t \in Seq(X)
    BY Zenon, <1>3, <2>2
  <2>4. /\ Head(t) = a[Len(a) - Len(t) + 1] /\ Head(t) \in X /\ Tail(t) \in Seq(X)
        /\ Len(a) - Len(Tail(t)) = (Len(a) - Len(t)) + 1
        /\ Len(Tail(t)) <= Len(a)
        /\ \A j \in 1 .. Len(Tail(t)) : Tail(t)[j] = a[Len(a) - Len(Tail(t)) + j]
    BY <2>1, <2>3, NextAsked
  <2> QED BY Zenon, <1>4, <2>2, <2>4
<1>8. k.op = "locate" /\ k.asked = a /\ k.todo = Tail(t) /\ k.locations = ms
  BY Zenon, <1>4
<1>9. Rest(k)
  BY Zenon, <1>7, <1>8 DEF Rest
<1>10. ms \in Seq(Conv!IdMsg) /\ k \in Calls
  <2>1. ms \in Seq(Conv!IdMsg)
    BY Zenon, <1>3, <1>4, <1>7, AppendElements
  <2> QED BY <1>3, <1>4, <1>7, <2>1 DEF Calls
<1>11. /\ steady'[c] \subseteq steady[c] /\ steady[c] \subseteq Present
       /\ seen[c] \subseteq seen'[c] /\ Present \subseteq seen[c]
  <2>1. call'[c].op = "locate"
    BY Zenon, <1>5, <1>8 DEF NodeTypeOK
  <2> QED BY Zenon, <1>1, <2>1 DEF Watching, Observed
<1>12. wait_for_object(p) <=> ObjectOf(p) \in Present
  BY Zenon, <1>7, RequestObjectId DEF wait_for_object, Present
<1>13. /\ \A j \in DOMAIN ls : j \in DOMAIN ms /\ ms[j] = ls[j]
       /\ \A j \in DOMAIN ms : \/ ms[j] = p /\ wait_for_object(p)
                               \/ j \in DOMAIN ls /\ ms[j] = ls[j]
       /\ wait_for_object(p) => \E j \in DOMAIN ms : ms[j] = p
  <2>1. CASE ~wait_for_object(p)
    BY Zenon, <1>4, <2>1
  <2>2. CASE wait_for_object(p)
    <3>1. ms = Append(ls, p)
      BY Zenon, <1>4, <2>2
    <3> HIDE DEF wait_for_object
    <3>2. \A j \in DOMAIN ls : j \in DOMAIN ms /\ ms[j] = ls[j]
      BY <1>3, <1>7, <3>1
    <3>3. \A j \in DOMAIN ms : ms[j] = p \/ (j \in DOMAIN ls /\ ms[j] = ls[j])
      BY <1>3, <1>7, <3>1
    <3>4. Len(ls) + 1 \in DOMAIN ms /\ ms[Len(ls) + 1] = p
      BY <1>3, <1>7, <3>1
    <3> QED BY Zenon, <2>2, <3>2, <3>3, <3>4
  <2> QED BY Zenon, <2>1, <2>2
<1>14. ASSUME NEW j \in DOMAIN ms PROVE ObjectOf(ms[j]) \in seen'[c]
  <2>1. CASE ms[j] = p /\ wait_for_object(p)
    BY Zenon, <1>11, <1>12, <2>1
  <2>2. CASE j \in DOMAIN ls /\ ms[j] = ls[j]
    BY Zenon, <1>2, <1>6, <1>11, <2>2 DEF Located
  <2> QED BY Zenon, <1>13, <2>1, <2>2
<1>15. ASSUME NEW i \in 1 .. Len(a) - Len(Tail(t)), ObjectOf(a[i]) \in steady'[c]
       PROVE  \E j \in DOMAIN ms : ms[j] = a[i]
  <2>1. CASE i = Len(a) - Len(t) + 1
    BY Zenon, <1>7, <1>11, <1>12, <1>13, <1>15, <2>1
  <2>2. CASE i \in 1 .. Len(a) - Len(t)
    <3>1. ObjectOf(a[i]) \in steady[c]
      BY Zenon, <1>11, <1>15
    <3>2. PICK j \in DOMAIN ls : ls[j] = a[i]
      BY Zenon, <1>2, <1>6, <2>2, <3>1 DEF Located
    <3> QED BY Zenon, <1>13, <3>2
  <2>3. i = Len(a) - Len(t) + 1 \/ i \in 1 .. Len(a) - Len(t)
    <3>1. Len(a) \in Nat /\ Len(t) \in Nat
      BY <1>3
    <3> QED BY <1>7, <3>1
  <2> QED BY Zenon, <2>1, <2>2, <2>3
<1>16. Located(k, seen'[c], steady'[c])
  BY Zenon, <1>8, <1>14, <1>15 DEF Located
<1> QED BY Zenon, <1>5, <1>8, <1>9, <1>10, <1>16, OneCall

\* The steps of the readers.
LEMMA ReaderCalls ==
  ASSUME NodeTypeOK, Observed, TodoIsRest, LocationsRight, Watching, NEW c \in Readers,
         \/ \E o \in GetIds : get_object(c, o)
         \/ \E list \in Lists : get_object_locations(c, list)
         \/ GetReturn(c) \/ LocateNext(c) \/ LocateReturn(c)
  PROVE  call' \in [Readers -> Calls] /\ CallStep /\ TodoIsRest' /\ LocationsRight'
<1> DEFINE Goal == call' \in [Readers -> Calls] /\ CallStep /\ TodoIsRest' /\ LocationsRight'
<1>1. call[c] \in Calls
  BY Zenon DEF NodeTypeOK
<1>2. ASSUME NEW o \in GetIds, get_object(c, o) PROVE Goal
  <2>1. PICK k : k = [op |-> "get", obj |-> o]
    OBVIOUS
  <2>2. o \in Objects
    BY Zenon, NodeAssumption
  <2>3. k \in Calls /\ k.op = "get"
    BY <2>1, <2>2 DEF Calls
  <2>4. call' = [call EXCEPT ![c] = k]
    BY Zenon, <1>2, <2>1 DEF get_object
  <2> QED BY Zenon, <2>3, <2>4, OneCall
<1>3. ASSUME NEW list \in Lists, get_object_locations(c, list) PROVE Goal
  <2>1. PICK k : k = [op |-> "locate", asked |-> list, todo |-> list, locations |-> <<>>]
    OBVIOUS
  <2>2. list \in Seq(Conv!IdMsg) /\ <<>> \in Seq(Conv!IdMsg) /\ Len(list) \in Nat
    BY NodeAssumption
  <2>3. k \in Calls
    BY <2>1, <2>2 DEF Calls
  <2>4. k.asked = list /\ k.todo = list /\ DOMAIN k.locations = {} /\ k.op = "locate"
    BY <2>1
  <2>5. Rest(k)
    <3>1. Len(list) <= Len(list) /\ \A j \in 1 .. Len(list) : Len(list) - Len(list) + j = j
      BY <2>2
    <3> QED BY Zenon, <2>4, <3>1 DEF Rest
  <2>6. Located(k, seen'[c], steady'[c])
    <3>1. 1 .. Len(list) - Len(list) = {}
      BY <2>2
    <3> QED BY Zenon, <2>4, <3>1 DEF Located
  <2>7. call' = [call EXCEPT ![c] = k]
    BY Zenon, <1>3, <2>1 DEF get_object_locations
  <2> QED BY Zenon, <2>3, <2>4, <2>5, <2>6, <2>7, OneCall
<1>4. ASSUME GetReturn(c) PROVE Goal
  <2>1. PICK k : k = [op |-> "got", obj |-> call[c].obj, data |-> stored[call[c].obj]]
    OBVIOUS
  <2>2. call[c].op = "get" /\ call' = [call EXCEPT ![c] = k]
    BY Zenon, <1>4, <2>1 DEF GetReturn
  <2>3. call[c].obj \in Objects
    BY <1>1, <2>2 DEF Calls, NoCall
  <2>4. stored[call[c].obj] \in Data
    BY Zenon, <2>3 DEF NodeTypeOK
  <2>5. k \in Calls
    BY <2>1, <2>3, <2>4 DEF Calls
  <2>6. k.op = "got" /\ k.obj = call[c].obj /\ k.data = stored[call[c].obj]
    BY Zenon, <2>1
  <2> QED BY Zenon, <2>2, <2>3, <2>5, <2>6, OneCall
<1>5. ASSUME LocateNext(c) PROVE Goal
  BY Zenon, <1>5, LookRight
<1>6. ASSUME LocateReturn(c) PROVE Goal
  <2>1. call' = [call EXCEPT ![c] = NoCall]
    BY Zenon, <1>6 DEF LocateReturn
  <2>2. NoCall \in Calls /\ NoCall.op = "none"
    BY DEF Calls, NoCall
  <2> HIDE DEF NoCall
  <2> QED BY Zenon, <2>1, <2>2, OneCall
<1> QED BY Zenon, <1>2, <1>3, <1>4, <1>5, <1>6

-----------------------------------------------------------------------------
\* When the node starts nothing was executed, stored or asked for.
LEMMA InitResultInv == NodeInit => ResultInv
<1> SUFFICES ASSUME NodeInit PROVE ResultInv
  OBVIOUS
<1>1. /\ stage = [s \in Subs |-> "new"] /\ result = [s \in Subs |-> "none"] /\ available = Total
      /\ fns = [n \in {FnName[s] : s \in Subs} |-> NoFn] /\ code = [s \in Subs |-> NoFn]
      /\ stored = [o \in Objects |-> NoData] /\ removed = {} /\ leases = {} /\ given_back = {}
      /\ call = [c \in Readers |-> NoCall]
      /\ seen = [c \in Readers |-> {}] /\ steady = [c \in Readers |-> {}]
  BY Zenon DEF NodeInit, Init
<1>2. /\ NoCall \in Calls /\ NoCall.op = "none" /\ NoData \in Data /\ NoData.by = "nobody"
      /\ "none" \in Results
  BY DEF Calls, NoCall, Data, NoData, Results
<1> HIDE DEF NoCall, NoData
<1>3. NodeTypeOK
  BY Zenon, <1>1, <1>2, SchedulerAssumption DEF NodeTypeOK
<1>4. ExecInv /\ ResultsGenuine
  BY Zenon, <1>1, <1>2 DEF ExecInv, ResultsGenuine
<1>5. TodoIsRest /\ LocationsRight
  BY Zenon, <1>1, <1>2 DEF TodoIsRest, LocationsRight
<1>6. Observed
  BY Zenon, <1>1 DEF Observed, Present
<1> QED BY Zenon, <1>3, <1>4, <1>5, <1>6 DEF ResultInv

\* Every step of the node preserves it.
LEMMA NextResultInv == NodeInv /\ ResultInv /\ [NodeNext]_allVars => ResultInv'
<1> SUFFICES ASSUME NodeInv, ResultInv, [NodeNext]_allVars PROVE ResultInv'
  OBVIOUS
<1> USE DEF ResultInv
<1>1. TypeOK /\ NoneLost
  BY Zenon DEF NodeInv, QueueInv, ExactlyOnce
<1>2. IsResMap(available') /\ given_back' \cup leases' \subseteq Leases
  BY Zenon, NextNodeInv DEF NodeInv, QueueInv, TypeOK, LeaseBooks
<1>3. /\ seen' \in [Readers -> SUBSET Objects] /\ steady' \in [Readers -> SUBSET Objects]
      /\ Observed' /\ Watching
  <2>1. Observe \/ UNCHANGED <<stored, call, seen, steady>>
    BY Zenon DEF NodeNext, allVars, nodeVars, history
  <2> QED BY Zenon, <2>1, ObserveStep
<1>4. ASSUME ResultStep, call' \in [Readers -> Calls], CallStep, TodoIsRest', LocationsRight'
      PROVE  ResultInv'
  <2>1. ResultsGenuine'
    BY Zenon, <1>4, GenuineStep
  <2>2. NodeTypeOK'
    BY Zenon, <1>2, <1>3, <1>4 DEF NodeTypeOK, ResultStep
  <2> QED BY Zenon, <1>3, <1>4, <2>1, <2>2 DEF ResultStep
<1>5. ASSUME ResultStep, call' = call PROVE ResultInv'
  <2>1. NoCall \in Calls /\ NoCall.op = "none"
    BY DEF Calls, NoCall
  <2> HIDE DEF NoCall
  <2>2. call' \in [Readers -> Calls] /\ CallStep /\ TodoIsRest' /\ LocationsRight'
    BY Zenon, <1>3, <1>5, <2>1, OneCall
  <2> QED BY Zenon, <1>4, <1>5, <2>2
<1>6. ASSUME Calm, UNCHANGED <<code, result>>,
             fns' \in [{FnName[s] : s \in Subs} -> Fns \cup {NoFn}]
      PROVE  /\ ExecInv' /\ Lasting /\ result' \in [Subs -> Results]
             /\ UNCHANGED <<stored, removed>> => ResultStep
  <2>1. ExecInv' /\ Lasting
    BY Zenon, <1>6, CalmExec DEF Lasting
  <2>2. code' \in [Subs -> Fns \cup {NoFn}] /\ result' \in [Subs -> Results]
    BY Zenon, <1>6 DEF NodeTypeOK
  <2> QED BY Zenon, <1>6, <2>1, <2>2, NothingStored
<1>7. fns' = fns => fns' \in [{FnName[s] : s \in Subs} -> Fns \cup {NoFn}]
  BY Zenon DEF NodeTypeOK
<1>8. ASSUME UNCHANGED stage PROVE Calm
  BY Zenon, <1>8 DEF Calm
<1> HIDE DEF ResultInv
<1>9. ASSUME \/ Scheduling \/ shutdown
             \/ \E s \in Subs : submit_fn(s) \/ submit_task_rpc(s)
             \/ \E p \in IdMsgs : cancel_task_rpc(p)
             \/ \E p \in IdMsgs : \E c \in Clients : get_task_status_rpc(p, c)
      PROVE  ResultInv'
  <2>1. Calm /\ UNCHANGED <<fns, code, result, stored, removed, call>>
    BY Zenon, <1>1, <1>9, FrontCalm DEF nodeVars
  <2> QED BY Zenon, <1>5, <1>6, <1>7, <2>1
<1>10. ASSUME NEW s \in Subs, Execution(s) PROVE ResultInv'
  BY Zenon, <1>1, <1>5, <1>10, ExecutionResult DEF ResultInv
<1>11. ASSUME NEW n \in DOMAIN fns, unregister_fn(n) \/ \E f \in Fns : register_fn(n, f)
       PROVE  ResultInv'
  <2>1. /\ \E f \in Fns \cup {NoFn} : fns' = [fns EXCEPT ![n] = f]
        /\ UNCHANGED <<stage, code, result, stored, removed, call>>
    BY Zenon, <1>11 DEF unregister_fn, register_fn, vars
  <2>2. fns' \in [{FnName[s] : s \in Subs} -> Fns \cup {NoFn}]
    BY <2>1 DEF ResultInv, NodeTypeOK
  <2> QED BY Zenon, <1>5, <1>6, <1>8, <2>1, <2>2
<1>12. ASSUME NEW l \in Leases, request_worker_lease(l) \/ release_worker_lease(l)
       PROVE  ResultInv'
  <2>1. UNCHANGED <<stage, fns, code, result, stored, removed, call>>
    BY Zenon, <1>12 DEF request_worker_lease, release_worker_lease, vars
  <2> QED BY Zenon, <1>5, <1>6, <1>7, <1>8, <2>1
<1>13. ASSUME NEW o \in PutIds \cup DeleteIds, put_object(o) \/ delete(o) PROVE ResultInv'
  <2>1. PICK d : /\ d \in Data /\ d.by # "task" /\ stored' = [stored EXCEPT ![o] = d]
                 /\ removed' = IF d = NoData THEN removed \cup {o} ELSE removed \ {o}
    BY Zenon, <1>13, DataTypes DEF put_object, delete
  <2>2. UNCHANGED <<stage, fns, code, result, call>>
    BY Zenon, <1>13 DEF put_object, delete, vars
  <2>3. ExecInv' /\ Lasting /\ result' \in [Subs -> Results]
    BY Zenon, <1>6, <1>7, <1>8, <2>2
  <2>4. o \in Objects
    BY Zenon, NodeAssumption
  <2>5. \A s \in Subs : result'[s] = "stored" => result[s] = "stored" \/ ReturnId(s) = o
    BY Zenon, <2>2
  <2>6. ResultStep
    BY Zenon, <2>1, <2>2, <2>3, <2>4, <2>5, ObjectStep DEF ResultInv
  <2> QED BY Zenon, <1>5, <2>2, <2>6
<1> DEFINE Reads(c) == \/ \E o \in GetIds : get_object(c, o)
                       \/ \E list \in Lists : get_object_locations(c, list)
                       \/ GetReturn(c) \/ LocateNext(c) \/ LocateReturn(c)
<1>14. ASSUME NEW c \in Readers, Reads(c) PROVE ResultInv'
  <2>1. call' \in [Readers -> Calls] /\ CallStep /\ TodoIsRest' /\ LocationsRight'
    BY Zenon, <1>3, <1>14, ReaderCalls DEF ResultInv
  <2>2. UNCHANGED <<stage, fns, code, result, stored, removed>>
    BY Zenon, <1>14 DEF get_object, get_object_locations, GetReturn, LocateNext, LocateReturn, vars
  <2> QED BY Zenon, <1>4, <1>6, <1>7, <1>8, <2>1, <2>2
<1>15. CASE UNCHANGED allVars
  <2>1. UNCHANGED <<stage, fns, code, result, stored, removed, call>>
    BY Zenon, <1>15 DEF allVars, nodeVars, vars
  <2> QED BY Zenon, <1>5, <1>6, <1>7, <1>8, <2>1
<1>16. CASE NodeNext
  <2>1. \/ Scheduling \/ shutdown
        \/ \E s \in Subs : submit_fn(s) \/ submit_task_rpc(s) \/ Execution(s)
        \/ \E p \in IdMsgs : cancel_task_rpc(p)
        \/ \E p \in IdMsgs : \E c \in Clients : get_task_status_rpc(p, c)
        \/ \E n \in DOMAIN fns : unregister_fn(n) \/ \E f \in Fns : register_fn(n, f)
        \/ \E l \in Leases : request_worker_lease(l) \/ release_worker_lease(l)
        \/ \E o \in PutIds \cup DeleteIds : put_object(o) \/ delete(o)
        \/ \E c \in Readers : Reads(c)
    BY Zenon, <1>16 DEF NodeNext, NodeAction
  <2> HIDE DEF Reads
  <2>2. CASE \/ Scheduling \/ shutdown
             \/ \E s \in Subs : submit_fn(s) \/ submit_task_rpc(s)
             \/ \E p \in IdMsgs : cancel_task_rpc(p)
             \/ \E p \in IdMsgs : \E c \in Clients : get_task_status_rpc(p, c)
    BY Zenon, <1>9, <2>2
  <2>3. CASE \E s \in Subs : Execution(s)
    BY Zenon, <1>10, <2>3
  <2>4. CASE \E n \in DOMAIN fns : unregister_fn(n) \/ \E f \in Fns : register_fn(n, f)
    BY Zenon, <1>11, <2>4
  <2>5. CASE \E l \in Leases : request_worker_lease(l) \/ release_worker_lease(l)
    BY Zenon, <1>12, <2>5
  <2>6. CASE \E o \in PutIds \cup DeleteIds : put_object(o) \/ delete(o)
    BY Zenon, <1>13, <2>6
  <2>7. CASE \E c \in Readers : Reads(c)
    BY Zenon, <1>14, <2>7
  <2> QED BY Zenon, <2>1, <2>2, <2>3, <2>4, <2>5, <2>6, <2>7
<1> QED BY Zenon, <1>15, <1>16

\* The inductive invariant of the results holds in every reachable state.
THEOREM ResultInvariance == NodeSpec => []ResultInv
BY InitResultInv, NextResultInv, NodeInvariance, PTL DEF NodeSpec

\* The registry, the store, the leases and the calls keep their types.
THEOREM NodeTypeCorrect == NodeSpec => []NodeTypeOK
<1>1. ResultInv => NodeTypeOK
  BY Zenon DEF ResultInv
<1> QED BY <1>1, ResultInvariance, PTL

\* However registrations, cancellations, puts and removals interleave: what the
\* store has, and what get_object has returned, as a task's result is the output
\* of the function looked up for it, and where a result was put there is data
\* until it is removed by the handle on the store.
THEOREM ResultsStayGenuine == NodeSpec => []ResultsGenuine
<1>1. ResultInv => ResultsGenuine
  BY Zenon DEF ResultInv
<1> QED BY <1>1, ResultInvariance, PTL

\* With objects put and removed between its looks, get_object_locations reports
\* no object that was not there during the call and leaves out none that was
\* there all the time.
THEOREM LocationsStayRight == NodeSpec => []LocationsRight
<1>1. ResultInv => LocationsRight
  BY Zenon DEF ResultInv
<1> QED BY <1>1, ResultInvariance, PTL
=============================================================================
