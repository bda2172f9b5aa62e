--------------------------- MODULE LocalScheduler ---------------------------
(***************************************************************************)
(* The raylet's LocalScheduler (scheduler.rs) with the ResourceManager it  *)
(* allocates from (resource_manager.rs).                                   *)
(*                                                                         *)
(* Callers put commands into a bounded mpsc channel.  One event loop takes *)
(* them out one at a time and, after each command, walks over the pending  *)
(* queue.  Every task it starts runs as a background task of its own, so   *)
(* releases of resources interleave with the steps of the loop, including  *)
(* between two allocation attempts of the same walk.                       *)
(*                                                                         *)
(* A submission is one call of submit_task.  Two submissions may carry the *)
(* same task id, as nothing in the scheduler prevents it.                  *)
(***************************************************************************)
EXTENDS Resources, Sequences

CONSTANTS Subs,      \* submissions; each is made at most once
          TaskIds,
          TaskOf,    \* TaskOf[s]: the task_id of the spec
          Need,      \* Need[s]: the required_resources of the spec
          Total,     \* the resources of the node
          ChanCap,   \* capacity of the command channel (4096 in the code)
          Clients    \* callers of get_task_status

ASSUME SchedulerAssumption ==
  /\ IsFiniteSet(Subs)
  /\ TaskOf \in [Subs -> TaskIds]
  /\ \A s \in Subs : IsResMap(Need[s])
  /\ IsResMap(Total)
  /\ ChanCap \in Nat \ {0}

VARIABLES
  chan,       \* the commands in the mpsc channel
  open,       \* some handle on the LocalScheduler, hence a sender, is alive
  loop,       \* where the event loop is
  pending,    \* pending_queue; during a walk, the part not yet visited
  still,      \* still_pending, local to the walk
  status,     \* task_statuses; "Absent" where the map has no entry
  available,  \* ResourceManager.available
  stage,      \* where each submission is; once dispatched, the program
              \* counter of its background task
  worker,     \* whether the background task was given a worker
  query       \* the get_task_status call each client has outstanding

loopVars == <<loop, pending, still, status>>
vars     == <<chan, open, loopVars, available, stage, worker, query>>

Submit(s)       == [op |-> "SubmitTask", sub |-> s]
Cancel(t)       == [op |-> "CancelTask", task |-> t]
GetStatus(t, c) == [op |-> "GetStatus", task |-> t, client |-> c]

Commands == {Submit(s) : s \in Subs} \cup {Cancel(t) : t \in TaskIds}
            \cup {GetStatus(t, c) : t \in TaskIds, c \in Clients}

\* TaskStatus (traits.rs).
Statuses == {"Pending", "Scheduled", "Running", "Finished", "Failed", "Cancelled"}

\* The background task of dispatch_task: the step it takes next.
Background == {"get_worker", "execute", "put", "return_worker", "release"}

Stages == {"new", "sent", "queued", "cancelled", "dropped", "done"}
          \cup Background

NoQuery == [state |-> "none"]
Queries ==
  {NoQuery}
  \cup [state : {"waiting"}, task : TaskIds, known : BOOLEAN]
  \cup [state : {"answered"}, task : TaskIds, known : BOOLEAN,
        reply : Statuses \cup {"TaskNotFound"}]

\* The submissions whose resources are allocated and not yet released.
Allocated == {s \in Subs : stage[s] \in Background}

Init ==
  /\ chan = <<>>
  /\ open = TRUE
  /\ loop = "recv"
  /\ pending = <<>>
  /\ still = <<>>
  /\ status = [t \in TaskIds |-> "Absent"]
  /\ available = Total
  /\ stage = [s \in Subs |-> "new"]
  /\ worker = [s \in Subs |-> FALSE]
  /\ query = [c \in Clients |-> NoQuery]

-----------------------------------------------------------------------------
(***************************************************************************)
(* The callers.  cmd_tx.send().await waits while the channel is full.      *)
(***************************************************************************)
Send(cmd) ==
  /\ open
  /\ Len(chan) < ChanCap
  /\ chan' = Append(chan, cmd)

submit_task(s) ==
  /\ stage[s] = "new"
  /\ Send(Submit(s))
  /\ stage' = [stage EXCEPT ![s] = "sent"]
  /\ UNCHANGED <<open, loopVars, available, worker, query>>

cancel_task(t) ==
  /\ Send(Cancel(t))
  /\ UNCHANGED <<open, loopVars, available, stage, worker, query>>

\* `known` remembers whether a submission of t had been accepted before.
get_task_status(t, c) ==
  /\ query[c] = NoQuery
  /\ Send(GetStatus(t, c))
  /\ query' = [query EXCEPT ![c] =
                 [state |-> "waiting", task |-> t,
                  known |-> \E s \in Subs : TaskOf[s] = t /\ stage[s] # "new"]]
  /\ UNCHANGED <<open, loopVars, available, stage, worker>>

\* rx.await returns the reply to the caller.
get_task_status_return(c) ==
  /\ query[c].state = "answered"
  /\ query' = [query EXCEPT ![c] = NoQuery]
  /\ UNCHANGED <<chan, open, loopVars, available, stage, worker>>

\* The last handle is dropped (LocalRuntime::shutdown consumes the runtime).
\* A call in progress borrows the handle, so none is outstanding.
drop_handles ==
  /\ open
  /\ \A c \in Clients : query[c] = NoQuery
  /\ open' = FALSE
  /\ UNCHANGED <<chan, loopVars, available, stage, worker, query>>
-----------------------------------------------------------------------------
(***************************************************************************)
(* The event loop.  try_allocate checks and subtracts under one write lock *)
(* and is atomic; everything else the loop touches is local to it.         *)
(***************************************************************************)
try_allocate(required) ==
  /\ can_satisfy(available, required)
  /\ available' = subtract(available, required)

\* resource_manager.try_allocate succeeded: the task becomes Running and
\* dispatch_task spawns its background task.
\* Mutant: task_statuses.insert(.., Running) is forgotten.
Dispatch_NoStatus(s) ==
  /\ try_allocate(Need[s])
  /\ status' = status
  /\ stage' = [stage EXCEPT ![s] = "get_worker"]

Dispatch(s) ==
  /\ try_allocate(Need[s])
  /\ status' = [status EXCEPT ![TaskOf[s]] = "Running"]
  /\ stage' = [stage EXCEPT ![s] = "get_worker"]

Receive(op) ==
  /\ loop = "recv"
  /\ chan # <<>>
  /\ Head(chan).op = op
  /\ chan' = Tail(chan)
  /\ loop' = "drain"

HandleSubmitDispatch ==
  /\ Receive("SubmitTask")
  /\ Dispatch(Head(chan).sub)
  /\ UNCHANGED <<open, pending, still, worker, query>>

HandleSubmitQueue ==
  LET s == Head(chan).sub IN
  /\ Receive("SubmitTask")
  /\ ~can_satisfy(available, Need[s])
  /\ status' = [status EXCEPT ![TaskOf[s]] = "Pending"]
  /\ pending' = Append(pending, s)
  /\ stage' = [stage EXCEPT ![s] = "queued"]
  /\ UNCHANGED <<open, still, available, worker, query>>

\* Vec::retain(|s| s.task_id != t): the entries at the kept positions, in
\* their order.
Kept(q, t)    == {i \in 1 .. Len(q) : TaskOf[q[i]] # t}
Rank(K, i)    == Cardinality({j \in K : j <= i})
\* Mutant: the first matching entry only is removed.
Retain_First(q, t) ==
  IF \A i \in DOMAIN q : TaskOf[q[i]] # t THEN q
  ELSE LET first == CHOOSE i \in DOMAIN q : /\ TaskOf[q[i]] = t
                                            /\ \A j \in 1 .. i - 1 : TaskOf[q[j]] # t
       IN  SubSeq(q, 1, first - 1) \o SubSeq(q, first + 1, Len(q))

Retain(q, t) ==
  LET K == Kept(q, t)
  IN  [k \in 1 .. Cardinality(K) |-> q[CHOOSE i \in K : Rank(K, i) = k]]

\* Mutant: cancelling removes the entry of task_statuses.
HandleCancel_Forget ==
  LET t == Head(chan).task IN
  /\ Receive("CancelTask")
  /\ status' = [status EXCEPT ![t] = "Absent"]
  /\ pending' = Retain(pending, t)
  /\ stage' = [s \in Subs |-> IF stage[s] = "queued" /\ TaskOf[s] = t
                                THEN "cancelled" ELSE stage[s]]
  /\ UNCHANGED <<open, still, available, worker, query>>

HandleCancel ==
  LET t == Head(chan).task IN
  /\ Receive("CancelTask")
  /\ status' = IF status[t] = "Absent"
                 THEN status ELSE [status EXCEPT ![t] = "Cancelled"]
  /\ pending' = Retain(pending, t)
  /\ stage' = [s \in Subs |-> IF stage[s] = "queued" /\ TaskOf[s] = t
                                THEN "cancelled" ELSE stage[s]]
  /\ UNCHANGED <<open, still, available, worker, query>>

\* Mutant: the handler continues with the next recv(), skipping the walk.
HandleGetStatus_Continue ==
  LET t == Head(chan).task
      c == Head(chan).client
  IN
  /\ loop = "recv" /\ chan # <<>> /\ Head(chan).op = "GetStatus"
  /\ chan' = Tail(chan)
  /\ query' = [query EXCEPT ![c] =
                 [state |-> "answered", task |-> t, known |-> query[c].known,
                  reply |-> IF status[t] = "Absent"
                              THEN "TaskNotFound" ELSE status[t]]]
  /\ UNCHANGED <<open, loop, pending, still, status, available, stage, worker>>

\* Mutant: no reply when the task is unknown.
HandleGetStatus_NoReply ==
  LET t == Head(chan).task
      c == Head(chan).client
  IN
  /\ Receive("GetStatus")
  /\ query' = IF status[t] = "Absent" THEN query
              ELSE [query EXCEPT ![c] = [state |-> "answered", task |-> t,
                                         known |-> query[c].known, reply |-> status[t]]]
  /\ UNCHANGED <<open, pending, still, status, available, stage, worker>>

HandleGetStatus ==
  LET t == Head(chan).task
      c == Head(chan).client
  IN
  /\ Receive("GetStatus")
  /\ query' = [query EXCEPT ![c] =
                 [state |-> "answered", task |-> t, known |-> query[c].known,
                  reply |-> IF status[t] = "Absent"
                              THEN "TaskNotFound" ELSE status[t]]]
  /\ UNCHANGED <<open, pending, still, status, available, stage, worker>>

\* One iteration of `for spec in pending_queue.drain(..)`.
DrainDispatch ==
  /\ loop = "drain"
  /\ pending # <<>>
  /\ Dispatch(Head(pending))
  /\ pending' = Tail(pending)
  /\ UNCHANGED <<chan, open, loop, still, worker, query>>

\* Mutant: still_pending.push is forgotten.
DrainKeep_Lost ==
  /\ loop = "drain"
  /\ pending # <<>>
  /\ ~can_satisfy(available, Need[Head(pending)])
  /\ pending' = Tail(pending)
  /\ UNCHANGED <<chan, open, loop, still, status, available, stage, worker, query>>

DrainKeep ==
  /\ loop = "drain"
  /\ pending # <<>>
  /\ ~can_satisfy(available, Need[Head(pending)])
  /\ pending' = Tail(pending)
  /\ still' = Append(still, Head(pending))
  /\ UNCHANGED <<chan, open, loop, status, available, stage, worker, query>>

\* pending_queue = still_pending, and back to recv.
DrainEnd ==
  /\ loop = "drain"
  /\ pending = <<>>
  /\ pending' = still
  /\ still' = <<>>
  /\ loop' = "recv"
  /\ UNCHANGED <<chan, open, status, available, stage, worker, query>>

\* recv() returns None: every sender is gone and the channel is empty.  What
\* the pending queue still holds is dropped with it.
\* Mutant: the loop ends as soon as the senders are gone.
LoopExit_Early ==
  /\ loop = "recv"
  /\ ~open
  /\ loop' = "exited"
  /\ pending' = <<>>
  /\ stage' = [s \in Subs |-> IF stage[s] = "queued" THEN "dropped" ELSE stage[s]]
  /\ UNCHANGED <<chan, open, still, status, available, worker, query>>

LoopExit ==
  /\ loop = "recv"
  /\ ~open
  /\ chan = <<>>
  /\ loop' = "exited"
  /\ pending' = <<>>
  /\ stage' = [s \in Subs |-> IF stage[s] = "queued" THEN "dropped" ELSE stage[s]]
  /\ UNCHANGED <<chan, open, still, status, available, worker, query>>
-----------------------------------------------------------------------------
(***************************************************************************)
(* The background task of one dispatched submission.  The worker pool, the *)
(* executor and the object store are other components: each call may turn  *)
(* out either way.                                                         *)
(***************************************************************************)
Step(s, from, to) ==
  /\ stage[s] = from
  /\ stage' = [stage EXCEPT ![s] = to]
  /\ UNCHANGED <<chan, open, loopVars, query>>

\* worker_pool.get_worker() may return None; execution goes on all the same.
GetWorker(s) ==
  /\ Step(s, "get_worker", "execute")
  /\ \E w \in BOOLEAN : worker' = [worker EXCEPT ![s] = w]
  /\ UNCHANGED available

ExecuteOk(s) ==
  /\ Step(s, "execute", "put")
  /\ UNCHANGED <<available, worker>>

\* Mutant: a failed execution returns early, without release.
ExecuteErr_NoRelease(s) ==
  /\ Step(s, "execute", "done")
  /\ UNCHANGED <<available, worker>>

ExecuteErr(s) ==
  /\ Step(s, "execute", "return_worker")
  /\ UNCHANGED <<available, worker>>

\* The result is put under the first return id, if there is one.  A failing put
\* is logged and nothing else.
Put(s) ==
  /\ Step(s, "put", "return_worker")
  /\ UNCHANGED <<available, worker>>

\* Mutant: release only happens together with return_worker.
ReturnWorker_IfSome(s) ==
  /\ worker[s]
  /\ Step(s, "return_worker", "release")
  /\ worker' = [worker EXCEPT ![s] = FALSE]
  /\ UNCHANGED available

ReturnWorker(s) ==
  /\ Step(s, "return_worker", "release")
  /\ worker' = [worker EXCEPT ![s] = FALSE]
  /\ UNCHANGED available

release(s) ==
  /\ Step(s, "release", "done")
  /\ available' = add(available, Need[s])
  /\ UNCHANGED worker

-----------------------------------------------------------------------------
EventLoop ==
  \/ HandleSubmitDispatch \/ HandleSubmitQueue
  \/ HandleCancel \/ HandleGetStatus
  \/ DrainDispatch \/ DrainKeep \/ DrainEnd
  \/ LoopExit

BackgroundTask(s) ==
  \/ GetWorker(s) \/ ExecuteOk(s) \/ ExecuteErr(s) \/ Put(s)
  \/ ReturnWorker(s) \/ release(s)

Next ==
  \/ \E s \in Subs : submit_task(s) \/ BackgroundTask(s)
  \/ \E t \in TaskIds : cancel_task(t)
  \/ \E t \in TaskIds, c \in Clients : get_task_status(t, c)
  \/ \E c \in Clients : get_task_status_return(c)
  \/ drop_handles
  \/ EventLoop

Spec == Init /\ [][Next]_vars

\* tokio runs every task that is ready, and task functions return or panic.
\* Nothing obliges a caller to submit, cancel, ask or shut down.
FairSpec ==
  /\ Spec
  /\ WF_vars(EventLoop)
  /\ \A s \in Subs : WF_vars(BackgroundTask(s))

-----------------------------------------------------------------------------
TypeOK ==
  /\ chan \in Seq(Commands) /\ Len(chan) <= ChanCap
  /\ open \in BOOLEAN
  /\ loop \in {"recv", "drain", "exited"}
  /\ pending \in Seq(Subs)
  /\ still \in Seq(Subs)
  /\ status \in [TaskIds -> Statuses \cup {"Absent"}]
  /\ IsResMap(available)
  /\ stage \in [Subs -> Stages]
  /\ worker \in [Subs -> BOOLEAN]
  /\ query \in [Clients -> Queries]

\* ResourceManager's books balance at every step: what is available and what
\* the dispatched, unreleased tasks asked for add up to the node's total, for
\* every resource, whatever order try_allocate and release come in.
Conservation ==
  \A r \in Res :
    get(available, r) + Demand(Allocated, Need, r) = get(Total, r)

Contains(q, x) == \E i \in 1 .. Len(q) : q[i] = x
Once(q, x)     == \A i, j \in 1 .. Len(q) : q[i] = x /\ q[j] = x => i = j

\* A submission accepted by the channel is in the channel, or in the queue
\* (pending_queue and still_pending together), exactly while nothing has
\* become of it: the walk over the queue and the retain of a cancellation
\* lose nothing.
NoneLost ==
  \A s \in Subs :
    /\ stage[s] = "sent" <=> Contains(chan, Submit(s))
    /\ stage[s] = "queued" <=> Contains(pending, s) \/ Contains(still, s)

\* No submission is in two places at once, so none is dispatched twice.
NoneDuplicated ==
  \A s \in Subs :
    /\ Once(chan, Submit(s)) /\ Once(pending, s) /\ Once(still, s)
    /\ ~(Contains(pending, s) /\ Contains(still, s))

\* No submitted spec is lost and none is dispatched twice.
ExactlyOnce == NoneLost /\ NoneDuplicated

\* task_statuses tells the truth about the queue while the loop runs: Pending
\* means an entry is waiting, Running that a task was dispatched, and a task
\* with a waiting entry is never shown as cancelled or unknown.
StatusAgrees ==
  loop # "exited" =>
    /\ \A t \in TaskIds :
         /\ status[t] = "Pending" =>
              \E s \in Subs : TaskOf[s] = t /\ stage[s] = "queued"
         /\ status[t] = "Running" =>
              \E s \in Subs : TaskOf[s] = t /\ stage[s] \in Background \cup {"done"}
    /\ \A s \in Subs :
         stage[s] = "queued" => status[TaskOf[s]] \in {"Pending", "Running"}

\* A caller that asks for a task after a submit_task for it has returned is
\* never told TaskNotFound: the channel keeps the order of the two commands
\* and no handler forgets a task.
ReadYourSubmit ==
  \A c \in Clients :
    query[c].state = "answered" /\ query[c].known => query[c].reply # "TaskNotFound"

\* still_pending is empty outside a walk.
StillLocal == loop # "drain" => still = <<>>

\* Every GetStatus command in the channel belongs to the one call its client
\* is waiting in; and when a submission of that task was accepted before the
\* call, the task has a status or a SubmitTask for it is further ahead.
QueriesInFlight ==
  /\ \A i \in 1 .. Len(chan) :
       chan[i].op = "GetStatus" =>
         LET q == query[chan[i].client] IN
         /\ q.state = "waiting"
         /\ q.known => \/ status[chan[i].task] # "Absent"
                       \/ \E j \in 1 .. i - 1 :
                            /\ chan[j].op = "SubmitTask"
                            /\ TaskOf[chan[j].sub] = chan[i].task
  /\ \A i, j \in 1 .. Len(chan) :
       /\ chan[i].op = "GetStatus" /\ chan[j].op = "GetStatus"
       /\ chan[i].client = chan[j].client
       => i = j

\* A submission the loop has seen has an entry in task_statuses.
SeenHasStatus ==
  \A s \in Subs : stage[s] \notin {"new", "sent"} => status[TaskOf[s]] # "Absent"

\* The invariants of the scheduler together with what makes them inductive.
IInv ==
  /\ TypeOK /\ Conservation /\ ExactlyOnce /\ StatusAgrees /\ ReadYourSubmit
  /\ StillLocal /\ QueriesInFlight /\ SeenHasStatus

\* A cancelled task stays Cancelled until the id is submitted again: no entry
\* of it is left in the queue for a later walk to turn into Running.
CancelSticks ==
  [][\A t \in TaskIds :
       status[t] = "Cancelled" /\ status'[t] # "Cancelled" =>
         /\ loop = "recv"
         /\ \E s \in Subs : TaskOf[s] = t /\ Head(chan) = Submit(s)]_vars

\* The scheduler implements the allocation promise: the tasks that hold
\* resources never hold more together than the node has.
Alloc == INSTANCE Allocation WITH Holders <- Subs, holders <- Allocated
AllocSafe == Alloc!Spec

\* With the scheduling tokio provides, it also gives everything back.
AllocFair == Alloc!FairSpec

\* Every command accepted by the channel is handled, also after shutdown.
EverySubmissionHandled ==
  \A s \in Subs : stage[s] = "sent" ~> stage[s] # "sent"

\* Every status query is answered.
EveryQueryAnswered ==
  \A c \in Clients : query[c].state = "waiting" ~> query[c].state = "answered"

\* If clients keep asking for a status and submissions cease, a queued task the
\* node is large enough for leaves the queue: each command makes the loop walk
\* over it.  While submissions keep coming they may overtake it for ever, since
\* the loop tries a new one before the queue.
PolledTasksStart ==
  /\ []<>(\E c \in Clients : query[c].state = "waiting")
  /\ <>[](\A s \in Subs : stage[s] # "sent")
  => \A s \in Subs :
       stage[s] = "queued" /\ can_satisfy(Total, Need[s]) ~> stage[s] # "queued"

-----------------------------------------------------------------------------
\* Claim of event_loop's comment ("dispatches tasks when resources become
\* available"): no task waits forever while its resources are free.
FreeResourcesAreUsed ==
  \A s \in Subs :
    ~<>[](loop # "exited" /\ stage[s] = "queued" /\ can_satisfy(available, Need[s]))

\* Claim of the integration tests ("Task should be running (or already
\* finished)", where either status is accepted) and of TaskStatus, which has
\* Finished and Failed: a client that keeps asking for a task that has ended is
\* not told Running for ever.
EndsAreReported ==
  \A s \in Subs :
    []<>(\E c \in Clients : query[c].state = "answered" /\ query[c].task = TaskOf[s])
    => ~<>[](stage[s] = "done" /\ status[TaskOf[s]] = "Running")
=============================================================================
