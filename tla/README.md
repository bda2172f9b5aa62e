# TLA+ models of ray_rust

This directory holds the formal models of the Rust implementation of Ray Core
under `src/crates/`: TLA+ modules translated from the source, the TLC
configurations that check them on small instances, and TLAPS proofs of the
properties that matter most for every instance. `PROJECT.json` lists the
components, runs, mutants, hazards and theorems, and maps definitions to source
lines.

## 1. The system

| part | source | state | operations | interacts with |
|---|---|---|---|---|
| Resources | `ray-core/src/resource.rs` | a map from names to quantities | `get`, `can_satisfy`, `subtract`, `add` | ResourceManager, policies |
| ResourceManager | `ray-raylet/src/resource_manager.rs` | `total`, `available` behind a lock | `try_allocate`, `release`, snapshots | LocalScheduler, RayletServer |
| LocalScheduler | `ray-raylet/src/scheduler.rs` | command channel; in the event loop `task_statuses`, `pending_queue` | `submit_task`, `cancel_task`, `get_task_status`, the loop, a background task per dispatched task | all of the node |
| WorkerPool | `ray-raylet/src/worker.rs` | a vector of workers behind an RwLock, an atomic status per worker | `get_worker`, `return_worker`, `kill_worker` | background tasks, RayletServer |
| FunctionRegistryExecutor | `ray-raylet/src/executor.rs` | name → closure | `register_fn`, `unregister_fn`, `execute` | background tasks |
| InMemoryObjectStore | `ray-object-store/src/store.rs` | id → entry (data, ref count, spill url), files | `put`, `get`, `wait`, `delete`, references, spill, restore, eviction | background tasks, LocalRuntime, ObjectStoreServer |
| ObjectStoreServer | `ray-object-store/src/server.rs` | none of its own | RPCs over the store, in batches | InMemoryObjectStore |
| ShmPool | `ray-object-store/src/shared_memory.rs` | name → region | `allocate`, `get`, `release` | nothing else |
| InMemoryGcsStore, GcsServer | `ray-gcs/src/` | node, actor, job, usage tables | registration, heartbeat, kill, queries | LocalRuntime, RPC clients |
| GlobalScheduler and policies | `ray-scheduler/src/` | node views | `update_node`, `remove_node`, `schedule_task`; Spread, Pack | Resources |
| RayletServer | `ray-raylet/src/server.rs` | none of its own | RPCs over the node's parts, worker leases | LocalScheduler, ResourceManager, WorkerPool, object store |
| LocalRuntime | `ray-runtime/src/lib.rs` | handles on all of the above | `submit_fn`, `put_object`, `get_object`, `shutdown` … | all of the above |
| Python bindings | `ray-py/src/runtime.rs` | two global statics | `init`, `shutdown`, `put`, `get`, `wait` | object store |
| ids, conversions | `ray-core/src/id.rs`, `proto_conv.rs` | none | pure conversions | all servers, Python bindings |
| serialization, errors, traits | `ray-core/src/` | none | declarations and calls of serde | everything |

A task's way through a node: `submit_task` puts a command into the channel; the
event loop takes it out, tries to allocate the task's resources and either
starts a background task or queues the task; the background task gets a worker,
executes the function, writes the result into the object store, returns the
worker and releases the resources. After every command the loop walks over the
queue and starts what now fits.

What is hard to test in it (the full list, with lines, is under "hazards" in
`PROJECT.json`): releases interleave with the walk over the queue; nothing but a
command wakes the loop; commands of several callers about the same task id come
in any order; the channel is bounded and may be closed with work still in it;
the worker pool reads and writes atomics under a shared lock; the object store
checks its memory budget and inserts in separate critical sections, and spills
and restores through files without holding its lock; the requests of its server
are loops over such calls, any of which may fail or time out on its own; the GCS
heartbeat is a read-modify-write over two lock acquisitions; the global
scheduler places tasks by views that neither its own decisions nor the nodes'
own tasks and leases update until the next report; leases are allocated beside
the scheduler's event loop and never released; objects come and go while a
request looks for them one by one; ids arrive in any length; and the Python
module keeps its state in statics that are set once.

## 2. Modules

| module | models |
|---|---|
| `Resources` | `resource.rs`, and the demand of a set of holders |
| `Allocation` | abstract: what the accounting of a node's resources promises |
| `LocalScheduler` | `scheduler.rs` with `resource_manager.rs` |
| `LocalSchedulerMC` | instances for TLC |
| `LocalSchedulerProofs` | lemmas on resource maps, theorems and proofs |
| `WorkerPool`, `WorkerPoolMC`, `WorkerPoolProofs` | `worker.rs`, instances for TLC, proofs |
| `ObjectStore`, `ObjectStoreMC`, `ObjectStoreProofs` | `store.rs` of the object store, instances for TLC, proofs |
| `ObjectStoreServer`, `ObjectStoreServerMC`, `ObjectStoreServerProofs` | `server.rs` of the object store, over `ObjectStore` |
| `ProtoConv` | `id.rs` and `proto_conv.rs` as operators |
| `Gcs`, `GcsMC`, `GcsProofs` | `store.rs` and `server.rs` of the GCS, over `ProtoConv`; `GcsProofs` also proves the round trips of `ProtoConv` |
| `GlobalScheduler`, `GlobalSchedulerMC`, `GlobalSchedulerProofs` | `global.rs` and `policy.rs`, with external nodes |
| `Node`, `NodeMC`, `NodeProofs` | `server.rs` and `executor.rs` of the raylet and `LocalRuntime`, over `LocalScheduler` and `ProtoConv` |
| `PyRuntime`, `PyRuntimeMC`, `PyRuntimeProofs` | `runtime.rs` of the Python bindings |

### Resources

A `HashMap<String, f64>` is a function whose domain is the set of names with an
entry; an absent name counts as zero, and `subtract` removes entries that reach
zero, as in the code. Quantities are natural numbers of some unit: rounding of
`f64` and negative requests are not modelled. `Demand(S, need, r)` is what the
holders in `S` ask of `r` together, written as the cardinality of a set of
units so that it can be reasoned about without induction.

### LocalScheduler

| variable | code |
|---|---|
| `chan`, `open` | the mpsc channel; whether a sender is alive |
| `loop` | where `event_loop` is: at `recv()`, in the walk over the queue, or ended |
| `pending`, `still` | `pending_queue` (during the walk: the part not yet visited) and the walk's `still_pending` |
| `status` | `task_statuses` |
| `available` | `ResourceManager.available` |
| `stage` | per submission: not sent, in the channel, queued, cancelled, dropped, the step of its background task, done |
| `worker` | whether the background task got a worker |
| `query` | the `get_task_status` call of every client |

A *submission* is one call of `submit_task`; two submissions may carry one task
id. Every handler of the loop is one action (`HandleSubmitDispatch`,
`HandleSubmitQueue`, `HandleCancel`, `HandleGetStatus`), every iteration of the
walk is one (`DrainDispatch`, `DrainKeep`, `DrainEnd`), and every `await` of the
background task separates two (`GetWorker`, `ExecuteOk`/`ExecuteErr`, `Put`,
`ReturnWorker`, `release`). `try_allocate` and `release` run under one write lock
and are atomic. An executor that fails, panics (it runs under `spawn_blocking`)
or does not know the function takes the `ExecuteErr` step.

### WorkerPool

One step per lock operation and per access to a worker's atomic status. The
lock is tokio's fair RwLock: a process first asks for the write lock
(`AskWrite`), and from then on no new reader is let in. Callers are the
background tasks of the scheduler: they run their task whether or not they got a
worker. The vector is a set, as its order only decides which idle worker a scan
meets first. `retain` is one step: it runs under the write lock, and the only
stores that can fall into it are the `mark_idle` of different callers, which
commute.

### ObjectStore

| variable | code |
|---|---|
| `objects` | the map behind the RwLock; an entry has data, `ref_count` and `is_spilled` (which stands for `spill_url` too: they are set together) |
| `disk` | the spill file of every object: nothing, what a spill wrote, or `Torn` (truncated or mixed) |
| `put_`, `poll`, `spill` | the call of every putter, poller and spiller, with its local variables |
| `used`, `raced` | bookkeeping of the model: ids already put (where callers use fresh ids, as `LocalRuntime` does), and ids of which a spill or restore overlapped another one or an insertion, or failed half way |

The lock is held for one lookup or update at a time, so a step is one lock
section or one file operation. `put` has up to four: the first check, the
eviction, the second check, the insertion. `tokio::fs::write` is two steps, the
truncating open and the write; two spillers that have the file open together may
leave a mixture, and a spiller whose file a restore has removed writes to no
effect. All spills go to one directory. `get` is `wait` for one object: both look
first and then give up if the deadline has passed. Callers of `delete` and of the
reference counts are not processes, as each of these calls is one section.

Data is abstract: values with a size. `total_size` is the cardinality of a set
with one element per byte, so that it can be reasoned about without induction.

### ObjectStoreServer

Extends `ObjectStore`: the server's handlers are the putters, pollers and
spillers of the store, and `batch` holds the request each of them serves (the
list asked for, what is left of it, and the reply so far). A request on several
objects is opened (`batch_put`, `batch_get`, `delete_objects`, `spill_objects`,
`restore_objects`), goes through its loop one store call at a time
(`BatchPutNext`, `BatchGetNext`, `DeleteNext`, `SpillNext`), takes the outcome of
each call into its reply (`BatchPutInsert`, `BatchPutRecheck`, `BatchGetPoll`,
`SpillStep`, `SpillNotThere`) and is answered (`Reply`). Between any two of these
the other handlers go on. A request on one object is a batch of one. Ids are the
bytes of the message, converted by `ProtoConv`. The lists of a `wait` name each
object once here; duplicates are a matter of `PyRuntime`. `delete` counts an
absent object as deleted, because `store.delete` returns `Ok` for it.

### ProtoConv and Gcs

An id is a sequence of bytes of a fixed length; on the wire it has any length,
and `from_slice` pads or cuts it. (The doc comment at `ray-core/src/id.rs:33`
says "panics if wrong length"; the code does not.) `Unset` is an absent optional
field and the result of a refused conversion. Enumerations become the numbers of
`common.proto`.

| variable | code |
|---|---|
| `nodes`, `actors`, `jobs`, `resource_usage` | the four tables of `InMemoryGcsStore` |
| `heartbeat` | per running `report_node_heartbeat`: the changed copy it is about to register |
| `member`, `raced` | bookkeeping of the model: what the (un)registrations alone say, and the nodes one of them hit while a heartbeat held a copy |

Every handler is one action and one critical section but the heartbeat, which is
two (`report_node_heartbeat`, `HeartbeatWrite`). A request may come any number of
times. An address stands for address and port.

### GlobalScheduler

`views` are the node views, `schedule_task` chooses among the eligible ones in
every order in which the `HashMap` may yield them; `max_by` keeps the last
maximum and `min_by` the first minimum, as Rust's iterators do. The nodes
themselves (`available`, `report`, `Snapshot`, `LoseReport`, `Allocate`, `End`)
are external: the repository has the comments on who calls `update_node` but not
the caller. A node hands its resources out to the tasks placed on it and to those
that are its `Home`: the tasks of its own scheduler (the global one is for "tasks
that overflow local node capacity", `global.rs:3-4`) and the leases its raylet
grants from the same `ResourceManager` (`ray-raylet/src/server.rs:215`). `since`
and `behind` are bookkeeping of the model: who allocated on the node after the
snapshot behind its view or report, and after the one a task was placed by.

### Node

Extends `LocalScheduler` by its front ends and by what executes a task:

| variable | code |
|---|---|
| `fns` | `FunctionRegistryExecutor.fns` |
| `code` | per submission: the function `execute` has taken out of the registry |
| `result` | per submission: what became of its execution |
| `stored` | the object store, as far as the front ends see it: who wrote the object |
| `leases`, `given_back` | granted leases; the model's record of `release_worker_lease` calls |
| `call` | the call of every reader (`get_object`, `get_object_locations`) |
| `removed`, `seen`, `steady` | bookkeeping of the model: objects removed and not put again; objects there at some time, and all the time, since a reader's call began |

The RPCs convert their ids and specifications with `ProtoConv` and are the
scheduler's own actions otherwise; `ExecuteOk`/`ExecuteErr` are split into the
lookup in the registry and the run of the function, `Put` into a put that is
stored and one that is not. Whoever has a `LocalRuntime` has its parts too: by
`object_store()` objects are put under any id (`put_object`) and removed
(`delete`, which stands for the last `remove_reference` as well), by `executor()`
functions are registered. Allocating or releasing by `resource_manager()`, which
nothing in the repository does, is not modelled. `register_worker`,
`unregister_worker` and `transfer_object` only reply.

### PyRuntime

`RUNTIME`, `OBJECT_STORE` and `INITIALIZED` are the statics. A call holds the
interpreter lock from its start to its end, so `init`, `shutdown` and `put` are
single actions and nothing else moves while `get` or `wait` polls. `refs` records
every `ObjectRef` that was ever returned: Python cannot make one itself, and to
drop one has no effect.

## 3. Runs

| run | configuration | instance | shows |
|---|---|---|---|
| `scheduler` | `LocalScheduler.cfg` | 3 submissions, 2 task ids, 2 resource kinds, channel of 2, 1 client | `Conservation`, `ExactlyOnce`, `StatusAgrees`, `ReadYourSubmit`, `CancelSticks`, the refinement `AllocSafe`, and the liveness properties `AllocFair`, `EverySubmissionHandled`, `EveryQueryAnswered`, `PolledTasksStart` |
| `scheduler_free_resources` | `LocalSchedulerFreeUsed.cfg` | 2 submissions that exclude each other, 1 client | violates `FreeResourcesAreUsed` |
| `scheduler_end_reported` | `LocalSchedulerEnds.cfg` | the same | violates `EndsAreReported` |
| `worker_pool` | `WorkerPoolCalls.cfg` | 2 callers, 1 killer, 3 ids, at most 1 worker | `PoolBounded`, `NoBusyLeak`, `CleanKillRemoves`, `CallsReturn` |
| `worker_pool_exclusive` | `WorkerPoolExclusive.cfg` | 2 callers, 1 killer, at most 2 workers | violates `ExclusiveWorker` |
| `store_puts` | `ObjectStorePuts.cfg` | 2 putters, 1 poller, 2 objects, values of size 1 and 2, budget 1 | `OvershootBounded`, `PollSeesStored`, `CallsReturn` |
| `store_spill` | `ObjectStoreSpill.cfg` | 2 spillers, 1 putter that overwrites, 1 object, values of size 1 and 2, budget 2 | `RefsPositive`, `SpillFaithful`, `RestoreFaithful`, `GoneStaysGone` |
| `store_server` | `ObjectStoreServer.cfg` | 1 handler that gets and waits, 1 that does everything else, 2 objects, budget for 1 | `BatchAccounts`, `BatchGetAligned`, `BatchGetSeesStored`, `RequestsAnswered`, and the refinement `ImplementsStore` |
| `gcs` | `Gcs.cfg` | ids of 2 bytes sent in any length, 2 concurrent heartbeats, nodes, actors, jobs, usage | `MembershipFaithful`, `RepliesUsable` |
| `global_scheduler` | `GlobalScheduler.cfg` | 3 nodes, 2 of them equal, 2 tasks to place, 1 lease, both policies | `BestNode`, `PlacementBacked` |
| `node` | `Node.cfg` | a task over gRPC, one by `submit_fn`, a lease, all for one CPU; 2 functions, 1 client, 1 reader, puts and removals of one result's id | `NodeConservation`, `ResultsGenuine`, `LocationsRight` |
| `python` | `PyRuntime.cfg` | 4 ids, values of size 1 and 2, budget 3, lists of up to 2 | `TypeOK`, `RefsResolve`, `AnswersRight`, `ShutdownFinal`, `CallsReturn` |

The type invariants of the modules are not repeated in the runs where a theorem
states them for every instance (section 4).

The violated properties state what a comment or document of the repository says;
each has an entry under "findings" with the line it quotes: that queued tasks are
started "when resources become available", that `get_worker` returns "an idle
worker", and that `get_task_status` tells a finished task (a test expects
"running (or already finished)"), though no status ever becomes `Finished` or
`Failed`. More disagreements of this kind appear as the exceptions that passing
properties name: a kill can be overwritten by a `mark_idle` or `mark_busy` that
was already decided (`CleanKillRemoves` holds of the kills where that does not happen, though
`worker.rs:142` says "mark as dead and remove from pool"); concurrent puts exceed
`max_memory_bytes` (`OvershootBounded` says by how much, though `store.rs:42`
says "Maximum memory budget"); and a restore that meets another spill of the
object copies a truncated file over its data (`RestoreFaithful` and
`SpillFaithful` hold of the objects outside `raced`, though
`ray-object-store/src/lib.rs:1` says "immutable"). Likewise a heartbeat that an
`unregister_node` or `register_node` overtakes between its two store calls undoes
it: `MembershipFaithful` holds of the nodes outside `raced`. And a lease that is
given back keeps its resources: the comment at `ray-raylet/src/server.rs:243`
leaves the release to "the scheduler after task completion", but the scheduler
knows of no lease, so `NodeConservation` counts every lease for good. A
`batch_put` with an item that has no id ends in an error although the items
before it are stored; its reply has no counts, and `BatchAccounts` says nothing
of it.

**Bounds.** The scheduler instance has two submissions of one task id that fit
beside each other and a third that needs the whole node: so tasks wait for each
other in both directions, two entries of one id can be in the queue at once, and
a walk can start one entry and keep another. A channel of capacity 2 is full
often. Nothing in the code counts beyond these numbers. In the worker pool two
callers and one slot suffice for every race: both scan, both want the only worker
or the only place, and a killer meets either of them at any step. Ids are reused
once nothing refers to them any more, and there are enough of them that a spawn
never waits for one. In the object store two putters suffice for every race on
the budget, and two spillers for every race on a file; objects do not influence
each other but through the total size. With a budget of 1 the two putters can
together store 2, the larger value never fits, and the bound of
`OvershootBounded` (3) is below what two unchecked puts would store (4).
`MaxRefs` caps reference counts: at 2 beside the spillers, which is one count
above the value at insertion, and at 1 beside the poller, which does not look at
counts. In the server, an item without an id, a list of two of which one fits, and
a spill list on the object that is also put, deleted and read make every loop
end in every way. Two heartbeats suffice to overtake each other around a
registration. Three nodes, two of them equal, make ties and an eligible set of
every size; two tasks and a lease make a view stale in each of the ways there are,
by a placement and behind the scheduler's back. On the node the task over
gRPC, the one of `submit_fn` and the lease exclude each other, so whoever comes
first makes the others wait, and the channel of capacity 1 is full after one
command. The id of the gRPC task's result is also the one that is put, removed
and read; the two functions are interchangeable, so TLC takes them as symmetric.
In `python` three small values fill the store, and a list of two may
name an object twice and be asked for three.

**Deadlock** is checked except where the system may really stop: the submissions
of a scheduler instance can all be done and the runtime shut down, and callers
that put every id once run out of ids. A node may be shut down. In Python a `wait`
for more objects than it lists, with a negative timeout, really keeps the
interpreter lock for good; `CallsReturn` says that no other call does.

**Fairness.** `FairSpec` of the scheduler asks weak fairness of the event loop
and of every background task: tokio polls every task that is ready, and a task
function is assumed to return or panic. No caller is obliged to do anything;
`PolledTasksStart` has two hypotheses: some client asks for a status again and
again, since only a command makes the loop walk over the queue, and submissions
cease, since a new one is tried before the queue and may overtake what waits
there for as long as new ones come. The worker pool asks
strong fairness of every started call, because the lock serves its waiters in
order: whoever waits is let in if the lock becomes free again and again. The
object store asks weak fairness of every started call and of the passing of a
deadline: its sections hold a lock across no await, and file operations end. So
do the server, for every request it serves, and the Python module, whose
`block_on` polls its future until it is done. Nobody is obliged to make a
request. `Gcs`, `GlobalScheduler` and `Node` make no liveness claim of their own:
their handlers wait for nothing but the scheduler's channel, which
the `scheduler` run is about.

## 4. Proofs

`LocalSchedulerProofs` begins with resource maps: `subtract` and `add` change
what `get` returns by exactly the requested amounts, and the demand of a set
grows by a new holder's request. It proves, for any finite set of submissions,
any requests, node, channel capacity and set of clients:

- `Invariance`: `IInv` is an invariant. It conjoins the safety invariants with
  three facts that make them inductive: `still_pending` is empty outside a walk
  (`StillLocal`), every `GetStatus` in the channel belongs to the one call its
  client is waiting in and has the `SubmitTask` of its task ahead of it or
  already handled (`QueriesInFlight`), and every submission the loop has seen
  has a status (`SeenHasStatus`).
- From it `TypeCorrect`, `ResourceConservation`, `SubmittedExactlyOnce`,
  `StatusesAgree`, `SubmitBeforeQuery`, the action property
  `CancellationSticks`, and the refinement `ImplementsAllocation`: under the
  mapping of `holders` to the submissions in their background task, every step
  is a step of `Allocation` or leaves `holders` unchanged. The capacity bound of
  an `Acquire` follows from `Conservation` and the check in `try_allocate`.

`WorkerPoolProofs` proves, for any number of callers, killers and workers, that
the pool's `IInv` is an invariant, and from it `TypeCorrect`,
`PoolNeverOverfull`, `BusyWorkersReturn` and `CleanKills`. `IInv` adds to the
checked invariants that whoever is past a scan or a spawn has a worker
(`HasWorker`) and what a kill under way has achieved (`KillUnderway`).

`ObjectStoreProofs` proves, for any finite sets of objects and callers, any sizes
and any budget, that the store's `IInv` is an invariant:

- `SpillInv` says for the one spill or restore of an object that never raced what
  its copy, the file and the entry are at every step. `SpillFaithful` is inductive
  only with it, and `RestoreFaithful` follows from it at the step that applies the
  data.
- `BudgetInv` counts the puts that have passed their check but not inserted yet.
  On admission the total the check saw and the own size fit the budget, and the
  other admitted puts are at most all other putters with an object of the largest
  size; an insertion turns admitted bytes into stored ones.
- `PollInv` says that what a poll is sure of is still there.

From it follow `TypeCorrect`, `RefsStayPositive`, `BudgetOvershoot`,
`SpillsFaithful`, `PollsSeeStored` and the action properties `RestoresFaithful`
and `DeletedStaysGone`. `EntryCases` is the lemma most of them rest on: it says
in which ways a step can change an entry at all.

`ObjectStoreServerProofs` proves, for any handlers, lists and objects, that
`ServerInv` is an invariant: a store call in progress belongs to the request its
handler serves (`CallBelongs`), the counts of a loop add up (`Accounted`), and a
`batch_get` has answered a prefix of its list, waits for the next object and has
the rest as `todo` (`GetProgress`), without which neither the alignment of
results and flags nor what was found can be carried over a step.
`ServerImplementsStore` shows that every step of the server is a step of
`ObjectStore`'s own specification or a stutter, so that `StoreBehindServer`
inherits the store's theorems. `BatchesAccounted`, `BatchGetsAligned` and
`BatchGetsSeeStored` follow from `ServerInv`.

`GcsProofs` proves that task and actor specifications and the enumerations
survive the conversion to a message and back (`TaskSpecRoundTrip`,
`ActorSpecRoundTrip`, `EnumsRoundTrip`), and for any requests and number of
heartbeats `TypeCorrect`, `NodesFaithful` and `RepliesAreUsable`. The invariant
adds to `MembershipFaithful` that what a heartbeat is about to write agrees with
the registrations as well (`HeartbeatInv`).

`NodeProofs` reuses the scheduler's proof: `QueueInv` is the part of the
scheduler's invariant that does not speak of resources, and `Balance(K)` its
books with `K` set aside. Every step of the node is a step of the scheduler that
keeps the leases, or grants one (`NodeStep`), so `NodeInv` is inductive with the
leases as what is set aside. It gives `NodeResources`, the scheduler's
`ExactlyOnce`, `StatusAgrees` and `ReadYourSubmit` inside the node
(`SchedulerInNode`).

Beside `NodeInv`, `ResultInv` is inductive. It ties the store to the executions:
only accepted submissions move, a function was found before a result is put, and
a submission has a result only after that (`ExecInv`); without it nothing says
that `code` still is what it was when the result was stored. Most steps end no
execution (`Calm`), and those that do store at most one result (`ResultStep`); a
result, once genuine, stays so, in the store and with whoever has read it
(`StaysGenuine`). For the locations, `Observed` says that what was there all the
time is there now, and that what is there now was there at some time, and
`TodoIsRest` that a call has worked through a prefix of its list: one more look
then keeps both halves of `LocationsRight` (`LookRight`). From it follow
`NodeTypeCorrect`, `ResultsStayGenuine` and `LocationsStayRight`, for any
submissions, also of one task id or with one return id, any registry, readers
and lists, and any puts and removals. The instance for TLC has distinct ids; that
two results under one return id replace each other is a case that only the
proofs meet.

`GlobalSchedulerProofs` proves, for any finite sets of nodes and of tasks, any
requests, leases and resources:

- `BestNodeChosen`: the walk of `max_by` or `min_by` over the eligible nodes, in
  whatever order, ends at an eligible node that no eligible node is better than.
  The walk is a recursive function over the positions. That it exists
  (`WalkExists`) and what it holds at each position (`WalkChooses`) are shown by
  the least position that would contradict it (`LeastElement`, from the
  well-foundedness of the naturals), in place of an induction rule.
- `PlacementsBacked`, with `Invariance` and `TypeCorrect`: a placed task is backed
  by what its node has left and what the node has handed out since only if the
  view it was placed by was, and that only if the report was; `BackedInv` says so
  of all three. An allocation takes from what is left what it adds to what was
  handed out since (`BackedAllocate`), an end gives it back (`BackedEnd`), a
  snapshot is backed by itself (`BackedNow`), and an allocation on another node
  changes neither side.

`PyRuntimeProofs` proves `TypeCorrect`, `RefsAlwaysResolve`, `WithinBudget`,
`AnswersAreRight` and `ShutdownIsFinal` for every budget and id length. The
invariant says that every entry has one reference, so the eviction of `put`
removes nothing (`NothingEvicted`), and a fresh id hits no `ObjectRef`.

The assumptions are the named ASSUMEs of the modules: the constants have their
types, the sets that are counted are finite, no value is larger than `MaxSize`,
the scheduler's constants inside a node are what the front ends make of their
calls, and drawn ids are fresh. TLC evaluates them on every run.

Model-checked only: liveness (`AllocFair`, `EverySubmissionHandled`,
`EveryQueryAnswered` and `PolledTasksStart` of the scheduler, the three
`CallsReturn` and `RequestsAnswered`), because it rests on fairness and
`ENABLED`, which are out of the prover's reach. Every safety property that a
passing run checks is also proved.

## 5. Not modelled

- `ShmPool`: no part of the system creates or opens a segment.
- `serialize.rs`: one call of a serde library per function; nothing calls them.
- `error.rs` and `traits.rs`: declarations. Their enumerations and records appear
  in `ProtoConv`, `Gcs` and `LocalScheduler`, errors as outcomes of actions.
- `LocalExecutor`, which returns its input and serves tests.
- tonic and the generated protobuf code: requests arrive whole, any number of
  times and in any order. `build.rs`, tracing and formatting.
- `f64` rounding, the overflow of the `u32` reference count after 2^32
  references, and the clock, of which only "before or after the deadline" is kept.
- `task_spec.dependency_ids` and `max_retries`, which the scheduler never reads.
