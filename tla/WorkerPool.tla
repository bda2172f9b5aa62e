----------------------------- MODULE WorkerPool -----------------------------
(***************************************************************************)
(* The raylet's WorkerPool (worker.rs), one step per lock operation and    *)
(* per access to a worker's atomic status.                                 *)
(*                                                                         *)
(* The callers are the background tasks of LocalScheduler::dispatch_task:  *)
(* each gets a worker, runs its task whether or not it got one, and        *)
(* returns it.  Killers call kill_worker.                                  *)
(*                                                                         *)
(* The Vec of workers is a set: the order in which a scan visits them only *)
(* decides which idle worker is found first, so any order is allowed.      *)
(***************************************************************************)
EXTENDS Naturals, FiniteSets

CONSTANTS Workers,     \* worker ids
          Callers,
          Killers,
          MaxWorkers,
          NoWorker     \* the None of Option<Arc<WorkerHandle>>

ASSUME PoolAssumption ==
  /\ MaxWorkers \in Nat
  /\ NoWorker \notin Workers
  /\ Callers \cap Killers = {}

VARIABLES
  pool,    \* WorkerPool.workers, guarded by the RwLock
  status,  \* WorkerHandle.status of every worker
  pc,      \* the step each caller and killer takes next
  todo,    \* the workers a scan has still to visit
  mine,    \* the worker a caller or killer is dealing with
  clean    \* for a killer: no store to its victim was under way at mark_dead

vars == <<pool, status, pc, todo, mine, clean>>

Procs == Callers \cup Killers

(***************************************************************************)
(* Steps.  scan/take: looking for an idle worker under the read lock, and  *)
(* having found one, about to store BUSY; w_scan/w_take/w_spawn: the same  *)
(* under the write lock.  run: get_worker has returned.  is_dead/mark_idle *)
(* /r_retain: return_worker.  k_scan/k_retain: kill_worker.  want_*: about *)
(* to ask for the write lock; wait_*: waiting for it.                      *)
(***************************************************************************)
ReadSteps  == {"scan", "take", "k_scan"}
WriteSteps == {"w_scan", "w_take", "w_spawn", "r_retain", "k_retain"}
WaitSteps  == {"wait_write", "wait_retain", "wait_kill"}
CallerSteps ==
  {"idle", "scan", "take", "want_write", "wait_write", "w_scan", "w_take", "w_spawn",
   "run", "is_dead", "mark_idle", "want_retain", "wait_retain", "r_retain"}
KillerSteps == {"idle", "k_scan", "want_kill", "wait_kill", "k_retain", "killed"}

Readers == {p \in Procs : pc[p] \in ReadSteps}
Writers == {p \in Procs : pc[p] \in WriteSteps}

\* tokio's RwLock is fair: who asks to read queues behind a waiting writer.
\* Asking to read and being let in is one step, as a reader that has to queue
\* does nothing before it is let in.
CanRead  == Writers = {} /\ \A p \in Procs : pc[p] \notin WaitSteps
CanWrite == Writers = {} /\ Readers = {}

\* Who is between reading a status and overwriting it without looking again.
Storing(w) == {c \in Callers : /\ mine[c] = w
                               /\ pc[c] \in {"take", "w_take", "mark_idle"}}

Init ==
  /\ pool = {}
  /\ status = [w \in Workers |-> "idle"]
  /\ pc = [p \in Procs |-> "idle"]
  /\ todo = [p \in Procs |-> {}]
  /\ mine = [p \in Procs |-> NoWorker]
  /\ clean = [k \in Killers |-> FALSE]

Goto(p, from, to) ==
  /\ pc[p] = from
  /\ pc' = [pc EXCEPT ![p] = to]

\* workers.write() is called; .await lasts until CanWrite.
AskWrite(p, want, wait) ==
  /\ Goto(p, want, wait)
  /\ UNCHANGED <<pool, status, todo, mine, clean>>

-----------------------------------------------------------------------------
(***************************************************************************)
(* get_worker                                                              *)
(***************************************************************************)
LockRead(c) ==
  /\ CanRead
  /\ Goto(c, "idle", "scan")
  /\ todo' = [todo EXCEPT ![c] = pool]
  /\ UNCHANGED <<pool, status, mine, clean>>

\* One iteration of a scan, under either lock: is_idle() is one atomic load.
Scan(c, scan, take) ==
  \E w \in todo[c] :
    \/ /\ status[w] = "idle"
       /\ Goto(c, scan, take)
       /\ mine' = [mine EXCEPT ![c] = w]
       /\ UNCHANGED <<pool, status, todo, clean>>
    \/ /\ status[w] # "idle"
       /\ Goto(c, scan, scan)
       /\ todo' = [todo EXCEPT ![c] = @ \ {w}]
       /\ UNCHANGED <<pool, status, mine, clean>>

\* mark_busy() is a plain store; returning drops the lock.
Take(c, take) ==
  /\ Goto(c, take, "run")
  /\ status' = [status EXCEPT ![mine[c]] = "busy"]
  /\ todo' = [todo EXCEPT ![c] = {}]
  /\ UNCHANGED <<pool, mine, clean>>

\* The read scan found nothing; the read lock is dropped.
UnlockRead(c) ==
  /\ todo[c] = {}
  /\ Goto(c, "scan", "want_write")
  /\ UNCHANGED <<pool, status, todo, mine, clean>>

LockWrite(c) ==
  /\ CanWrite
  /\ Goto(c, "wait_write", "w_scan")
  /\ todo' = [todo EXCEPT ![c] = pool]
  /\ UNCHANGED <<pool, status, mine, clean>>

ScanWriteEnd(c) ==
  /\ todo[c] = {}
  /\ Goto(c, "w_scan", "w_spawn")
  /\ UNCHANGED <<pool, status, todo, mine, clean>>

\* WorkerId::new() returns an id that nothing refers to.
Fresh(w) == w \notin pool /\ \A p \in Procs : mine[p] # w

\* A new worker is marked BUSY and pushed.
\* Mutant: the capacity check is off by one.
Spawn_OffByOne(c) ==
  /\ Cardinality(pool) <= MaxWorkers
  /\ Goto(c, "w_spawn", "run")
  /\ \E w \in Workers :
       /\ Fresh(w)
       /\ status' = [status EXCEPT ![w] = "busy"]
       /\ pool' = pool \cup {w}
       /\ mine' = [mine EXCEPT ![c] = w]
  /\ UNCHANGED <<todo, clean>>

Spawn(c) ==
  /\ Cardinality(pool) < MaxWorkers
  /\ Goto(c, "w_spawn", "run")
  /\ \E w \in Workers :
       /\ Fresh(w)
       /\ status' = [status EXCEPT ![w] = "busy"]
       /\ pool' = pool \cup {w}
       /\ mine' = [mine EXCEPT ![c] = w]
  /\ UNCHANGED <<todo, clean>>

\* Mutant: get_worker tries again until a worker is idle.
Exhausted_Retry(c) ==
  /\ Cardinality(pool) >= MaxWorkers
  /\ Goto(c, "w_spawn", "want_write")
  /\ UNCHANGED <<pool, status, todo, mine, clean>>

Exhausted(c) ==
  /\ Cardinality(pool) >= MaxWorkers
  /\ Goto(c, "w_spawn", "run")
  /\ mine' = [mine EXCEPT ![c] = NoWorker]
  /\ UNCHANGED <<pool, status, todo, clean>>

-----------------------------------------------------------------------------
(***************************************************************************)
(* return_worker, called by dispatch_task only when it got a worker        *)
(***************************************************************************)
\* Mutant: the task ends without return_worker.
EndRun_NoReturn(c) ==
  /\ Goto(c, "run", "idle")
  /\ mine' = [mine EXCEPT ![c] = NoWorker]
  /\ UNCHANGED <<pool, status, todo, clean>>

EndRun(c) ==
  /\ Goto(c, "run", IF mine[c] = NoWorker THEN "idle" ELSE "is_dead")
  /\ UNCHANGED <<pool, status, todo, mine, clean>>

\* is_dead() and mark_idle() are two separate atomic accesses, no lock held.
\* Mutant: return_worker does not look whether the worker was killed.
IsDead_Unchecked(c) ==
  /\ Goto(c, "is_dead", "mark_idle")
  /\ UNCHANGED <<pool, status, todo, mine, clean>>

IsDead(c) ==
  /\ Goto(c, "is_dead", IF status[mine[c]] = "dead" THEN "want_retain" ELSE "mark_idle")
  /\ UNCHANGED <<pool, status, todo, mine, clean>>

MarkIdle(c) ==
  /\ Goto(c, "mark_idle", "idle")
  /\ status' = [status EXCEPT ![mine[c]] = "idle"]
  /\ mine' = [mine EXCEPT ![c] = NoWorker]
  /\ UNCHANGED <<pool, todo, clean>>

LockRetain(c) ==
  /\ CanWrite
  /\ Goto(c, "wait_retain", "r_retain")
  /\ UNCHANGED <<pool, status, todo, mine, clean>>

\* workers.retain(|w| !w.is_dead())
Alive == {w \in pool : status[w] # "dead"}

RetainReturn(c) ==
  /\ Goto(c, "r_retain", "idle")
  /\ pool' = Alive
  /\ mine' = [mine EXCEPT ![c] = NoWorker]
  /\ UNCHANGED <<status, todo, clean>>

-----------------------------------------------------------------------------
(***************************************************************************)
(* kill_worker                                                             *)
(***************************************************************************)
LockKill(k) ==
  /\ CanRead
  /\ Goto(k, "idle", "k_scan")
  /\ \E w \in Workers : mine' = [mine EXCEPT ![k] = w]
  /\ UNCHANGED <<pool, status, todo, clean>>

\* The worker is found and marked dead, or is not there; the read lock is
\* dropped.
MarkDead(k) ==
  /\ Goto(k, "k_scan", "want_kill")
  /\ status' = IF mine[k] \in pool THEN [status EXCEPT ![mine[k]] = "dead"] ELSE status
  /\ clean' = [clean EXCEPT ![k] = Storing(mine[k]) = {}]
  /\ UNCHANGED <<pool, todo, mine>>

LockKillWrite(k) ==
  /\ CanWrite
  /\ Goto(k, "wait_kill", "k_retain")
  /\ UNCHANGED <<pool, status, todo, mine, clean>>

RetainKill(k) ==
  /\ Goto(k, "k_retain", "killed")
  /\ pool' = Alive
  /\ UNCHANGED <<status, todo, mine, clean>>

KillReturn(k) ==
  /\ Goto(k, "killed", "idle")
  /\ mine' = [mine EXCEPT ![k] = NoWorker]
  /\ UNCHANGED <<pool, status, todo, clean>>

-----------------------------------------------------------------------------
Caller(c) ==
  \/ Scan(c, "scan", "take") \/ Take(c, "take") \/ UnlockRead(c)
  \/ AskWrite(c, "want_write", "wait_write") \/ LockWrite(c)
  \/ Scan(c, "w_scan", "w_take") \/ Take(c, "w_take")
  \/ ScanWriteEnd(c) \/ Spawn(c) \/ Exhausted(c)
  \/ EndRun(c) \/ IsDead(c) \/ MarkIdle(c)
  \/ AskWrite(c, "want_retain", "wait_retain") \/ LockRetain(c) \/ RetainReturn(c)

Killer(k) ==
  \/ MarkDead(k) \/ AskWrite(k, "want_kill", "wait_kill") \/ LockKillWrite(k)
  \/ RetainKill(k) \/ KillReturn(k)

Next ==
  \/ \E c \in Callers : LockRead(c) \/ Caller(c)
  \/ \E k \in Killers : LockKill(k) \/ Killer(k)

Spec == Init /\ [][Next]_vars

\* tokio runs every task that is ready, and its RwLock serves waiting writers
\* in order, so a lock that becomes free again and again is granted to each;
\* task functions return.  Nothing obliges anyone to start a call.
FairSpec ==
  /\ Spec
  /\ \A c \in Callers : SF_vars(Caller(c))
  /\ \A k \in Killers : SF_vars(Killer(k))

-----------------------------------------------------------------------------
TypeOK ==
  /\ pool \in SUBSET Workers
  /\ status \in [Workers -> {"idle", "busy", "dead"}]
  /\ pc \in [Procs -> CallerSteps \cup KillerSteps]
  /\ \A c \in Callers : pc[c] \in CallerSteps
  /\ \A k \in Killers : pc[k] \in KillerSteps
  /\ todo \in [Procs -> SUBSET Workers]
  /\ mine \in [Procs -> Workers \cup {NoWorker}]
  /\ clean \in [Killers -> BOOLEAN]

\* The pool never grows past max_workers, however many callers find it below
\* the limit at the same time.
PoolBounded == IsFiniteSet(pool) /\ Cardinality(pool) <= MaxWorkers

\* The callers that will still store IDLE into w or find it dead.
HoldersOf(w) == {c \in Callers : mine[c] = w /\ pc[c] \in {"run", "is_dead", "mark_idle"}}

\* A busy worker has a holder that will return it: no interleaving of
\* get_worker, return_worker and kill_worker leaks a slot of the pool.
NoBusyLeak == \A w \in Workers : status[w] = "busy" => HoldersOf(w) # {}

\* kill_worker removes its victim for good unless it raced with a store to
\* the victim's status that was already under way.
CleanKillRemoves ==
  \A k \in Killers : pc[k] = "killed" /\ clean[k] => mine[k] \notin pool

\* A kill that did not race is safe from being undone while it is under way.
KillUnderway ==
  \A k \in Killers :
    /\ pc[k] \in {"want_kill", "wait_kill", "k_retain"} /\ clean[k] /\ mine[k] \in pool
    => status[mine[k]] = "dead" /\ Storing(mine[k]) = {}

\* Who is about to access a status has a worker.
HasWorker ==
  /\ \A c \in Callers :
       pc[c] \in {"take", "w_take", "is_dead", "mark_idle", "want_retain", "wait_retain", "r_retain"}
         => mine[c] \in Workers
  /\ \A k \in Killers : pc[k] # "idle" => mine[k] \in Workers

\* The invariants of the pool together with what makes them inductive.
IInv == TypeOK /\ PoolBounded /\ NoBusyLeak /\ CleanKillRemoves /\ KillUnderway /\ HasWorker

\* Every call of get_worker, return_worker and kill_worker returns.
CallsReturn ==
  /\ \A c \in Callers : pc[c] # "idle" ~> pc[c] = "idle"
  /\ \A k \in Killers : pc[k] # "idle" ~> pc[k] = "idle"

-----------------------------------------------------------------------------
\* Claim of get_worker's comment ("Get an idle worker from the pool"): the
\* worker handed out is nobody else's.
ExclusiveWorker ==
  \A c, d \in Callers :
    c # d /\ pc[c] = "run" /\ pc[d] = "run" /\ mine[c] # NoWorker => mine[c] # mine[d]
=============================================================================
