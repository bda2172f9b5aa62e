------------------------- MODULE ObjectStoreServer -------------------------
(***************************************************************************)
(* ObjectStoreServer (ray-object-store server.rs): the gRPC service over   *)
(* the object store.                                                       *)
(*                                                                         *)
(* A handler serves one request at a time.  The requests on several        *)
(* objects are loops that call the store once per object and keep count;   *)
(* between two calls, and between the sections of one call, the other      *)
(* handlers go on.  A request on one object does what the loop does for    *)
(* one.  The store's callers of put, of get and wait, and of spill and     *)
(* restore are the handlers.                                               *)
(***************************************************************************)
EXTENDS ObjectStore, Sequences

CONSTANTS Byte, ObjectIdLen,
          Deleters,      \* handlers that serve delete
          IdLists,       \* object_ids of the batch_get, wait and delete requests
          SpillLists,    \* object_ids of the spill and restore requests
          PutLists,      \* object_data_list of the batch_put requests
          PutItems,      \* object_data of the put requests on one object
          GetIds,        \* object_id of the get requests on one object
          RefIds         \* object_id of the reference count requests

Conv == INSTANCE ProtoConv WITH Res <- {}, IdLen <- ObjectIdLen

Handlers == Putters \cup Pollers \cup Spillers \cup Deleters

\* The ObjectData messages.
Items == [object_id : Conv!IdMsg \cup {Conv!Unset}, data : Values]

ASSUME ServerAssumption ==
  /\ 0 \in Byte /\ ObjectIdLen \in Nat
  /\ Objs = Conv!Id(ObjectIdLen)
  /\ IdLists \cup SpillLists \subseteq Seq(Conv!IdMsg)
  /\ GetIds \cup RefIds \subseteq Conv!IdMsg
  /\ PutItems \subseteq Items /\ PutLists \subseteq Seq(Items)

VARIABLES
  batch,   \* the request each handler serves: what is left to do of it, and
           \* the reply so far
  stayed   \* ghost: the objects asked for by a running batch_get that were
           \* stored without a break since it came

serverVars == <<vars, batch, stayed>>

Core(p) == Conv!id_from_proto(ObjectIdLen, p)
Cores(ids) == {Core(ids[i]) : i \in DOMAIN ids}

NoRequest == [op |-> "none"]

ServerInit ==
  /\ Init
  /\ batch = [h \in Handlers |-> NoRequest]
  /\ stayed = [h \in Handlers |-> {}]

-----------------------------------------------------------------------------
\* The loops that count: batch_put, delete, spill_objects, restore_objects.
Open(h, op, list) ==
  /\ batch[h] = NoRequest
  /\ batch' = [batch EXCEPT ![h] =
                 [op |-> op, asked |-> list, todo |-> list, ok |-> 0, failed |-> 0]]
  /\ UNCHANGED vars

\* Next iteration of the loop of request `op`.
At(h, op) == batch[h].op = op /\ batch[h].todo # <<>>
Current(h) == Head(batch[h].todo)
Advance(h) == batch' = [batch EXCEPT ![h].todo = Tail(@)]

\* The outcome of the store call of the current iteration.
Tally(h, ok) ==
  batch' = IF ok THEN [batch EXCEPT ![h].ok = @ + 1]
                 ELSE [batch EXCEPT ![h].failed = @ + 1]

CallInProgress(h) ==
  \/ h \in Putters /\ put_[h] # Idle
  \/ h \in Pollers /\ poll[h].step = "polling"
  \/ h \in Spillers /\ spill[h] # Idle

\* The loop is over and the reply is sent.
Done(h) == batch[h] # NoRequest /\ batch[h].todo = <<>> /\ ~CallInProgress(h)

Reply(h) ==
  /\ Done(h)
  /\ batch' = [batch EXCEPT ![h] = NoRequest]
  /\ UNCHANGED vars

-----------------------------------------------------------------------------
batch_put(h, items) == Open(h, "put", items)
put_rpc(h, item)    == batch_put(h, <<item>>)

BatchPutNext(h) ==
  /\ At(h, "put")
  /\ Current(h).object_id # Conv!Unset
  /\ put(h, Core(Current(h).object_id), Current(h).data)
  /\ Advance(h)

\* `?` on a missing object_id: the request ends with an error status.  What
\* was stored before stays, and the client is not told of it.
BatchPutRefuse(h) ==
  /\ At(h, "put")
  /\ ~CallInProgress(h)
  /\ Current(h).object_id = Conv!Unset
  /\ batch' = [batch EXCEPT ![h] = NoRequest]
  /\ UNCHANGED vars

BatchPutInsert(h) == PutInsert(h) /\ Tally(h, TRUE)

\* Mutant: error_messages.push is left out.
BatchPutRecheck_NoError(h) == PutRecheck(h) /\ batch' = batch

\* store.put returns an error when there is still no room.
BatchPutRecheck(h) ==
  /\ PutRecheck(h)
  /\ IF Exceeds(put_[h].data) THEN Tally(h, FALSE) ELSE batch' = batch

-----------------------------------------------------------------------------
\* store.delete succeeds whether or not there was an entry.
delete_objects(h, ids) == Open(h, "delete", ids)

\* Mutant: deleting an object removes its spill file too.
DeleteNext_File(h) ==
  LET o == Core(Current(h)) IN
  /\ At(h, "delete")
  /\ SetObjects([objects EXCEPT ![o] = None])
  /\ disk' = [disk EXCEPT ![o] = None]
  /\ UNCHANGED <<used, spill, raced, put_>>
  /\ batch' = [batch EXCEPT ![h].todo = Tail(@), ![h].ok = @ + 1]

DeleteNext(h) ==
  LET o == Core(Current(h)) IN
  /\ At(h, "delete")
  /\ IF o \in Stored THEN delete(o) ELSE UNCHANGED vars
  /\ batch' = [batch EXCEPT ![h].todo = Tail(@), ![h].ok = @ + 1]

-----------------------------------------------------------------------------
spill_objects(h, ids) == Open(h, "spill", ids)
restore_objects(h, ids) == Open(h, "restore", ids)

SpillNext(h) ==
  LET o == Core(Current(h)) IN
  \/ At(h, "spill") /\ spill_to_disk(h, o) /\ Advance(h)
  \/ At(h, "restore") /\ restore_from_disk(h, o) /\ Advance(h)

\* The object is not there, or was not spilled: an error at once.
SpillNotThere(h) ==
  LET o == Core(Current(h)) IN
  /\ \/ At(h, "spill") /\ o \notin Stored
     \/ At(h, "restore") /\ ~(o \in Stored /\ objects[o].is_spilled)
  /\ spill[h] = Idle
  /\ batch' = [batch EXCEPT ![h].todo = Tail(@), ![h].failed = @ + 1]
  /\ UNCHANGED vars

SpillStep(h) ==
  \/ (SpillOpen(h) \/ SpillWrite(h) \/ RestoreRead(h) \/ RestoreApply(h)) /\ batch' = batch
  \/ (SpillOpenErr(h) \/ SpillWriteErr(h) \/ RestoreReadErr(h)) /\ Tally(h, FALSE)
  \/ (SpillMark(h) \/ RestoreRemove(h)) /\ Tally(h, TRUE)

-----------------------------------------------------------------------------
\* batch_get waits for every object in turn, with the whole timeout for each.
batch_get(h, ids, forever) ==
  /\ batch[h] = NoRequest
  /\ batch' = [batch EXCEPT ![h] =
                 [op |-> "get", asked |-> ids, todo |-> ids, forever |-> forever,
                  results |-> <<>>, found |-> <<>>]]
  /\ UNCHANGED vars

get_rpc(h, p, forever) == batch_get(h, <<p>>, forever)

\* The position of the object that is being waited for.
Position(h) == Len(batch[h].found) + 1

BatchGetNext(h) ==
  /\ At(h, "get")
  /\ get(h, Core(Current(h)), batch[h].forever)
  /\ Advance(h)

\* Mutant: an empty result is pushed for an object that was not found.
BatchGetPoll_Padded(h) ==
  LET p == batch[h].asked[Position(h)]
      o == Core(p)
      there == o \in poll'[h].reply
  IN
  /\ batch[h].op = "get"
  /\ Poll(h)
  /\ batch' = [batch EXCEPT
       ![h].found = Append(@, there),
       ![h].results = Append(@, [object_id |-> p, data |-> IF there THEN objects[o].data ELSE Torn])]

BatchGetPoll(h) ==
  LET p == batch[h].asked[Position(h)]
      o == Core(p)
      there == o \in poll'[h].reply
  IN
  /\ batch[h].op = "get"
  /\ Poll(h)
  /\ batch' = [batch EXCEPT
       ![h].found = Append(@, there),
       ![h].results = IF there THEN Append(@, [object_id |-> p, data |-> objects[o].data]) ELSE @]

\* wait is one call of the store.  A list that names an object twice counts
\* it twice; here the lists name each object once, and the duplicates are a
\* matter of PyRuntime.
wait_rpc(h, ids, num_ready, forever) ==
  /\ batch[h] = NoRequest
  /\ Cardinality(Cores(ids)) = Len(ids)
  /\ wait(h, Cores(ids), num_ready, forever)
  /\ batch' = [batch EXCEPT ![h] = [op |-> "wait", todo |-> <<>>]]

WaitPoll(h) == batch[h].op = "wait" /\ Poll(h) /\ batch' = batch

-----------------------------------------------------------------------------
\* Requests that are one section of the store.
add_reference_rpc(p)    == add_reference(Core(p))
remove_reference_rpc(p) == remove_reference(Core(p))

contains(p) == p # Conv!Unset /\ Core(p) \in Stored

get_object_info(p) ==
  IF Core(p) \in Stored
  THEN [found |-> TRUE, object_id |-> p, data_size |-> Size[objects[Core(p)].data],
        ref_count |-> objects[Core(p)].ref_count, is_spilled |-> objects[Core(p)].is_spilled]
  ELSE [found |-> FALSE]

-----------------------------------------------------------------------------
\* The batch_get requests take note of what disappears.
Noting ==
  stayed' = [h \in Handlers |->
               CASE batch'[h].op # "get" -> {}
                 [] batch'[h].op = "get" /\ batch[h].op # "get" ->
                      Cores(batch'[h].asked) \cap Stored
                 [] OTHER -> stayed[h] \cap Stored']

Request(h) ==
  \/ h \in Putters /\ \/ \E items \in PutLists : batch_put(h, items)
                      \/ \E item \in PutItems : put_rpc(h, item)
  \/ h \in Deleters /\ \E ids \in IdLists : delete_objects(h, ids)
  \/ h \in Spillers /\ \E ids \in SpillLists : spill_objects(h, ids) \/ restore_objects(h, ids)
  \/ h \in Pollers /\ \E ids \in IdLists, forever \in BOOLEAN :
       batch_get(h, ids, forever) \/ wait_rpc(h, ids, Cardinality(Cores(ids)), forever)
  \/ h \in Pollers /\ \E p \in GetIds, forever \in BOOLEAN : get_rpc(h, p, forever)

Continue(h) ==
  \/ h \in Putters /\ \/ BatchPutNext(h) \/ BatchPutRefuse(h)
                      \/ BatchPutInsert(h) \/ BatchPutRecheck(h)
                      \/ evict_zero_ref_objects(h) /\ batch' = batch
  \/ h \in Deleters /\ DeleteNext(h)
  \/ h \in Spillers /\ (SpillNext(h) \/ SpillNotThere(h) \/ SpillStep(h))
  \/ h \in Pollers /\ (BatchGetNext(h) \/ BatchGetPoll(h) \/ WaitPoll(h))
  \/ Reply(h)

\* Time passes, and the requests that take no handler any time.
Others ==
  /\ \/ \E h \in Pollers : Deadline(h)
     \/ \E p \in RefIds : add_reference_rpc(p) \/ remove_reference_rpc(p)
  /\ batch' = batch

ServerNext == (Others \/ \E h \in Handlers : Request(h) \/ Continue(h)) /\ Noting

ServerSpec == ServerInit /\ [][ServerNext]_serverVars

\* Handlers are scheduled and time passes; nobody is obliged to ask.
FairServerSpec ==
  /\ ServerSpec
  /\ \A h \in Handlers : WF_serverVars(Continue(h) /\ Noting)
  /\ \A h \in Pollers : WF_serverVars(Deadline(h) /\ batch' = batch /\ Noting)

-----------------------------------------------------------------------------
Counting(h) == batch[h].op \in {"put", "delete", "spill", "restore"}
InProgress(h) == IF CallInProgress(h) THEN 1 ELSE 0

Accounted(h) ==
  Len(batch[h].asked) = Len(batch[h].todo) + batch[h].ok + batch[h].failed + InProgress(h)

\* Every object of a request is accounted for exactly once: it is still to be
\* done, its store call is running, or it has succeeded or failed.  So the
\* number of successes and failures that batch_put and spill_objects reply
\* with adds up to the objects asked for; delete and restore_objects reply
\* with the successes only.  Of a batch_put that BatchPutRefuse ends with an
\* error this says nothing.
BatchAccounts == \A h \in Handlers : Counting(h) => Accounted(h)

\* How many of the first i objects were found.
Before(found, i) == Cardinality({j \in 1 .. i : found[j]})

Aligned(h) ==
  LET found == batch[h].found IN
  /\ Len(batch[h].results) = Before(found, Len(found))
  /\ \A i \in DOMAIN found :
       found[i] => batch[h].results[Before(found, i)].object_id = batch[h].asked[i]

\* A client can tell which object a result of batch_get belongs to: there is
\* one flag per object asked for, in order, and the results are those of the
\* flags that are set, in order, under the ids the client sent.
BatchGetAligned ==
  \A h \in Handlers : batch[h].op = "get" =>
    /\ Aligned(h)
    /\ Done(h) => Len(batch[h].found) = Len(batch[h].asked)

FindsStayed(h) ==
  \A i \in DOMAIN batch[h].found :
    Core(batch[h].asked[i]) \in stayed[h] => batch[h].found[i]

\* batch_get finds every object that was stored during the whole request, at
\* whatever time the loop got to it.
BatchGetSeesStored == \A h \in Handlers : batch[h].op = "get" => FindsStayed(h)

\* What a handler may be serving.
Counts(ops, elements) ==
  [op : ops, asked : Seq(elements), todo : Seq(elements), ok : Nat, failed : Nat]
Gets ==
  [op : {"get"}, asked : Seq(Conv!IdMsg), todo : Seq(Conv!IdMsg), forever : BOOLEAN,
   results : Seq([object_id : Conv!IdMsg, data : Contents]), found : Seq(BOOLEAN)]
Requests ==
  Counts({"put"}, Items) \cup Counts({"delete", "spill", "restore"}, Conv!IdMsg) \cup Gets
  \cup {[op |-> "wait", todo |-> <<>>], NoRequest}

\* A store call in progress belongs to the request its handler is serving.
CallBelongs(h) ==
  /\ h \in Putters /\ put_[h] # Idle => batch[h].op = "put"
  /\ h \in Pollers /\ poll[h].step = "polling" => batch[h].op \in {"get", "wait"}
  /\ h \in Spillers /\ spill[h] # Idle => batch[h].op \in {"spill", "restore"}

\* A batch_get works through the objects asked for in order: `todo` are the
\* last of them, and the store is asked for the one after those answered.
GetProgress(h) ==
  LET r == batch[h]
      n == Len(r.asked) - Len(r.todo)
  IN  /\ n = Len(r.found) + InProgress(h)
      /\ \A i \in 1 .. Len(r.todo) : r.todo[i] = r.asked[n + i]
      /\ CallInProgress(h) => poll[h].ids = {Core(r.asked[n])}
      /\ stayed[h] \subseteq Stored

\* The invariants of the server together with what makes them inductive.
HandlerInv(h) ==
  /\ CallBelongs(h)
  /\ Counting(h) => Accounted(h)
  /\ batch[h].op = "get" => GetProgress(h) /\ Aligned(h) /\ FindsStayed(h)

ServerInv ==
  /\ TypeOK /\ batch \in [Handlers -> Requests]
  /\ \A h \in Handlers : HandlerInv(h)

\* The server does nothing to the store but the calls the store offers, one
\* after the other: what holds of the store whoever calls it holds behind the
\* server.
ImplementsStore == Spec

\* Every request is answered, unless it is a get or a wait with an infinite
\* timeout whose objects never come.
RequestsAnswered ==
  \A h \in Handlers :
    /\ Counting(h) ~> batch[h] = NoRequest
    /\ batch[h].op = "get" /\ ~batch[h].forever ~> batch[h] = NoRequest
    /\ /\ h \in Pollers /\ batch[h].op = "wait"
       /\ poll[h].step = "polling" => ~poll[h].forever
       ~> batch[h] = NoRequest
=============================================================================
