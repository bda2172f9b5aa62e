----------------------------- MODULE PyRuntime -----------------------------
(***************************************************************************)
(* The Python module ray_rust (ray-py runtime.rs): init, shutdown, put,    *)
(* get and wait over two OnceLocks, a flag and an InMemoryObjectStore of   *)
(* their own.                                                              *)
(*                                                                         *)
(* A call runs to its end inside block_on with the interpreter lock held,  *)
(* so no other call begins meanwhile: init, shutdown and put are single    *)
(* actions, get and wait poll while everything else stands still.  Python  *)
(* can neither make an ObjectRef itself nor delete an object, and dropping *)
(* an ObjectRef tells the store nothing; `refs` therefore keeps every      *)
(* ObjectRef that put has returned.                                        *)
(***************************************************************************)
EXTENDS Naturals, Integers, Sequences, FiniteSets

CONSTANTS Byte, ObjectIdLen,
          Values,      \* the byte strings Python puts
          Size,        \* Size[d]: number of bytes
          Budget,      \* memory budget of the store (2 GiB)
          MaxList      \* bound on the number of refs in a wait

Conv == INSTANCE ProtoConv WITH Res <- {}, IdLen <- ObjectIdLen

ASSUME PyAssumption ==
  /\ IsFiniteSet(Byte) /\ 0 \in Byte /\ ObjectIdLen \in Nat
  /\ Size \in [Values -> Nat] /\ Budget \in Nat \ {0} /\ MaxList \in Nat

VARIABLES RUNTIME, OBJECT_STORE,   \* whether the OnceLocks are set
          INITIALIZED,
          objects,       \* the entries of the store
          refs,          \* ghost: the ObjectRefs put returned and what was put
          call,          \* the get or wait in progress
          reply          \* what the last call returned

globals == <<RUNTIME, OBJECT_STORE, INITIALIZED>>
vars    == <<globals, objects, refs, call, reply>>

None  == Conv!Unset
Empty == [x \in {} |-> 0]
Ok    == [result |-> "ok"]
Err   == [result |-> "err"]

ObjectIds == Conv!Id(ObjectIdLen)

Init ==
  /\ RUNTIME = FALSE
  /\ OBJECT_STORE = FALSE
  /\ INITIALIZED = FALSE
  /\ objects = Empty
  /\ refs = Empty
  /\ call = None
  /\ reply = Ok

\* get_runtime and get_object_store succeed; the flag is not looked at.
Usable == RUNTIME /\ OBJECT_STORE

-----------------------------------------------------------------------------
\* Mutant: a runtime and a store that are there already are taken over.
py_init_Again(built) ==
  LET done == ~INITIALIZED /\ built IN
  /\ call = None
  /\ RUNTIME' = (RUNTIME \/ done)
  /\ OBJECT_STORE' = (OBJECT_STORE \/ done)
  /\ INITIALIZED' = (INITIALIZED \/ done)
  /\ reply' = IF INITIALIZED' THEN Ok ELSE Err
  /\ UNCHANGED <<objects, refs, call>>

\* Mutant: the flag is raised before there is a runtime.
py_init_Early(built) ==
  /\ call = None
  /\ RUNTIME' = (RUNTIME \/ (~INITIALIZED /\ built))
  /\ OBJECT_STORE' = OBJECT_STORE
  /\ INITIALIZED' = TRUE
  /\ reply' = IF RUNTIME' THEN Ok ELSE Err
  /\ UNCHANGED <<objects, refs, call>>

\* `built` says whether Runtime::new succeeds.  A OnceLock is set once: the
\* call ends with an error at the first one that is set already.
py_init(built) ==
  LET sets_runtime == ~INITIALIZED /\ built /\ ~RUNTIME
      sets_store   == sets_runtime /\ ~OBJECT_STORE
  IN
  /\ call = None
  /\ RUNTIME' = (RUNTIME \/ sets_runtime)
  /\ OBJECT_STORE' = (OBJECT_STORE \/ sets_store)
  /\ objects' = IF sets_store THEN Empty ELSE objects
  /\ INITIALIZED' = (INITIALIZED \/ sets_store)
  /\ reply' = IF INITIALIZED' THEN Ok ELSE Err
  /\ UNCHANGED <<refs, call>>

py_shutdown ==
  /\ call = None
  /\ INITIALIZED' = FALSE
  /\ reply' = Ok
  /\ UNCHANGED <<RUNTIME, OBJECT_STORE, objects, refs, call>>

-----------------------------------------------------------------------------
total_size(entries) ==
  Cardinality(UNION {{o} \X (1 .. Size[entries[o].data]) : o \in DOMAIN entries})

Exceeds(entries, d) == total_size(entries) + Size[d] > Budget

\* Mutant: any entry may have to go.
room_for_All(d) == IF Exceeds(objects, d) THEN Empty ELSE objects

\* InMemoryObjectStore::put: when d does not fit, the entries that nothing
\* refers to go first.
room_for(d) ==
  IF Exceeds(objects, d)
  THEN [o \in {x \in DOMAIN objects : objects[x].ref_count > 0} |-> objects[o]]
  ELSE objects

insert(entries, o, e) == [x \in DOMAIN entries \cup {o} |-> IF x = o THEN e ELSE entries[x]]

\* ObjectId::new() draws an id that was not drawn before.
py_put(o, d) ==
  LET left == room_for(d) IN
  /\ call = None
  /\ \A r \in DOMAIN refs : Conv!from_slice(ObjectIdLen, r) # o
  /\ IF Usable /\ ~Exceeds(left, d)
     THEN /\ objects' = insert(left, o, [data |-> d, ref_count |-> 1])
          /\ refs' = insert(refs, Conv!to_vec(o), d)
          /\ reply' = Ok
     ELSE /\ objects' = IF Usable THEN left ELSE objects
          /\ refs' = refs
          /\ reply' = Err
  /\ UNCHANGED <<globals, call>>

-----------------------------------------------------------------------------
\* get and wait: `list` are the ObjectRefs passed, and a negative timeout is
\* in effect none (timeout_ms as u64).
Call(op, list, num_ready, forever) ==
  /\ call = None
  /\ IF Usable
     THEN /\ call' = [op |-> op, list |-> list, num_ready |-> num_ready,
                      forever |-> forever, expired |-> FALSE]
          /\ reply' = reply
     ELSE reply' = Err /\ call' = call
  /\ UNCHANGED <<globals, objects, refs>>

py_get(r, forever) == Call("get", <<r>>, 1, forever)
py_wait(list, num_returns, forever) == Call("wait", list, num_returns, forever)

Deadline ==
  /\ call # None
  /\ ~call.forever /\ ~call.expired
  /\ call' = [call EXCEPT !.expired = TRUE]
  /\ UNCHANGED <<globals, objects, refs, reply>>

\* The id of the i-th ref, and the positions whose object is stored.
IdAt(i) == Conv!from_slice(ObjectIdLen, call.list[i])
Ready   == {i \in DOMAIN call.list : IdAt(i) \in DOMAIN objects}

\* Mutant: an object that is listed twice counts once.
Enough_Distinct == Cardinality({IdAt(i) : i \in Ready}) >= call.num_ready

Enough == Cardinality(Ready) >= call.num_ready

\* Mutant: wait looks only until enough objects are ready.
Answer_Short ==
  LET looked == {i \in DOMAIN call.list : i <= call.num_ready} IN
  IF call.op = "wait"
  THEN [result |-> "wait", list |-> call.list, ready |-> Ready \cap looked,
        not_ready |-> DOMAIN call.list \ (Ready \cap looked)]
  ELSE [result |-> "data", ref |-> call.list[1], data |-> objects[IdAt(1)].data]

\* wait splits the list; get returns the data or a Timeout error.
Answer ==
  IF call.op = "wait"
  THEN [result |-> "wait", list |-> call.list, ready |-> Ready,
        not_ready |-> DOMAIN call.list \ Ready]
  ELSE IF Ready = {} THEN Err
  ELSE [result |-> "data", ref |-> call.list[1], data |-> objects[IdAt(1)].data]

\* The objects are looked up before the deadline is considered.
Poll ==
  /\ call # None
  /\ Enough \/ call.expired
  /\ call' = None
  /\ reply' = Answer
  /\ UNCHANGED <<globals, objects, refs>>

-----------------------------------------------------------------------------
Lists == UNION {[1 .. n -> DOMAIN refs] : n \in 0 .. MaxList}

Next ==
  \/ \E built \in BOOLEAN : py_init(built)
  \/ py_shutdown
  \/ \E o \in ObjectIds, d \in Values : py_put(o, d)
  \/ \E forever \in BOOLEAN :
       \/ \E r \in DOMAIN refs : py_get(r, forever)
       \/ \E list \in Lists, num_returns \in 0 .. MaxList + 1 :
            py_wait(list, num_returns, forever)
  \/ Deadline
  \/ Poll

Spec == Init /\ [][Next]_vars

\* block_on polls its future until it is done, and time passes.  Nothing
\* obliges Python to make a call.
FairSpec == Spec /\ WF_vars(Deadline) /\ WF_vars(Poll)

-----------------------------------------------------------------------------
\* The variables keep their types; the OnceLocks are set together, and before
\* the flag.
TypeOK ==
  /\ RUNTIME \in BOOLEAN /\ OBJECT_STORE = RUNTIME
  /\ INITIALIZED \in BOOLEAN /\ (INITIALIZED => RUNTIME)
  /\ DOMAIN objects \subseteq ObjectIds
  /\ \A o \in DOMAIN objects : objects[o] \in [data : Values, ref_count : {1}]
  /\ DOMAIN refs \subseteq ObjectIds /\ \A r \in DOMAIN refs : refs[r] \in Values
  /\ call # None =>
       /\ Usable
       /\ call \in [op : {"get", "wait"}, list : Seq(DOMAIN refs), num_ready : Nat,
                    forever : BOOLEAN, expired : BOOLEAN]

\* Every ObjectRef that put ever returned leads to the data that was put:
\* through shutdown, a second init and a store that is full.  So it also does
\* when Python has dropped it, and nothing Python does frees a byte.
RefsResolve ==
  \A r \in DOMAIN refs :
    LET o == Conv!from_slice(ObjectIdLen, r) IN
    Usable /\ o \in DOMAIN objects /\ objects[o].data = refs[r]

\* The store stays within its budget: the calls that the interpreter lock
\* keeps apart cannot overshoot it as those of several threads can.
BudgetKept == total_size(objects) <= Budget

\* get returns what was put and never times out, even with a timeout of 0;
\* wait reports everything it was given as ready, more than it was asked for
\* included.
AnswersRight ==
  /\ reply.result = "data" => reply.data = refs[reply.ref]
  /\ reply.result = "wait" => reply.ready = DOMAIN reply.list /\ reply.not_ready = {}
  /\ call # None /\ call.expired => Answer # Err

\* After a shutdown that followed a successful init, no init succeeds again:
\* the process stays "not initialized", although put and get go on working.
ShutdownFinal == [](RUNTIME /\ ~INITIALIZED => []~INITIALIZED)

\* A get returns, and so does a wait that has a timeout or asks for no more
\* objects than it lists.  (The others keep the interpreter lock for good.)
CallsReturn ==
  /\ call # None /\ (call.op = "get" \/ ~call.forever) ~> call = None
  /\ call # None /\ call.num_ready <= Len(call.list) ~> call = None
=============================================================================
