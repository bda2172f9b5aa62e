-------------------------- MODULE PyRuntimeProofs --------------------------
(***************************************************************************)
(* Proofs about the Python module, for every budget and any size of the    *)
(* ids and values.                                                         *)
(***************************************************************************)
EXTENDS PyRuntime, FiniteSetTheorems, TLAPS

\* The bytes that total_size counts.
EntryBytes(entries) == UNION {{o} \X (1 .. Size[entries[o].data]) : o \in DOMAIN entries}

IsEntry(e) == e \in [data : Values, ref_count : {1}]
IsEntries(m) == DOMAIN m \subseteq ObjectIds /\ \A o \in DOMAIN m : IsEntry(m[o])

\* The invariants together with what makes them inductive: finitely many bytes
\* are stored, and a get was given an ObjectRef.
Inv ==
  /\ TypeOK /\ RefsResolve /\ BudgetKept /\ AnswersRight
  /\ objects = [o \in DOMAIN objects |-> objects[o]] /\ IsFiniteSet(EntryBytes(objects))
  /\ call # None /\ call.op = "get" => call.list # <<>>

-----------------------------------------------------------------------------
\* ObjectRef keeps the id as bytes, and get reads the same id back.
LEMMA RefRoundTrip ==
  ASSUME NEW o \in ObjectIds
  PROVE  Conv!to_vec(o) = o /\ Conv!from_slice(ObjectIdLen, o) = o
<1>1. ObjectIdLen \in Nat
  BY PyAssumption
<1>2. o \in Seq(Byte) /\ Len(o) = ObjectIdLen /\ o = [k \in 1 .. ObjectIdLen |-> o[k]]
  BY <1>1 DEF ObjectIds, Conv!Id
<1> QED BY <1>1, <1>2 DEF Conv!from_slice, Conv!to_vec

\* A record with another field is not None.
LEMMA NotNone ==
  ASSUME NEW op, NEW list, NEW n, NEW forever, NEW expired
  PROVE  [op |-> op, list |-> list, num_ready |-> n, forever |-> forever, expired |-> expired]
           # None
<1> DEFINE r == [op |-> op, list |-> list, num_ready |-> n, forever |-> forever,
                 expired |-> expired]
<1>1. "op" \in DOMAIN r
  OBVIOUS
<1>2. "op" \notin DOMAIN None
  BY DEF None, Conv!Unset
<1> QED BY Zenon, <1>1, <1>2

\* The bytes {x} \X (1 .. n) are n many.
LEMMA Block ==
  ASSUME NEW x, NEW n \in Nat
  PROVE  IsFiniteSet({x} \X (1 .. n)) /\ Cardinality({x} \X (1 .. n)) = n
<1>1. IsFiniteSet({x}) /\ Cardinality({x}) = 1
  BY FS_Singleton
<1>2. IsFiniteSet(1 .. n) /\ Cardinality(1 .. n) = n
  BY FS_Interval
<1>3. /\ IsFiniteSet({x} \X (1 .. n))
      /\ Cardinality({x} \X (1 .. n)) = Cardinality({x}) * Cardinality(1 .. n)
  BY Zenon, <1>1, <1>2, FS_Product
<1> QED BY <1>1, <1>2, <1>3

\* A put adds at most the size of its value.
LEMMA InsertSize ==
  ASSUME NEW m, IsFiniteSet(EntryBytes(m)), NEW o, NEW e, IsEntry(e)
  PROVE  /\ IsFiniteSet(EntryBytes(insert(m, o, e)))
         /\ total_size(insert(m, o, e)) <= total_size(m) + Size[e.data]
<1> DEFINE B == EntryBytes(m)
           C == {o} \X (1 .. Size[e.data])
           D == EntryBytes(insert(m, o, e))
<1>1. Size[e.data] \in Nat
  BY PyAssumption DEF IsEntry
<1>2. IsFiniteSet(C) /\ Cardinality(C) = Size[e.data]
  BY Zenon, <1>1, Block
<1>3. D \subseteq B \cup C
  <2> SUFFICES ASSUME NEW x \in DOMAIN insert(m, o, e),
                      NEW b \in {x} \X (1 .. Size[insert(m, o, e)[x].data])
               PROVE  b \in B \cup C
    BY Zenon DEF EntryBytes
  <2>0. /\ x \in DOMAIN m \cup {o} /\ (x = o => insert(m, o, e)[x] = e)
        /\ (x # o => insert(m, o, e)[x] = m[x])
    BY DEF insert
  <2>1. CASE x = o
    BY Zenon, <2>0, <2>1
  <2>2. CASE x # o
    BY Zenon, <2>0, <2>2 DEF EntryBytes
  <2> QED BY Zenon, <2>1, <2>2
<1>4. /\ IsFiniteSet(B \cup C)
      /\ Cardinality(B \cup C) = Cardinality(B) + Cardinality(C) - Cardinality(B \cap C)
  BY Zenon, <1>2, FS_Union
<1>5. IsFiniteSet(B \cap C)
  <2>1. B \cap C \subseteq B
    BY Zenon
  <2> QED BY Zenon, <2>1, FS_Subset
<1>6. IsFiniteSet(D) /\ Cardinality(D) <= Cardinality(B \cup C)
  BY Zenon, <1>3, <1>4, FS_Subset
<1>7. /\ Cardinality(B) \in Nat /\ Cardinality(B \cap C) \in Nat
      /\ Cardinality(C) \in Nat /\ Cardinality(D) \in Nat
  BY Zenon, <1>2, <1>5, <1>6, FS_CardinalityType
<1>8. total_size(insert(m, o, e)) = Cardinality(D) /\ total_size(m) = Cardinality(B)
  BY Zenon DEF total_size, EntryBytes
<1> HIDE DEF B, C, D
<1>9. Cardinality(D) <= Cardinality(B) + Size[e.data]
  BY <1>1, <1>2, <1>4, <1>6, <1>7
<1> QED BY Zenon, <1>6, <1>8, <1>9 DEF D

\* No entry is without references, so the eviction of put removes none: a
\* put that does not fit at once fails.
LEMMA NothingEvicted ==
  ASSUME TypeOK, objects = [o \in DOMAIN objects |-> objects[o]], NEW d
  PROVE  room_for(d) = objects
<1>1. \A o \in DOMAIN objects : objects[o].ref_count > 0
  BY DEF TypeOK
<1>2. {x \in DOMAIN objects : objects[x].ref_count > 0} = DOMAIN objects
  BY Zenon, <1>1
<1> QED BY Zenon, <1>2 DEF room_for

\* A store without entries.
LEMMA EmptyStore ==
  /\ IsEntries(Empty) /\ IsFiniteSet(EntryBytes(Empty)) /\ total_size(Empty) <= Budget
  /\ Empty = [o \in DOMAIN Empty |-> Empty[o]]
<1>1. DOMAIN Empty = {} /\ Empty = [o \in DOMAIN Empty |-> Empty[o]]
  BY DEF Empty
<1>2. EntryBytes(Empty) = {}
  BY Zenon, <1>1 DEF EntryBytes
<1>3. IsFiniteSet(EntryBytes(Empty)) /\ total_size(Empty) = 0
  BY Zenon, <1>2, FS_EmptySet DEF total_size, EntryBytes
<1>4. 0 <= Budget
  BY PyAssumption
<1> QED BY Zenon, <1>1, <1>3, <1>4 DEF IsEntries

\* An answer without contents.
LEMMA PlainReply ==
  \A x \in {Ok, Err} : x.result # "data" /\ x.result # "wait"
BY DEF Ok, Err

-----------------------------------------------------------------------------
\* init and shutdown change the globals only: the store is made once.
LEMMA GlobalsInv ==
  ASSUME Inv, py_shutdown \/ \E built \in BOOLEAN : py_init(built)
  PROVE  Inv'
<1>1. /\ call = None /\ call' = call /\ refs' = refs
      /\ RUNTIME \in BOOLEAN /\ OBJECT_STORE = RUNTIME /\ INITIALIZED \in BOOLEAN
      /\ INITIALIZED => RUNTIME
  BY Zenon DEF Inv, TypeOK, py_shutdown, py_init
<1>2. /\ RUNTIME' \in BOOLEAN /\ OBJECT_STORE' = RUNTIME' /\ INITIALIZED' \in BOOLEAN
      /\ (INITIALIZED' => RUNTIME') /\ (RUNTIME => RUNTIME')
      /\ RUNTIME => objects' = objects
      /\ ~RUNTIME => objects' = objects \/ objects' = Empty
      /\ reply' \in {Ok, Err}
  <2>1. CASE py_shutdown
    BY <1>1, <2>1 DEF py_shutdown
  <2>2. ASSUME NEW built \in BOOLEAN, py_init(built)
        PROVE  /\ RUNTIME' \in BOOLEAN /\ OBJECT_STORE' = RUNTIME' /\ INITIALIZED' \in BOOLEAN
               /\ (INITIALIZED' => RUNTIME') /\ (RUNTIME => RUNTIME')
               /\ RUNTIME => objects' = objects
               /\ ~RUNTIME => objects' = objects \/ objects' = Empty
               /\ reply' \in {Ok, Err}
    BY <1>1, <2>2 DEF py_init
  <2> QED BY Zenon, <2>1, <2>2
<1>3. (objects' = objects) \/ (objects' = Empty)
  BY Zenon, <1>1, <1>2
<1>4. /\ IsEntries(objects') /\ IsFiniteSet(EntryBytes(objects')) /\ total_size(objects') <= Budget
      /\ objects' = [o \in DOMAIN objects' |-> objects'[o]]
  BY Zenon, <1>3, EmptyStore DEF Inv, TypeOK, BudgetKept, IsEntries, IsEntry
<1>5. RefsResolve'
  <2> SUFFICES ASSUME NEW r \in DOMAIN refs
               PROVE  LET o == Conv!from_slice(ObjectIdLen, r) IN
                      Usable' /\ o \in DOMAIN objects' /\ objects'[o].data = refs[r]
    BY Zenon, <1>1 DEF RefsResolve
  <2>1. LET o == Conv!from_slice(ObjectIdLen, r) IN
        Usable /\ o \in DOMAIN objects /\ objects[o].data = refs[r]
    BY Zenon DEF Inv, RefsResolve
  <2>2. RUNTIME' /\ objects' = objects
    BY Zenon, <1>1, <1>2, <2>1 DEF Usable
  <2>3. Usable'
    BY <1>2, <2>2 DEF Usable
  <2> QED BY Zenon, <2>1, <2>2, <2>3
<1>6. TypeOK'
  BY Zenon, <1>1, <1>2, <1>4 DEF Inv, TypeOK, IsEntries, IsEntry
<1>7. AnswersRight'
  BY Zenon, <1>1, <1>2, PlainReply DEF AnswersRight
<1> QED BY Zenon, <1>1, <1>4, <1>5, <1>6, <1>7 DEF Inv, BudgetKept

\* put keeps every ObjectRef it returned before leading to its data.
LEMMA PutInv ==
  ASSUME Inv, NEW o \in ObjectIds, NEW d \in Values, py_put(o, d)
  PROVE  Inv'
<1> DEFINE e == [data |-> d, ref_count |-> 1]
<1>0. /\ call = None /\ call' = call /\ UNCHANGED globals /\ reply' \in {Ok, Err}
      /\ \A r \in DOMAIN refs : Conv!from_slice(ObjectIdLen, r) # o
  BY Zenon DEF py_put
<1>1. room_for(d) = objects
  BY Zenon, NothingEvicted DEF Inv
<1>2. RUNTIME' = RUNTIME /\ OBJECT_STORE' = OBJECT_STORE /\ INITIALIZED' = INITIALIZED
  BY Zenon, <1>0 DEF globals
<1>3. AnswersRight'
  BY Zenon, <1>0, PlainReply DEF AnswersRight
<1>4. CASE ~(Usable /\ ~Exceeds(objects, d))
  <2>1. objects' = objects /\ refs' = refs
    BY Zenon, <1>1, <1>4 DEF py_put
  <2>2. TypeOK' /\ RefsResolve' /\ BudgetKept'
    BY Zenon, <1>0, <1>2, <2>1 DEF Inv, TypeOK, RefsResolve, BudgetKept, Usable
  <2> QED BY Zenon, <1>0, <1>3, <2>1, <2>2 DEF Inv
<1>5. CASE Usable /\ ~Exceeds(objects, d)
  <2>1. objects' = insert(objects, o, e) /\ refs' = insert(refs, o, d)
    BY Zenon, <1>1, <1>5, RefRoundTrip DEF py_put
  <2>2. IsEntry(e) /\ e.data = d
    BY DEF IsEntry
  <2> HIDE DEF e
  <2>3. /\ DOMAIN objects' = DOMAIN objects \cup {o} /\ objects'[o] = e
        /\ \A x \in DOMAIN objects : x # o => objects'[x] = objects[x]
        /\ DOMAIN refs' = DOMAIN refs \cup {o} /\ refs'[o] = d
        /\ \A x \in DOMAIN refs : x # o => refs'[x] = refs[x]
        /\ objects' = [x \in DOMAIN objects' |-> objects'[x]]
    BY <2>1 DEF insert
  <2>4. IsFiniteSet(EntryBytes(objects')) /\ BudgetKept'
    <3>1. /\ IsFiniteSet(EntryBytes(objects'))
          /\ total_size(objects') <= total_size(objects) + Size[d]
      BY Zenon, <2>1, <2>2, InsertSize DEF Inv
    <3>2. ~(total_size(objects) + Size[d] > Budget)
      BY Zenon, <1>5 DEF Exceeds
    <3>3. total_size(objects) \in Nat /\ total_size(objects') \in Nat
      BY Zenon, <3>1, FS_CardinalityType DEF Inv, total_size, EntryBytes
    <3>4. Size[d] \in Nat /\ Budget \in Nat
      BY PyAssumption
    <3>5. total_size(objects') <= Budget
      BY <3>1, <3>2, <3>3, <3>4
    <3> QED BY Zenon, <3>1, <3>5 DEF BudgetKept
  <2>5. TypeOK'
    <3>1. DOMAIN objects' \subseteq ObjectIds /\ \A x \in DOMAIN objects' : IsEntry(objects'[x])
      BY Zenon, <2>2, <2>3 DEF Inv, TypeOK, IsEntry
    <3>2. DOMAIN refs' \subseteq ObjectIds /\ \A r \in DOMAIN refs' : refs'[r] \in Values
      BY Zenon, <2>3 DEF Inv, TypeOK
    <3> QED BY Zenon, <1>0, <1>2, <3>1, <3>2 DEF Inv, TypeOK, IsEntry
  <2>6. RefsResolve'
    <3> SUFFICES ASSUME NEW r \in DOMAIN refs'
                 PROVE  LET x == Conv!from_slice(ObjectIdLen, r) IN
                        Usable' /\ x \in DOMAIN objects' /\ objects'[x].data = refs'[r]
      BY Zenon DEF RefsResolve
    <3>1. Usable'
      BY Zenon, <1>2, <1>5 DEF Usable
    <3>2. CASE r = o
      BY Zenon, <2>2, <2>3, <3>1, <3>2, RefRoundTrip
    <3>3. CASE r # o
      <4>1. r \in DOMAIN refs /\ Conv!from_slice(ObjectIdLen, r) # o /\ refs'[r] = refs[r]
        BY Zenon, <1>0, <2>3, <3>3
      <4>2. LET x == Conv!from_slice(ObjectIdLen, r) IN
            x \in DOMAIN objects /\ objects[x].data = refs[r]
        BY Zenon, <4>1 DEF Inv, RefsResolve
      <4> QED BY Zenon, <2>3, <3>1, <4>1, <4>2
    <3> QED BY Zenon, <3>2, <3>3
  <2> QED BY Zenon, <1>0, <1>3, <2>3, <2>4, <2>5, <2>6 DEF Inv
<1> QED BY Zenon, <1>4, <1>5

-----------------------------------------------------------------------------
\* While a call is in progress, all that it lists is ready.
LEMMA AllReady ==
  ASSUME Inv, call # None
  PROVE  /\ Ready = DOMAIN call.list
         /\ \A i \in DOMAIN call.list :
              call.list[i] \in DOMAIN refs /\ objects[IdAt(i)].data = refs[call.list[i]]
<1>1. call.list \in Seq(DOMAIN refs)
  BY DEF Inv, TypeOK
<1>2. \A i \in DOMAIN call.list : call.list[i] \in DOMAIN refs
  BY <1>1
<1>3. \A i \in DOMAIN call.list :
        IdAt(i) \in DOMAIN objects /\ objects[IdAt(i)].data = refs[call.list[i]]
  BY Zenon, <1>2 DEF Inv, RefsResolve, IdAt
<1> QED BY Zenon, <1>2, <1>3 DEF Ready

\* So wait reports the whole list and get the data.
LEMMA AnswerRight ==
  ASSUME Inv, call # None
  PROVE  /\ Answer # Err
         /\ Answer.result = "data" => Answer.data = refs[Answer.ref]
         /\ Answer.result = "wait" =>
              Answer.ready = DOMAIN Answer.list /\ Answer.not_ready = {}
<1>0. Err.result = "err"
  BY DEF Err
<1>1. CASE call.op = "wait"
  <2>1. Answer = [result |-> "wait", list |-> call.list, ready |-> DOMAIN call.list,
                  not_ready |-> {}]
    BY Zenon, <1>1, AllReady DEF Answer
  <2>2. /\ Answer.result = "wait" /\ Answer.list = call.list
        /\ Answer.ready = DOMAIN call.list /\ Answer.not_ready = {}
    BY <2>1
  <2>3. "wait" # "err" /\ "wait" # "data"
    OBVIOUS
  <2> QED BY Zenon, <1>0, <2>2, <2>3
<1>2. CASE call.op # "wait"
  <2>1. call.list \in Seq(DOMAIN refs) /\ call.list # <<>>
    BY <1>2 DEF Inv, TypeOK
  <2>2. 1 \in DOMAIN call.list
    BY <2>1
  <2>3. Answer = [result |-> "data", ref |-> call.list[1], data |-> refs[call.list[1]]]
    BY Zenon, <1>2, <2>2, AllReady DEF Answer
  <2>4. /\ Answer.result = "data" /\ Answer.ref = call.list[1]
        /\ Answer.data = refs[call.list[1]]
    BY <2>3
  <2>5. "data" # "err" /\ "data" # "wait"
    OBVIOUS
  <2> QED BY Zenon, <1>0, <2>4, <2>5
<1> QED BY Zenon, <1>1, <1>2

\* What only looks at the store keeps the facts about it.
LEMMA StoreKept ==
  ASSUME Inv, UNCHANGED <<globals, objects, refs>>
  PROVE  /\ RefsResolve' /\ BudgetKept' /\ IsFiniteSet(EntryBytes(objects'))
         /\ objects' = [o \in DOMAIN objects' |-> objects'[o]]
         /\ (call' = None \/ (Usable /\ call' \in [op : {"get", "wait"}, list : Seq(DOMAIN refs),
                                    num_ready : Nat, forever : BOOLEAN, expired : BOOLEAN]))
              => TypeOK'
<1>1. /\ RUNTIME' = RUNTIME /\ OBJECT_STORE' = OBJECT_STORE /\ INITIALIZED' = INITIALIZED
      /\ objects' = objects /\ refs' = refs
  BY Zenon DEF globals
<1> QED BY Zenon, <1>1 DEF Inv, TypeOK, RefsResolve, BudgetKept, Usable

\* A call that begins.
LEMMA CallInv ==
  ASSUME Inv, NEW op \in {"get", "wait"}, NEW list \in Seq(DOMAIN refs), NEW n \in Nat,
         NEW forever \in BOOLEAN, op = "get" => list # <<>>, Call(op, list, n, forever)
  PROVE  Inv'
<1>1. UNCHANGED <<globals, objects, refs>> /\ call = None
  BY Zenon DEF Call
<1>2. CASE ~Usable
  <2>1. call' = None /\ reply' = Err
    BY Zenon, <1>1, <1>2 DEF Call
  <2>2. AnswersRight'
    BY Zenon, <2>1, PlainReply DEF AnswersRight
  <2> QED BY Zenon, <1>1, <2>1, <2>2, StoreKept DEF Inv
<1>3. CASE Usable
  <2>1. /\ call' = [op |-> op, list |-> list, num_ready |-> n, forever |-> forever,
                    expired |-> FALSE]
        /\ reply' = reply
    BY Zenon, <1>3 DEF Call
  <2>2. /\ call' \in [op : {"get", "wait"}, list : Seq(DOMAIN refs),
                      num_ready : Nat, forever : BOOLEAN, expired : BOOLEAN]
        /\ call'.op = op /\ call'.list = list /\ ~call'.expired
    BY <2>1
  <2>3. AnswersRight'
    BY Zenon, <1>1, <2>1, <2>2 DEF Inv, AnswersRight
  <2> QED BY Zenon, <1>1, <1>3, <2>2, <2>3, StoreKept DEF Inv
<1> QED BY Zenon, <1>2, <1>3

\* A deadline that passes: the objects are there, so the answer stays right.
LEMMA DeadlineInv ==
  ASSUME Inv, Deadline
  PROVE  Inv'
<1>1. UNCHANGED <<globals, objects, refs>> /\ call # None /\ reply' = reply
  BY Zenon DEF Deadline
<1>2. /\ Usable
      /\ call \in [op : {"get", "wait"}, list : Seq(DOMAIN refs), num_ready : Nat,
                   forever : BOOLEAN, expired : BOOLEAN]
  BY Zenon, <1>1 DEF Inv, TypeOK
<1>3. /\ call' \in [op : {"get", "wait"}, list : Seq(DOMAIN refs), num_ready : Nat,
                    forever : BOOLEAN, expired : BOOLEAN]
      /\ call'.op = call.op /\ call'.list = call.list
  BY <1>2 DEF Deadline
<1>4. Answer' = Answer
  BY Zenon, <1>1, <1>3 DEF Answer, Ready, IdAt
<1>5. Answer' # Err
  BY Zenon, <1>1, <1>4, AnswerRight
<1>6. AnswersRight'
  BY Zenon, <1>1, <1>5 DEF Inv, AnswersRight
<1> QED BY Zenon, <1>1, <1>2, <1>3, <1>6, StoreKept DEF Inv

\* The answer of a call.
LEMMA PollInv ==
  ASSUME Inv, Poll
  PROVE  Inv'
<1>1. /\ UNCHANGED <<globals, objects, refs>> /\ call # None /\ call' = None
      /\ reply' = Answer /\ refs' = refs
  BY Zenon DEF Poll
<1>2. AnswersRight'
  BY Zenon, <1>1, AnswerRight DEF AnswersRight
<1> QED BY Zenon, <1>1, <1>2, StoreKept DEF Inv

-----------------------------------------------------------------------------
\* The inductive invariant holds at first.
LEMMA InitInv == Init => Inv
<1> SUFFICES ASSUME Init PROVE Inv
  OBVIOUS
<1>1. /\ RUNTIME = FALSE /\ OBJECT_STORE = FALSE /\ INITIALIZED = FALSE
      /\ objects = Empty /\ refs = Empty /\ call = None /\ reply = Ok
  BY Zenon DEF Init
<1>2. DOMAIN Empty = {}
  BY DEF Empty
<1>3. TypeOK
  BY <1>1, <1>2 DEF TypeOK
<1>4. RefsResolve /\ AnswersRight
  BY Zenon, <1>1, <1>2, PlainReply DEF RefsResolve, AnswersRight
<1> QED BY Zenon, <1>1, <1>3, <1>4, EmptyStore DEF Inv, BudgetKept

\* Every call and every step of one keeps it.
LEMMA NextInv == Inv /\ [Next]_vars => Inv'
<1> SUFFICES ASSUME Inv, [Next]_vars PROVE Inv'
  OBVIOUS
<1>1. CASE py_shutdown \/ \E built \in BOOLEAN : py_init(built)
  BY Zenon, <1>1, GlobalsInv
<1>2. ASSUME NEW o \in ObjectIds, NEW d \in Values, py_put(o, d)
      PROVE  Inv'
  BY Zenon, <1>2, PutInv
<1>3. ASSUME NEW forever \in BOOLEAN, NEW r \in DOMAIN refs, py_get(r, forever)
      PROVE  Inv'
  <2>1. <<r>> \in Seq(DOMAIN refs) /\ <<r>> # <<>> /\ 1 \in Nat
    OBVIOUS
  <2>2. Call("get", <<r>>, 1, forever) /\ "get" \in {"get", "wait"}
    BY Zenon, <1>3 DEF py_get
  <2> QED BY Zenon, <2>1, <2>2, CallInv
<1>4. ASSUME NEW forever \in BOOLEAN, NEW list \in Lists, NEW n \in 0 .. MaxList + 1,
             py_wait(list, n, forever)
      PROVE  Inv'
  <2>1. list \in Seq(DOMAIN refs) /\ n \in Nat
    BY PyAssumption DEF Lists
  <2>2. Call("wait", list, n, forever) /\ "wait" \in {"get", "wait"}
    BY Zenon, <1>4 DEF py_wait
  <2>3. "wait" # "get"
    OBVIOUS
  <2> QED BY Zenon, <2>1, <2>2, <2>3, CallInv
<1>5. CASE Deadline
  BY Zenon, <1>5, DeadlineInv
<1>6. CASE Poll
  BY Zenon, <1>6, PollInv
<1>7. CASE UNCHANGED vars
  <2>1. UNCHANGED <<globals, objects, refs>> /\ call' = call /\ reply' = reply
    BY Zenon, <1>7 DEF vars
  <2>2. call' = None \/ (Usable /\ call' \in [op : {"get", "wait"}, list : Seq(DOMAIN refs),
                           num_ready : Nat, forever : BOOLEAN, expired : BOOLEAN])
    BY Zenon, <2>1 DEF Inv, TypeOK
  <2>3. AnswersRight'
    BY Zenon, <2>1 DEF Inv, AnswersRight, Answer, Ready, IdAt
  <2> QED BY Zenon, <2>1, <2>2, <2>3, StoreKept DEF Inv
<1> QED BY Zenon, <1>1, <1>2, <1>3, <1>4, <1>5, <1>6, <1>7 DEF Next

\* Inv holds in every reachable state of the Python module.
THEOREM Invariance == Spec => []Inv
BY InitInv, NextInv, PTL DEF Spec

\* The OnceLocks are set together and before the flag, and a call runs only
\* once they are (py_init, get_runtime, get_object_store).
THEOREM TypeCorrect == Spec => []TypeOK
<1>1. Inv => TypeOK
  BY Zenon DEF Inv
<1> QED BY <1>1, Invariance, PTL

\* Whatever put returned resolves to what was put, from then on: py_shutdown,
\* a second py_init and a put that finds the store full do not harm it.
THEOREM RefsAlwaysResolve == Spec => []RefsResolve
<1>1. Inv => RefsResolve
  BY Zenon DEF Inv
<1> QED BY <1>1, Invariance, PTL

\* The puts of one interpreter never overshoot the budget of the store.
THEOREM WithinBudget == Spec => []BudgetKept
<1>1. Inv => BudgetKept
  BY Zenon DEF Inv
<1> QED BY <1>1, Invariance, PTL

\* py_get never ends with a Timeout and py_wait never reports anything as not
\* ready, whatever the timeout.
THEOREM AnswersAreRight == Spec => []AnswersRight
<1>1. Inv => AnswersRight
  BY Zenon DEF Inv
<1> QED BY <1>1, Invariance, PTL

\* A runtime that was shut down stays down.
LEMMA StaysDown == Inv /\ (RUNTIME /\ ~INITIALIZED) /\ [Next]_vars => (RUNTIME /\ ~INITIALIZED)'
<1> SUFFICES ASSUME Inv, RUNTIME, ~INITIALIZED, [Next]_vars PROVE RUNTIME' /\ ~INITIALIZED'
  OBVIOUS
<1>1. ASSUME NEW built \in BOOLEAN, py_init(built)
      PROVE  RUNTIME' /\ ~INITIALIZED'
  BY <1>1 DEF py_init
<1>2. CASE py_shutdown
  BY <1>2 DEF py_shutdown
<1>3. CASE UNCHANGED globals
  BY Zenon, <1>3 DEF globals
<1> QED BY Zenon, <1>1, <1>2, <1>3 DEF Next, vars, py_put, py_get, py_wait, Call, Deadline, Poll

\* py_init never succeeds again after a py_shutdown: the OnceLock RUNTIME
\* cannot be set a second time.
THEOREM ShutdownIsFinal == Spec => ShutdownFinal
BY Invariance, StaysDown, PTL DEF Spec, ShutdownFinal
=============================================================================
