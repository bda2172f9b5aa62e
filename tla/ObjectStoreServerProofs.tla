---------------------- MODULE ObjectStoreServerProofs ----------------------
(***************************************************************************)
(* Proofs about the gRPC service over the object store, for any requests   *)
(* and any number of handlers: it implements the store, and the replies of *)
(* its loops account for every object asked for.                           *)
(***************************************************************************)
EXTENDS ObjectStoreServer, ObjectStoreProofs, SequenceTheorems

\* The handlers whose call of the store is in progress, by kind of call.
InPut   == {c \in Putters : put_[c] # Idle}
InPoll  == {p \in Pollers : poll[p].step = "polling"}
InSpill == {s \in Spillers : spill[s] # Idle}

Frame(P, Q, S) == InPut' = P /\ InPoll' = Q /\ InSpill' = S
KeepIds == \A p \in InPoll \cap InPoll' : poll'[p].ids = poll[p].ids

-----------------------------------------------------------------------------
(***************************************************************************)
(* What the calls of the store do to the calls in progress                 *)
(***************************************************************************)

\* A change of the objects ends no get and no wait.
LEMMA SetObjectsFrame ==
  ASSUME NEW m, SetObjects(m), TypeOK
  PROVE  InPoll' = InPoll /\ KeepIds
<1>1. ASSUME NEW p \in Pollers
      PROVE  /\ poll'[p].step = "polling" <=> poll[p].step = "polling"
             /\ poll[p].step = "polling" => poll'[p].ids = poll[p].ids
  <2>1. CASE poll[p].step = "polling"
    <3>1. poll[p] \in [step : {"polling"}, ids : SUBSET Objs, num_ready : Nat, forever : BOOLEAN,
                       expired : BOOLEAN, sure : SUBSET Objs]
      BY <2>1 DEF TypeOK, PollCalls, Idle
    <3>2. poll'[p] = [poll[p] EXCEPT !.sure = {o \in @ : m[o] # None}]
      BY <2>1 DEF SetObjects
    <3> QED BY <3>1, <3>2
  <2>2. CASE poll[p].step # "polling"
    BY <2>2 DEF SetObjects
  <2> QED BY <2>1, <2>2
<1> QED BY <1>1 DEF InPoll, KeepIds

\* put begins a call, and the sections after it go on with it or end it.
LEMMA PutFrames ==
  ASSUME TypeOK, NEW c \in Putters
  PROVE  /\ \A o, d : put(c, o, d) =>
              c \notin InPut /\ Frame(InPut \cup {c}, InPoll, InSpill) /\ KeepIds
         /\ evict_zero_ref_objects(c) => Frame(InPut, InPoll, InSpill) /\ KeepIds
         /\ PutRecheck(c) =>
              /\ c \in InPut /\ KeepIds
              /\ IF Exceeds(put_[c].data) THEN Frame(InPut \ {c}, InPoll, InSpill)
                                          ELSE Frame(InPut, InPoll, InSpill)
         /\ PutInsert(c) => c \in InPut /\ Frame(InPut \ {c}, InPoll, InSpill) /\ KeepIds
<1> DEFINE Other == \A x \in Putters : x # c => put_'[x] = put_[x]
<1>1. ASSUME NEW o, NEW d, put(c, o, d)
      PROVE  c \notin InPut /\ Frame(InPut \cup {c}, InPoll, InSpill) /\ KeepIds
  <2>1. /\ put_[c] = Idle /\ put_'[c].step # "idle" /\ Other
        /\ UNCHANGED <<poll, spill>>
    BY <1>1 DEF put, TypeOK, fileVars
  <2>2. put_'[c] # Idle
    BY <2>1 DEF Idle
  <2> QED BY <2>1, <2>2 DEF InPut, InPoll, InSpill, Frame, KeepIds
<1>2. ASSUME evict_zero_ref_objects(c)
      PROVE  Frame(InPut, InPoll, InSpill) /\ KeepIds
  <2>1. put_[c] \in [step : {"evict", "recheck", "insert"}, obj : Objs, data : Values]
    BY <1>2 DEF evict_zero_ref_objects, TypeOK, PutCalls, Idle
  <2>2. put_[c] # Idle /\ put_'[c] # Idle /\ Other /\ UNCHANGED spill
    BY <1>2, <2>1 DEF evict_zero_ref_objects, TypeOK, Idle, fileVars
  <2>3. InPoll' = InPoll /\ KeepIds
    BY <1>2, SetObjectsFrame DEF evict_zero_ref_objects
  <2> QED BY <2>2, <2>3 DEF InPut, InSpill, Frame
<1>3. ASSUME PutRecheck(c)
      PROVE  /\ c \in InPut /\ KeepIds
             /\ IF Exceeds(put_[c].data) THEN Frame(InPut \ {c}, InPoll, InSpill)
                                         ELSE Frame(InPut, InPoll, InSpill)
  <2>1. put_[c] \in [step : {"evict", "recheck", "insert"}, obj : Objs, data : Values]
    BY <1>3 DEF PutRecheck, TypeOK, PutCalls, Idle
  <2>2. put_[c] # Idle /\ Other /\ UNCHANGED <<poll, spill>>
    BY <1>3, <2>1 DEF PutRecheck, TypeOK, Idle, fileVars
  <2>3. /\ Exceeds(put_[c].data) => put_'[c] = Idle
        /\ ~Exceeds(put_[c].data) => put_'[c].step = "insert"
    BY <1>3, <2>1 DEF PutRecheck, TypeOK
  <2>4. ~Exceeds(put_[c].data) => put_'[c] # Idle
    BY <2>3 DEF Idle
  <2> QED BY <2>2, <2>3, <2>4 DEF InPut, InPoll, InSpill, Frame, KeepIds
<1>4. ASSUME PutInsert(c)
      PROVE  c \in InPut /\ Frame(InPut \ {c}, InPoll, InSpill) /\ KeepIds
  <2>1. put_[c] # Idle /\ put_'[c] = Idle /\ Other /\ UNCHANGED spill
    BY <1>4 DEF PutInsert, TypeOK, Idle
  <2>2. InPoll' = InPoll /\ KeepIds
    BY <1>4, SetObjectsFrame DEF PutInsert
  <2> QED BY <2>1, <2>2 DEF InPut, InSpill, Frame
<1> QED BY Zenon, <1>1, <1>2, <1>3, <1>4

\* The sections of delete and of the reference counts touch no other call.
LEMMA ReferenceFrames ==
  ASSUME TypeOK, NEW o, delete(o) \/ add_reference(o) \/ remove_reference(o)
  PROVE  Frame(InPut, InPoll, InSpill) /\ KeepIds
<1>1. UNCHANGED <<put_, spill>>
  BY Zenon DEF delete, add_reference, remove_reference, fileVars
<1>2. InPoll' = InPoll /\ KeepIds
  BY Zenon, SetObjectsFrame DEF delete, add_reference, remove_reference
<1> QED BY Zenon, <1>1, <1>2 DEF InPut, InSpill, Frame

\* wait and get begin a call, Poll ends it with what is ready at that time.
LEMMA PollFrames ==
  ASSUME TypeOK, NEW p \in Pollers
  PROVE  /\ \A ids, n, forever : wait(p, ids, n, forever) =>
              /\ p \notin InPoll /\ Frame(InPut, InPoll \cup {p}, InSpill) /\ KeepIds
              /\ poll'[p].ids = ids /\ Stored' = Stored
         /\ Deadline(p) => Frame(InPut, InPoll, InSpill) /\ KeepIds /\ Stored' = Stored
         /\ Poll(p) =>
              /\ p \in InPoll /\ Frame(InPut, InPoll \ {p}, InSpill) /\ KeepIds
              /\ poll'[p].reply = poll[p].ids \cap Stored /\ UNCHANGED objects
<1> DEFINE Other == \A x \in Pollers : x # p => poll'[x] = poll[x]
<1>1. ASSUME NEW ids, NEW n, NEW forever, wait(p, ids, n, forever)
      PROVE  /\ p \notin InPoll /\ Frame(InPut, InPoll \cup {p}, InSpill) /\ KeepIds
             /\ poll'[p].ids = ids /\ Stored' = Stored
  <2>1. /\ poll[p].step # "polling" /\ poll'[p].step = "polling" /\ poll'[p].ids = ids /\ Other
        /\ UNCHANGED <<objects, put_, spill>>
    BY <1>1 DEF wait, TypeOK, fileVars, storeVars
  <2> QED BY <2>1 DEF InPut, InPoll, InSpill, Frame, KeepIds, Stored
<1>2. ASSUME Deadline(p)
      PROVE  Frame(InPut, InPoll, InSpill) /\ KeepIds /\ Stored' = Stored
  <2>1. poll[p] \in [step : {"polling"}, ids : SUBSET Objs, num_ready : Nat, forever : BOOLEAN,
                     expired : BOOLEAN, sure : SUBSET Objs]
    BY <1>2 DEF Deadline, TypeOK, PollCalls, Idle
  <2>2. /\ poll'[p].step = poll[p].step /\ poll'[p].ids = poll[p].ids /\ Other
        /\ UNCHANGED <<objects, put_, spill>>
    BY <1>2, <2>1 DEF Deadline, TypeOK, fileVars, storeVars
  <2> QED BY <2>2 DEF InPut, InPoll, InSpill, Frame, KeepIds, Stored
<1>3. ASSUME Poll(p)
      PROVE  /\ p \in InPoll /\ Frame(InPut, InPoll \ {p}, InSpill) /\ KeepIds
             /\ poll'[p].reply = poll[p].ids \cap Stored /\ UNCHANGED objects
  <2>1. /\ poll[p].step = "polling" /\ poll'[p].step = "returned" /\ Other
        /\ poll'[p].reply = poll[p].ids \cap Stored
        /\ UNCHANGED <<objects, put_, spill>>
    BY <1>3 DEF Poll, Ready, TypeOK, fileVars, storeVars
  <2> QED BY <2>1 DEF InPut, InPoll, InSpill, Frame, KeepIds
<1> QED BY Zenon, <1>1, <1>2, <1>3

\* spill_to_disk and restore_from_disk begin a call, their steps go on with it
\* or end it, without a change to whether another spiller is busy.
LEMMA SpillFrames ==
  ASSUME TypeOK, NEW s \in Spillers
  PROVE  /\ \A o : spill_to_disk(s, o) \/ restore_from_disk(s, o) =>
              s \notin InSpill /\ Frame(InPut, InPoll, InSpill \cup {s}) /\ KeepIds
         /\ SpillOpen(s) \/ SpillWrite(s) \/ RestoreRead(s) \/ RestoreApply(s) =>
              Frame(InPut, InPoll, InSpill) /\ KeepIds
         /\ (\/ SpillOpenErr(s) \/ SpillWriteErr(s) \/ RestoreReadErr(s)
             \/ SpillMark(s) \/ RestoreRemove(s)) =>
              s \in InSpill /\ Frame(InPut, InPoll, InSpill \ {s}) /\ KeepIds
<1> DEFINE Other == \A x \in Spillers : x # s => (spill'[x] # Idle <=> spill[x] # Idle)
           Calm  == UNCHANGED put_ /\ InPoll' = InPoll /\ KeepIds
<1>1. ASSUME UNCHANGED <<put_, poll>> PROVE Calm
  BY Zenon, <1>1 DEF InPoll, KeepIds
<1>2. ASSUME NEW m, SetObjects(m), UNCHANGED put_ PROVE Calm
  BY Zenon, <1>2, SetObjectsFrame
<1> HIDE DEF Calm
<1>3. ASSUME NEW call, call.step # "idle" PROVE call # Idle
  BY <1>3 DEF Idle
<1>4. ASSUME NEW x \in Spillers, spill[x] # Idle
      PROVE  /\ \A f : [spill[x] EXCEPT !.file = f] # Idle
             /\ \A f, st : st # "idle" => [spill[x] EXCEPT !.step = st, !.file = f] # Idle
             /\ \A d, st : st # "idle" => [spill[x] EXCEPT !.step = st, !.data = d] # Idle
             /\ \A st : st # "idle" => [spill[x] EXCEPT !.step = st] # Idle
             /\ spill[x].step # "idle"
  <2>1. PICK st0, o0, d0, f0 :
          spill[x] = [step |-> st0, obj |-> o0, data |-> d0, file |-> f0] /\ st0 # "idle"
    BY <1>4 DEF TypeOK, SpillCalls
  <2>2. \A f : [spill[x] EXCEPT !.file = f].step # "idle"
    BY <2>1
  <2>3. \A f, st : st # "idle" => [spill[x] EXCEPT !.step = st, !.file = f].step # "idle"
    BY <2>1
  <2>4. \A d, st : st # "idle" => [spill[x] EXCEPT !.step = st, !.data = d].step # "idle"
    BY <2>1
  <2>5. \A st : st # "idle" => [spill[x] EXCEPT !.step = st].step # "idle"
    BY <2>1
  <2> QED BY Zenon, <1>3, <2>1, <2>2, <2>3, <2>4, <2>5
<1>5. ASSUME Calm, Other, spill[s] = Idle, spill'[s] # Idle
      PROVE  s \notin InSpill /\ Frame(InPut, InPoll, InSpill \cup {s}) /\ KeepIds
  <2>1. s \notin InSpill /\ InSpill' = InSpill \cup {s}
    BY <1>5 DEF InSpill
  <2> QED BY Zenon, <1>5, <2>1 DEF Calm, InPut, Frame
<1>6. ASSUME Calm, Other, spill[s] # Idle, spill'[s] # Idle
      PROVE  Frame(InPut, InPoll, InSpill) /\ KeepIds
  BY Zenon, <1>6 DEF Calm, InPut, InSpill, Frame
<1>7. ASSUME Calm, Other, spill[s] # Idle, spill'[s] = Idle
      PROVE  s \in InSpill /\ Frame(InPut, InPoll, InSpill \ {s}) /\ KeepIds
  BY Zenon, <1>7 DEF Calm, InPut, InSpill, Frame
<1>8. DOMAIN spill = Spillers /\ spill = [x \in Spillers |-> spill[x]]
  BY DEF TypeOK
<1>9. ASSUME NEW o, spill_to_disk(s, o) \/ restore_from_disk(s, o)
      PROVE  Calm /\ Other /\ spill[s] = Idle /\ spill'[s] # Idle
  <2>1. \E st \in {"open", "read"} : \E d : Begin(s, o, st, d)
    BY Zenon, <1>9 DEF spill_to_disk, restore_from_disk
  <2>2. Other /\ spill[s] = Idle /\ spill'[s].step # "idle"
    BY <1>8, <2>1 DEF Begin
  <2> QED BY Zenon, <1>1, <1>3, <1>9, <2>2 DEF spill_to_disk, restore_from_disk
<1>10. ASSUME SpillOpen(s) \/ RestoreApply(s) \/ SpillWrite(s) \/ RestoreRead(s)
       PROVE  Calm /\ Other /\ spill[s] # Idle /\ spill'[s] # Idle
  <2>1. spill[s] # Idle
    <3>1. spill[s].step # "idle"
      BY <1>10 DEF SpillOpen, SpillWrite, RestoreRead, RestoreApply
    <3> QED BY Zenon, <1>3, <3>1
  <2>2. Calm
    BY Zenon, <1>1, <1>2, <1>10 DEF SpillOpen, SpillWrite, RestoreRead, RestoreApply
  <2>3. CASE SpillOpen(s)
    <3>1. ASSUME NEW x \in Spillers, x # s PROVE spill'[x] # Idle <=> spill[x] # Idle
      <4>1. CASE x \in Writing(spill[s].obj)
        <5>1. spill[x] # Idle
          BY <4>1 DEF Writing, Idle
        <5> QED BY <1>4, <2>3, <3>1, <4>1, <5>1 DEF SpillOpen
      <4>2. CASE x \notin Writing(spill[s].obj)
        BY <2>3, <3>1, <4>2 DEF SpillOpen
      <4> QED BY <4>1, <4>2
    <3>2. spill'[s] # Idle
      <4>1. \E f : spill'[s] = [spill[s] EXCEPT !.step = "write", !.file = f]
        BY <2>3 DEF SpillOpen
      <4> QED BY <1>4, <2>1, <4>1
    <3> QED BY Zenon, <2>1, <2>2, <3>1, <3>2
  <2>4. CASE RestoreApply(s) \/ SpillWrite(s)
    <3>1. \E st : st # "idle" /\ spill' = [spill EXCEPT ![s].step = st]
      BY <2>4 DEF RestoreApply, SpillWrite, Goto
    <3>2. Other /\ \E st : st # "idle" /\ spill'[s] = [spill[s] EXCEPT !.step = st]
      BY <1>8, <3>1
    <3>3. spill'[s] # Idle
      BY Zenon, <1>4, <2>1, <3>2
    <3> QED BY Zenon, <2>1, <2>2, <3>2, <3>3
  <2>5. CASE RestoreRead(s)
    <3>1. Other /\ \E d : spill'[s] = [spill[s] EXCEPT !.step = "apply", !.data = d]
      BY <1>8, <2>5 DEF RestoreRead
    <3>2. spill'[s] # Idle
      BY <1>4, <2>1, <3>1
    <3> QED BY Zenon, <2>1, <2>2, <3>1, <3>2
  <2> QED BY Zenon, <1>10, <2>3, <2>4, <2>5
<1>11. ASSUME \/ SpillOpenErr(s) \/ SpillWriteErr(s) \/ RestoreReadErr(s)
              \/ SpillMark(s) \/ RestoreRemove(s)
       PROVE  Calm /\ Other /\ spill[s] # Idle /\ spill'[s] = Idle
  <2>1. spill[s] # Idle
    <3>1. spill[s].step # "idle"
      BY <1>11 DEF SpillOpenErr, SpillWriteErr, RestoreReadErr, SpillMark, RestoreRemove
    <3> QED BY Zenon, <1>3, <3>1
  <2>2. Calm
    BY Zenon, <1>1, <1>2, <1>11 DEF SpillOpenErr, SpillWriteErr, RestoreReadErr, SpillMark,
                                    RestoreRemove
  <2>3. CASE Return(s)
    <3>1. Other /\ spill'[s] = Idle
      BY <1>8, <2>3 DEF Return
    <3> QED BY Zenon, <2>1, <2>2, <3>1
  <2>4. CASE RestoreRemove(s) /\ ~Return(s)
    <3>1. spill' = [q \in Spillers |->
                      IF q = s THEN Idle
                      ELSE IF q \in Writing(spill[s].obj) THEN [spill[q] EXCEPT !.file = "unlinked"]
                      ELSE spill[q]]
      BY Zenon, <2>4 DEF RestoreRemove
    <3>2. ASSUME NEW x \in Spillers, x # s PROVE spill'[x] # Idle <=> spill[x] # Idle
      <4>1. CASE x \in Writing(spill[s].obj)
        <5>1. spill[x] # Idle
          BY <4>1 DEF Writing, Idle
        <5> QED BY <1>4, <3>1, <3>2, <4>1, <5>1
      <4>2. CASE x \notin Writing(spill[s].obj)
        BY <3>1, <3>2, <4>2
      <4> QED BY <4>1, <4>2
    <3> QED BY Zenon, <2>1, <2>2, <3>1, <3>2
  <2> QED BY Zenon, <1>11, <2>3, <2>4 DEF SpillOpenErr, SpillWriteErr, RestoreReadErr, SpillMark
<1> HIDE DEF Other
<1> QED BY Zenon, <1>5, <1>6, <1>7, <1>9, <1>10, <1>11

-----------------------------------------------------------------------------
(***************************************************************************)
(* What a step of one handler leaves alone                                 *)
(***************************************************************************)

\* The id in a request, whatever its length, is an object id.
LEMMA CoreType ==
  ASSUME NEW p \in Conv!IdMsg
  PROVE  Core(p) \in Objs
<1>1. 0 \in Byte /\ ObjectIdLen \in Nat /\ Objs = Conv!Id(ObjectIdLen)
  BY Zenon, ServerAssumption
<1>2. p.id \in Seq(Byte)
  BY DEF Conv!IdMsg
<1>3. Conv!from_slice(ObjectIdLen, p.id) \in Conv!Id(ObjectIdLen)
  BY <1>1, <1>2 DEF Conv!from_slice, Conv!Id
<1> QED BY Zenon, <1>1, <1>3 DEF Core, Conv!id_from_proto

\* CallInProgress in terms of the calls in progress, before and after a step.
LEMMA InCall ==
  ASSUME NEW h
  PROVE  /\ CallInProgress(h) <=> h \in InPut \/ h \in InPoll \/ h \in InSpill
         /\ CallInProgress(h)' <=> h \in InPut' \/ h \in InPoll' \/ h \in InSpill'
BY DEF CallInProgress, InPut, InPoll, InSpill

\* CallBelongs in the same terms.
LEMMA Belongs ==
  ASSUME NEW h
  PROVE  /\ CallBelongs(h) <=> /\ h \in InPut => batch[h].op = "put"
                               /\ h \in InPoll => batch[h].op \in {"get", "wait"}
                               /\ h \in InSpill => batch[h].op \in {"spill", "restore"}
         /\ CallBelongs(h)' <=> /\ h \in InPut' => batch'[h].op = "put"
                                /\ h \in InPoll' => batch'[h].op \in {"get", "wait"}
                                /\ h \in InSpill' => batch'[h].op \in {"spill", "restore"}
BY Zenon DEF CallBelongs, InPut, InPoll, InSpill

\* What a running batch_get still knows to have been stored all the time.
LEMMA StayedGet ==
  ASSUME Noting, NEW h \in Handlers, batch'[h].op = "get"
  PROVE  /\ batch[h].op = "get" => stayed'[h] = stayed[h] \cap Stored'
         /\ batch[h].op # "get" => stayed'[h] = Cores(batch'[h].asked) \cap Stored
BY DEF Noting

\* A handler with the same request and the same call in progress.
Still(g) ==
  /\ batch'[g] = batch[g]
  /\ g \in InPut' <=> g \in InPut
  /\ g \in InPoll' <=> g \in InPoll
  /\ g \in InSpill' <=> g \in InSpill

\* Nothing changes for a handler that is not part of the step.
LEMMA StillInv ==
  ASSUME NEW g \in Handlers, HandlerInv(g), Still(g), KeepIds, Noting
  PROVE  HandlerInv(g)'
<1>1. CallInProgress(g)' <=> CallInProgress(g)
  BY Zenon, InCall DEF Still
<1>2. InProgress(g)' = InProgress(g)
  BY Zenon, <1>1 DEF InProgress
<1>3. CallBelongs(g)'
  BY Zenon, Belongs DEF HandlerInv, Still
<1>4. Counting(g)' => Accounted(g)'
  BY Zenon, <1>2 DEF HandlerInv, Still, Counting, Accounted
<1>5. ASSUME batch'[g].op = "get"
      PROVE  GetProgress(g)' /\ Aligned(g)' /\ FindsStayed(g)'
  <2>1. batch[g].op = "get" /\ stayed'[g] = stayed[g] \cap Stored'
    BY Zenon, <1>5, StayedGet DEF Still
  <2>2. GetProgress(g) /\ Aligned(g) /\ FindsStayed(g)
    BY Zenon, <2>1 DEF HandlerInv
  <2>3. CallInProgress(g) => poll'[g].ids = poll[g].ids
    <3>1. CallInProgress(g) => g \in InPoll
      BY <2>1, Belongs, InCall DEF HandlerInv
    <3> QED BY Zenon, <3>1 DEF KeepIds, Still
  <2>4. GetProgress(g)'
    BY Zenon, <1>1, <1>2, <2>1, <2>2, <2>3 DEF GetProgress, Still, Core
  <2>5. Aligned(g)'
    BY Zenon, <2>2 DEF Aligned, Still
  <2>6. FindsStayed(g)'
    BY Zenon, <2>1, <2>2 DEF FindsStayed, Still, Core
  <2> QED BY Zenon, <2>4, <2>5, <2>6
<1> QED BY Zenon, <1>3, <1>4, <1>5 DEF HandlerInv

-----------------------------------------------------------------------------
(***************************************************************************)
(* The loops that count                                                    *)
(***************************************************************************)

\* The request of a handler with other counts.
Counted(h, todo, ok, failed) ==
  [op |-> batch[h].op, asked |-> batch[h].asked, todo |-> todo, ok |-> ok, failed |-> failed]

\* A counting request, and what it may turn into while it is served.
LEMMA CountRequest ==
  ASSUME ServerInv, NEW h \in Handlers, Counting(h)
  PROVE  /\ batch[h] = Counted(h, batch[h].todo, batch[h].ok, batch[h].failed)
         /\ batch[h].ok \in Nat /\ batch[h].failed \in Nat
         /\ Len(batch[h].asked) \in Nat /\ Len(batch[h].todo) \in Nat
         /\ batch[h].op = "put" => batch[h].todo \in Seq(Items)
         /\ batch[h].op # "put" => batch[h].todo \in Seq(Conv!IdMsg)
         /\ batch[h].todo # <<>> => Len(Tail(batch[h].todo)) = Len(batch[h].todo) - 1
         /\ \A todo, ok, failed :
              /\ \/ todo = batch[h].todo
                 \/ batch[h].todo # <<>> /\ todo = Tail(batch[h].todo)
              /\ ok \in Nat /\ failed \in Nat
              => Counted(h, todo, ok, failed) \in Requests
<1>1. batch[h] \in Counts({"put"}, Items)
        \/ batch[h] \in Counts({"delete", "spill", "restore"}, Conv!IdMsg)
  <2>1. batch[h] \in Requests
    BY Zenon DEF ServerInv
  <2>2. batch[h] \notin Gets /\ batch[h] # [op |-> "wait", todo |-> <<>>] /\ batch[h] # NoRequest
    BY DEF Counting, Gets, NoRequest
  <2> QED BY Zenon, <2>1, <2>2 DEF Requests
<1>2. PICK ops, E : /\ batch[h] \in Counts(ops, E) /\ Counts(ops, E) \subseteq Requests
                    /\ batch[h].op = "put" => E = Items
                    /\ batch[h].op # "put" => E = Conv!IdMsg
  <2>1. CASE batch[h] \in Counts({"put"}, Items)
    BY <2>1 DEF Requests, Counts
  <2>2. CASE batch[h] \in Counts({"delete", "spill", "restore"}, Conv!IdMsg)
    BY <2>2 DEF Requests, Counts
  <2> QED BY Zenon, <1>1, <2>1, <2>2
<1>3. PICK op, asked, todo, ok, failed :
        /\ op \in ops /\ asked \in Seq(E) /\ todo \in Seq(E) /\ ok \in Nat /\ failed \in Nat
        /\ batch[h] = [op |-> op, asked |-> asked, todo |-> todo, ok |-> ok, failed |-> failed]
  BY <1>2 DEF Counts
<1>4. ASSUME NEW todo2, todo2 = todo \/ (todo # <<>> /\ todo2 = Tail(todo))
      PROVE  todo2 \in Seq(E)
  <2>1. todo # <<>> => Tail(todo) \in Seq(E)
    BY Zenon, <1>3, HeadTailProperties
  <2> QED BY Zenon, <1>3, <1>4, <2>1
<1>5. \A todo2, ok2, failed2 : todo2 \in Seq(E) /\ ok2 \in Nat /\ failed2 \in Nat
        => [op |-> op, asked |-> asked, todo |-> todo2, ok |-> ok2, failed |-> failed2] \in Requests
  BY <1>2, <1>3 DEF Counts
<1>6. todo # <<>> => Len(Tail(todo)) = Len(todo) - 1
  BY <1>3
<1>7. /\ batch[h].op = op /\ batch[h].asked = asked /\ batch[h].todo = todo
      /\ batch[h].ok = ok /\ batch[h].failed = failed
  BY <1>3
<1>8. Len(asked) \in Nat /\ Len(todo) \in Nat
  BY <1>3
<1> QED BY Zenon, <1>2, <1>3, <1>4, <1>5, <1>6, <1>7, <1>8 DEF Counted

\* The objects left, done and failed, and the one the store is called for.
Total(n, ok, failed, i) == n + ok + failed + i

\* A step of a counting loop is right when nothing gets lost between the
\* objects left, the successes, the failures and the call in progress.
LEMMA CountInv ==
  ASSUME ServerInv, NEW h \in Handlers, Counting(h), NEW todo, NEW ok \in Nat, NEW failed \in Nat,
         todo = batch[h].todo \/ (batch[h].todo # <<>> /\ todo = Tail(batch[h].todo)),
         batch' = [batch EXCEPT ![h] = Counted(h, todo, ok, failed)],
         Total(Len(batch[h].todo), batch[h].ok, batch[h].failed, InProgress(h))
           = Total(Len(todo), ok, failed, InProgress(h)'),
         h \in InPut' => batch[h].op = "put", h \notin InPoll',
         h \in InSpill' => batch[h].op \in {"spill", "restore"}
  PROVE  /\ batch' \in [Handlers -> Requests]
         /\ \A g \in Handlers \ {h} : batch'[g] = batch[g]
         /\ HandlerInv(h)'
<1> DEFINE r == Counted(h, todo, ok, failed)
<1>1. r \in Requests
  BY Zenon, CountRequest
<1>2. /\ r.op = batch[h].op /\ r.asked = batch[h].asked /\ r.todo = todo
      /\ r.ok = ok /\ r.failed = failed
  BY DEF Counted
<1> HIDE DEF r
<1>3. batch' = [batch EXCEPT ![h] = r] /\ batch \in [Handlers -> Requests]
  BY Zenon DEF r, ServerInv
<1>4. /\ batch' \in [Handlers -> Requests] /\ batch'[h] = r
      /\ \A g \in Handlers \ {h} : batch'[g] = batch[g]
  BY Zenon, <1>1, <1>3
<1>5. CallBelongs(h)'
  BY Zenon, <1>2, <1>4, Belongs
<1>6. Accounted(h)'
  <2>1. Accounted(h)
    BY Zenon DEF ServerInv, HandlerInv
  <2> QED BY Zenon, <1>2, <1>4, <2>1 DEF Accounted, Total
<1>7. batch'[h].op # "get"
  BY <1>2, <1>4 DEF Counting
<1> QED BY Zenon, <1>4, <1>5, <1>6, <1>7 DEF HandlerInv

\* The updates of the loops in the form of CountInv.
LEMMA CountUpdates ==
  ASSUME ServerInv, NEW h \in Handlers, Counting(h)
  PROVE  /\ Advance(h) =>
              batch' = [batch EXCEPT ![h] =
                          Counted(h, Tail(batch[h].todo), batch[h].ok, batch[h].failed)]
         /\ Tally(h, TRUE) =>
              batch' = [batch EXCEPT ![h] =
                          Counted(h, batch[h].todo, batch[h].ok + 1, batch[h].failed)]
         /\ Tally(h, FALSE) =>
              batch' = [batch EXCEPT ![h] =
                          Counted(h, batch[h].todo, batch[h].ok, batch[h].failed + 1)]
         /\ [batch EXCEPT ![h].todo = Tail(@), ![h].ok = @ + 1]
              = [batch EXCEPT ![h] =
                   Counted(h, Tail(batch[h].todo), batch[h].ok + 1, batch[h].failed)]
         /\ [batch EXCEPT ![h].todo = Tail(@), ![h].failed = @ + 1]
              = [batch EXCEPT ![h] =
                   Counted(h, Tail(batch[h].todo), batch[h].ok, batch[h].failed + 1)]
<1>1. batch[h] = Counted(h, batch[h].todo, batch[h].ok, batch[h].failed)
  BY Zenon, CountRequest
<1>2. PICK op, asked, todo, ok, failed :
        batch[h] = [op |-> op, asked |-> asked, todo |-> todo, ok |-> ok, failed |-> failed]
  BY Zenon, <1>1 DEF Counted
<1>3. /\ batch[h].op = op /\ batch[h].asked = asked /\ batch[h].todo = todo
      /\ batch[h].ok = ok /\ batch[h].failed = failed
  BY <1>2
<1>t. PICK tl : tl = Tail(todo)
  OBVIOUS
<1>4. [batch[h] EXCEPT !.todo = tl] = Counted(h, tl, ok, failed)
  BY <1>2, <1>3 DEF Counted
<1>5. [batch[h] EXCEPT !.ok = ok + 1] = Counted(h, todo, ok + 1, failed)
  BY <1>2, <1>3 DEF Counted
<1>6. [batch[h] EXCEPT !.failed = failed + 1] = Counted(h, todo, ok, failed + 1)
  BY <1>2, <1>3 DEF Counted
<1>r. PICK r : r = [batch[h] EXCEPT !.todo = tl]
  OBVIOUS
<1>s. r = [op |-> op, asked |-> asked, todo |-> tl, ok |-> ok, failed |-> failed]
  BY Zenon, <1>r, <1>3, <1>4 DEF Counted
<1>7. [r EXCEPT !.ok = ok + 1] = Counted(h, tl, ok + 1, failed)
  BY <1>s, <1>3 DEF Counted
<1>8. [r EXCEPT !.failed = failed + 1] = Counted(h, tl, ok, failed + 1)
  BY <1>s, <1>3 DEF Counted
<1>9. batch \in [Handlers -> Requests]
  BY Zenon DEF ServerInv
<1> HIDE DEF Counted
<1>10. Advance(h) => batch' = [batch EXCEPT ![h] = Counted(h, Tail(todo), ok, failed)]
  BY <1>3, <1>4, <1>9, <1>t DEF Advance
<1>11. /\ Tally(h, TRUE) => batch' = [batch EXCEPT ![h] = Counted(h, todo, ok + 1, failed)]
       /\ Tally(h, FALSE) => batch' = [batch EXCEPT ![h] = Counted(h, todo, ok, failed + 1)]
  BY <1>3, <1>5, <1>6, <1>9 DEF Tally
<1>12. r.ok = ok /\ r.failed = failed
  BY <1>s
<1>13. [batch EXCEPT ![h].todo = Tail(@), ![h].ok = @ + 1]
         = [batch EXCEPT ![h] = Counted(h, Tail(todo), ok + 1, failed)]
  BY <1>3, <1>t, <1>r, <1>7, <1>9, <1>12
<1>14. [batch EXCEPT ![h].todo = Tail(@), ![h].failed = @ + 1]
         = [batch EXCEPT ![h] = Counted(h, Tail(todo), ok, failed + 1)]
  BY <1>3, <1>t, <1>r, <1>8, <1>9, <1>12
<1> QED BY Zenon, <1>3, <1>10, <1>11, <1>13, <1>14

\* What a step that serves handler h comes to.
HandlerStep(h) ==
  /\ Next \/ UNCHANGED vars
  /\ KeepIds
  /\ batch' \in [Handlers -> Requests]
  /\ \A g \in Handlers \ {h} : Still(g)
  /\ HandlerInv(h)'

\* Such a step keeps the invariant.
LEMMA HandlerStepInv ==
  ASSUME ServerInv, Noting, NEW h \in Handlers, HandlerStep(h)
  PROVE  ServerInv'
<1>1. TypeOK'
  <2>1. CASE Next
    BY <2>1, NextTypeOK DEF ServerInv
  <2>2. CASE UNCHANGED vars
    BY Zenon, <2>2 DEF ServerInv, TypeOK, vars, Stored
  <2> QED BY Zenon, <2>1, <2>2 DEF HandlerStep
<1>2. ASSUME NEW g \in Handlers PROVE HandlerInv(g)'
  <2>1. CASE g = h
    BY Zenon, <2>1 DEF HandlerStep
  <2>2. CASE g # h
    BY Zenon, <2>2, StillInv DEF HandlerStep, ServerInv
  <2> QED BY Zenon, <2>1, <2>2
<1> QED BY Zenon, <1>1, <1>2 DEF ServerInv, HandlerStep

\* Steps that leave the store alone leave its calls alone.
LEMMA QuietFrame ==
  ASSUME UNCHANGED vars
  PROVE  Frame(InPut, InPoll, InSpill) /\ KeepIds /\ Stored' = Stored
BY Zenon DEF vars, InPut, InPoll, InSpill, Frame, KeepIds, Stored

\* The call of one handler begins or ends, those of the others go on.
LEMMA OthersStill ==
  ASSUME NEW h, NEW P, NEW Q, NEW S, Frame(P, Q, S),
         P \in {InPut, InPut \cup {h}, InPut \ {h}},
         Q \in {InPoll, InPoll \cup {h}, InPoll \ {h}},
         S \in {InSpill, InSpill \cup {h}, InSpill \ {h}},
         NEW g, g # h, batch'[g] = batch[g]
  PROVE  Still(g)
<1>1. g \in P <=> g \in InPut
  OBVIOUS
<1>2. g \in Q <=> g \in InPoll
  OBVIOUS
<1>3. g \in S <=> g \in InSpill
  OBVIOUS
<1> QED BY Zenon, <1>1, <1>2, <1>3 DEF Frame, Still

\* One iteration of a counting loop: it takes the next object and calls the
\* store, or the store's answer is counted, or both at once.
LEMMA LoopStep ==
  ASSUME ServerInv, NEW h \in Handlers, Counting(h), Next \/ UNCHANGED vars, KeepIds,
         NEW P \in {InPut, InPut \cup {h}, InPut \ {h}},
         NEW S \in {InSpill, InSpill \cup {h}, InSpill \ {h}},
         Frame(P, InPoll, S),
         h \in P => batch[h].op = "put", h \in S => batch[h].op \in {"spill", "restore"},
         \/ /\ ~CallInProgress(h) /\ h \in P \cup S
            /\ batch[h].todo # <<>> /\ Advance(h)
         \/ /\ CallInProgress(h) /\ h \notin P \cup S
            /\ Tally(h, TRUE) \/ Tally(h, FALSE)
         \/ /\ ~CallInProgress(h) /\ h \notin P \cup S /\ batch[h].todo # <<>>
            /\ \/ batch' = [batch EXCEPT ![h].todo = Tail(@), ![h].ok = @ + 1]
               \/ batch' = [batch EXCEPT ![h].todo = Tail(@), ![h].failed = @ + 1]
  PROVE  HandlerStep(h)
<1> DEFINE todo == batch[h].todo
           Goal == /\ batch' \in [Handlers -> Requests]
                   /\ \A g \in Handlers \ {h} : batch'[g] = batch[g]
                   /\ HandlerInv(h)'
<1>0. SUFFICES Goal
  <2>1. InPoll \in {InPoll, InPoll \cup {h}, InPoll \ {h}}
    OBVIOUS
  <2> SUFFICES ASSUME Goal PROVE HandlerStep(h)
    OBVIOUS
  <2>2. \A g \in Handlers \ {h} : Still(g)
    BY Zenon, <2>1, OthersStill
  <2> QED BY Zenon, <2>2 DEF HandlerStep
<1>1. h \notin InPoll
  BY Zenon, Belongs DEF ServerInv, HandlerInv, Counting
<1>2. InPut' = P /\ InPoll' = InPoll /\ InSpill' = S
  BY Zenon DEF Frame
<1>3. CallInProgress(h)' <=> h \in P \cup S
  BY Zenon, <1>1, <1>2, InCall
<1>m. PICK m : m = Len(Tail(todo))
  OBVIOUS
<1>4. PICK n \in Nat, a \in Nat, b \in Nat :
        /\ n = Len(todo) /\ a = batch[h].ok /\ b = batch[h].failed
        /\ todo # <<>> => m = n - 1
  BY Zenon, <1>m, CountRequest
<1>5. /\ a + 1 \in Nat /\ b + 1 \in Nat
      /\ Total(n, a, b, 1) = Total(n, a + 1, b, 0) /\ Total(n, a, b, 1) = Total(n, a, b + 1, 0)
  BY DEF Total
<1>6. ASSUME todo # <<>>
      PROVE  /\ Total(n, a, b, 0) = Total(m, a, b, 1)
             /\ Total(n, a, b, 0) = Total(m, a + 1, b, 0) /\ Total(n, a, b, 0) = Total(m, a, b + 1, 0)
  <2>1. m = n - 1
    BY Zenon, <1>4, <1>6
  <2> QED BY <2>1 DEF Total
<1>7. CASE ~CallInProgress(h) /\ h \in P \cup S /\ todo # <<>> /\ Advance(h)
  <2>1. batch' = [batch EXCEPT ![h] = Counted(h, Tail(todo), a, b)]
    BY Zenon, <1>4, <1>7, CountUpdates
  <2>2. InProgress(h) = 0 /\ InProgress(h)' = 1
    BY Zenon, <1>3, <1>7 DEF InProgress
  <2>3. Total(Len(todo), batch[h].ok, batch[h].failed, InProgress(h))
            = Total(Len(Tail(todo)), a, b, InProgress(h)')
    BY Zenon, <1>4, <1>m, <1>6, <1>7, <2>2
  <2> QED BY Zenon, <1>1, <1>2, <1>7, <2>1, <2>3, CountInv
<1>8. CASE CallInProgress(h) /\ h \notin P \cup S /\ (Tally(h, TRUE) \/ Tally(h, FALSE))
  <2>0. PICK td : td = todo
    OBVIOUS
  <2>a. h \notin InPut' /\ h \notin InPoll' /\ h \notin InSpill'
    BY Zenon, <1>1, <1>2, <1>8
  <2>b. td = batch[h].todo \/ (batch[h].todo # <<>> /\ td = Tail(batch[h].todo))
    BY Zenon, <2>0
  <2>1. \/ batch' = [batch EXCEPT ![h] = Counted(h, td, a + 1, b)]
        \/ batch' = [batch EXCEPT ![h] = Counted(h, td, a, b + 1)]
    BY Zenon, <1>4, <1>8, <2>0, CountUpdates
  <2>2. InProgress(h) = 1 /\ InProgress(h)' = 0
    BY Zenon, <1>3, <1>8 DEF InProgress
  <2>3. CASE batch' = [batch EXCEPT ![h] = Counted(h, td, a + 1, b)]
    <3>1. Total(Len(todo), batch[h].ok, batch[h].failed, InProgress(h))
            = Total(Len(td), a + 1, b, InProgress(h)')
      BY Zenon, <1>4, <1>5, <2>0, <2>2
    <3> QED BY Zenon, <1>5, <2>a, <2>b, <2>3, <3>1, CountInv
  <2>4. CASE batch' = [batch EXCEPT ![h] = Counted(h, td, a, b + 1)]
    <3>1. Total(Len(todo), batch[h].ok, batch[h].failed, InProgress(h))
            = Total(Len(td), a, b + 1, InProgress(h)')
      BY Zenon, <1>4, <1>5, <2>0, <2>2
    <3> QED BY Zenon, <1>5, <2>a, <2>b, <2>4, <3>1, CountInv
  <2> QED BY Zenon, <2>1, <2>3, <2>4
<1>9. CASE /\ ~CallInProgress(h) /\ h \notin P \cup S /\ todo # <<>>
           /\ \/ batch' = [batch EXCEPT ![h].todo = Tail(@), ![h].ok = @ + 1]
              \/ batch' = [batch EXCEPT ![h].todo = Tail(@), ![h].failed = @ + 1]
  <2>1. \/ batch' = [batch EXCEPT ![h] = Counted(h, Tail(todo), a + 1, b)]
        \/ batch' = [batch EXCEPT ![h] = Counted(h, Tail(todo), a, b + 1)]
    BY Zenon, <1>4, <1>9, CountUpdates
  <2>2. InProgress(h) = 0 /\ InProgress(h)' = 0
    BY Zenon, <1>3, <1>9 DEF InProgress
  <2>3. Total(n, a, b, 0) = Total(m, a + 1, b, 0) /\ Total(n, a, b, 0) = Total(m, a, b + 1, 0)
    BY Zenon, <1>6, <1>9
  <2>4. CASE batch' = [batch EXCEPT ![h] = Counted(h, Tail(todo), a + 1, b)]
    <3>1. Total(Len(todo), batch[h].ok, batch[h].failed, InProgress(h))
            = Total(Len(Tail(todo)), a + 1, b, InProgress(h)')
      BY Zenon, <1>4, <1>m, <2>2, <2>3
    <3> QED BY Zenon, <1>1, <1>2, <1>5, <1>9, <2>4, <3>1, CountInv
  <2>5. CASE batch' = [batch EXCEPT ![h] = Counted(h, Tail(todo), a, b + 1)]
    <3>1. Total(Len(todo), batch[h].ok, batch[h].failed, InProgress(h))
            = Total(Len(Tail(todo)), a, b + 1, InProgress(h)')
      BY Zenon, <1>4, <1>m, <2>2, <2>3
    <3> QED BY Zenon, <1>1, <1>2, <1>5, <1>9, <2>5, <3>1, CountInv
  <2> QED BY Zenon, <2>1, <2>4, <2>5
<1> QED BY Zenon, <1>7, <1>8, <1>9

\* A section of the store in the middle of a call, or one that is nobody's.
Section == Next /\ KeepIds /\ Frame(InPut, InPoll, InSpill) /\ batch' = batch

\* Such a step keeps the invariant too.
LEMMA SectionInv ==
  ASSUME ServerInv, Noting, Section
  PROVE  ServerInv'
<1>1. TypeOK'
  BY Zenon, NextTypeOK DEF ServerInv, Section
<1>2. ASSUME NEW g \in Handlers PROVE HandlerInv(g)'
  BY Zenon, StillInv DEF Section, Frame, Still, ServerInv
<1> QED BY Zenon, <1>1, <1>2 DEF ServerInv, Section

\* The calls that one handler may make of the store are steps of the store.
LEMMA StoreSteps ==
  /\ \A c \in Putters :
       /\ Putter(c) => Next
       /\ \A o \in Objs, d \in Values : put(c, o, d) => Next
  /\ \A o \in Objs : delete(o) \/ add_reference(o) \/ remove_reference(o) => Next
  /\ \A p \in Pollers :
       /\ Poller(p) => Next
       /\ \A o \in Objs, forever \in BOOLEAN : get(p, o, forever) => Next
  /\ \A s \in Spillers :
       /\ Spiller(s) => Next
       /\ \A o \in Objs : spill_to_disk(s, o) \/ restore_from_disk(s, o) => Next
BY Zenon DEF Next

\* Every iteration of batch_put, from the call of put to the count of what it
\* returned.
LEMMA PutLoop ==
  ASSUME ServerInv, NEW h \in Putters, BatchPutNext(h) \/ BatchPutInsert(h) \/ BatchPutRecheck(h)
  PROVE  HandlerStep(h) \/ Section
<1>0. h \in Handlers /\ TypeOK /\ HandlerInv(h)
  BY Zenon DEF Handlers, ServerInv
<1>1. CASE BatchPutNext(h)
  <2>1. Counting(h) /\ batch[h].op = "put" /\ batch[h].todo # <<>>
    BY Zenon, <1>1 DEF BatchPutNext, At, Counting
  <2>2. Core(Current(h).object_id) \in Objs /\ Current(h).data \in Values
    <3>1. Current(h) \in Items
      BY <1>0, <2>1, CountRequest, HeadTailProperties DEF Current
    <3>2. Current(h).object_id \in Conv!IdMsg /\ Current(h).data \in Values
      BY <1>1, <3>1 DEF BatchPutNext, Items
    <3> QED BY Zenon, <3>2, CoreType
  <2>3. PICK o \in Objs, d \in Values : put(h, o, d)
    BY Zenon, <1>1, <2>2 DEF BatchPutNext
  <2>4. Next
    BY Zenon, <2>3, StoreSteps
  <2>5. h \notin InPut /\ Frame(InPut \cup {h}, InPoll, InSpill) /\ KeepIds
    BY Zenon, <1>0, <2>3, PutFrames
  <2>6. h \notin InPoll /\ h \notin InSpill
    BY Zenon, <1>0, <2>1, Belongs DEF HandlerInv
  <2>7. ~CallInProgress(h)
    BY Zenon, <2>5, <2>6, InCall
  <2>8. /\ InPut \cup {h} \in {InPut, InPut \cup {h}, InPut \ {h}}
        /\ InSpill \in {InSpill, InSpill \cup {h}, InSpill \ {h}}
        /\ h \in (InPut \cup {h}) \cup InSpill
    OBVIOUS
  <2> QED BY Zenon, <1>0, <1>1, <2>1, <2>4, <2>5, <2>6, <2>7, <2>8, LoopStep DEF BatchPutNext
<1>2. ASSUME h \in InPut, Next, Frame(InPut \ {h}, InPoll, InSpill), KeepIds,
             Tally(h, TRUE) \/ Tally(h, FALSE)
      PROVE  HandlerStep(h)
  <2>1. Counting(h) /\ batch[h].op = "put"
    BY Zenon, <1>0, <1>2, Belongs DEF HandlerInv, Counting
  <2>2. h \notin InSpill
    BY Zenon, <1>0, <2>1, Belongs DEF HandlerInv
  <2>3. CallInProgress(h)
    BY Zenon, <1>2, InCall
  <2>4. /\ InPut \ {h} \in {InPut, InPut \cup {h}, InPut \ {h}}
        /\ InSpill \in {InSpill, InSpill \cup {h}, InSpill \ {h}}
        /\ h \notin (InPut \ {h}) \cup InSpill
    BY <2>2
  <2> QED BY Zenon, <1>0, <1>2, <2>1, <2>2, <2>3, <2>4, LoopStep
<1>3. CASE BatchPutInsert(h)
  <2>1. h \in InPut /\ Frame(InPut \ {h}, InPoll, InSpill) /\ KeepIds
    BY Zenon, <1>0, <1>3, PutFrames DEF BatchPutInsert
  <2>2. Next
    BY Zenon, <1>3, StoreSteps DEF BatchPutInsert, Putter
  <2> QED BY Zenon, <1>2, <1>3, <2>1, <2>2 DEF BatchPutInsert
<1>4. CASE BatchPutRecheck(h)
  <2>1. Next
    BY Zenon, <1>4, StoreSteps DEF BatchPutRecheck, Putter
  <2>2. CASE Exceeds(put_[h].data)
    <3>1. h \in InPut /\ Frame(InPut \ {h}, InPoll, InSpill) /\ KeepIds
      BY Zenon, <1>0, <1>4, <2>2, PutFrames DEF BatchPutRecheck
    <3> QED BY Zenon, <1>2, <1>4, <2>1, <2>2, <3>1 DEF BatchPutRecheck
  <2>3. CASE ~Exceeds(put_[h].data)
    <3>1. Frame(InPut, InPoll, InSpill) /\ KeepIds /\ batch' = batch
      BY Zenon, <1>0, <1>4, <2>3, PutFrames DEF BatchPutRecheck
    <3> QED BY Zenon, <2>1, <3>1 DEF Section
  <2> QED BY Zenon, <2>2, <2>3
<1> QED BY Zenon, <1>1, <1>3, <1>4

\* An iteration of delete: store.delete is one section.
LEMMA DeleteLoop ==
  ASSUME ServerInv, NEW h \in Deleters, DeleteNext(h)
  PROVE  HandlerStep(h)
<1>0. h \in Handlers /\ TypeOK /\ HandlerInv(h)
  BY Zenon DEF Handlers, ServerInv
<1>1. Counting(h) /\ batch[h].op = "delete" /\ batch[h].todo # <<>>
  BY Zenon DEF DeleteNext, At, Counting
<1>2. Core(Current(h)) \in Objs
  <2>1. Current(h) \in Conv!IdMsg
    BY <1>0, <1>1, CountRequest, HeadTailProperties DEF Current
  <2> QED BY Zenon, <2>1, CoreType
<1>3. PICK o \in Objs : delete(o) \/ UNCHANGED vars
  BY Zenon, <1>2 DEF DeleteNext
<1>4. (Next \/ UNCHANGED vars) /\ Frame(InPut, InPoll, InSpill) /\ KeepIds
  BY Zenon, <1>0, <1>3, StoreSteps, ReferenceFrames, QuietFrame
<1>5. h \notin InPut /\ h \notin InPoll /\ h \notin InSpill
  BY <1>0, <1>1, Belongs DEF HandlerInv
<1>6. ~CallInProgress(h)
  BY Zenon, <1>5, InCall
<1>7. /\ InPut \in {InPut, InPut \cup {h}, InPut \ {h}}
      /\ InSpill \in {InSpill, InSpill \cup {h}, InSpill \ {h}}
      /\ h \notin InPut \cup InSpill
  BY <1>5
<1>8. batch' = [batch EXCEPT ![h].todo = Tail(@), ![h].ok = @ + 1]
  BY Zenon DEF DeleteNext
<1> QED BY Zenon, <1>0, <1>1, <1>4, <1>5, <1>6, <1>7, <1>8, LoopStep

\* Every iteration of spill_objects and of restore_objects.
LEMMA SpillLoop ==
  ASSUME ServerInv, NEW h \in Spillers, SpillNext(h) \/ SpillNotThere(h) \/ SpillStep(h)
  PROVE  HandlerStep(h) \/ Section
<1>0. h \in Handlers /\ TypeOK /\ HandlerInv(h)
  BY Zenon DEF Handlers, ServerInv
<1>1. ASSUME batch[h].op \in {"spill", "restore"}
      PROVE  Counting(h) /\ h \notin InPut /\ h \notin InPoll
  BY <1>0, <1>1, Belongs DEF HandlerInv, Counting
<1>2. InPut \in {InPut, InPut \cup {h}, InPut \ {h}}
  OBVIOUS
<1>3. CASE SpillNext(h)
  <2>1. batch[h].op \in {"spill", "restore"} /\ batch[h].todo # <<>> /\ Advance(h)
    BY <1>3 DEF SpillNext, At
  <2>2. Core(Current(h)) \in Objs
    <3>1. Current(h) \in Conv!IdMsg
      BY <1>0, <1>1, <2>1, CountRequest, HeadTailProperties DEF Current
    <3> QED BY Zenon, <3>1, CoreType
  <2>3. PICK o \in Objs : spill_to_disk(h, o) \/ restore_from_disk(h, o)
    BY Zenon, <1>3, <2>2 DEF SpillNext
  <2>4. Next /\ h \notin InSpill /\ Frame(InPut, InPoll, InSpill \cup {h}) /\ KeepIds
    BY Zenon, <1>0, <2>3, StoreSteps, SpillFrames
  <2>5. ~CallInProgress(h)
    BY Zenon, <1>1, <2>1, <2>4, InCall
  <2>6. /\ InSpill \cup {h} \in {InSpill, InSpill \cup {h}, InSpill \ {h}}
        /\ h \in InPut \cup (InSpill \cup {h})
    OBVIOUS
  <2> QED BY Zenon, <1>0, <1>1, <1>2, <2>1, <2>4, <2>5, <2>6, LoopStep
<1>4. CASE SpillNotThere(h)
  <2>1. /\ batch[h].op \in {"spill", "restore"} /\ batch[h].todo # <<>>
        /\ batch' = [batch EXCEPT ![h].todo = Tail(@), ![h].failed = @ + 1]
        /\ h \notin InSpill /\ UNCHANGED vars
    BY Zenon, <1>4 DEF SpillNotThere, At, InSpill
  <2>2. Frame(InPut, InPoll, InSpill) /\ KeepIds
    BY Zenon, <2>1, QuietFrame
  <2>3. ~CallInProgress(h)
    BY Zenon, <1>1, <2>1, InCall
  <2>4. /\ InSpill \in {InSpill, InSpill \cup {h}, InSpill \ {h}}
        /\ h \notin InPut \cup InSpill
    BY <1>1, <2>1
  <2> QED BY Zenon, <1>0, <1>1, <1>2, <2>1, <2>2, <2>3, <2>4, LoopStep
<1>5. CASE SpillStep(h)
  <2>1. Next
    BY Zenon, <1>5, StoreSteps DEF SpillStep, Spiller
  <2>2. CASE /\ SpillOpen(h) \/ SpillWrite(h) \/ RestoreRead(h) \/ RestoreApply(h)
             /\ batch' = batch
    BY Zenon, <1>0, <2>1, <2>2, SpillFrames DEF Section
  <2>3. CASE /\ \/ SpillOpenErr(h) \/ SpillWriteErr(h) \/ RestoreReadErr(h)
                \/ SpillMark(h) \/ RestoreRemove(h)
             /\ Tally(h, TRUE) \/ Tally(h, FALSE)
    <3>1. h \in InSpill /\ Frame(InPut, InPoll, InSpill \ {h}) /\ KeepIds
      BY Zenon, <1>0, <2>3, SpillFrames
    <3>2. batch[h].op \in {"spill", "restore"}
      BY Zenon, <1>0, <3>1, Belongs DEF HandlerInv
    <3>3. CallInProgress(h)
      BY Zenon, <3>1, InCall
    <3>4. /\ InSpill \ {h} \in {InSpill, InSpill \cup {h}, InSpill \ {h}}
          /\ h \notin InPut \cup (InSpill \ {h})
      BY <1>1, <3>2
    <3> QED BY Zenon, <1>0, <1>1, <1>2, <2>1, <2>3, <3>1, <3>2, <3>3, <3>4, LoopStep
  <2> QED BY Zenon, <1>5, <2>2, <2>3 DEF SpillStep
<1> QED BY Zenon, <1>3, <1>4, <1>5

-----------------------------------------------------------------------------
(***************************************************************************)
(* The beginning and the end of a request                                  *)
(***************************************************************************)

\* A handler turns to another request, or to none.
LEMMA TurnStep ==
  ASSUME ServerInv, NEW h \in Handlers, NEW r \in Requests, batch' = [batch EXCEPT ![h] = r],
         ~CallInProgress(h), UNCHANGED vars,
         /\ batch'[h] = r /\ ~CallInProgress(h)' /\ CallBelongs(h)'
         => HandlerInv(h)'
  PROVE  HandlerStep(h)
<1>1. batch \in [Handlers -> Requests]
  BY Zenon DEF ServerInv
<1>2. /\ batch' \in [Handlers -> Requests] /\ batch'[h] = r
      /\ \A g \in Handlers \ {h} : batch'[g] = batch[g]
  BY Zenon, <1>1
<1>3. Frame(InPut, InPoll, InSpill) /\ KeepIds
  BY Zenon, QuietFrame
<1>4. h \notin InPut' /\ h \notin InPoll' /\ h \notin InSpill'
  BY Zenon, <1>3, InCall DEF Frame
<1>5. ~CallInProgress(h)' /\ CallBelongs(h)'
  BY Zenon, <1>4, InCall, Belongs
<1>6. \A g \in Handlers \ {h} : Still(g)
  BY Zenon, <1>2, <1>3 DEF Frame, Still
<1> QED BY Zenon, <1>2, <1>3, <1>5, <1>6 DEF HandlerStep

\* A handler without a request has no call in progress.
LEMMA NoCall ==
  ASSUME ServerInv, NEW h \in Handlers, batch[h] = NoRequest
  PROVE  ~CallInProgress(h) /\ batch[h].op = "none"
<1>1. batch[h].op = "none"
  BY DEF NoRequest
<1>2. batch[h].op # "put" /\ batch[h].op \notin {"get", "wait"}
        /\ batch[h].op \notin {"spill", "restore"}
  BY <1>1
<1> QED BY Zenon, <1>1, <1>2, Belongs, InCall DEF ServerInv, HandlerInv

\* A counting request comes: everything is still to be done.
LEMMA OpenStep ==
  ASSUME ServerInv, NEW h \in Handlers, NEW op, NEW list, Open(h, op, list),
         \/ op = "put" /\ list \in Seq(Items)
         \/ op \in {"delete", "spill", "restore"} /\ list \in Seq(Conv!IdMsg)
  PROVE  HandlerStep(h)
<1> DEFINE r == [op |-> op, asked |-> list, todo |-> list, ok |-> 0, failed |-> 0]
<1>1. r \in Requests
  BY DEF Requests, Counts
<1>2. r.op # "get" /\ r.asked = list /\ r.todo = list /\ r.ok = 0 /\ r.failed = 0
  OBVIOUS
<1>3. Len(list) \in Nat
  OBVIOUS
<1>4. batch[h] = NoRequest /\ batch' = [batch EXCEPT ![h] = r] /\ UNCHANGED vars
  BY Zenon DEF Open
<1> HIDE DEF r
<1>5. ASSUME batch'[h] = r, ~CallInProgress(h)', CallBelongs(h)' PROVE HandlerInv(h)'
  <2>1. InProgress(h)' = 0
    BY Zenon, <1>5 DEF InProgress
  <2>2. PICK n \in Nat : n = Len(list)
    BY Zenon, <1>3
  <2>3. n = n + 0 + 0 + 0
    OBVIOUS
  <2>4. Accounted(h)'
    BY Zenon, <1>2, <1>5, <2>1, <2>2, <2>3 DEF Accounted
  <2> QED BY Zenon, <1>2, <1>5, <2>4 DEF HandlerInv
<1> QED BY Zenon, <1>1, <1>4, <1>5, NoCall, TurnStep

\* The reply is sent, or the request is refused.
LEMMA ReplyStep ==
  ASSUME ServerInv, NEW h \in Handlers, Reply(h) \/ BatchPutRefuse(h)
  PROVE  HandlerStep(h)
<1>1. ~CallInProgress(h) /\ batch' = [batch EXCEPT ![h] = NoRequest] /\ UNCHANGED vars
  BY Zenon DEF Reply, Done, BatchPutRefuse
<1>2. NoRequest \in Requests
  BY Zenon DEF Requests
<1>3. ASSUME batch'[h] = NoRequest, CallBelongs(h)' PROVE HandlerInv(h)'
  <2>1. batch'[h].op = "none"
    BY <1>3 DEF NoRequest
  <2>2. batch'[h].op # "get" /\ batch'[h].op \notin {"put", "delete", "spill", "restore"}
    BY <2>1
  <2> QED BY Zenon, <1>3, <2>2 DEF HandlerInv, Counting
<1> QED BY Zenon, <1>1, <1>2, <1>3, TurnStep

\* wait comes, and calls the store at once.
LEMMA WaitStep ==
  ASSUME ServerInv, NEW h \in Pollers, NEW ids \in Seq(Conv!IdMsg), NEW forever \in BOOLEAN,
         wait_rpc(h, ids, Cardinality(Cores(ids)), forever)
  PROVE  HandlerStep(h)
<1> DEFINE r == [op |-> "wait", todo |-> <<>>]
<1>0. h \in Handlers /\ TypeOK /\ batch \in [Handlers -> Requests]
  BY Zenon DEF Handlers, ServerInv
<1>1. r \in Requests
  BY Zenon DEF Requests
<1>2. r.op = "wait"
  OBVIOUS
<1>3. Cores(ids) \in SUBSET Objs
  <2>1. \A i \in DOMAIN ids : ids[i] \in Conv!IdMsg
    OBVIOUS
  <2> QED BY Zenon, <2>1, CoreType DEF Cores
<1>4. Cardinality(Cores(ids)) \in 0 .. Cardinality(Cores(ids)) + 1
  <2>1. IsFiniteSet(Objs)
    BY StoreAssumption
  <2>2. Cardinality(Cores(ids)) \in Nat
    BY Zenon, <1>3, <2>1, FS_Subset, FS_CardinalityType
  <2> QED BY <2>2
<1>5. /\ batch[h] = NoRequest /\ batch' = [batch EXCEPT ![h] = r]
      /\ wait(h, Cores(ids), Cardinality(Cores(ids)), forever)
  BY Zenon DEF wait_rpc
<1>6. Next
  BY Zenon, <1>3, <1>4, <1>5 DEF Next
<1>7. h \notin InPut /\ h \notin InPoll /\ h \notin InSpill
  BY Zenon, <1>0, <1>5, NoCall, InCall
<1>8. Frame(InPut, InPoll \cup {h}, InSpill) /\ KeepIds
  BY Zenon, <1>0, <1>5, PollFrames
<1> HIDE DEF r
<1>9. /\ batch' \in [Handlers -> Requests] /\ batch'[h] = r
      /\ \A g \in Handlers \ {h} : batch'[g] = batch[g]
  BY Zenon, <1>0, <1>1, <1>5
<1>10. \A g \in Handlers \ {h} : Still(g)
  <2>1. /\ InPut \in {InPut, InPut \cup {h}, InPut \ {h}}
        /\ InPoll \cup {h} \in {InPoll, InPoll \cup {h}, InPoll \ {h}}
        /\ InSpill \in {InSpill, InSpill \cup {h}, InSpill \ {h}}
    OBVIOUS
  <2> QED BY Zenon, <1>8, <1>9, <2>1, OthersStill
<1>11. HandlerInv(h)'
  <2>1. CallBelongs(h)'
    BY <1>2, <1>7, <1>8, <1>9, Belongs DEF Frame
  <2>2. batch'[h].op # "get" /\ batch'[h].op \notin {"put", "delete", "spill", "restore"}
    BY <1>2, <1>9
  <2> QED BY Zenon, <2>1, <2>2 DEF HandlerInv, Counting
<1> QED BY Zenon, <1>6, <1>8, <1>9, <1>10, <1>11 DEF HandlerStep

-----------------------------------------------------------------------------
(***************************************************************************)
(* batch_get                                                               *)
(***************************************************************************)

\* The batch_get of a handler, further on.
Got(h, todo, results, found) ==
  [op |-> "get", asked |-> batch[h].asked, todo |-> todo, forever |-> batch[h].forever,
   results |-> results, found |-> found]

Results == [object_id : Conv!IdMsg, data : Contents]

\* A batch_get, and what it may turn into while it is served.
LEMMA GetRequest ==
  ASSUME ServerInv, NEW h \in Handlers, batch[h].op = "get"
  PROVE  /\ batch[h] = Got(h, batch[h].todo, batch[h].results, batch[h].found)
         /\ batch[h].asked \in Seq(Conv!IdMsg) /\ batch[h].todo \in Seq(Conv!IdMsg)
         /\ batch[h].forever \in BOOLEAN /\ batch[h].results \in Seq(Results)
         /\ batch[h].found \in Seq(BOOLEAN)
         /\ \A todo \in Seq(Conv!IdMsg), results \in Seq(Results), found \in Seq(BOOLEAN) :
              Got(h, todo, results, found) \in Requests
<1>1. batch[h] \in Gets
  <2>1. batch[h] \in Requests
    BY Zenon DEF ServerInv
  <2>2. /\ batch[h] \notin Counts({"put"}, Items)
        /\ batch[h] \notin Counts({"delete", "spill", "restore"}, Conv!IdMsg)
        /\ batch[h] # [op |-> "wait", todo |-> <<>>] /\ batch[h] # NoRequest
    BY DEF Counts, NoRequest
  <2> QED BY Zenon, <2>1, <2>2 DEF Requests
<1>2. PICK asked \in Seq(Conv!IdMsg), todo \in Seq(Conv!IdMsg), forever \in BOOLEAN,
           results \in Seq(Results), found \in Seq(BOOLEAN) :
        batch[h] = [op |-> "get", asked |-> asked, todo |-> todo, forever |-> forever,
                    results |-> results, found |-> found]
  BY <1>1 DEF Gets, Results
<1>3. /\ batch[h].asked = asked /\ batch[h].todo = todo /\ batch[h].forever = forever
      /\ batch[h].results = results /\ batch[h].found = found
  BY <1>2
<1>4. \A todo2 \in Seq(Conv!IdMsg), results2 \in Seq(Results), found2 \in Seq(BOOLEAN) :
        [op |-> "get", asked |-> asked, todo |-> todo2, forever |-> forever,
         results |-> results2, found |-> found2] \in Gets
  BY DEF Gets, Results
<1>5. Gets \subseteq Requests
  BY Zenon DEF Requests
<1> QED BY Zenon, <1>2, <1>3, <1>4, <1>5 DEF Got

\* The updates of batch_get in the form of Got.
LEMMA GetUpdates ==
  ASSUME ServerInv, NEW h \in Handlers, batch[h].op = "get"
  PROVE  /\ Advance(h) =>
              batch' = [batch EXCEPT ![h] =
                          Got(h, Tail(batch[h].todo), batch[h].results, batch[h].found)]
         /\ \A f, x :
              [batch EXCEPT ![h].found = f, ![h].results = x]
                = [batch EXCEPT ![h] = Got(h, batch[h].todo, x, f)]
<1>1. batch[h] = Got(h, batch[h].todo, batch[h].results, batch[h].found)
  BY Zenon, GetRequest
<1>2. PICK asked, todo, forever, results, found :
        batch[h] = [op |-> "get", asked |-> asked, todo |-> todo, forever |-> forever,
                    results |-> results, found |-> found]
  BY Zenon, <1>1 DEF Got
<1>3. /\ batch[h].asked = asked /\ batch[h].todo = todo /\ batch[h].forever = forever
      /\ batch[h].results = results /\ batch[h].found = found
  BY <1>2
<1>4. batch \in [Handlers -> Requests]
  BY Zenon DEF ServerInv
<1>5. PICK tl : tl = Tail(todo)
  OBVIOUS
<1>6. [batch[h] EXCEPT !.todo = tl] = Got(h, tl, results, found)
  BY <1>2, <1>3 DEF Got
<1>7. ASSUME NEW f, NEW x
      PROVE  [batch EXCEPT ![h].found = f, ![h].results = x]
               = [batch EXCEPT ![h] = Got(h, batch[h].todo, x, f)]
  <2>1. PICK r : r = [batch[h] EXCEPT !.found = f]
    OBVIOUS
  <2>2. r = [op |-> "get", asked |-> asked, todo |-> todo, forever |-> forever,
             results |-> results, found |-> f]
    BY <1>2, <2>1
  <2>3. [r EXCEPT !.results = x] = Got(h, todo, x, f)
    BY <1>3, <2>2 DEF Got
  <2> HIDE DEF Got
  <2> QED BY <1>3, <1>4, <2>1, <2>3
<1>8. Advance(h) => batch' = [batch EXCEPT ![h] = Got(h, tl, results, found)]
  BY <1>3, <1>4, <1>5, <1>6 DEF Advance
<1> QED BY Zenon, <1>3, <1>5, <1>7, <1>8

\* Before, for the flags `found` and the same with flag m + 1.
BeforeGrows(found, more, m) ==
  /\ \A i \in 0 .. m :
       /\ Before(found, i) \in Nat /\ Before(found, i) <= Before(found, m)
       /\ Before(more, i) = Before(found, i)
  /\ \A i \in 1 .. m : found[i] => Before(found, i) > 0
  /\ more[m + 1] => Before(more, m + 1) = Before(found, m) + 1
  /\ ~more[m + 1] => Before(more, m + 1) = Before(found, m)

\* Before, when one more flag is appended.
LEMMA BeforeAppend ==
  ASSUME NEW found, NEW more, NEW m \in Nat, \A j \in 1 .. m : more[j] = found[j]
  PROVE  BeforeGrows(found, more, m)
<1> DEFINE S(f, i) == {j \in 1 .. i : f[j]}
<1>1. m \in Nat /\ \A j \in 1 .. m : more[j] = found[j]
  OBVIOUS
<1>2. ASSUME NEW f, NEW i \in Nat
      PROVE  IsFiniteSet(S(f, i)) /\ Before(f, i) \in Nat
  <2>1. IsFiniteSet(1 .. i)
    BY FS_Interval
  <2>2. S(f, i) \subseteq 1 .. i
    OBVIOUS
  <2>3. IsFiniteSet(S(f, i))
    BY Zenon, <2>1, <2>2, FS_Subset
  <2> QED BY Zenon, <2>3, FS_CardinalityType DEF Before
<1>3. ASSUME NEW i \in 0 .. m
      PROVE  /\ Before(found, i) \in Nat /\ Before(found, i) <= Before(found, m)
             /\ Before(more, i) = Before(found, i)
  <2>1. i \in Nat /\ S(found, i) \subseteq S(found, m) /\ S(more, i) = S(found, i)
    BY <1>1
  <2> QED BY Zenon, <1>1, <1>2, <2>1, FS_Subset DEF Before
<1>4. ASSUME NEW i \in 1 .. m, found[i] PROVE Before(found, i) > 0
  <2>1. i \in S(found, i) /\ i \in Nat
    BY <1>1, <1>4
  <2>2. S(found, i) # {}
    BY Zenon, <2>1
  <2>3. Before(found, i) # 0
    BY Zenon, <1>2, <2>1, <2>2, FS_EmptySet DEF Before
  <2> HIDE DEF S
  <2> QED BY <1>2, <2>1, <2>3
<1>5. ASSUME more[m + 1] PROVE Before(more, m + 1) = Before(found, m) + 1
  <2>1. S(more, m + 1) = S(found, m) \cup {m + 1} /\ m + 1 \notin S(found, m)
    BY <1>1, <1>5
  <2>2. PICK F, e : F = S(found, m) /\ e = m + 1
    OBVIOUS
  <2>3. IsFiniteSet(F) /\ e \notin F /\ S(more, m + 1) = F \cup {e}
    BY Zenon, <1>1, <1>2, <2>1, <2>2
  <2>4. Cardinality(F \cup {e}) = Cardinality(F) + 1
    BY Zenon, <2>3, FS_AddElement
  <2> QED BY Zenon, <2>2, <2>3, <2>4 DEF Before
<1>6. ASSUME ~more[m + 1] PROVE Before(more, m + 1) = Before(found, m)
  <2>1. S(more, m + 1) = S(found, m)
    BY <1>1, <1>6
  <2> QED BY Zenon, <2>1 DEF Before
<1> QED BY Zenon, <1>3, <1>4, <1>5, <1>6 DEF BeforeGrows

\* A batch_get comes: nothing has been found.
LEMMA GetOpenStep ==
  ASSUME ServerInv, Noting, NEW h \in Handlers, NEW ids \in Seq(Conv!IdMsg),
         NEW forever \in BOOLEAN, batch_get(h, ids, forever)
  PROVE  HandlerStep(h)
<1> DEFINE r == [op |-> "get", asked |-> ids, todo |-> ids, forever |-> forever,
                 results |-> <<>>, found |-> <<>>]
<1>1. r \in Requests
  <2>1. <<>> \in Seq(Results) /\ <<>> \in Seq(BOOLEAN)
    OBVIOUS
  <2>2. r \in Gets
    BY <2>1 DEF Gets, Results
  <2> QED BY Zenon, <2>2 DEF Requests
<1>2. r.op = "get" /\ r.asked = ids /\ r.todo = ids /\ r.results = <<>> /\ r.found = <<>>
  OBVIOUS
<1>3. batch[h] = NoRequest /\ batch' = [batch EXCEPT ![h] = r] /\ UNCHANGED vars
  BY Zenon DEF batch_get
<1>4. Stored' = Stored /\ ~CallInProgress(h) /\ batch[h].op # "get"
  BY <1>3, QuietFrame, NoCall
<1> HIDE DEF r
<1>5. ASSUME batch'[h] = r, ~CallInProgress(h)', CallBelongs(h)' PROVE HandlerInv(h)'
  <2>1. InProgress(h)' = 0 /\ stayed'[h] \subseteq Stored'
    BY Zenon, <1>2, <1>4, <1>5, StayedGet DEF InProgress
  <2>2. /\ batch'[h].asked = ids /\ batch'[h].todo = ids
        /\ batch'[h].results = <<>> /\ batch'[h].found = <<>> /\ batch'[h].op = "get"
    BY Zenon, <1>2, <1>5
  <2>3. Len(ids) - Len(ids) = Len(<<>>) + 0
    OBVIOUS
  <2>4. \A i \in 1 .. Len(ids) : ids[i] = ids[(Len(ids) - Len(ids)) + i]
    OBVIOUS
  <2>5. GetProgress(h)'
    BY Zenon, <1>5, <2>1, <2>2, <2>3, <2>4 DEF GetProgress
  <2>6. Len(<<>>) = Before(<<>>, Len(<<>>))
    <3>1. Len(<<>>) = 0 /\ {j \in 1 .. 0 : <<>>[j]} = {}
      OBVIOUS
    <3>2. Before(<<>>, 0) = 0
      BY Zenon, <3>1, FS_EmptySet DEF Before
    <3> QED BY Zenon, <3>1, <3>2
  <2>7. DOMAIN <<>> = {}
    OBVIOUS
  <2>8. Aligned(h)'
    BY Zenon, <2>2, <2>6, <2>7 DEF Aligned
  <2>9. FindsStayed(h)'
    BY Zenon, <2>2, <2>7 DEF FindsStayed
  <2>10. ~Counting(h)'
    BY <2>2 DEF Counting
  <2> QED BY Zenon, <1>5, <2>5, <2>8, <2>9, <2>10 DEF HandlerInv
<1> QED BY Zenon, <1>1, <1>3, <1>4, <1>5, TurnStep

\* A running batch_get goes on.
LEMMA GetStep ==
  ASSUME ServerInv, NEW h \in Handlers, batch[h].op = "get", NEW r \in Requests, r.op = "get",
         batch' = [batch EXCEPT ![h] = r], Next, KeepIds,
         NEW Q \in {InPoll, InPoll \cup {h}, InPoll \ {h}}, Frame(InPut, Q, InSpill),
         /\ batch'[h] = r /\ InProgress(h) = (IF h \in InPoll THEN 1 ELSE 0)
         /\ InProgress(h)' = (IF h \in Q THEN 1 ELSE 0) /\ (CallInProgress(h)' => h \in Q)
         => GetProgress(h)' /\ Aligned(h)' /\ FindsStayed(h)'
  PROVE  HandlerStep(h)
<1>1. batch \in [Handlers -> Requests] /\ HandlerInv(h)
  BY Zenon DEF ServerInv
<1>2. /\ batch' \in [Handlers -> Requests] /\ batch'[h] = r
      /\ \A g \in Handlers \ {h} : batch'[g] = batch[g]
  BY Zenon, <1>1
<1>3. h \notin InPut /\ h \notin InSpill
  BY <1>1, Belongs DEF HandlerInv
<1>4. /\ InPut' = InPut /\ InPoll' = Q /\ InSpill' = InSpill
  BY Zenon DEF Frame
<1>5. (CallInProgress(h) <=> h \in InPoll) /\ (CallInProgress(h)' <=> h \in Q)
  BY Zenon, <1>3, <1>4, InCall
<1>6. /\ InProgress(h) = (IF h \in InPoll THEN 1 ELSE 0)
      /\ InProgress(h)' = (IF h \in Q THEN 1 ELSE 0)
  BY Zenon, <1>5 DEF InProgress
<1>7. GetProgress(h)' /\ Aligned(h)' /\ FindsStayed(h)'
  BY Zenon, <1>2, <1>5, <1>6
<1>8. HandlerInv(h)'
  <2>1. CallBelongs(h)'
    BY <1>2, <1>3, <1>4, Belongs
  <2>2. ~Counting(h)'
    BY <1>2 DEF Counting
  <2> QED BY Zenon, <1>7, <2>1, <2>2 DEF HandlerInv
<1>9. \A g \in Handlers \ {h} : Still(g)
  <2>1. /\ InPut \in {InPut, InPut \cup {h}, InPut \ {h}}
        /\ InSpill \in {InSpill, InSpill \cup {h}, InSpill \ {h}}
    OBVIOUS
  <2> QED BY Zenon, <1>2, <2>1, OthersStill
<1> QED BY Zenon, <1>2, <1>8, <1>9 DEF HandlerStep

\* What is known of a running batch_get.
LEMMA GetFacts ==
  ASSUME ServerInv, NEW h \in Handlers, batch[h].op = "get"
  PROVE  GetProgress(h) /\ Aligned(h) /\ FindsStayed(h)
BY Zenon DEF ServerInv, HandlerInv

\* The loop turns to one object more.
OneMore(asked, todo, found, n) == asked - (todo - 1) = n + 1 /\ n + 1 = found + 1

\* With one object less to do, one more is answered or being waited for.
LEMMA LessOne ==
  ASSUME NEW asked \in Nat, NEW todo \in Nat, NEW found \in Nat, NEW n,
         n = asked - todo /\ n = found + 0
  PROVE  OneMore(asked, todo, found, n)
<1>1. n \in Int
  OBVIOUS
<1> QED BY <1>1 DEF OneMore

\* batch_get asks the store for the next object.
LEMMA GetNextStep ==
  ASSUME ServerInv, Noting, NEW h \in Pollers, BatchGetNext(h)
  PROVE  HandlerStep(h)
<1> DEFINE r == Got(h, Tail(batch[h].todo), batch[h].results, batch[h].found)
<1>0. h \in Handlers /\ TypeOK
  BY Zenon DEF Handlers, ServerInv
<1>1. batch[h].op = "get" /\ batch[h].todo # <<>> /\ Advance(h)
  BY Zenon DEF BatchGetNext, At
<1>2. PICK asked \in Seq(Conv!IdMsg), todo \in Seq(Conv!IdMsg), results \in Seq(Results),
           found \in Seq(BOOLEAN) :
        /\ batch[h].asked = asked /\ batch[h].todo = todo
        /\ batch[h].results = results /\ batch[h].found = found
  BY Zenon, <1>0, <1>1, GetRequest
<1>3. /\ Tail(todo) \in Seq(Conv!IdMsg) /\ Head(todo) \in Conv!IdMsg
      /\ Len(Tail(todo)) = Len(todo) - 1 /\ Len(todo) \in Nat \ {0}
      /\ Head(todo) = todo[1] /\ \A i \in 1 .. Len(todo) - 1 : Tail(todo)[i] = todo[i + 1]
  <2>1. todo # <<>>
    BY Zenon, <1>1, <1>2
  <2>2. Tail(todo) \in Seq(Conv!IdMsg) /\ Head(todo) \in Conv!IdMsg
    BY Zenon, <2>1, HeadTailProperties
  <2> QED BY <2>1, <2>2
<1>4. PICK o \in Objs : o = Core(Head(todo)) /\ get(h, o, batch[h].forever)
  BY Zenon, <1>2, <1>3, CoreType DEF BatchGetNext, Current
<1>5. Next
  BY Zenon, <1>0, <1>1, <1>4, GetRequest, StoreSteps
<1>6. /\ h \notin InPoll /\ Frame(InPut, InPoll \cup {h}, InSpill) /\ KeepIds
      /\ poll'[h].ids = {o}
  BY Zenon, <1>0, <1>4, PollFrames DEF get
<1>7. r \in Requests /\ batch' = [batch EXCEPT ![h] = r]
  BY Zenon, <1>0, <1>1, <1>2, <1>3, GetRequest, GetUpdates
<1>8. /\ r.op = "get" /\ r.asked = asked /\ r.todo = Tail(todo)
      /\ r.results = results /\ r.found = found
  BY <1>2 DEF Got
<1> HIDE DEF r
<1>9. ASSUME batch'[h] = r, InProgress(h) = 0, InProgress(h)' = 1
      PROVE  GetProgress(h)' /\ Aligned(h)' /\ FindsStayed(h)'
  <2>1. stayed'[h] = stayed[h] \cap Stored'
    BY Zenon, <1>0, <1>1, <1>8, <1>9, StayedGet
  <2>2. PICK n : n = Len(asked) - Len(todo)
    OBVIOUS
  <2>3. n = Len(found) + 0 /\ \A i \in 1 .. Len(todo) : todo[i] = asked[n + i]
    BY Zenon, <1>0, <1>1, <1>2, <1>9, <2>2, GetFacts DEF GetProgress
  <2>4. /\ Len(asked) - Len(Tail(todo)) = n + 1 /\ n + 1 = Len(found) + 1
        /\ Head(todo) = asked[n + 1]
    <3>1. 1 \in 1 .. Len(todo)
      BY <1>3
    <3>2. todo[1] = asked[n + 1]
      BY Zenon, <2>3, <3>1
    <3>3. Len(asked) \in Nat /\ Len(todo) \in Nat /\ Len(found) \in Nat
      BY Zenon, LenProperties
    <3>4. Len(asked) - (Len(todo) - 1) = n + 1 /\ n + 1 = Len(found) + 1
      <4>1. n = Len(asked) - Len(todo) /\ n = Len(found) + 0
        BY Zenon, <2>2, <2>3
      <4>2. OneMore(Len(asked), Len(todo), Len(found), n)
        BY Zenon, <3>3, <4>1, LessOne
      <4> QED BY Zenon, <4>2 DEF OneMore
    <3> QED BY Zenon, <1>3, <3>2, <3>4
  <2>5. \A i \in 1 .. Len(Tail(todo)) : Tail(todo)[i] = asked[(n + 1) + i]
    <3>1. Len(found) \in Nat /\ Len(todo) \in Nat
      OBVIOUS
    <3> SUFFICES ASSUME NEW i \in 1 .. Len(todo) - 1
                 PROVE  Tail(todo)[i] = asked[(n + 1) + i]
      BY Zenon, <1>3
    <3>2. i + 1 \in 1 .. Len(todo) /\ n + (i + 1) = (n + 1) + i
      BY <2>3, <3>1
    <3> QED BY Zenon, <1>3, <2>3, <3>2
  <2>6. GetProgress(h)'
    <3>1. PICK k : k = n + 1
      OBVIOUS
    <3>2. Len(batch'[h].asked) - Len(batch'[h].todo) = k
      BY Zenon, <1>8, <1>9, <2>4, <3>1
    <3>3. k = Len(batch'[h].found) + InProgress(h)'
      BY Zenon, <1>8, <1>9, <2>4, <3>1
    <3>4. \A i \in 1 .. Len(batch'[h].todo) : batch'[h].todo[i] = batch'[h].asked[k + i]
      BY Zenon, <1>8, <1>9, <2>5, <3>1
    <3>5. poll'[h].ids = {Core(batch'[h].asked[k])}
      BY Zenon, <1>4, <1>6, <1>8, <1>9, <2>4, <3>1
    <3>6. stayed'[h] \subseteq Stored'
      BY Zenon, <2>1
    <3> QED BY Zenon, <3>2, <3>3, <3>4, <3>5, <3>6 DEF GetProgress, Core
  <2>7. Aligned(h)'
    <3>1. Aligned(h)
      BY Zenon, <1>0, <1>1, GetFacts
    <3>2. /\ batch'[h].found = batch[h].found /\ batch'[h].results = batch[h].results
          /\ batch'[h].asked = batch[h].asked
      BY Zenon, <1>2, <1>8, <1>9
    <3> QED BY Zenon, <3>1, <3>2 DEF Aligned
  <2>8. FindsStayed(h)'
    BY Zenon, <1>0, <1>1, <1>2, <1>8, <1>9, <2>1, GetFacts DEF FindsStayed, Core
  <2> QED BY Zenon, <2>6, <2>7, <2>8
<1>10. InPoll \cup {h} \in {InPoll, InPoll \cup {h}, InPoll \ {h}} /\ h \in InPoll \cup {h}
  OBVIOUS
<1> QED BY Zenon, <1>0, <1>1, <1>5, <1>6, <1>7, <1>8, <1>9, <1>10, GetStep

\* Aligned, for the parts of a request.
Matches(asked, results, found) ==
  /\ Len(results) = Before(found, Len(found))
  /\ \A i \in DOMAIN found : found[i] => results[Before(found, i)].object_id = asked[i]

\* The flags and the results stay aligned when both are extended.
LEMMA AlignedAppend ==
  ASSUME NEW asked, NEW results \in Seq(Results), NEW found \in Seq(BOOLEAN),
         NEW x \in Results, x.object_id = asked[Len(found) + 1],
         Matches(asked, results, found),
         NEW more \in Seq(BOOLEAN), Len(more) = Len(found) + 1,
         \A i \in 1 .. Len(found) : more[i] = found[i],
         NEW list, more[Len(more)] => list = Append(results, x), ~more[Len(more)] => list = results
  PROVE  Matches(asked, list, more)
<1>1. PICK m \in Nat : /\ m = Len(found) /\ DOMAIN found = 1 .. m /\ Len(more) = m + 1
                       /\ DOMAIN more = 1 .. m + 1
                       /\ \A i \in 1 .. m : more[i] = found[i]
  <2>1. /\ Len(found) \in Nat /\ DOMAIN found = 1 .. Len(found)
        /\ DOMAIN more = 1 .. Len(more)
    BY Zenon, LenProperties
  <2>2. DOMAIN more = 1 .. Len(found) + 1
    BY Zenon, <2>1
  <2> QED BY Zenon, <2>1, <2>2
<1>2. PICK l \in Nat : l = Len(results) /\ Before(found, m) = l
  BY <1>1 DEF Matches
<1>3. /\ \A i \in 0 .. m :
           /\ Before(found, i) \in Nat /\ Before(found, i) <= Before(found, m)
           /\ Before(more, i) = Before(found, i)
      /\ \A i \in 1 .. m : found[i] => Before(found, i) > 0
      /\ more[m + 1] => Before(more, m + 1) = Before(found, m) + 1
      /\ ~more[m + 1] => Before(more, m + 1) = Before(found, m)
  <2>1. BeforeGrows(found, more, m)
    BY Zenon, <1>1, BeforeAppend
  <2> QED BY Zenon, <2>1 DEF BeforeGrows
<1>4. /\ more[m + 1] => Len(list) = l + 1 /\ list[l + 1] = x
      /\ ~more[m + 1] => list = results
      /\ \A k \in 1 .. l : list[k] = results[k]
  <2>1. /\ Len(Append(results, x)) = l + 1 /\ Append(results, x)[l + 1] = x
        /\ \A k \in 1 .. l : Append(results, x)[k] = results[k]
    BY <1>2, AppendProperties
  <2>2. m + 1 = Len(more)
    BY Zenon, <1>1
  <2> QED BY Zenon, <2>1, <2>2
<1>5. Len(list) = Before(more, Len(more))
  BY Zenon, <1>1, <1>2, <1>3, <1>4
<1>6. ASSUME NEW i \in 1 .. m, more[i]
      PROVE  list[Before(more, i)].object_id = asked[i]
  <2>1. i \in 0 .. m /\ found[i] /\ i \in DOMAIN found
    BY <1>1, <1>6
  <2>2. /\ Before(more, i) = Before(found, i) /\ Before(found, i) \in Nat
        /\ Before(found, i) <= Before(found, m) /\ Before(found, i) > 0
    BY Zenon, <1>3, <2>1
  <2>3. Before(found, i) \in 1 .. l
    BY <1>2, <2>2
  <2> QED BY Zenon, <1>4, <2>1, <2>2, <2>3 DEF Matches
<1>7. ASSUME more[m + 1] PROVE list[Before(more, m + 1)].object_id = asked[m + 1]
  BY Zenon, <1>1, <1>2, <1>3, <1>4, <1>7
<1>8. \A i \in DOMAIN more : i \in 1 .. m \/ i = m + 1
  BY <1>1
<1> QED BY Zenon, <1>5, <1>6, <1>7, <1>8 DEF Matches

\* The store has answered for an object, and the answer is recorded.
LEMMA GetPollStep ==
  ASSUME ServerInv, Noting, NEW h \in Pollers, BatchGetPoll(h)
  PROVE  HandlerStep(h)
<1> DEFINE q == batch[h].asked[Position(h)]
           b == Core(q) \in poll'[h].reply
           y == [object_id |-> q, data |-> objects[Core(q)].data]
           more == Append(batch[h].found, b)
           list == IF b THEN Append(batch[h].results, y) ELSE batch[h].results
           r == Got(h, batch[h].todo, list, more)
<1>0. h \in Handlers /\ TypeOK
  BY Zenon DEF Handlers, ServerInv
<1>1. batch[h].op = "get" /\ Poll(h)
  BY Zenon DEF BatchGetPoll
<1>2. PICK asked \in Seq(Conv!IdMsg), todo \in Seq(Conv!IdMsg), results \in Seq(Results),
           found \in Seq(BOOLEAN) :
        /\ batch[h].asked = asked /\ batch[h].todo = todo
        /\ batch[h].results = results /\ batch[h].found = found
  BY Zenon, <1>0, <1>1, GetRequest
<1>3. Next
  BY Zenon, <1>1, StoreSteps DEF Poller
<1>4. /\ h \in InPoll /\ Frame(InPut, InPoll \ {h}, InSpill) /\ KeepIds
      /\ poll'[h].reply = poll[h].ids \cap Stored /\ objects' = objects
  BY Zenon, <1>0, <1>1, PollFrames
<1>5. CallInProgress(h) /\ InProgress(h) = 1
  BY Zenon, <1>4, InCall DEF InProgress
<1>6. PICK n \in Nat : /\ n = Len(asked) - Len(todo) /\ n = Len(found) + 1
                       /\ \A i \in 1 .. Len(todo) : todo[i] = asked[n + i]
                       /\ poll[h].ids = {Core(asked[n])} /\ stayed[h] \subseteq Stored
  <2>1. PICK k : k = Len(asked) - Len(todo)
    OBVIOUS
  <2>2. /\ k = Len(found) + 1 /\ \A i \in 1 .. Len(todo) : todo[i] = asked[k + i]
        /\ poll[h].ids = {Core(asked[k])} /\ stayed[h] \subseteq Stored
    BY Zenon, <1>0, <1>1, <1>2, <1>5, <2>1, GetFacts DEF GetProgress
  <2>3. k \in Nat
    BY <2>2
  <2> QED BY Zenon, <2>1, <2>2, <2>3
<1>7. n \in DOMAIN asked
  <2>1. Len(todo) \in Nat /\ Len(found) \in Nat /\ DOMAIN asked = 1 .. Len(asked)
    OBVIOUS
  <2> QED BY <1>6, <2>1
<1>8. PICK p \in Conv!IdMsg, o \in Objs : p = asked[n] /\ o = Core(p)
  <2>1. asked[n] \in Conv!IdMsg
    BY <1>7
  <2> QED BY Zenon, <2>1, CoreType
<1>9. b \in BOOLEAN /\ q = p
  <2>1. b \in BOOLEAN
    OBVIOUS
  <2>2. q = p
    BY Zenon, <1>2, <1>6, <1>8 DEF Position
  <2> QED BY Zenon, <2>1, <2>2
<1>10. b <=> o \in Stored
  BY <1>4, <1>6, <1>8, <1>9
<1>11. PICK x \in Results : x.object_id = p /\ (b => x = y)
  <2>1. Torn \in Contents /\ (b => objects[o].data \in Contents)
    <3>1. b => objects[o] \in Entries
      BY Zenon, <1>0, <1>10 DEF TypeOK, Stored
    <3> QED BY <3>1 DEF Entries, Contents
  <2>2. PICK d \in Contents : b => d = objects[o].data
    BY Zenon, <2>1
  <2>3. [object_id |-> p, data |-> d] \in Results
    BY DEF Results
  <2>4. [object_id |-> p, data |-> d].object_id = p
    OBVIOUS
  <2> QED BY Zenon, <1>8, <1>9, <2>2, <2>3, <2>4
<1>12. batch' = [batch EXCEPT ![h].found = more, ![h].results = list]
  BY Zenon DEF BatchGetPoll
<1> HIDE DEF b, y, q, more, list
<1>13. batch' = [batch EXCEPT ![h] = r]
  BY Zenon, <1>0, <1>1, <1>12, GetUpdates
<1>14. more = Append(found, b) /\ list = IF b THEN Append(results, x) ELSE results
  BY Zenon, <1>2, <1>11 DEF more, list
<1>15. more \in Seq(BOOLEAN) /\ list \in Seq(Results) /\ Len(more) = n
  <2>1. Append(found, b) \in Seq(BOOLEAN) /\ Append(results, x) \in Seq(Results)
    BY Zenon, <1>9, AppendProperties
  <2>2. Len(Append(found, b)) = Len(found) + 1
    BY <1>9, AppendProperties
  <2> QED BY Zenon, <1>6, <1>14, <2>1, <2>2
<1>16. r \in Requests
  BY Zenon, <1>0, <1>1, <1>2, <1>15, GetRequest
<1>17. r.op = "get" /\ r.asked = asked /\ r.todo = todo /\ r.results = list /\ r.found = more
  BY <1>2 DEF Got
<1> HIDE DEF r
<1>18. ASSUME batch'[h] = r, InProgress(h)' = 0, ~CallInProgress(h)'
       PROVE  GetProgress(h)' /\ Aligned(h)' /\ FindsStayed(h)'
  <2>1. stayed'[h] = stayed[h] \cap Stored' /\ Stored' = Stored
    BY Zenon, <1>0, <1>1, <1>4, <1>17, <1>18, StayedGet DEF Stored
  <2>2. GetProgress(h)'
    <3>1. n = n + 0
      OBVIOUS
    <3>2. Len(batch'[h].asked) - Len(batch'[h].todo) = n
      BY Zenon, <1>6, <1>17, <1>18
    <3>3. n = Len(batch'[h].found) + InProgress(h)'
      BY Zenon, <1>15, <1>17, <1>18, <3>1
    <3>4. \A i \in 1 .. Len(batch'[h].todo) : batch'[h].todo[i] = batch'[h].asked[n + i]
      BY Zenon, <1>6, <1>17, <1>18
    <3> QED BY Zenon, <1>18, <2>1, <3>2, <3>3, <3>4 DEF GetProgress
  <2>3. Aligned(h)'
    <3>1. Matches(asked, results, found)
      BY Zenon, <1>0, <1>1, <1>2, GetFacts DEF Aligned, Matches
    <3>2. p = asked[Len(found) + 1]
      BY Zenon, <1>6, <1>8
    <3>3. Matches(asked, list, more)
      <4>1. /\ Len(more) = Len(found) + 1 /\ (more[Len(more)] <=> b)
            /\ \A i \in 1 .. Len(found) : more[i] = found[i]
        BY <1>9, <1>14
      <4>2. /\ more[Len(more)] => list = Append(results, x)
            /\ ~more[Len(more)] => list = results
        BY Zenon, <1>14, <4>1
      <4>3. x.object_id = asked[Len(found) + 1]
        BY Zenon, <1>11, <3>2
      <4> QED BY Zenon, <1>15, <3>1, <4>1, <4>2, <4>3, AlignedAppend
    <3> QED BY Zenon, <1>17, <1>18, <3>3 DEF Aligned, Matches
  <2>4. FindsStayed(h)'
    <3>1. \A i \in DOMAIN found : Core(asked[i]) \in stayed[h] => found[i]
      BY Zenon, <1>0, <1>1, <1>2, GetFacts DEF FindsStayed
    <3>2. /\ DOMAIN more = 1 .. n /\ DOMAIN found = 1 .. n - 1 /\ more[n] = b
          /\ \A i \in 1 .. n - 1 : more[i] = found[i]
      BY <1>6, <1>9, <1>14
    <3>3. \A i \in 1 .. n : i \in 1 .. n - 1 \/ i = n
      OBVIOUS
    <3>4. Core(asked[n]) \in stayed'[h] => more[n]
      BY Zenon, <1>8, <1>10, <2>1, <3>2
    <3>5. \A i \in DOMAIN more : Core(asked[i]) \in stayed'[h] => more[i]
      BY Zenon, <2>1, <3>1, <3>2, <3>3, <3>4
    <3> QED BY Zenon, <1>17, <1>18, <3>5 DEF FindsStayed, Core
  <2> QED BY Zenon, <2>2, <2>3, <2>4
<1>19. InPoll \ {h} \in {InPoll, InPoll \cup {h}, InPoll \ {h}} /\ h \notin InPoll \ {h}
  OBVIOUS
<1> QED BY Zenon, <1>0, <1>1, <1>3, <1>4, <1>13, <1>16, <1>17, <1>18, <1>19, GetStep

-----------------------------------------------------------------------------
(***************************************************************************)
(* The server                                                              *)
(***************************************************************************)

\* The answer of the one call of wait.
LEMMA WaitPollStep ==
  ASSUME ServerInv, NEW h \in Pollers, WaitPoll(h)
  PROVE  HandlerStep(h)
<1>0. h \in Handlers /\ TypeOK /\ HandlerInv(h) /\ batch \in [Handlers -> Requests]
  BY Zenon DEF Handlers, ServerInv
<1>1. batch[h].op = "wait" /\ Poll(h) /\ batch' = batch
  BY Zenon DEF WaitPoll
<1>2. Next
  BY Zenon, <1>1, StoreSteps DEF Poller
<1>3. Frame(InPut, InPoll \ {h}, InSpill) /\ KeepIds
  BY Zenon, <1>0, <1>1, PollFrames
<1>4. \A g \in Handlers \ {h} : Still(g)
  <2>1. /\ InPut \in {InPut, InPut \cup {h}, InPut \ {h}}
        /\ InPoll \ {h} \in {InPoll, InPoll \cup {h}, InPoll \ {h}}
        /\ InSpill \in {InSpill, InSpill \cup {h}, InSpill \ {h}}
    OBVIOUS
  <2> QED BY Zenon, <1>1, <1>3, <2>1, OthersStill
<1>5. HandlerInv(h)'
  <2>1. CallBelongs(h)'
    BY <1>0, <1>1, <1>3, Belongs DEF Frame, HandlerInv
  <2>2. batch'[h].op # "get" /\ ~Counting(h)'
    BY <1>1 DEF Counting
  <2> QED BY Zenon, <2>1, <2>2 DEF HandlerInv
<1> QED BY Zenon, <1>0, <1>1, <1>2, <1>3, <1>4, <1>5 DEF HandlerStep

\* A request that comes.
LEMMA RequestStep ==
  ASSUME ServerInv, Noting, NEW h \in Handlers, Request(h)
  PROVE  HandlerStep(h)
<1>0. /\ IdLists \subseteq Seq(Conv!IdMsg) /\ SpillLists \subseteq Seq(Conv!IdMsg)
      /\ GetIds \subseteq Conv!IdMsg /\ PutItems \subseteq Items /\ PutLists \subseteq Seq(Items)
  BY Zenon, ServerAssumption
<1>1. ASSUME NEW items \in PutLists, batch_put(h, items) PROVE HandlerStep(h)
  BY Zenon, <1>0, <1>1, OpenStep DEF batch_put
<1>2. ASSUME NEW item \in PutItems, put_rpc(h, item) PROVE HandlerStep(h)
  <2>1. <<item>> \in Seq(Items)
    BY <1>0
  <2> QED BY Zenon, <1>2, <2>1, OpenStep DEF put_rpc, batch_put
<1>3. ASSUME NEW ids \in IdLists, delete_objects(h, ids) PROVE HandlerStep(h)
  <2>1. ids \in Seq(Conv!IdMsg) /\ "delete" \in {"delete", "spill", "restore"}
    BY Zenon, <1>0
  <2> QED BY Zenon, <1>3, <2>1, OpenStep DEF delete_objects
<1>4. ASSUME NEW ids \in SpillLists, spill_objects(h, ids) \/ restore_objects(h, ids)
      PROVE  HandlerStep(h)
  <2>1. /\ ids \in Seq(Conv!IdMsg)
        /\ "spill" \in {"delete", "spill", "restore"} /\ "restore" \in {"delete", "spill", "restore"}
    BY Zenon, <1>0
  <2> QED BY Zenon, <1>4, <2>1, OpenStep DEF spill_objects, restore_objects
<1>5. ASSUME h \in Pollers, NEW ids \in IdLists, NEW forever \in BOOLEAN,
             batch_get(h, ids, forever) \/ wait_rpc(h, ids, Cardinality(Cores(ids)), forever)
      PROVE  HandlerStep(h)
  <2>1. ids \in Seq(Conv!IdMsg)
    BY Zenon, <1>0
  <2>2. CASE batch_get(h, ids, forever)
    BY Zenon, <2>1, <2>2, GetOpenStep
  <2>3. CASE wait_rpc(h, ids, Cardinality(Cores(ids)), forever)
    BY Zenon, <1>5, <2>1, <2>3, WaitStep
  <2> QED BY Zenon, <1>5, <2>2, <2>3
<1>6. ASSUME NEW p \in GetIds, NEW forever \in BOOLEAN, get_rpc(h, p, forever)
      PROVE  HandlerStep(h)
  <2>1. <<p>> \in Seq(Conv!IdMsg)
    BY <1>0
  <2> QED BY Zenon, <1>6, <2>1, GetOpenStep DEF get_rpc
<1> QED BY Zenon, <1>1, <1>2, <1>3, <1>4, <1>5, <1>6 DEF Request

\* A handler goes on with its request.
LEMMA ContinueStep ==
  ASSUME ServerInv, Noting, NEW h \in Handlers, Continue(h)
  PROVE  HandlerStep(h) \/ Section
<1>1. ASSUME h \in Putters, evict_zero_ref_objects(h), batch' = batch PROVE Section
  BY Zenon, <1>1, PutFrames, StoreSteps DEF ServerInv, Section, Putter
<1> QED BY Zenon, <1>1, PutLoop, DeleteLoop, SpillLoop, ReplyStep, GetNextStep, GetPollStep,
           WaitPollStep DEF Continue

\* The steps that are no handler's.
LEMMA OthersStep ==
  ASSUME ServerInv, Others
  PROVE  Section
<1>1. ASSUME NEW h \in Pollers, Deadline(h), batch' = batch PROVE Section
  BY Zenon, <1>1, PollFrames, StoreSteps DEF ServerInv, Section, Poller
<1>2. ASSUME NEW p \in RefIds, add_reference_rpc(p) \/ remove_reference_rpc(p), batch' = batch
      PROVE  Section
  <2>1. Core(p) \in Objs
    BY Zenon, ServerAssumption, CoreType
  <2>2. PICK o \in Objs : add_reference(o) \/ remove_reference(o)
    BY Zenon, <1>2, <2>1 DEF add_reference_rpc, remove_reference_rpc
  <2> QED BY Zenon, <1>2, <2>2, ReferenceFrames, StoreSteps DEF ServerInv, Section
<1> QED BY Zenon, <1>1, <1>2 DEF Others

\* Every step of the server is a step of the store or leaves it alone, and
\* keeps the invariant.
LEMMA ServerStep ==
  ASSUME ServerInv, ServerNext
  PROVE  (Next \/ UNCHANGED vars) /\ ServerInv'
<1>1. Noting
  BY Zenon DEF ServerNext
<1>2. CASE Others
  BY Zenon, <1>1, <1>2, OthersStep, SectionInv DEF Section
<1>3. ASSUME NEW h \in Handlers, Request(h) \/ Continue(h)
      PROVE  (Next \/ UNCHANGED vars) /\ ServerInv'
  <2>1. HandlerStep(h) \/ Section
    BY Zenon, <1>1, <1>3, RequestStep, ContinueStep
  <2>2. CASE HandlerStep(h)
    BY Zenon, <1>1, <2>2, HandlerStepInv DEF HandlerStep
  <2>3. CASE Section
    BY Zenon, <1>1, <2>3, SectionInv DEF Section
  <2> QED BY Zenon, <2>1, <2>2, <2>3
<1> QED BY Zenon, <1>2, <1>3 DEF ServerNext

\* Before the first request.
LEMMA InitServerInv ==
  ASSUME ServerInit
  PROVE  ServerInv
<1>1. TypeOK
  BY Zenon, InitIInv DEF ServerInit, IInv
<1>2. NoRequest \in Requests
  BY Zenon DEF Requests
<1>3. batch \in [Handlers -> Requests] /\ \A h \in Handlers : batch[h] = NoRequest
  BY Zenon, <1>2 DEF ServerInit
<1>4. ASSUME NEW h \in Handlers PROVE HandlerInv(h)
  <2>1. batch[h].op = "none"
    BY <1>3 DEF NoRequest
  <2>2. batch[h].op # "get" /\ ~Counting(h)
    BY <2>1 DEF Counting
  <2>3. h \notin InPut /\ h \notin InPoll /\ h \notin InSpill
    BY DEF ServerInit, Init, InPut, InPoll, InSpill, Idle
  <2>4. CallBelongs(h)
    BY Zenon, <2>3, Belongs
  <2> QED BY Zenon, <2>2, <2>4 DEF HandlerInv
<1> QED BY Zenon, <1>1, <1>3, <1>4 DEF ServerInv

\* A step that changes nothing.
LEMMA ServerStutter ==
  ASSUME ServerInv, UNCHANGED serverVars
  PROVE  ServerInv'
<1>1. UNCHANGED vars /\ batch' = batch /\ stayed' = stayed
  BY Zenon DEF serverVars
<1>2. TypeOK' /\ Stored' = Stored
  BY Zenon, <1>1 DEF ServerInv, TypeOK, vars, Stored
<1>3. ASSUME NEW h \in Handlers PROVE HandlerInv(h)'
  <2>1. HandlerInv(h)
    BY Zenon DEF ServerInv
  <2>2. (CallInProgress(h)' <=> CallInProgress(h)) /\ (CallBelongs(h)' <=> CallBelongs(h))
    BY Zenon, <1>1 DEF vars, CallInProgress, CallBelongs
  <2>3. InProgress(h)' = InProgress(h)
    BY Zenon, <2>2 DEF InProgress
  <2>4. poll' = poll
    BY Zenon, <1>1 DEF vars
  <2> QED BY Zenon, <1>1, <1>2, <2>1, <2>2, <2>3, <2>4
          DEF HandlerInv, Counting, Accounted, GetProgress, Aligned, FindsStayed
<1> QED BY Zenon, <1>1, <1>2, <1>3 DEF ServerInv

\* Calls belong to requests, requests keep their counts, and batch_get works
\* through its list in order, whatever the handlers' calls of the store do in
\* between.
THEOREM ServerInvariance == ServerSpec => []ServerInv
<1>1. ServerInv /\ [ServerNext]_serverVars => ServerInv'
  BY Zenon, ServerStep, ServerStutter
<1> QED BY <1>1, InitServerInv, PTL DEF ServerSpec

\* The service implements the object store: each of its steps is a section of a
\* call of the store's interface, or nothing to the store.
THEOREM ServerImplementsStore == ServerSpec => ImplementsStore
<1>1. ServerInv /\ [ServerNext]_serverVars => [Next]_vars
  <2>1. UNCHANGED serverVars => UNCHANGED vars
    BY Zenon DEF serverVars
  <2> QED BY Zenon, <2>1, ServerStep
<1>2. ServerInit => Init
  BY Zenon DEF ServerInit
<1> QED BY <1>1, <1>2, ServerInvariance, PTL DEF ServerSpec, ImplementsStore, Spec

\* The counts in the replies of batch_put, delete, spill and restore add up to
\* the objects asked for.
THEOREM BatchesAccounted == ServerSpec => []BatchAccounts
<1>1. ServerInv => BatchAccounts
  BY Zenon DEF ServerInv, HandlerInv, BatchAccounts
<1> QED BY <1>1, ServerInvariance, PTL

\* The results of batch_get are those of the flags that are set, under the ids
\* the client sent, and a finished batch_get has a flag for every object.
THEOREM BatchGetsAligned == ServerSpec => []BatchGetAligned
<1>1. ServerInv => BatchGetAligned
  <2> SUFFICES ASSUME ServerInv, NEW h \in Handlers, batch[h].op = "get"
               PROVE  Aligned(h) /\ (Done(h) => Len(batch[h].found) = Len(batch[h].asked))
    BY Zenon DEF BatchGetAligned
  <2>1. ASSUME Done(h) PROVE Len(batch[h].found) = Len(batch[h].asked)
    <3>1. batch[h].todo = <<>> /\ InProgress(h) = 0
      BY Zenon, <2>1 DEF Done, InProgress
    <3>2. Len(batch[h].asked) - Len(batch[h].todo) = Len(batch[h].found) + 0
      BY Zenon, <3>1, GetFacts DEF GetProgress
    <3>3. PICK asked \in Seq(Conv!IdMsg), found \in Seq(BOOLEAN) :
            batch[h].asked = asked /\ batch[h].found = found
      BY Zenon, GetRequest
    <3>4. Len(asked) - Len(<<>>) = Len(found) + 0
      BY Zenon, <3>1, <3>2, <3>3
    <3>5. Len(asked) = Len(found)
      BY <3>4
    <3> QED BY Zenon, <3>3, <3>5
  <2> QED BY Zenon, <2>1, GetFacts
<1> QED BY <1>1, ServerInvariance, PTL

\* batch_get finds what is stored during the whole request.
THEOREM BatchGetsSeeStored == ServerSpec => []BatchGetSeesStored
<1>1. ServerInv => BatchGetSeesStored
  BY Zenon DEF ServerInv, HandlerInv, BatchGetSeesStored
<1> QED BY <1>1, ServerInvariance, PTL

\* What is proved of the store for any callers holds behind the service: the
\* memory budget is exceeded by at most one object per put in flight beside the
\* first, undisturbed spill files are faithful and restores change no data,
\* polls see what is stored, and what is deleted stays gone.
THEOREM StoreBehindServer ==
  ServerSpec => /\ [](OvershootBounded /\ SpillFaithful /\ PollSeesStored)
                /\ RestoreFaithful /\ GoneStaysGone
BY ServerImplementsStore, BudgetOvershoot, SpillsFaithful, PollsSeeStored, RestoresFaithful,
   DeletedStaysGone, PTL DEF ImplementsStore
=============================================================================
