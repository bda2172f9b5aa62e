-------------------------- MODULE ObjectStoreProofs --------------------------
(***************************************************************************)
(* Proofs of the safety properties of ObjectStore, for any objects, values *)
(* and numbers of concurrent calls.                                        *)
(***************************************************************************)
EXTENDS ObjectStore, FiniteSetTheorems, TLAPS

\* What SetObjects does to the calls of get and wait keeps their type.
LEMMA SetObjectsPoll ==
  ASSUME NEW m, SetObjects(m), poll \in [Pollers -> PollCalls]
  PROVE  poll' \in [Pollers -> PollCalls]
<1>. SUFFICES ASSUME NEW p \in Pollers PROVE poll'[p] \in PollCalls
  BY DEF SetObjects
<1>1. CASE poll[p].step = "polling"
  BY <1>1 DEF SetObjects, PollCalls, Idle
<1>2. CASE poll[p].step # "polling"
  BY <1>2 DEF SetObjects
<1>. QED BY <1>1, <1>2

\* The operations of put keep the types.
LEMMA PutTypeOK ==
  ASSUME TypeOK, NEW c \in Putters,
         Putter(c) \/ \E o \in Objs, d \in Values : put(c, o, d)
  PROVE  TypeOK'
<1>1. ASSUME NEW o \in Objs, NEW d \in Values, put(c, o, d) PROVE TypeOK'
  BY <1>1 DEF put, TypeOK, PutCalls, fileVars
<1>2. CASE evict_zero_ref_objects(c)
  <2>1. poll' \in [Pollers -> PollCalls]
    BY <1>2, SetObjectsPoll DEF evict_zero_ref_objects, TypeOK
  <2>2. put_' \in [Putters -> PutCalls]
    BY <1>2 DEF evict_zero_ref_objects, TypeOK, PutCalls, Idle
  <2>3. objects' \in [Objs -> Entries \cup {None}]
    BY <1>2 DEF evict_zero_ref_objects, SetObjects, TypeOK
  <2>. QED BY <1>2, <2>1, <2>2, <2>3 DEF evict_zero_ref_objects, TypeOK, fileVars
<1>3. CASE PutRecheck(c)
  BY <1>3 DEF PutRecheck, TypeOK, PutCalls, Idle, storeVars, fileVars
<1>4. CASE PutInsert(c)
  <2>1. poll' \in [Pollers -> PollCalls]
    BY <1>4, SetObjectsPoll DEF PutInsert, TypeOK
  <2>2. put_[c].obj \in Objs /\ put_[c].data \in Values
    BY <1>4 DEF PutInsert, TypeOK, PutCalls, Idle
  <2>. QED BY <1>4, <2>1, <2>2 DEF PutInsert, SetObjects, TypeOK, PutCalls, Entries, Contents
<1>. QED BY <1>1, <1>2, <1>3, <1>4 DEF Putter

\* delete and the reference counts keep the types.
LEMMA ReferenceTypeOK ==
  ASSUME TypeOK, NEW o \in Objs, delete(o) \/ add_reference(o) \/ remove_reference(o)
  PROVE  TypeOK'
<1>1. poll' \in [Pollers -> PollCalls]
  BY SetObjectsPoll DEF delete, add_reference, remove_reference, TypeOK
<1>2. CASE delete(o)
  BY <1>1, <1>2 DEF delete, SetObjects, TypeOK, fileVars
<1>3. CASE add_reference(o)
  BY <1>1, <1>3 DEF add_reference, SetObjects, TypeOK, Entries, Stored, fileVars
<1>4. CASE remove_reference(o)
  <2>1. objects[o] \in Entries
    BY <1>4 DEF remove_reference, TypeOK, Stored
  <2>2. objects[o].ref_count > 1 =>
          [objects[o] EXCEPT !.ref_count = @ - 1] \in Entries
    BY <2>1 DEF Entries
  <2>3. objects' \in [Objs -> Entries \cup {None}]
    <3>1. objects' = [objects EXCEPT ![o] = objects'[o]]
      BY <1>4 DEF remove_reference, SetObjects, TypeOK
    <3>2. objects'[o] \in Entries \cup {None}
      <4>1. objects'[o] = IF objects[o].ref_count <= 1 THEN None
                          ELSE [objects[o] EXCEPT !.ref_count = @ - 1]
        BY <1>4 DEF remove_reference, SetObjects, TypeOK
      <4>2. objects[o].ref_count \in Nat
        BY <2>1 DEF Entries
      <4>. QED BY <4>1, <4>2, <2>2
    <3>. QED BY <3>1, <3>2 DEF TypeOK
  <2>. QED BY <1>1, <1>4, <2>3 DEF remove_reference, TypeOK, fileVars
<1>. QED BY <1>2, <1>3, <1>4

\* get and wait keep the types.
LEMMA PollTypeOK ==
  ASSUME TypeOK, NEW p \in Pollers,
         \/ Poller(p)
         \/ \E ids \in SUBSET Objs, num_ready \in Nat, forever \in BOOLEAN :
              wait(p, ids, num_ready, forever)
  PROVE  TypeOK'
<1>1. ASSUME NEW ids \in SUBSET Objs, NEW num_ready \in Nat, NEW forever \in BOOLEAN,
             wait(p, ids, num_ready, forever)
      PROVE  TypeOK'
  <2>1. [step |-> "polling", ids |-> ids, num_ready |-> num_ready, forever |-> forever,
         expired |-> FALSE, sure |-> ids \cap Stored] \in PollCalls
    BY DEF PollCalls
  <2>2. poll' \in [Pollers -> PollCalls]
    BY <1>1, <2>1 DEF wait, TypeOK
  <2>. QED BY <1>1, <2>2 DEF wait, TypeOK, storeVars, fileVars
<1>2. CASE Deadline(p)
  <2>1. poll[p].step = "polling" /\ poll[p] \in PollCalls
    BY <1>2 DEF Deadline, TypeOK
  <2>2. [poll[p] EXCEPT !.expired = TRUE] \in PollCalls
    BY Zenon, <2>1 DEF PollCalls, Idle
  <2>3. poll' \in [Pollers -> PollCalls]
    BY <1>2, <2>2 DEF Deadline, TypeOK
  <2>. QED BY <1>2, <2>3 DEF Deadline, TypeOK, storeVars, fileVars
<1>3. CASE Poll(p)
  BY <1>3 DEF Poll, Ready, TypeOK, PollCalls, Idle, Stored, storeVars, fileVars
<1>. QED BY <1>1, <1>2, <1>3 DEF Poller

\* Spilling and restoring keep the types.
LEMMA SpillTypeOK ==
  ASSUME TypeOK, NEW s \in Spillers,
         Spiller(s) \/ \E o \in Objs : spill_to_disk(s, o) \/ restore_from_disk(s, o)
  PROVE  TypeOK'
<1>1. ASSUME NEW o \in Objs, spill_to_disk(s, o) PROVE TypeOK'
  BY <1>1 DEF spill_to_disk, Begin, TypeOK, SpillCalls, Entries, Stored, storeVars
<1>2. ASSUME NEW o \in Objs, restore_from_disk(s, o) PROVE TypeOK'
  BY <1>2 DEF restore_from_disk, Begin, TypeOK, SpillCalls, storeVars
<1>3. ASSUME spill[s] # Idle
      PROVE  spill[s].obj \in Objs /\ spill[s].data \in Contents \cup {None}
  BY <1>3 DEF TypeOK, SpillCalls
<1>4. CASE SpillOpen(s)
  <2>1. spill' \in [Spillers -> SpillCalls]
    <3>. SUFFICES ASSUME NEW q \in Spillers PROVE spill'[q] \in SpillCalls
      BY Zenon, <1>4 DEF SpillOpen
    <3>1. CASE q = s
      <4>1. PICK f \in {"alone", "shared"} :
              spill'[q] = [spill[s] EXCEPT !.step = "write", !.file = f]
        BY Zenon, <1>4, <3>1 DEF SpillOpen
      <4>2. spill[s].step = "open" /\ spill[s] \in SpillCalls
        BY Zenon, <1>4 DEF SpillOpen, TypeOK
      <4>3. spill[s] \in [step : {"open"}, obj : Objs, data : Contents,
                        file : {"alone", "shared", "unlinked"}]
        BY <4>2 DEF SpillCalls, Idle
      <4>4. spill'[q] \in [step : {"write"}, obj : Objs, data : Contents,
                          file : {"alone", "shared", "unlinked"}]
        BY Zenon, <4>1, <4>3
      <4>. QED BY <4>4 DEF SpillCalls
    <3>2. CASE q # s /\ q \in Writing(spill[s].obj)
      <4>1. spill'[q] = [spill[q] EXCEPT !.file = "shared"]
        BY Zenon, <1>4, <3>2 DEF SpillOpen
      <4>2. spill[q].step = "write" /\ spill[q] \in SpillCalls
        BY <3>2 DEF Writing, TypeOK
      <4>. QED BY <4>1, <4>2 DEF SpillCalls, Idle
    <3>3. CASE q # s /\ q \notin Writing(spill[s].obj)
      BY Zenon, <1>4, <3>3 DEF SpillOpen, TypeOK
    <3>. QED BY <3>1, <3>2, <3>3
  <2>2. disk' \in [Objs -> Contents \cup {None}]
    BY Zenon, <1>4 DEF SpillOpen, TypeOK, Contents
  <2>. QED BY Zenon, <1>4, <2>1, <2>2 DEF SpillOpen, TypeOK, storeVars
<1>5. CASE SpillOpenErr(s)
  BY <1>5 DEF SpillOpenErr, Return, TypeOK, SpillCalls, storeVars
<1>6. CASE SpillWrite(s)
  <2>1. spill' \in [Spillers -> SpillCalls]
    BY <1>6 DEF SpillWrite, Goto, TypeOK, SpillCalls, Idle
  <2>2. Written(s) \subseteq Contents \cup {None}
    BY <1>3, <1>6 DEF SpillWrite, Written, TypeOK, SpillCalls, Contents, Idle
  <2>. QED BY Zenon, <1>6, <2>1, <2>2 DEF SpillWrite, TypeOK, storeVars
<1>7. CASE SpillWriteErr(s)
  <2>1. spill[s] # Idle
    BY <1>7 DEF SpillWriteErr, Idle
  <2>. QED BY <1>3, <1>7, <2>1 DEF SpillWriteErr, Return, TypeOK, SpillCalls, Contents, storeVars
<1>8. CASE SpillMark(s)
  <2>1. poll' \in [Pollers -> PollCalls]
    BY <1>8, SetObjectsPoll DEF SpillMark, TypeOK
  <2>2. spill' \in [Spillers -> SpillCalls]
    BY <1>8 DEF SpillMark, Return, TypeOK, SpillCalls
  <2>3. objects' \in [Objs -> Entries \cup {None}]
    BY Zenon, <1>8 DEF SpillMark, SetObjects, TypeOK, Entries, Stored
  <2>. QED BY <1>8, <2>1, <2>2, <2>3 DEF SpillMark, TypeOK
<1>9. CASE RestoreRead(s)
  <2>1. spill[s] # Idle
    BY <1>9 DEF RestoreRead, Idle
  <2>. QED BY <1>3, <1>9, <2>1 DEF RestoreRead, TypeOK, SpillCalls, storeVars
<1>10. CASE RestoreReadErr(s)
  BY <1>10 DEF RestoreReadErr, Return, TypeOK, SpillCalls, storeVars
<1>11. CASE RestoreRemove(s)
  <2>1. spill' \in [Spillers -> SpillCalls]
    <3>. SUFFICES ASSUME NEW q \in Spillers PROVE spill'[q] \in SpillCalls
      BY <1>11 DEF RestoreRemove, Return, TypeOK
    <3>1. CASE q = s
      BY <1>11, <3>1 DEF RestoreRemove, Return, TypeOK, SpillCalls
    <3>2. CASE q # s /\ q \in Writing(spill[s].obj)
      BY <1>11, <3>2 DEF RestoreRemove, Return, Writing, TypeOK, SpillCalls, Idle
    <3>3. CASE q # s /\ q \notin Writing(spill[s].obj)
      BY <1>11, <3>3 DEF RestoreRemove, Return, TypeOK
    <3>. QED BY <3>1, <3>2, <3>3
  <2>. QED BY <1>11, <2>1 DEF RestoreRemove, TypeOK, storeVars
<1>12. CASE RestoreApply(s)
  <2>1. poll' \in [Pollers -> PollCalls]
    BY <1>12, SetObjectsPoll DEF RestoreApply, TypeOK
  <2>2. spill[s].obj \in Objs /\ spill[s].data \in Contents /\ spill'[s] \in SpillCalls
    BY <1>12 DEF RestoreApply, Goto, TypeOK, SpillCalls, Idle
  <2>3. objects' \in [Objs -> Entries \cup {None}]
    BY <1>12, <2>2 DEF RestoreApply, SetObjects, TypeOK, Entries, Stored
  <2>. QED BY <1>12, <2>1, <2>2, <2>3 DEF RestoreApply, Goto, TypeOK
<1>. QED BY <1>1, <1>2, <1>4, <1>5, <1>6, <1>7, <1>8, <1>9, <1>10, <1>11, <1>12 DEF Spiller


\* Every step of the store keeps the types.
LEMMA NextTypeOK ==
  ASSUME TypeOK, Next
  PROVE  TypeOK'
<1>1. ASSUME NEW p \in Pollers, NEW o \in Objs, NEW forever \in BOOLEAN, get(p, o, forever)
      PROVE  TypeOK'
  <2>1. {o} \in SUBSET Objs /\ 1 \in Nat
    OBVIOUS
  <2>. QED BY <1>1, <2>1, PollTypeOK DEF get
<1>2. ASSUME NEW p \in Pollers, NEW ids \in SUBSET Objs, NEW forever \in BOOLEAN,
             NEW num_ready \in 0 .. Cardinality(ids) + 1, wait(p, ids, num_ready, forever)
      PROVE  TypeOK'
  <2>1. num_ready \in Nat
    OBVIOUS
  <2>. QED BY <1>2, <2>1, PollTypeOK
<1>. QED BY <1>1, <1>2, PutTypeOK, ReferenceTypeOK, PollTypeOK, SpillTypeOK DEF Next

\* SetObjects, with the new map named by what it is.
LEMMA SetObjectsNext ==
  ASSUME NEW m, SetObjects(m)
  PROVE  SetObjects(objects')
<1>1. objects' = m
  BY DEF SetObjects
<1>. QED BY <1>1

\* What a step does to the entries and the polls: it starts, expires or ends
\* one poll, or it goes through SetObjects, or leaves both alone.
LEMMA PollCases ==
  ASSUME Next
  PROVE  \/ \E p \in Pollers :
              /\ UNCHANGED objects
              /\ \/ Poller(p)
                 \/ \E ids, num_ready, forever : wait(p, ids, num_ready, forever)
         \/ SetObjects(objects')
         \/ UNCHANGED <<objects, poll>>
<1>1. ASSUME NEW c \in Putters, Putter(c) \/ \E o \in Objs, d \in Values : put(c, o, d)
      PROVE  SetObjects(objects') \/ UNCHANGED <<objects, poll>>
  BY <1>1, SetObjectsNext
     DEF Putter, evict_zero_ref_objects, PutRecheck, PutInsert, put, storeVars
<1>2. ASSUME NEW o \in Objs, delete(o) \/ add_reference(o) \/ remove_reference(o)
      PROVE  SetObjects(objects')
  BY <1>2, SetObjectsNext DEF delete, add_reference, remove_reference
<1>3. ASSUME NEW s \in Spillers,
             Spiller(s) \/ \E o \in Objs : spill_to_disk(s, o) \/ restore_from_disk(s, o)
      PROVE  SetObjects(objects') \/ UNCHANGED <<objects, poll>>
  BY Zenon, <1>3, SetObjectsNext
     DEF Spiller, SpillOpen, SpillOpenErr, SpillWrite, SpillWriteErr, SpillMark,
         RestoreRead, RestoreReadErr, RestoreApply, RestoreRemove,
         spill_to_disk, restore_from_disk, storeVars
<1>4. ASSUME NEW p \in Pollers, NEW ids, NEW num_ready, NEW forever,
             wait(p, ids, num_ready, forever)
      PROVE  UNCHANGED objects
  BY <1>4 DEF wait, storeVars
<1>5. ASSUME NEW p \in Pollers, Poller(p) PROVE UNCHANGED objects
  BY <1>5 DEF Poller, Deadline, Poll, storeVars
<1>6. ASSUME NEW p \in Pollers,
             \/ Poller(p)
             \/ \E o \in Objs, forever \in BOOLEAN : get(p, o, forever)
             \/ \E ids \in SUBSET Objs, forever \in BOOLEAN :
                  \E num_ready \in 0 .. Cardinality(ids) + 1 : wait(p, ids, num_ready, forever)
      PROVE  /\ UNCHANGED objects
             /\ \/ Poller(p)
                \/ \E ids, num_ready, forever : wait(p, ids, num_ready, forever)
  BY Zenon, <1>4, <1>5, <1>6 DEF get
<1>. QED BY <1>1, <1>2, <1>3, <1>6 DEF Next

\* Polls stay sure only of what is there, and report what they are sure of.
LEMMA NextPoll ==
  ASSUME TypeOK, PollInv, PollSeesStored, Next
  PROVE  PollInv' /\ PollSeesStored'
<1>1. ASSUME NEW p \in Pollers, UNCHANGED objects, Poller(p)
      PROVE  PollInv' /\ PollSeesStored'
  <2>. SUFFICES ASSUME NEW q \in Pollers
                PROVE  /\ poll'[q].step = "polling" => poll'[q].sure \subseteq poll'[q].ids \cap Stored
                       /\ poll'[q].step = "returned" => poll'[q].sure \subseteq poll'[q].reply
    BY <1>1 DEF PollInv, PollSeesStored, Stored
  <2>1. CASE q # p
    <3>1. poll'[q] = poll[q]
      BY <1>1, <2>1 DEF Poller, Deadline, Poll, TypeOK
    <3>. QED BY <3>1 DEF PollInv, PollSeesStored
  <2>2. CASE q = p /\ Deadline(p)
    <3>1. poll'[q] = [poll[q] EXCEPT !.expired = TRUE]
      BY <2>2 DEF Deadline, TypeOK
    <3>2. poll[q].step = "polling" /\ poll[q] \in PollCalls
      BY <2>2 DEF Deadline, TypeOK
    <3>3. /\ poll'[q].step = "polling"
          /\ poll'[q].sure = poll[q].sure /\ poll'[q].ids = poll[q].ids
      BY <3>1, <3>2 DEF PollCalls, Idle
    <3>. QED BY <3>2, <3>3 DEF PollInv
  <2>3. CASE q = p /\ Poll(p)
    <3>1. poll'[q].step = "returned" /\ poll'[q].sure = poll[q].sure /\ poll'[q].reply = Ready(q)
      BY <2>3 DEF Poll, TypeOK
    <3>2. poll[q].step = "polling"
      BY <2>3 DEF Poll
    <3>. QED BY <3>1, <3>2 DEF PollInv, Ready
  <2>. QED BY <1>1, <2>1, <2>2, <2>3 DEF Poller
<1>2. ASSUME NEW p \in Pollers, UNCHANGED objects,
             NEW ids, NEW num_ready, NEW forever, wait(p, ids, num_ready, forever)
      PROVE  PollInv' /\ PollSeesStored'
  <2>. SUFFICES ASSUME NEW q \in Pollers
                PROVE  /\ poll'[q].step = "polling" => poll'[q].sure \subseteq poll'[q].ids \cap Stored
                       /\ poll'[q].step = "returned" => poll'[q].sure \subseteq poll'[q].reply
    BY <1>2 DEF PollInv, PollSeesStored, Stored
  <2>1. CASE q # p
    BY <1>2, <2>1 DEF wait, TypeOK, PollInv, PollSeesStored
  <2>2. CASE q = p
    BY <1>2, <2>2 DEF wait, TypeOK
  <2>. QED BY <2>1, <2>2
<1>3. CASE SetObjects(objects')
  <2>. SUFFICES ASSUME NEW q \in Pollers
                PROVE  /\ poll'[q].step = "polling" => poll'[q].sure \subseteq poll'[q].ids \cap Stored'
                       /\ poll'[q].step = "returned" => poll'[q].sure \subseteq poll'[q].reply
    BY DEF PollInv, PollSeesStored
  <2>1. CASE poll[q].step = "polling"
    <3>1. poll[q] \in PollCalls
      BY DEF TypeOK
    <3>2. poll'[q] = [poll[q] EXCEPT !.sure = {o \in poll[q].sure : objects'[o] # None}]
      BY <1>3, <2>1 DEF SetObjects
    <3>3. /\ poll'[q].step = "polling" /\ poll'[q].ids = poll[q].ids
          /\ poll'[q].sure = {o \in poll[q].sure : objects'[o] # None}
      BY <2>1, <3>1, <3>2 DEF PollCalls, Idle
    <3>4. poll[q].sure \subseteq Objs
      BY <2>1, <3>1 DEF PollCalls, Idle
    <3>. QED BY <2>1, <3>3, <3>4 DEF PollInv, Stored
  <2>2. CASE poll[q].step # "polling"
    BY <1>3, <2>2 DEF SetObjects, PollSeesStored
  <2>. QED BY <2>1, <2>2
<1>4. CASE UNCHANGED <<objects, poll>>
  BY <1>4 DEF PollInv, PollSeesStored, Stored
<1>. QED BY <1>1, <1>2, <1>3, <1>4, PollCases


\* Where an entry comes from: it was inserted just now, or it was there before
\* with a positive count if it had one, and its data and mark are as before
\* unless this is the mark of a spill or the end of a restore.
EntryKept(o) ==
  /\ o \in Stored
  /\ objects[o].ref_count > 0 => objects'[o].ref_count > 0
EntrySame(o) ==
  /\ objects'[o].data = objects[o].data
  /\ objects'[o].is_spilled = objects[o].is_spilled
EntryMarked(o, s) ==
  /\ SpillMark(s) /\ spill[s].obj = o
  /\ objects'[o].data = objects[o].data /\ objects'[o].is_spilled
EntryRestored(o, s) ==
  /\ RestoreApply(s) /\ spill[s].obj = o
  /\ objects'[o].data = spill[s].data /\ ~objects'[o].is_spilled
EntryInserted(o, c) ==
  /\ PutInsert(c) /\ put_[c].obj = o
  /\ objects'[o] = [data |-> put_[c].data, ref_count |-> 1, is_spilled |-> FALSE]

\* The entries of the store change in no other way.
LEMMA EntryCases ==
  ASSUME TypeOK, Next, NEW o \in Objs, o \in Stored'
  PROVE  \/ \E c \in Putters : EntryInserted(o, c)
         \/ /\ EntryKept(o)
            /\ \/ EntrySame(o)
               \/ \E s \in Spillers : EntryMarked(o, s) \/ EntryRestored(o, s)
<1>0. objects'[o] # None
  BY DEF Stored
<1>1. ASSUME UNCHANGED objects PROVE EntryKept(o) /\ EntrySame(o)
  BY <1>0, <1>1 DEF EntryKept, EntrySame, Stored
<1>2. ASSUME NEW c \in Putters, evict_zero_ref_objects(c) PROVE EntryKept(o) /\ EntrySame(o)
  <2>1. objects'[o] = objects[o]
    BY <1>0, <1>2 DEF evict_zero_ref_objects, SetObjects
  <2>. QED BY <1>0, <2>1 DEF EntryKept, EntrySame, Stored
<1>3. ASSUME NEW c \in Putters, PutInsert(c)
      PROVE  EntryInserted(o, c) \/ (EntryKept(o) /\ EntrySame(o))
  <2>1. CASE put_[c].obj = o
    BY <1>3, <2>1 DEF PutInsert, SetObjects, EntryInserted, TypeOK
  <2>2. CASE put_[c].obj # o
    <3>1. objects'[o] = objects[o]
      BY <1>3, <2>2 DEF PutInsert, SetObjects, TypeOK
    <3>. QED BY <1>0, <3>1 DEF EntryKept, EntrySame, Stored
  <2>. QED BY <2>1, <2>2
<1>4. ASSUME NEW x \in Objs, delete(x) PROVE EntryKept(o) /\ EntrySame(o)
  <2>1. objects'[o] = objects[o]
    BY <1>0, <1>4 DEF delete, SetObjects, TypeOK
  <2>. QED BY <1>0, <2>1 DEF EntryKept, EntrySame, Stored
<1>5. ASSUME NEW x \in Objs, add_reference(x) PROVE EntryKept(o) /\ EntrySame(o)
  <2>1. CASE x = o
    <3>1. objects[o] \in Entries /\ o \in Stored
      BY <1>5, <2>1 DEF add_reference, Stored, TypeOK
    <3>2. objects'[o] = [objects[o] EXCEPT !.ref_count = objects[o].ref_count + 1]
      BY <1>5, <2>1 DEF add_reference, SetObjects, TypeOK
    <3>. QED BY <3>1, <3>2 DEF EntryKept, EntrySame, Entries
  <2>2. CASE x # o
    <3>1. objects'[o] = objects[o]
      BY <1>5, <2>2 DEF add_reference, SetObjects, TypeOK
    <3>. QED BY <1>0, <3>1 DEF EntryKept, EntrySame, Stored
  <2>. QED BY <2>1, <2>2
<1>6. ASSUME NEW x \in Objs, remove_reference(x) PROVE EntryKept(o) /\ EntrySame(o)
  <2>1. CASE x = o
    <3>1. objects[o] \in Entries /\ o \in Stored
      BY <1>6, <2>1 DEF remove_reference, Stored, TypeOK
    <3>2. objects'[o] = IF objects[o].ref_count <= 1 THEN None
                        ELSE [objects[o] EXCEPT !.ref_count = objects[o].ref_count - 1]
      BY <1>6, <2>1 DEF remove_reference, SetObjects, TypeOK
    <3>3. ~(objects[o].ref_count <= 1)
      BY <1>0, <3>2
    <3>4. objects'[o] = [objects[o] EXCEPT !.ref_count = objects[o].ref_count - 1]
      BY <3>2, <3>3
    <3>. QED BY <3>1, <3>3, <3>4 DEF EntryKept, EntrySame, Entries
  <2>2. CASE x # o
    <3>1. objects'[o] = objects[o]
      BY <1>6, <2>2 DEF remove_reference, SetObjects, TypeOK
    <3>. QED BY <1>0, <3>1 DEF EntryKept, EntrySame, Stored
  <2>. QED BY <2>1, <2>2
<1>7. ASSUME NEW s \in Spillers, SpillMark(s)
      PROVE  EntryKept(o) /\ (EntrySame(o) \/ EntryMarked(o, s))
  <2>1. CASE spill[s].obj = o /\ o \in Stored
    <3>1. objects[o] \in Entries
      BY <2>1 DEF Stored, TypeOK
    <3>2. objects'[o] = [objects[o] EXCEPT !.is_spilled = TRUE]
      BY <1>7, <2>1 DEF SpillMark, SetObjects, TypeOK
    <3>. QED BY <1>7, <2>1, <3>1, <3>2 DEF EntryKept, EntryMarked, Entries
  <2>2. CASE spill[s].obj # o \/ o \notin Stored
    <3>1. objects'[o] = objects[o]
      BY <1>7, <2>2 DEF SpillMark, SetObjects, TypeOK
    <3>. QED BY <1>0, <3>1 DEF EntryKept, EntrySame, Stored
  <2>. QED BY <2>1, <2>2
<1>8. ASSUME NEW s \in Spillers, RestoreApply(s)
      PROVE  EntryKept(o) /\ (EntrySame(o) \/ EntryRestored(o, s))
  <2>1. CASE spill[s].obj = o /\ o \in Stored
    <3>1. objects[o] \in Entries
      BY <2>1 DEF Stored, TypeOK
    <3>2. objects'[o] = [objects[o] EXCEPT !.data = spill[s].data, !.is_spilled = FALSE]
      BY Zenon, <1>8, <2>1 DEF RestoreApply, SetObjects, TypeOK
    <3>. QED BY <1>8, <2>1, <3>1, <3>2 DEF EntryKept, EntryRestored, Entries
  <2>2. CASE spill[s].obj # o \/ o \notin Stored
    <3>1. objects'[o] = objects[o]
      BY <1>8, <2>2 DEF RestoreApply, SetObjects, TypeOK
    <3>. QED BY <1>0, <3>1 DEF EntryKept, EntrySame, Stored
  <2>. QED BY <2>1, <2>2
<1>9. ASSUME NEW s \in Spillers,
             \/ SpillOpen(s) \/ SpillOpenErr(s) \/ SpillWrite(s) \/ SpillWriteErr(s)
             \/ RestoreRead(s) \/ RestoreReadErr(s) \/ RestoreRemove(s)
             \/ \E x \in Objs : spill_to_disk(s, x) \/ restore_from_disk(s, x)
      PROVE  UNCHANGED objects
  BY Zenon, <1>9 DEF SpillOpen, SpillOpenErr, SpillWrite, SpillWriteErr, RestoreRead, RestoreReadErr,
              RestoreRemove, spill_to_disk, restore_from_disk, storeVars
<1>10. ASSUME NEW c \in Putters, PutRecheck(c) \/ \E x \in Objs, d \in Values : put(c, x, d)
       PROVE  UNCHANGED objects
  BY <1>10 DEF PutRecheck, put, storeVars
<1>11. ASSUME NEW p \in Pollers, NEW ids, NEW num_ready, NEW forever,
              wait(p, ids, num_ready, forever)
       PROVE  UNCHANGED objects
  BY <1>11 DEF wait, storeVars
<1>12. ASSUME NEW p \in Pollers, Poller(p) PROVE UNCHANGED objects
  BY <1>12 DEF Poller, Deadline, Poll, storeVars
<1>. QED BY Zenon, <1>1, <1>2, <1>3, <1>4, <1>5, <1>6, <1>7, <1>8, <1>9, <1>10, <1>11, <1>12
         DEF Next, Putter, Spiller, get

\* Reference counts stay positive.
LEMMA NextRefs ==
  ASSUME TypeOK, RefsPositive, Next
  PROVE  RefsPositive'
<1>. SUFFICES ASSUME NEW o \in Stored' PROVE objects'[o].ref_count > 0
  BY DEF RefsPositive
<1>1. o \in Objs
  BY DEF Stored
<1>2. ASSUME NEW c \in Putters, EntryInserted(o, c) PROVE objects'[o].ref_count > 0
  BY <1>2 DEF EntryInserted
<1>3. CASE EntryKept(o)
  BY <1>3 DEF EntryKept, RefsPositive
<1>. QED BY <1>1, <1>2, <1>3, EntryCases


\* Steps that touch neither files nor spill calls keep them in agreement with
\* the entries: an insertion that meets a spill or restore counts as a race.
LEMMA OutsideSpill ==
  ASSUME TypeOK, SpillInv, SpillFaithful, Next, UNCHANGED <<disk, spill>>,
         raced \subseteq raced'
  PROVE  SpillInv' /\ SpillFaithful'
<1>1. ASSUME NEW o \in Stored', o \notin raced'
      PROVE  \/ ~objects'[o].is_spilled /\ ~Busy(o)
             \/ o \in Stored /\ EntrySame(o)
  <2>1. ASSUME NEW c \in Putters, EntryInserted(o, c)
        PROVE  ~objects'[o].is_spilled /\ ~Busy(o)
    BY <1>1, <2>1 DEF EntryInserted, PutInsert
  <2>2. ASSUME NEW s \in Spillers, EntryMarked(o, s) \/ EntryRestored(o, s) PROVE FALSE
    <3>1. CASE SpillMark(s)
      <4>1. spill[s].step = "mark" /\ spill'[s] = Idle
        BY <3>1 DEF SpillMark, Return, TypeOK
      <4>. QED BY <4>1 DEF Idle
    <3>2. CASE RestoreApply(s)
      <4>1. spill[s].step = "apply" /\ spill'[s] = [spill[s] EXCEPT !.step = "remove"]
        BY <3>2 DEF RestoreApply, Goto, TypeOK
      <4>2. spill[s] \in SpillCalls
        BY DEF TypeOK
      <4>. QED BY <4>1, <4>2 DEF SpillCalls, Idle
    <3>. QED BY <2>2, <3>1, <3>2 DEF EntryMarked, EntryRestored
  <2>3. o \in Objs
    BY Zenon DEF Stored
  <2>. QED BY <2>1, <2>2, <2>3, EntryCases DEF EntryKept
<1>2. ASSUME NEW s \in Spillers PROVE CallFaithful(s)'
  <2>. DEFINE o == spill[s].obj
  <2>. SUFFICES ASSUME spill[s] # Idle, o \notin raced' PROVE CallFaithful(s)'
    BY DEF CallFaithful
  <2>1. CallFaithful(s) /\ o \notin raced
    BY DEF SpillInv
  <2>2. Busy(o)
    BY DEF Busy
  <2>3. o \in Stored' => o \in Stored /\ EntrySame(o)
    BY <1>1, <2>2
  <2>. QED BY <2>1, <2>3 DEF CallFaithful, EntrySame
<1>3. ASSUME NEW o \in Stored', o \notin raced' PROVE FileFaithful(o)'
  <2>1. Writing(o)' = Writing(o)
    BY DEF Writing
  <2>2. o \in Stored => FileFaithful(o)
    BY <1>3 DEF SpillFaithful
  <2>. QED BY <1>1, <1>3, <2>1, <2>2 DEF FileFaithful, EntrySame
<1>. QED BY <1>2, <1>3 DEF SpillInv, SpillFaithful

\* A step of a spill or restore of an object leaves the other objects, their
\* files and their spills and restores alone.
SpillerFrame(s) ==
  /\ spill[s] # Idle
  /\ raced \subseteq raced'
  /\ \A q \in Spillers : spill'[q] # Idle => spill[q] # Idle /\ spill'[q].obj = spill[q].obj
  /\ \A q \in Spillers :
       q # s /\ spill[q].step # "idle" /\ spill[q].obj # spill[s].obj => spill'[q] = spill[q]
  /\ \A o \in Objs : o # spill[s].obj => objects'[o] = objects[o] /\ disk'[o] = disk[o]

\* Every step of spill_to_disk and restore_from_disk has that frame.
LEMMA SpillerHasFrame ==
  ASSUME TypeOK, NEW s \in Spillers, Spiller(s)
  PROVE  SpillerFrame(s)
<1>1. spill[s] # Idle
  <2>1. spill[s].step \in {"open", "write", "mark", "read", "apply", "remove"}
    BY Zenon DEF Spiller, SpillOpen, SpillOpenErr, SpillWrite, SpillWriteErr, SpillMark,
           RestoreRead, RestoreReadErr, RestoreApply, RestoreRemove
  <2>. QED BY <2>1 DEF Idle
<1>2. raced \subseteq raced'
  BY Zenon DEF Spiller, SpillOpen, SpillOpenErr, SpillWrite, SpillWriteErr, SpillMark,
         RestoreRead, RestoreReadErr, RestoreApply, RestoreRemove
<1>3. ASSUME NEW o \in Objs, o # spill[s].obj
      PROVE  objects'[o] = objects[o] /\ disk'[o] = disk[o]
  <2>1. objects'[o] = objects[o]
    BY Zenon, <1>3 DEF Spiller, SpillOpen, SpillOpenErr, SpillWrite, SpillWriteErr, SpillMark,
           RestoreRead, RestoreReadErr, RestoreApply, RestoreRemove, SetObjects, storeVars, TypeOK
  <2>2. disk'[o] = disk[o]
    BY Zenon, <1>3 DEF Spiller, SpillOpen, SpillOpenErr, SpillWrite, SpillWriteErr, SpillMark,
           RestoreRead, RestoreReadErr, RestoreApply, RestoreRemove, TypeOK
  <2>. QED BY <2>1, <2>2
<1>4. ASSUME NEW q \in Spillers, q # s, spill[q].step # "idle", spill[q].obj # spill[s].obj
      PROVE  spill'[q] = spill[q]
  BY Zenon, <1>4 DEF Spiller, SpillOpen, SpillOpenErr, SpillWrite, SpillWriteErr, SpillMark,
         RestoreRead, RestoreReadErr, RestoreApply, RestoreRemove, Goto, Return, Writing, TypeOK
<1>5. ASSUME NEW q \in Spillers, spill'[q] # Idle
      PROVE  spill[q] # Idle /\ spill'[q].obj = spill[q].obj
  <2>1. spill[q] \in SpillCalls
    BY DEF TypeOK
  <2>2. CASE q = s
    <3>1. PICK st \in {"write", "mark", "apply", "remove"},
               d \in Contents \cup {None}, f \in {"alone", "shared", "unlinked"} :
            spill'[s] = [step |-> st, obj |-> spill[s].obj, data |-> d, file |-> f]
      <4>1. CASE SpillOpen(s)
        <5>1. PICK f \in {"alone", "shared"} :
                spill'[s] = [spill[s] EXCEPT !.step = "write", !.file = f]
          BY Zenon, <4>1 DEF SpillOpen
        <5>2. spill[s].step = "open" /\ spill[s] \in SpillCalls
          BY Zenon, <4>1 DEF SpillOpen, TypeOK
        <5>3. spill[s] \in [step : {"open"}, obj : Objs, data : Contents,
                            file : {"alone", "shared", "unlinked"}]
          BY <5>2 DEF SpillCalls, Idle
        <5>. QED BY Zenon, <5>1, <5>3
      <4>2. CASE SpillOpenErr(s) \/ SpillWriteErr(s) \/ SpillMark(s) \/ RestoreReadErr(s)
                 \/ RestoreRemove(s)
        BY <1>5, <2>2, <4>2 DEF SpillOpenErr, SpillWriteErr, SpillMark, RestoreReadErr,
                                RestoreRemove, Return, TypeOK
      <4>3. CASE SpillWrite(s)
        BY <1>5, <2>1, <2>2, <4>3 DEF SpillWrite, Goto, SpillCalls, Idle, TypeOK
      <4>4. CASE RestoreRead(s)
        BY <1>5, <2>1, <2>2, <4>4 DEF RestoreRead, SpillCalls, Idle, TypeOK
      <4>5. CASE RestoreApply(s)
        <5>1. spill[s].step = "apply" /\ spill'[s] = [spill[s] EXCEPT !.step = "remove"]
          BY <4>5 DEF RestoreApply, Goto, TypeOK
        <5>. QED BY <2>1, <2>2, <5>1 DEF SpillCalls, Idle
      <4>. QED BY Zenon, <4>1, <4>2, <4>3, <4>4, <4>5 DEF Spiller
    <3>. QED BY <1>1, <2>2, <3>1
  <2>3. CASE q # s /\ q \in Writing(spill[s].obj)
    <3>1. PICK f : spill'[q] = [spill[q] EXCEPT !.file = f]
      <4>1. CASE SpillOpen(s)
        BY Zenon, <2>3, <4>1 DEF SpillOpen
      <4>2. CASE RestoreRemove(s) /\ spill' # [spill EXCEPT ![s] = Idle]
        BY Zenon, <2>3, <4>2 DEF RestoreRemove, Return
      <4>3. CASE ~SpillOpen(s) /\ ~(RestoreRemove(s) /\ spill' # [spill EXCEPT ![s] = Idle])
        <5>1. spill'[q] = spill[q]
          BY <2>3, <4>3 DEF Spiller, SpillOpenErr, SpillWrite, SpillWriteErr, SpillMark,
             RestoreRead, RestoreReadErr, RestoreApply, RestoreRemove, Goto, Return, TypeOK
        <5>2. spill[q] = [spill[q] EXCEPT !.file = spill[q].file]
          BY <2>1, <2>3 DEF Writing, SpillCalls, Idle
        <5>. QED BY Zenon, <5>1, <5>2
      <4>. QED BY Zenon, <4>1, <4>2, <4>3
    <3>2. spill[q].step = "write"
      BY <2>3 DEF Writing
    <3>. QED BY <2>1, <3>1, <3>2 DEF SpillCalls, Idle
  <2>4. CASE q # s /\ q \notin Writing(spill[s].obj)
    <3>1. spill'[q] = spill[q]
      BY Zenon, <2>4 DEF Spiller, SpillOpen, SpillOpenErr, SpillWrite, SpillWriteErr, SpillMark,
         RestoreRead, RestoreReadErr, RestoreApply, RestoreRemove, Goto, Return, TypeOK
    <3>. QED BY <1>5, <3>1
  <2>. QED BY <2>2, <2>3, <2>4
<1>. QED BY <1>1, <1>2, <1>3, <1>4, <1>5 DEF SpillerFrame


\* So the other spills and restores, and the other files, stay faithful.
LEMMA OthersFaithful ==
  ASSUME TypeOK, SpillInv, SpillFaithful, NEW s \in Spillers, SpillerFrame(s)
  PROVE  /\ \A q \in Spillers \ {s} : CallFaithful(q)'
         /\ \A o \in Stored' \ raced' : o # spill[s].obj => FileFaithful(o)'
<1>1. ASSUME NEW q \in Spillers, q # s PROVE CallFaithful(q)'
  <2>. DEFINE o == spill'[q].obj
  <2>. SUFFICES ASSUME spill'[q] # Idle, o \notin raced' PROVE CallFaithful(q)'
    BY DEF CallFaithful
  <2>1. spill[q] # Idle /\ spill[q].obj = o /\ o \notin raced
    BY DEF SpillerFrame
  <2>2. CallFaithful(q)
    BY DEF SpillInv
  <2>3. o # spill[s].obj
    BY <1>1, <2>1, <2>2 DEF CallFaithful, SpillerFrame
  <2>4. o \in Objs /\ spill[q].step # "idle"
    BY Zenon, <2>1 DEF TypeOK, SpillCalls
  <2>5. spill'[q] = spill[q] /\ objects'[o] = objects[o] /\ disk'[o] = disk[o]
    BY Zenon, <1>1, <2>1, <2>3, <2>4 DEF SpillerFrame
  <2>6. \A r \in Spillers : spill'[r] # Idle /\ spill'[r].obj = o => r = q
    BY <2>1, <2>2 DEF CallFaithful, SpillerFrame
  <2>. QED BY Zenon, <2>1, <2>2, <2>4, <2>5, <2>6 DEF CallFaithful, Stored
<1>2. ASSUME NEW o \in Stored', o \notin raced', o # spill[s].obj PROVE FileFaithful(o)'
  <2>1. o \in Objs
    BY DEF Stored
  <2>2. objects'[o] = objects[o] /\ disk'[o] = disk[o] /\ o \notin raced
    BY <1>2, <2>1 DEF SpillerFrame
  <2>3. o \in Stored /\ FileFaithful(o)
    BY <2>1, <2>2 DEF Stored, SpillFaithful
  <2>4. Writing(o) \subseteq Writing(o)'
    BY <1>2 DEF Writing, SpillerFrame
  <2>. QED BY <2>2, <2>3, <2>4 DEF FileFaithful
<1>. QED BY Zenon, <1>1, <1>2

\* The steps of a spill or restore keep SpillInv and SpillFaithful.
LEMMA SpillerFaithful ==
  ASSUME TypeOK, SpillInv, SpillFaithful, NEW s \in Spillers, Spiller(s)
  PROVE  SpillInv' /\ SpillFaithful'
<1>. PICK o : o = spill[s].obj
  OBVIOUS
<1>1. SpillerFrame(s) /\ spill[s] # Idle /\ raced \subseteq raced'
  BY SpillerHasFrame DEF SpillerFrame
<1>2. spill[s] \in SpillCalls /\ o \in Objs
  BY <1>1 DEF TypeOK, SpillCalls
<1>. SUFFICES ASSUME o \notin raced'
              PROVE  CallFaithful(s)' /\ (o \in Stored' => FileFaithful(o)')
  <2>1. spill'[s] = Idle \/ spill'[s].obj = o
    BY Zenon, <1>1 DEF SpillerFrame
  <2>2. o \in raced' => CallFaithful(s)'
    BY <2>1 DEF CallFaithful
  <2>. QED BY <1>1, <2>2, OthersFaithful DEF SpillInv, SpillFaithful
<1>3. CallFaithful(s) /\ o \notin raced
  BY <1>1 DEF SpillInv
<1>4. \A q \in Spillers : spill[q] # Idle /\ spill[q].obj = o => q = s
  BY <1>1, <1>3 DEF CallFaithful
<1>5. \A q \in Spillers : spill'[q] # Idle /\ spill'[q].obj = o => q = s
  BY <1>1, <1>4 DEF SpillerFrame
<1>6. spill[s].step # "write" => Writing(o) = {}
  BY <1>4 DEF Writing, Idle
<1>7. ASSUME o \in Stored PROVE FileFaithful(o)
  BY <1>3, <1>7 DEF SpillFaithful
<1>8. ASSUME spill'[s] = Idle PROVE CallFaithful(s)'
  BY <1>8 DEF CallFaithful
<1>9. CASE SpillOpen(s)
  <2>1. spill[s].step = "open" /\ Writing(o) = {}
    BY Zenon, <1>6, <1>9 DEF SpillOpen
  <2>2. spill'[s] = [spill[s] EXCEPT !.step = "write", !.file = "alone"]
    BY <1>9, <2>1 DEF SpillOpen
  <2>3. /\ spill'[s].step = "write" /\ spill'[s].file = "alone"
        /\ spill'[s].obj = o /\ spill'[s].data = spill[s].data
    BY <1>2, <2>1, <2>2 DEF SpillCalls, Idle
  <2>4. UNCHANGED objects
    BY Zenon, <1>9 DEF SpillOpen, storeVars
  <2>5. CallFaithful(s)'
    BY Zenon, <1>1, <1>3, <1>5, <2>1, <2>3, <2>4 DEF CallFaithful, Stored
  <2>6. s \in Writing(o)'
    BY Zenon, <2>3 DEF Writing
  <2>. QED BY <2>5, <2>6 DEF FileFaithful
<1>10. CASE SpillOpenErr(s) \/ RestoreReadErr(s)
  <2>1. spill'[s] = Idle /\ UNCHANGED <<objects, disk>> /\ Writing(o) = {}
    BY <1>6, <1>10 DEF SpillOpenErr, RestoreReadErr, Return, storeVars, TypeOK
  <2>. QED BY <1>7, <1>8, <2>1 DEF FileFaithful, Stored
<1>11. CASE SpillWrite(s)
  <2>1. spill[s].step = "write" /\ spill[s].file = "alone"
    BY <1>1, <1>3, <1>11 DEF SpillWrite, CallFaithful
  <2>2. disk'[o] = spill[s].data /\ UNCHANGED objects
    BY <1>2, <1>11, <2>1 DEF SpillWrite, Written, TypeOK, storeVars
  <2>3. spill'[s] = [spill[s] EXCEPT !.step = "mark"]
    BY <1>11 DEF SpillWrite, Goto, TypeOK
  <2>4. spill'[s].step = "mark" /\ spill'[s].obj = o /\ spill'[s].data = spill[s].data
    BY <1>2, <2>1, <2>3 DEF SpillCalls, Idle
  <2>5. o \in Stored => spill[s].data = objects[o].data
    BY Zenon, <1>1, <1>3, <2>1 DEF CallFaithful
  <2>6. CallFaithful(s)'
    BY <1>5, <2>2, <2>4, <2>5 DEF CallFaithful, Stored
  <2>. QED BY Zenon, <2>2, <2>5, <2>6 DEF FileFaithful, Stored
<1>12. CASE SpillWriteErr(s)
  BY Zenon, <1>12 DEF SpillWriteErr
<1>13. CASE SpillMark(s)
  <2>1. spill'[s] = Idle /\ spill[s].step = "mark" /\ UNCHANGED disk
    BY Zenon, <1>13 DEF SpillMark, Return, TypeOK
  <2>2. disk[o] = spill[s].data /\ (o \in Stored => spill[s].data = objects[o].data)
    BY <1>1, <1>3, <2>1 DEF CallFaithful
  <2>3. ASSUME o \in Stored' PROVE o \in Stored /\ objects'[o].data = objects[o].data
    <3>1. o \in Stored
      BY <1>2, <1>13, <2>3 DEF SpillMark, SetObjects, Stored
    <3>2. objects'[o] = [objects[o] EXCEPT !.is_spilled = TRUE] /\ objects[o] \in Entries
      BY Zenon, <1>2, <1>13, <3>1 DEF SpillMark, SetObjects, Stored, TypeOK
    <3>. QED BY Zenon, <3>1, <3>2 DEF Entries
  <2>. QED BY <1>8, <2>1, <2>2, <2>3 DEF FileFaithful
<1>14. CASE RestoreRead(s)
  <2>1. spill[s].step = "read" /\ Writing(o) = {} /\ UNCHANGED <<objects, disk>>
    BY <1>6, <1>14 DEF RestoreRead, storeVars
  <2>2. spill'[s] = [spill[s] EXCEPT !.step = "apply", !.data = disk[o]]
    BY <1>14 DEF RestoreRead, TypeOK
  <2>3. spill'[s].step = "apply" /\ spill'[s].obj = o /\ spill'[s].data = disk[o]
    BY <1>2, <2>1, <2>2 DEF SpillCalls, Idle
  <2>4. o \in Stored => objects[o].is_spilled /\ disk[o] = objects[o].data
    BY Zenon, <1>1, <1>3, <1>7, <2>1 DEF CallFaithful, FileFaithful
  <2>5. CallFaithful(s)'
    BY Zenon, <1>5, <2>1, <2>3, <2>4 DEF CallFaithful, Stored
  <2>. QED BY <2>1, <2>4, <2>5 DEF FileFaithful, Stored
<1>15. CASE RestoreApply(s)
  <2>1. spill[s].step = "apply" /\ spill'[s] = [spill[s] EXCEPT !.step = "remove"]
    BY <1>15 DEF RestoreApply, Goto, TypeOK
  <2>2. spill'[s].step = "remove" /\ spill'[s].obj = o
    BY <1>2, <2>1 DEF SpillCalls, Idle
  <2>3. ASSUME o \in Stored' PROVE ~objects'[o].is_spilled
    <3>1. o \in Stored
      BY <1>2, <1>15, <2>3 DEF RestoreApply, SetObjects, Stored
    <3>2. /\ objects'[o] = [objects[o] EXCEPT !.data = spill[s].data, !.is_spilled = FALSE]
          /\ objects[o] \in Entries
      BY Zenon, <1>2, <1>15, <3>1 DEF RestoreApply, SetObjects, Stored, TypeOK
    <3>. QED BY Zenon, <3>2 DEF Entries
  <2>4. CallFaithful(s)'
    BY <1>5, <2>2, <2>3 DEF CallFaithful
  <2>. QED BY <2>3, <2>4 DEF FileFaithful
<1>16. CASE RestoreRemove(s)
  <2>1. spill[s].step = "remove" /\ spill'[s] = Idle /\ UNCHANGED objects
    BY Zenon, <1>16 DEF RestoreRemove, Return, storeVars, TypeOK
  <2>2. o \in Stored => ~objects[o].is_spilled
    BY <1>1, <1>3, <2>1 DEF CallFaithful
  <2>. QED BY <1>8, <2>1, <2>2 DEF FileFaithful, Stored
<1>. QED BY <1>9, <1>10, <1>11, <1>12, <1>13, <1>14, <1>15, <1>16 DEF Spiller

\* A spill or restore that begins is alone with its object, or the object
\* counts as raced from then on.
LEMMA BeginFaithful ==
  ASSUME TypeOK, SpillInv, SpillFaithful, NEW s \in Spillers, NEW o \in Objs,
         spill_to_disk(s, o) \/ restore_from_disk(s, o)
  PROVE  SpillInv' /\ SpillFaithful'
<1>1. /\ o \in Stored /\ UNCHANGED <<objects, disk>> /\ spill[s] = Idle
      /\ raced' = IF Busy(o) THEN raced \cup {o} ELSE raced
  BY Zenon DEF spill_to_disk, restore_from_disk, Begin, storeVars
<1>2. \A q \in Spillers \ {s} : spill'[q] = spill[q]
  BY DEF spill_to_disk, restore_from_disk, Begin, TypeOK
<1>3. /\ spill'[s].obj = o /\ spill'[s] # Idle
      /\ \/ spill'[s].step = "open" /\ spill'[s].data = objects[o].data
         \/ spill'[s].step = "read" /\ objects[o].is_spilled
  <2>1. CASE spill_to_disk(s, o)
    <3>1. spill'[s] = [step |-> "open", obj |-> o, data |-> objects[o].data, file |-> "alone"]
      BY Zenon, <2>1 DEF spill_to_disk, Begin, TypeOK
    <3>. QED BY <3>1 DEF Idle
  <2>2. CASE restore_from_disk(s, o)
    <3>1. /\ spill'[s] = [step |-> "read", obj |-> o, data |-> None, file |-> "alone"]
          /\ objects[o].is_spilled
      <4>1. spill \in [Spillers -> SpillCalls]
        BY Zenon DEF TypeOK
      <4>. QED BY <2>2, <4>1 DEF restore_from_disk, Begin
    <3>. QED BY <3>1 DEF Idle
  <2>. QED BY <2>1, <2>2
<1>4. ASSUME NEW q \in Spillers, q # s PROVE CallFaithful(q)'
  <2>. SUFFICES ASSUME spill[q] # Idle, spill[q].obj \notin raced' PROVE CallFaithful(q)'
    BY Zenon, <1>2, <1>4 DEF CallFaithful
  <2>1. spill[q].obj # o /\ spill[q].obj \notin raced /\ spill'[q] = spill[q]
    BY <1>1, <1>2, <1>4 DEF Busy
  <2>2. CallFaithful(q)
    BY Zenon DEF SpillInv
  <2>3. \A r \in Spillers : spill'[r] # Idle /\ spill'[r].obj = spill[q].obj => r = q
    BY Zenon, <1>2, <1>3, <2>1, <2>2 DEF CallFaithful
  <2>. QED BY Zenon, <1>1, <2>1, <2>2, <2>3 DEF CallFaithful, Stored
<1>5. CallFaithful(s)'
  <2>. SUFFICES ASSUME o \notin raced' PROVE CallFaithful(s)'
    BY Zenon, <1>3 DEF CallFaithful
  <2>1. \A r \in Spillers : spill'[r] # Idle /\ spill'[r].obj = o => r = s
    BY Zenon, <1>1, <1>2 DEF Busy
  <2>. QED BY Zenon, <1>1, <1>3, <2>1 DEF CallFaithful, Stored
<1>6. ASSUME NEW x \in Stored', x \notin raced' PROVE FileFaithful(x)'
  <2>1. x \in Stored /\ x \notin raced
    BY <1>1, <1>6 DEF Stored
  <2>2. Writing(x) \subseteq Writing(x)'
    <3>1. s \notin Writing(x)
      BY <1>1 DEF Writing, Idle
    <3>. QED BY <1>2, <3>1 DEF Writing
  <2>. QED BY <1>1, <2>1, <2>2 DEF FileFaithful, SpillFaithful
<1>. QED BY Zenon, <1>4, <1>5, <1>6 DEF SpillInv, SpillFaithful


\* Every step keeps SpillInv and SpillFaithful, and never forgets a race.
LEMMA NextSpill ==
  ASSUME TypeOK, SpillInv, SpillFaithful, Next
  PROVE  SpillInv' /\ SpillFaithful' /\ raced \subseteq raced'
<1>1. ASSUME NEW c \in Putters, Putter(c) \/ \E o \in Objs, d \in Values : put(c, o, d)
      PROVE  UNCHANGED <<disk, spill>> /\ raced \subseteq raced'
  BY <1>1 DEF Putter, evict_zero_ref_objects, PutRecheck, PutInsert, put, fileVars
<1>2. ASSUME NEW o \in Objs, delete(o) \/ add_reference(o) \/ remove_reference(o)
      PROVE  UNCHANGED <<disk, spill>> /\ raced \subseteq raced'
  BY <1>2 DEF delete, add_reference, remove_reference, fileVars
<1>3. ASSUME NEW p \in Pollers, Poller(p)
      PROVE  UNCHANGED <<disk, spill>> /\ raced \subseteq raced'
  BY <1>3 DEF Poller, Deadline, Poll, fileVars
<1>4. ASSUME NEW p \in Pollers, NEW ids, NEW num_ready, NEW forever,
             wait(p, ids, num_ready, forever)
      PROVE  UNCHANGED <<disk, spill>> /\ raced \subseteq raced'
  BY <1>4 DEF wait, fileVars
<1>5. ASSUME NEW s \in Spillers, Spiller(s)
      PROVE  SpillInv' /\ SpillFaithful' /\ raced \subseteq raced'
  BY <1>5, SpillerFaithful, SpillerHasFrame DEF SpillerFrame
<1>6. ASSUME NEW s \in Spillers, NEW o \in Objs, spill_to_disk(s, o) \/ restore_from_disk(s, o)
      PROVE  SpillInv' /\ SpillFaithful' /\ raced \subseteq raced'
  <2>1. raced \subseteq raced'
    BY <1>6 DEF spill_to_disk, restore_from_disk, Begin
  <2>. QED BY <1>6, <2>1, BeginFaithful
<1>7. ASSUME UNCHANGED <<disk, spill>>, raced \subseteq raced'
      PROVE  SpillInv' /\ SpillFaithful'
  BY Zenon, <1>7, OutsideSpill
<1>. QED BY Zenon, <1>1, <1>2, <1>3, <1>4, <1>5, <1>6, <1>7 DEF Next, get

\* Outside races, only a put changes data.
DataSame(o) ==
  /\ o \in Stored /\ o \in Stored' /\ objects'[o].data # objects[o].data
  => \E c \in Putters : put_[c] # Idle /\ put_[c].obj = o /\ put_'[c] = Idle

\* A restore puts back what the entry holds already.
LEMMA NextData ==
  ASSUME TypeOK, SpillInv, SpillFaithful, Next, NEW o \in Objs, o \notin raced'
  PROVE  DataSame(o)
<1>. SUFFICES ASSUME o \in Stored, o \in Stored', objects'[o].data # objects[o].data
              PROVE  \E c \in Putters : put_[c] # Idle /\ put_[c].obj = o /\ put_'[c] = Idle
  BY DEF DataSame
<1>1. ASSUME NEW c \in Putters, EntryInserted(o, c)
      PROVE  put_[c] # Idle /\ put_[c].obj = o /\ put_'[c] = Idle
  <2>1. put_[c].step = "insert" /\ put_[c].obj = o /\ put_'[c] = Idle
    BY <1>1 DEF EntryInserted, PutInsert, TypeOK
  <2>. QED BY <2>1 DEF Idle
<1>2. ASSUME NEW s \in Spillers, EntryRestored(o, s) PROVE FALSE
  <2>1. spill[s].step = "apply" /\ spill[s].obj = o /\ objects'[o].data = spill[s].data
    BY Zenon, <1>2 DEF EntryRestored, RestoreApply
  <2>2. spill[s] # Idle /\ o \notin raced
    BY <2>1, NextSpill DEF Idle
  <2>3. CallFaithful(s)
    BY Zenon DEF SpillInv
  <2>4. spill[s].data = objects[o].data
    BY <2>1, <2>2, <2>3 DEF CallFaithful
  <2>. QED BY <2>1, <2>4
<1>. QED BY <1>1, <1>2, EntryCases DEF EntrySame, EntryMarked

\* The bytes {x} \X (1 .. n) are n many.
LEMMA Block ==
  ASSUME NEW x, NEW n \in Nat
  PROVE  IsFiniteSet({x} \X (1 .. n)) /\ Cardinality({x} \X (1 .. n)) = n
<1>1. IsFiniteSet({x}) /\ Cardinality({x}) = 1
  BY FS_Singleton
<1>2. IsFiniteSet(1 .. n) /\ Cardinality(1 .. n) = n
  BY FS_Interval
<1>3. /\ IsFiniteSet({x} \X (1 .. n))
      /\ Cardinality({x} \X (1 .. n)) = Cardinality({x}) * Cardinality(1 .. n)
  BY Zenon, <1>1, <1>2, FS_Product
<1>. QED BY <1>1, <1>2, <1>3

\* What two sets cover is at most as large as both together.
LEMMA Cover ==
  ASSUME NEW S, NEW T, NEW U, IsFiniteSet(S), IsFiniteSet(T), U \subseteq S \cup T
  PROVE  Cardinality(U) \in Nat /\ Cardinality(U) <= Cardinality(S) + Cardinality(T)
<1>1. /\ IsFiniteSet(S \cup T)
      /\ Cardinality(S \cup T) = Cardinality(S) + Cardinality(T) - Cardinality(S \cap T)
  BY FS_Union
<1>2. IsFiniteSet(S \cap T)
  BY FS_Subset
<1>3. IsFiniteSet(U) /\ Cardinality(U) <= Cardinality(S \cup T)
  BY <1>1, FS_Subset
<1>4. /\ Cardinality(S) \in Nat /\ Cardinality(T) \in Nat
      /\ Cardinality(S \cap T) \in Nat /\ Cardinality(U) \in Nat
  BY <1>2, <1>3, FS_CardinalityType
<1>. QED BY <1>1, <1>3, <1>4

\* What is outside a part of a set is smaller than the set by that part.
LEMMA Outside ==
  ASSUME NEW S, NEW T, NEW U, IsFiniteSet(S), T \subseteq S, U \subseteq S \ T
  PROVE  Cardinality(U) \in Nat /\ Cardinality(U) + Cardinality(T) <= Cardinality(S)
<1>1. IsFiniteSet(T) /\ S \cap T = T
  BY FS_Subset
<1>2. /\ IsFiniteSet(S \ T)
      /\ Cardinality(S \ T) = Cardinality(S) - Cardinality(T)
  BY Zenon, <1>1, FS_Difference
<1>3. IsFiniteSet(U) /\ Cardinality(U) <= Cardinality(S \ T)
  BY <1>2, FS_Subset
<1>4. Cardinality(S) \in Nat /\ Cardinality(T) \in Nat /\ Cardinality(U) \in Nat
  BY <1>1, <1>3, FS_CardinalityType
<1>. QED BY <1>2, <1>3, <1>4

\* The sizes of what callers put.
LEMMA ValueSize ==
  ASSUME NEW d \in Values
  PROVE  Size[d] \in Nat /\ Size[d] <= MaxSize
BY StoreAssumption DEF Contents

\* The budget and the allowance are numbers.
LEMMA Limits == MaxSize \in Nat /\ Budget \in Nat /\ Allowance \in Nat
<1>1. MaxSize \in Nat /\ Budget \in Nat /\ IsFiniteSet(Putters) /\ Putters # {}
  BY StoreAssumption
<1>2. Cardinality(Putters) \in Nat /\ Cardinality(Putters) # 0
  BY <1>1, FS_CardinalityType, FS_EmptySet
<1>3. PICK n \in Nat : n = Cardinality(Putters) - 1
  BY <1>2
<1>. QED BY <1>1, <1>3 DEF Allowance

\* What is stored, and what is about to be, is finite.
LEMMA BytesFinite ==
  ASSUME TypeOK
  PROVE  /\ IsFiniteSet(Bytes(Stored)) /\ total_size \in Nat
         /\ AdmittedBytes(Admitted) \subseteq Putters \X (1 .. MaxSize)
         /\ IsFiniteSet(AdmittedBytes(Admitted))
         /\ Cardinality(AdmittedBytes(Admitted)) \in Nat
<1>. DEFINE n == MaxSize + Size[Torn]
<1>1. n \in Nat /\ \A d \in Contents : Size[d] \in Nat /\ Size[d] <= n
  BY StoreAssumption DEF Contents
<1>2. Bytes(Stored) \subseteq Objs \X (1 .. n)
  <2>. SUFFICES ASSUME NEW o \in Stored
                PROVE  {o} \X (1 .. Size[objects[o].data]) \subseteq Objs \X (1 .. n)
    BY DEF Bytes
  <2>1. o \in Objs /\ objects[o].data \in Contents
    BY DEF Stored, TypeOK, Entries
  <2>. QED BY <1>1, <2>1
<1>3. IsFiniteSet(Objs \X (1 .. n))
  <2>1. IsFiniteSet(Objs) /\ IsFiniteSet(1 .. n)
    BY <1>1, FS_Interval, StoreAssumption
  <2>. QED BY Zenon, <2>1, FS_Product
<1>4. IsFiniteSet(Bytes(Stored)) /\ total_size \in Nat
  BY <1>2, <1>3, FS_Subset, FS_CardinalityType DEF total_size
<1>5. AdmittedBytes(Admitted) \subseteq Putters \X (1 .. MaxSize)
  <2>. SUFFICES ASSUME NEW c \in Admitted
                PROVE  {c} \X (1 .. Size[put_[c].data]) \subseteq Putters \X (1 .. MaxSize)
    BY DEF AdmittedBytes
  <2>1. c \in Putters /\ put_[c].data \in Values
    BY DEF Admitted, TypeOK, PutCalls, Idle
  <2>2. Size[put_[c].data] \in Nat /\ Size[put_[c].data] <= MaxSize /\ MaxSize \in Nat
    BY <2>1, ValueSize, Limits
  <2>. QED BY <2>1, <2>2
<1>6. IsFiniteSet(Putters \X (1 .. MaxSize))
  <2>1. IsFiniteSet(Putters) /\ IsFiniteSet(1 .. MaxSize)
    BY FS_Interval, StoreAssumption
  <2>. QED BY Zenon, <2>1, FS_Product
<1>. QED BY <1>4, <1>5, <1>6, FS_Subset, FS_CardinalityType

\* Steps that add nothing to the entries or to the admitted puts.
LEMMA BudgetQuiet ==
  ASSUME TypeOK, TypeOK', BudgetInv, raced \subseteq raced',
         raced' = {} => \A o \in Stored' : o \in Stored /\ objects'[o].data = objects[o].data,
         \A c \in Putters : put_'[c].step = "insert" =>
                              put_[c].step = "insert" /\ put_'[c].data = put_[c].data
  PROVE  BudgetInv'
<1>. SUFFICES ASSUME Budget > 0, raced' = {}
              PROVE  total_size' + Cardinality(AdmittedBytes(Admitted))' <= Budget + Allowance
  BY DEF BudgetInv
<1>1. Bytes(Stored)' \subseteq Bytes(Stored)
  BY DEF Bytes
<1>2. AdmittedBytes(Admitted)' \subseteq AdmittedBytes(Admitted)
  BY DEF AdmittedBytes, Admitted
<1>3. total_size' <= total_size
  BY Zenon, <1>1, BytesFinite, FS_Subset DEF total_size
<1>4. Cardinality(AdmittedBytes(Admitted))' <= Cardinality(AdmittedBytes(Admitted))
  BY Zenon, <1>2, BytesFinite, FS_Subset
<1>5. /\ total_size \in Nat /\ total_size' \in Nat
      /\ Cardinality(AdmittedBytes(Admitted)) \in Nat
      /\ Cardinality(AdmittedBytes(Admitted))' \in Nat
  <2>1. total_size \in Nat /\ Cardinality(AdmittedBytes(Admitted)) \in Nat
    BY Zenon, BytesFinite
  <2>2. /\ IsFiniteSet(Bytes(Stored)') /\ IsFiniteSet(AdmittedBytes(Admitted)')
    BY <1>1, <1>2, BytesFinite, FS_Subset
  <2>. QED BY Zenon, <2>1, <2>2, FS_CardinalityType DEF total_size
<1>6. raced = {}
  OBVIOUS
<1>7. total_size + Cardinality(AdmittedBytes(Admitted)) <= Budget + Allowance
  BY <1>6 DEF BudgetInv
<1>. QED BY <1>3, <1>4, <1>5, <1>7, Limits


\* A put that passes its check: with the total it saw, it fits; the other puts
\* in flight are at most all the others, each with an object of the largest size.
LEMMA BudgetAdmit ==
  ASSUME TypeOK, TypeOK', NEW c \in Putters, UNCHANGED objects,
         put_'[c].step = "insert", ~Exceeds(put_'[c].data)
  PROVE  BudgetInv'
<1>. PICK d : d = put_'[c].data
  OBVIOUS
<1>. SUFFICES ASSUME Budget > 0
              PROVE  total_size' + Cardinality(AdmittedBytes(Admitted)') <= Budget + Allowance
  BY DEF BudgetInv
<1>. DEFINE own == {c} \X (1 .. Size[d])
            others == (Putters \ {c}) \X (1 .. MaxSize)
<1>1. d \in Values /\ Size[d] \in Nat
  <2>1. d \in Values
    BY DEF TypeOK, PutCalls, Idle
  <2>. QED BY Zenon, <2>1, ValueSize
<1>2. total_size' = total_size /\ total_size \in Nat
  BY BytesFinite DEF total_size, Bytes, Stored
<1>3. total_size + Size[d] <= Budget
  BY <1>1, <1>2, Limits DEF Exceeds
<1>4. AdmittedBytes(Admitted)' \subseteq own \cup others
  <2>. SUFFICES ASSUME NEW e \in Admitted'
                PROVE  {e} \X (1 .. Size[put_'[e].data]) \subseteq own \cup others
    BY DEF AdmittedBytes
  <2>1. CASE e = c
    BY <2>1
  <2>2. CASE e # c
    <3>1. e \in Putters /\ put_'[e].data \in Values
      BY DEF Admitted, TypeOK, PutCalls, Idle
    <3>2. Size[put_'[e].data] \in Nat /\ Size[put_'[e].data] <= MaxSize
      BY <3>1, ValueSize
    <3>. QED BY <2>2, <3>1, <3>2, Limits
  <2>. QED BY <2>1, <2>2
<1>5. IsFiniteSet(own) /\ Cardinality(own) = Size[d]
  BY Zenon, <1>1, Block
<1>6. IsFiniteSet(others) /\ Cardinality(others) = Allowance
  <2>1. IsFiniteSet(Putters \ {c}) /\ Cardinality(Putters \ {c}) = Cardinality(Putters) - 1
    BY Zenon, FS_RemoveElement, StoreAssumption
  <2>2. IsFiniteSet(1 .. MaxSize) /\ Cardinality(1 .. MaxSize) = MaxSize
    BY Limits, FS_Interval
  <2>3. /\ IsFiniteSet(others)
        /\ Cardinality(others) = Cardinality(Putters \ {c}) * Cardinality(1 .. MaxSize)
    BY Zenon, <2>1, <2>2, FS_Product
  <2>. QED BY Zenon, <2>1, <2>2, <2>3 DEF Allowance
<1>. HIDE DEF own, others
<1>7. /\ Cardinality(AdmittedBytes(Admitted)') \in Nat
      /\ Cardinality(AdmittedBytes(Admitted)') <= Size[d] + Allowance
  BY <1>4, <1>5, <1>6, Cover
<1>. QED BY <1>1, <1>2, <1>3, <1>7, Limits

\* An insertion turns admitted bytes into stored ones.
LEMMA BudgetInsert ==
  ASSUME TypeOK, BudgetInv, NEW c \in Putters, PutInsert(c)
  PROVE  BudgetInv'
<1>. PICK o, d : o = put_[c].obj /\ d = put_[c].data
  OBVIOUS
<1>. DEFINE new == {o} \X (1 .. Size[d])
            own == {c} \X (1 .. Size[d])
<1>1. o \in Objs /\ d \in Values /\ Size[d] \in Nat
  <2>1. o \in Objs /\ d \in Values
    <3>1. put_[c] \in PutCalls /\ put_[c].step = "insert"
      BY DEF PutInsert, TypeOK
    <3>. QED BY <3>1 DEF PutCalls, Idle
  <2>. QED BY <2>1, ValueSize
<1>. SUFFICES ASSUME Budget > 0, raced' = {}
              PROVE  total_size' + Cardinality(AdmittedBytes(Admitted)') <= Budget + Allowance
  BY DEF BudgetInv
<1>2. raced = {}
  BY DEF PutInsert
<1>3. total_size + Cardinality(AdmittedBytes(Admitted)) <= Budget + Allowance
  BY <1>2 DEF BudgetInv
<1>4. Bytes(Stored)' \subseteq Bytes(Stored) \cup new
  <2>. SUFFICES ASSUME NEW x \in Stored'
                PROVE  {x} \X (1 .. Size[objects'[x].data]) \subseteq Bytes(Stored) \cup new
    BY DEF Bytes
  <2>1. CASE x = o
    <3>1. objects'[x] = [data |-> d, ref_count |-> 1, is_spilled |-> FALSE]
      BY <1>1, <2>1 DEF PutInsert, SetObjects, TypeOK
    <3>2. objects'[x].data = d
      BY <3>1
    <3>. QED BY <2>1, <3>2
  <2>2. CASE x # o
    <3>1. objects'[x] = objects[x] /\ x \in Stored
      BY <2>2 DEF PutInsert, SetObjects, TypeOK, Stored
    <3>. QED BY <3>1 DEF Bytes
  <2>. QED BY <2>1, <2>2
<1>5. /\ own \subseteq AdmittedBytes(Admitted)
      /\ AdmittedBytes(Admitted)' \subseteq AdmittedBytes(Admitted) \ own
  <2>1. c \in Admitted
    BY Zenon DEF PutInsert, Admitted
  <2>2. Admitted' \subseteq Admitted \ {c} /\ \A e \in Putters \ {c} : put_'[e] = put_[e]
    BY DEF PutInsert, Admitted, Idle, TypeOK
  <2>3. Admitted \subseteq Putters
    BY DEF Admitted
  <2>4. ASSUME NEW e \in Admitted'
        PROVE  {e} \X (1 .. Size[put_'[e].data]) \subseteq AdmittedBytes(Admitted) \ own
    <3>1. e \in Admitted /\ e # c /\ put_'[e] = put_[e]
      BY Zenon, <2>2, <2>3
    <3>. QED BY <3>1 DEF AdmittedBytes
  <2>5. AdmittedBytes(Admitted)' \subseteq AdmittedBytes(Admitted) \ own
    <3>. SUFFICES ASSUME NEW x \in AdmittedBytes(Admitted)'
                  PROVE  x \in AdmittedBytes(Admitted) \ own
      OBVIOUS
    <3>1. PICK e \in Admitted' : x \in {e} \X (1 .. Size[put_'[e].data])
      BY DEF AdmittedBytes
    <3>. QED BY <2>4, <3>1
  <2>. QED BY <2>1, <2>5 DEF AdmittedBytes
<1>6. /\ IsFiniteSet(new) /\ Cardinality(new) = Size[d]
      /\ IsFiniteSet(own) /\ Cardinality(own) = Size[d]
  BY Zenon, <1>1, Block
<1>. HIDE DEF new, own
<1>7. /\ IsFiniteSet(Bytes(Stored)) /\ Cardinality(Bytes(Stored)) \in Nat
      /\ IsFiniteSet(AdmittedBytes(Admitted))
      /\ Cardinality(AdmittedBytes(Admitted)) \in Nat
  BY Zenon, BytesFinite DEF total_size
<1>8. /\ Cardinality(Bytes(Stored)') <= Cardinality(Bytes(Stored)) + Size[d]
      /\ Cardinality(Bytes(Stored)') \in Nat
  BY Zenon, <1>4, <1>6, <1>7, Cover
<1>9. /\ Cardinality(AdmittedBytes(Admitted)') + Size[d] <= Cardinality(AdmittedBytes(Admitted))
      /\ Cardinality(AdmittedBytes(Admitted)') \in Nat
  BY <1>5, <1>6, <1>7, Outside
<1>. QED BY <1>1, <1>3, <1>7, <1>8, <1>9, Limits DEF total_size


\* Every step keeps BudgetInv.
LEMMA NextBudget ==
  ASSUME TypeOK, TypeOK', SpillInv, SpillFaithful, BudgetInv, Next
  PROVE  BudgetInv'
<1>1. raced \subseteq raced'
  BY NextSpill
<1>2. ASSUME NEW c \in Putters, NEW o \in Objs, NEW d \in Values, put(c, o, d) PROVE BudgetInv'
  <2>1. /\ UNCHANGED objects /\ put_'[c].data = d
        /\ put_'[c].step = IF Exceeds(d) THEN "evict" ELSE "insert"
        /\ \A e \in Putters \ {c} : put_'[e] = put_[e]
    BY Zenon, <1>2 DEF put, TypeOK
  <2>2. CASE Exceeds(d)
    BY Zenon, <1>1, <2>1, <2>2, BudgetQuiet DEF Stored
  <2>3. CASE ~Exceeds(d)
    BY <2>1, <2>3, BudgetAdmit
  <2>. QED BY <2>2, <2>3
<1>3. ASSUME NEW c \in Putters, evict_zero_ref_objects(c) PROVE BudgetInv'
  <2>1. \A o \in Stored' : o \in Stored /\ objects'[o].data = objects[o].data
    BY <1>3 DEF evict_zero_ref_objects, SetObjects, Stored
  <2>2. put_'[c] = [put_[c] EXCEPT !.step = "recheck"] /\ put_[c].step = "evict"
    BY <1>3 DEF evict_zero_ref_objects, TypeOK
  <2>3. put_'[c].step = "recheck"
    BY <2>2 DEF TypeOK, PutCalls, Idle
  <2>4. \A e \in Putters \ {c} : put_'[e] = put_[e]
    BY <1>3 DEF evict_zero_ref_objects, TypeOK
  <2>. QED BY <1>1, <2>1, <2>3, <2>4, BudgetQuiet
<1>4. ASSUME NEW c \in Putters, PutRecheck(c) PROVE BudgetInv'
  <2>1. UNCHANGED objects /\ \A e \in Putters \ {c} : put_'[e] = put_[e]
    BY <1>4 DEF PutRecheck, storeVars, TypeOK
  <2>2. CASE Exceeds(put_[c].data)
    <3>1. put_'[c] = Idle
      BY <1>4, <2>2 DEF PutRecheck, TypeOK
    <3>2. put_'[c].step # "insert"
      BY <3>1 DEF Idle
    <3>. QED BY <1>1, <2>1, <3>2, BudgetQuiet DEF Stored
  <2>3. CASE ~Exceeds(put_[c].data)
    <3>1. put_'[c] = [put_[c] EXCEPT !.step = "insert"] /\ put_[c].step = "recheck"
      BY <1>4, <2>3 DEF PutRecheck, TypeOK
    <3>2. put_'[c].step = "insert" /\ put_'[c].data = put_[c].data
      BY <3>1 DEF TypeOK, PutCalls, Idle
    <3>. QED BY <2>1, <2>3, <3>2, BudgetAdmit
  <2>. QED BY <2>2, <2>3
<1>5. ASSUME NEW c \in Putters, PutInsert(c) PROVE BudgetInv'
  BY <1>5, BudgetInsert
<1>6. ASSUME UNCHANGED put_ PROVE BudgetInv'
  <2>1. ASSUME NEW o \in Stored', raced' = {}
        PROVE  o \in Stored /\ objects'[o].data = objects[o].data
    <3>1. o \in Objs
      BY DEF Stored
    <3>2. ASSUME NEW c \in Putters, put_[c] # Idle, put_'[c] = Idle PROVE FALSE
      BY <1>6, <3>2
    <3>3. ASSUME NEW c \in Putters, EntryInserted(o, c) PROVE FALSE
      <4>1. put_[c].step = "insert" /\ put_'[c] = Idle
        BY Zenon, <3>3 DEF EntryInserted, PutInsert, TypeOK
      <4>. QED BY <3>2, <4>1 DEF Idle
    <3>4. o \in Stored
      BY <3>1, <3>3, EntryCases DEF EntryKept
    <3>. QED BY <2>1, <3>1, <3>2, <3>4, NextData DEF DataSame
  <2>. QED BY <1>1, <1>6, <2>1, BudgetQuiet
<1>7. ASSUME NEW o \in Objs, delete(o) \/ add_reference(o) \/ remove_reference(o)
      PROVE  UNCHANGED put_
  BY <1>7 DEF delete, add_reference, remove_reference
<1>8. ASSUME NEW p \in Pollers, Poller(p) PROVE UNCHANGED put_
  BY <1>8 DEF Poller, Deadline, Poll
<1>9. ASSUME NEW p \in Pollers, NEW ids, NEW num_ready, NEW forever,
             wait(p, ids, num_ready, forever)
      PROVE  UNCHANGED put_
  BY <1>9 DEF wait
<1>10. ASSUME NEW s \in Spillers,
              Spiller(s) \/ \E o \in Objs : spill_to_disk(s, o) \/ restore_from_disk(s, o)
       PROVE  UNCHANGED put_
  BY Zenon, <1>10 DEF Spiller, SpillOpen, SpillOpenErr, SpillWrite, SpillWriteErr, SpillMark,
               RestoreRead, RestoreReadErr, RestoreApply, RestoreRemove,
               spill_to_disk, restore_from_disk
<1>. QED BY Zenon, <1>2, <1>3, <1>4, <1>5, <1>6, <1>7, <1>8, <1>9, <1>10 DEF Next, Putter, get

\* An empty store, no calls.
LEMMA InitIInv ==
  ASSUME Init
  PROVE  IInv
<1>1. TypeOK
  BY DEF Init, TypeOK, PutCalls, PollCalls, SpillCalls
<1>2. Stored = {}
  BY DEF Init, Stored
<1>3. Admitted = {}
  BY DEF Init, Admitted, Idle
<1>4. total_size = 0 /\ Cardinality(AdmittedBytes(Admitted)) = 0
  <2>1. Bytes(Stored) = {} /\ AdmittedBytes(Admitted) = {}
    BY <1>2, <1>3 DEF Bytes, AdmittedBytes
  <2>. QED BY <2>1, FS_EmptySet DEF total_size
<1>5. BudgetInv
  BY <1>4, Limits DEF BudgetInv
<1>6. RefsPositive /\ SpillFaithful
  BY Zenon, <1>2 DEF RefsPositive, SpillFaithful
<1>7. SpillInv
  BY DEF Init, SpillInv, CallFaithful
<1>8. PollInv /\ PollSeesStored
  BY DEF Init, PollInv, PollSeesStored, Idle
<1>. QED BY Zenon, <1>1, <1>5, <1>6, <1>7, <1>8 DEF IInv

\* Steps, and stuttering, keep the inductive invariant.
LEMMA NextIInv ==
  ASSUME IInv, [Next]_vars
  PROVE  IInv'
<1>1. CASE Next
  BY <1>1, NextTypeOK, NextRefs, NextSpill, NextBudget, NextPoll DEF IInv
<1>2. CASE UNCHANGED vars
  <2>1. TypeOK' /\ RefsPositive'
    BY <1>2 DEF IInv, vars, TypeOK, RefsPositive, Stored
  <2>2. \A o : FileFaithful(o)' = FileFaithful(o)
    BY Zenon, <1>2 DEF vars, FileFaithful, Writing
  <2>3. SpillFaithful' /\ SpillInv'
    BY Zenon, <1>2, <2>2 DEF IInv, vars, SpillFaithful, SpillInv, CallFaithful, Stored
  <2>4. BudgetInv'
    BY Zenon, <1>2 DEF IInv, vars, BudgetInv, total_size, Bytes, Stored, AdmittedBytes, Admitted
  <2>5. PollInv' /\ PollSeesStored'
    BY <1>2 DEF IInv, vars, PollInv, PollSeesStored, Stored
  <2>. QED BY <2>1, <2>3, <2>4, <2>5 DEF IInv
<1>. QED BY <1>1, <1>2

-----------------------------------------------------------------------------
\* IInv is an invariant of the store.
THEOREM Invariance == Spec => []IInv
<1>. QED BY InitIInv, NextIInv, PTL DEF Spec

\* Every variable keeps its type: no operation stores data, a count or a mark
\* of another kind, and restores never apply the data of a file that is missing.
THEOREM TypeCorrect == Spec => []TypeOK
<1>1. IInv => TypeOK
  BY DEF IInv
<1>. QED BY <1>1, Invariance, PTL

\* remove_reference never leaves an entry without references behind.
THEOREM RefsStayPositive == Spec => []RefsPositive
<1>1. IInv => RefsPositive
  BY DEF IInv
<1>. QED BY <1>1, Invariance, PTL

\* put's check bounds how far concurrent puts exceed max_memory_bytes.
THEOREM BudgetOvershoot == Spec => []OvershootBounded
<1>1. IInv => OvershootBounded
  <2>. SUFFICES ASSUME IInv, Budget > 0, raced = {}
                PROVE  total_size <= Budget + Allowance
    BY DEF OvershootBounded
  <2>1. total_size \in Nat /\ Cardinality(AdmittedBytes(Admitted)) \in Nat
    BY BytesFinite DEF IInv
  <2>2. total_size + Cardinality(AdmittedBytes(Admitted)) <= Budget + Allowance
    BY DEF IInv, BudgetInv
  <2>. QED BY <2>1, <2>2, Limits
<1>. QED BY <1>1, Invariance, PTL

\* A marked object has its data in its file unless its spills raced.
THEOREM SpillsFaithful == Spec => []SpillFaithful
<1>1. IInv => SpillFaithful
  BY DEF IInv
<1>. QED BY <1>1, Invariance, PTL

\* get and wait report what was there throughout.
THEOREM PollsSeeStored == Spec => []PollSeesStored
<1>1. IInv => PollSeesStored
  BY DEF IInv
<1>. QED BY <1>1, Invariance, PTL

\* Spills and restores that are under way do not bring a deleted object back.
THEOREM DeletedStaysGone == Spec => GoneStaysGone
<1>. DEFINE Gone == \A o \in Objs :
       o \notin Stored /\ (\A c \in Putters : put_[c] # Idle => put_[c].obj # o)
         => o \notin Stored'
<1>1. IInv /\ [Next]_vars => [Gone]_vars
  <2>. SUFFICES ASSUME IInv, Next, NEW o \in Objs, o \notin Stored, o \in Stored'
                PROVE  \E c \in Putters : put_[c] # Idle /\ put_[c].obj = o
    OBVIOUS
  <2>1. PICK c \in Putters : EntryInserted(o, c)
    BY Zenon, EntryCases DEF EntryKept, IInv
  <2>2. put_[c].step = "insert" /\ put_[c].obj = o
    BY <2>1 DEF EntryInserted, PutInsert
  <2>. QED BY <2>2 DEF Idle
<1>. QED BY <1>1, Invariance, PTL DEF Spec, GoneStaysGone

\* A restore brings back the data the entry holds, unless it raced.
THEOREM RestoresFaithful == Spec => RestoreFaithful
<1>. DEFINE Faithful == \A o \in Objs \ raced' :
       /\ o \in Stored /\ o \in Stored' /\ objects'[o].data # objects[o].data
       => \E c \in Putters : put_[c] # Idle /\ put_[c].obj = o /\ put_'[c] = Idle
<1>1. IInv /\ [Next]_vars => [Faithful]_vars
  BY NextData DEF IInv, DataSame
<1>. QED BY <1>1, Invariance, PTL DEF Spec, RestoreFaithful
=============================================================================
