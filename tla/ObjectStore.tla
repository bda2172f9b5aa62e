---------------------------- MODULE ObjectStore ----------------------------
(***************************************************************************)
(* InMemoryObjectStore (store.rs).  The objects are behind one RwLock that *)
(* is held for one lookup or update at a time, so every lock section is a  *)
(* step, and the calls of different threads interleave between sections;   *)
(* put takes up to four of them, spilling and restoring also touch a file  *)
(* while no lock is held.                                                  *)
(*                                                                         *)
(* Callers of put, of get and wait, and of spill and restore are three     *)
(* sets of processes, each of which makes one call at a time; delete and   *)
(* the reference counts are single sections that anyone may call.  All     *)
(* spills go to one directory, so an object has one spill file.            *)
(***************************************************************************)
EXTENDS Naturals, FiniteSets

CONSTANTS Objs,       \* object ids
          Values,     \* what callers put
          Size,       \* Size[d]: number of bytes
          MaxSize,    \* bound on the size of what callers put
          Budget,     \* max_memory_bytes; 0 is unlimited
          MaxRefs,    \* bound on reference counts (u32 in the code)
          PutOnce,    \* callers put every id at most once
          Putters, Pollers, Spillers,
          Torn,       \* file contents that are not what a spill wrote
          None        \* no entry, no file, no data

Contents == Values \cup {Torn}

ASSUME StoreAssumption ==
  /\ IsFiniteSet(Objs) /\ IsFiniteSet(Putters) /\ Putters # {}
  /\ Size \in [Contents -> Nat]
  /\ MaxSize \in Nat /\ \A d \in Values : Size[d] <= MaxSize
  /\ Budget \in Nat
  /\ MaxRefs \in Nat \ {0}
  /\ PutOnce \in BOOLEAN
  /\ Torn \notin Values /\ None \notin Contents

VARIABLES
  objects,  \* the map; None where there is no entry
  disk,     \* the spill file of every object
  put_,     \* the put call of every putter
  poll,     \* the get or wait call of every poller
  spill,    \* the spill or restore call of every spiller
  used,     \* the ids put was called with, if PutOnce
  raced     \* the ids of which a spill or restore failed half way, or overlapped
            \* another one or an insertion

storeVars == <<objects, used>>
fileVars  == <<disk, spill, raced>>
vars == <<objects, used, disk, spill, raced, put_, poll>>

\* is_spilled and spill_url are always set together.
Entries == [data : Contents, ref_count : Nat, is_spilled : BOOLEAN]

Stored == {o \in Objs : objects[o] # None}

\* One element per byte stored.
Bytes(S) == UNION {{o} \X (1 .. Size[objects[o].data]) : o \in S}
total_size == Cardinality(Bytes(Stored))

Idle == [step |-> "idle"]

Busy(o) == \E s \in Spillers : spill[s] # Idle /\ spill[s].obj = o

Init ==
  /\ objects = [o \in Objs |-> None]
  /\ disk = [o \in Objs |-> None]
  /\ put_ = [c \in Putters |-> Idle]
  /\ poll = [p \in Pollers |-> Idle]
  /\ spill = [s \in Spillers |-> Idle]
  /\ used = {}
  /\ raced = {}

\* `objects` becomes m.  The polls in progress take note of what disappears.
SetObjects(m) ==
  /\ objects' = m
  /\ poll' = [p \in Pollers |->
                IF poll[p].step = "polling"
                  THEN [poll[p] EXCEPT !.sure = {o \in @ : m[o] # None}] ELSE poll[p]]

-----------------------------------------------------------------------------
(***************************************************************************)
(* put                                                                     *)
(***************************************************************************)
Exceeds(d) == Budget > 0 /\ total_size + Size[d] > Budget

put(c, o, d) ==
  /\ put_[c] = Idle
  /\ PutOnce => o \notin used
  /\ used' = IF PutOnce THEN used \cup {o} ELSE used
  /\ put_' = [put_ EXCEPT ![c] = [step |-> IF Exceeds(d) THEN "evict" ELSE "insert",
                                  obj |-> o, data |-> d]]
  /\ UNCHANGED <<objects, fileVars, poll>>

evict_zero_ref_objects(c) ==
  /\ put_[c].step = "evict"
  /\ put_' = [put_ EXCEPT ![c].step = "recheck"]
  /\ SetObjects([o \in Objs |-> IF o \in Stored /\ objects[o].ref_count = 0
                                  THEN None ELSE objects[o]])
  /\ UNCHANGED <<used, fileVars>>

\* Mutant: put does not look again after the eviction.
PutRecheck_Skip(c) ==
  /\ put_[c].step = "recheck"
  /\ put_' = [put_ EXCEPT ![c].step = "insert"]
  /\ UNCHANGED <<storeVars, fileVars, poll>>

PutRecheck(c) ==
  /\ put_[c].step = "recheck"
  /\ put_' = [put_ EXCEPT ![c] = IF Exceeds(put_[c].data) THEN Idle
                                 ELSE [put_[c] EXCEPT !.step = "insert"]]
  /\ UNCHANGED <<storeVars, fileVars, poll>>

\* The new entry replaces any there was.
PutInsert(c) ==
  LET o == put_[c].obj
      d == put_[c].data
  IN
  /\ put_[c].step = "insert"
  /\ put_' = [put_ EXCEPT ![c] = Idle]
  /\ SetObjects([objects EXCEPT ![o] = [data |-> d, ref_count |-> 1, is_spilled |-> FALSE]])
  /\ raced' = IF Busy(o) THEN raced \cup {o} ELSE raced
  /\ UNCHANGED <<used, disk, spill>>

-----------------------------------------------------------------------------
(***************************************************************************)
(* delete and the reference counts                                         *)
(***************************************************************************)
delete(o) ==
  /\ o \in Stored
  /\ SetObjects([objects EXCEPT ![o] = None])
  /\ UNCHANGED <<used, fileVars, put_>>

add_reference(o) ==
  /\ o \in Stored
  /\ objects[o].ref_count < MaxRefs
  /\ SetObjects([objects EXCEPT ![o].ref_count = @ + 1])
  /\ UNCHANGED <<used, fileVars, put_>>

\* Mutant: an entry without references is left to the next eviction.
remove_reference_Keep(o) ==
  /\ o \in Stored /\ objects[o].ref_count > 0
  /\ SetObjects([objects EXCEPT ![o].ref_count = @ - 1])
  /\ UNCHANGED <<used, fileVars, put_>>

\* saturating_sub(1); an entry that reaches zero is removed.
remove_reference(o) ==
  LET entry == objects[o] IN
  /\ o \in Stored
  /\ SetObjects([objects EXCEPT ![o] =
                   IF entry.ref_count <= 1 THEN None
                   ELSE [entry EXCEPT !.ref_count = entry.ref_count - 1]])
  /\ UNCHANGED <<used, fileVars, put_>>

-----------------------------------------------------------------------------
(***************************************************************************)
(* get and wait.  get(o) does what wait does for the one id o and one      *)
(* ready object: look first, then give up if the deadline has passed, then *)
(* sleep.  A negative timeout becomes a huge one (timeout_ms as u64).      *)
(* `sure` are the ids that were stored without a break since the call.     *)
(***************************************************************************)
wait(p, ids, num_ready, forever) ==
  /\ poll[p].step # "polling"
  /\ poll' = [poll EXCEPT ![p] =
                [step |-> "polling", ids |-> ids, num_ready |-> num_ready,
                 forever |-> forever, expired |-> FALSE, sure |-> ids \cap Stored]]
  /\ UNCHANGED <<storeVars, fileVars, put_>>

get(p, o, forever) == wait(p, {o}, 1, forever)

Deadline(p) ==
  /\ poll[p].step = "polling" /\ ~poll[p].forever /\ ~poll[p].expired
  /\ poll' = [poll EXCEPT ![p].expired = TRUE]
  /\ UNCHANGED <<storeVars, fileVars, put_>>

Ready(p) == poll[p].ids \cap Stored

\* Mutant: the deadline is checked before the look.
Poll_DeadlineFirst(p) ==
  /\ poll[p].step = "polling"
  /\ Cardinality(Ready(p)) >= poll[p].num_ready \/ poll[p].expired
  /\ poll' = [poll EXCEPT ![p] =
                [step |-> "returned", num_ready |-> poll[p].num_ready,
                 expired |-> poll[p].expired, sure |-> poll[p].sure,
                 reply |-> IF poll[p].expired THEN {} ELSE Ready(p)]]
  /\ UNCHANGED <<storeVars, fileVars, put_>>

\* Mutant: the deadline is not checked at all.
Poll_NoDeadline(p) ==
  /\ poll[p].step = "polling"
  /\ Cardinality(Ready(p)) >= poll[p].num_ready
  /\ poll' = [poll EXCEPT ![p] =
                [step |-> "returned", num_ready |-> poll[p].num_ready,
                 expired |-> poll[p].expired, sure |-> poll[p].sure, reply |-> Ready(p)]]
  /\ UNCHANGED <<storeVars, fileVars, put_>>

Poll(p) ==
  /\ poll[p].step = "polling"
  /\ Cardinality(Ready(p)) >= poll[p].num_ready \/ poll[p].expired
  /\ poll' = [poll EXCEPT ![p] =
                [step |-> "returned", num_ready |-> poll[p].num_ready,
                 expired |-> poll[p].expired, sure |-> poll[p].sure, reply |-> Ready(p)]]
  /\ UNCHANGED <<storeVars, fileVars, put_>>

-----------------------------------------------------------------------------
(***************************************************************************)
(* spill_to_disk.  fs::write truncates the file, then writes; each part    *)
(* may fail.  `file` says what became of the opened file meanwhile: a      *)
(* spiller that is "alone" with it writes what it means to; two that have  *)
(* it open together may leave a mixture; a file removed by a restore is    *)
(* written to no effect.                                                   *)
(***************************************************************************)
Goto(s, step) == spill' = [spill EXCEPT ![s].step = step]
Return(s)     == spill' = [spill EXCEPT ![s] = Idle]

\* Those who have the present spill file of o open.
Writing(o) == {s \in Spillers : /\ spill[s].step = "write"
                                /\ spill[s].obj = o /\ spill[s].file # "unlinked"}

Begin(s, o, step, d) ==
  /\ spill[s] = Idle
  /\ spill' = [spill EXCEPT ![s] = [step |-> step, obj |-> o, data |-> d, file |-> "alone"]]
  /\ raced' = IF Busy(o) THEN raced \cup {o} ELSE raced

spill_to_disk(s, o) ==
  /\ o \in Stored
  /\ Begin(s, o, "open", objects[o].data)
  /\ UNCHANGED <<storeVars, disk, put_, poll>>

SpillOpen(s) ==
  LET o == spill[s].obj IN
  /\ spill[s].step = "open"
  /\ disk' = [disk EXCEPT ![o] = Torn]
  /\ spill' = [q \in Spillers |->
                 IF q = s THEN [spill[s] EXCEPT !.step = "write",
                                !.file = IF Writing(o) = {} THEN "alone" ELSE "shared"]
                 ELSE IF q \in Writing(o) THEN [spill[q] EXCEPT !.file = "shared"]
                 ELSE spill[q]]
  /\ UNCHANGED <<storeVars, raced, put_, poll>>

\* create_dir_all or the opening of the file fails.
SpillOpenErr(s) ==
  /\ spill[s].step = "open"
  /\ Return(s)
  /\ UNCHANGED <<storeVars, disk, raced, put_, poll>>

\* Mutant: write instead of write_all, which may write less.
Written_Short(s) ==
  IF spill[s].file = "unlinked" THEN {disk[spill[s].obj]} ELSE {spill[s].data, Torn}

Written(s) ==
  CASE spill[s].file = "alone"    -> {spill[s].data}
    [] spill[s].file = "shared"   -> {spill[s].data, Torn}
    [] spill[s].file = "unlinked" -> {disk[spill[s].obj]}

SpillWrite(s) ==
  /\ spill[s].step = "write"
  /\ \E d \in Written(s) : disk' = [disk EXCEPT ![spill[s].obj] = d]
  /\ Goto(s, "mark")
  /\ UNCHANGED <<storeVars, raced, put_, poll>>

SpillWriteErr(s) ==
  LET o == spill[s].obj IN
  /\ spill[s].step = "write"
  /\ disk' = [disk EXCEPT ![o] = IF spill[s].file = "unlinked" THEN @ ELSE Torn]
  /\ raced' = raced \cup {o}
  /\ Return(s)
  /\ UNCHANGED <<storeVars, put_, poll>>

SpillMark(s) ==
  LET o == spill[s].obj IN
  /\ spill[s].step = "mark"
  /\ Return(s)
  /\ SetObjects(IF o \in Stored THEN [objects EXCEPT ![o].is_spilled = TRUE] ELSE objects)
  /\ UNCHANGED <<used, disk, raced, put_>>

-----------------------------------------------------------------------------
(***************************************************************************)
(* restore_from_disk                                                       *)
(***************************************************************************)
restore_from_disk(s, o) ==
  /\ o \in Stored /\ objects[o].is_spilled
  /\ Begin(s, o, "read", None)
  /\ UNCHANGED <<storeVars, disk, put_, poll>>

RestoreRead(s) ==
  LET o == spill[s].obj IN
  /\ spill[s].step = "read"
  /\ disk[o] # None
  /\ spill' = [spill EXCEPT ![s].step = "apply", ![s].data = disk[o]]
  /\ UNCHANGED <<storeVars, disk, raced, put_, poll>>

\* The file is gone, or reading it fails.
RestoreReadErr(s) ==
  /\ spill[s].step = "read"
  /\ Return(s)
  /\ UNCHANGED <<storeVars, disk, raced, put_, poll>>

\* Mutant: the entry keeps its spill_url.
RestoreApply_KeepsUrl(s) ==
  LET o == spill[s].obj IN
  /\ spill[s].step = "apply"
  /\ Goto(s, "remove")
  /\ SetObjects(IF o \in Stored THEN [objects EXCEPT ![o].data = spill[s].data] ELSE objects)
  /\ UNCHANGED <<used, disk, raced, put_>>

\* Mutant: the entry is inserted when it is gone.
RestoreApply_Insert(s) ==
  LET o == spill[s].obj IN
  /\ spill[s].step = "apply"
  /\ Goto(s, "remove")
  /\ SetObjects([objects EXCEPT ![o] =
                   [data |-> spill[s].data, ref_count |-> 1, is_spilled |-> FALSE]])
  /\ UNCHANGED <<used, disk, raced, put_>>

RestoreApply(s) ==
  LET o == spill[s].obj IN
  /\ spill[s].step = "apply"
  /\ Goto(s, "remove")
  /\ SetObjects(IF o \in Stored
                  THEN [objects EXCEPT ![o].data = spill[s].data, ![o].is_spilled = FALSE]
                  ELSE objects)
  /\ UNCHANGED <<used, disk, raced, put_>>

\* remove_file: whoever has the file open keeps writing to a file without a
\* name.  Its result is ignored, so it may also fail.
RestoreRemove(s) ==
  LET o == spill[s].obj IN
  /\ spill[s].step = "remove"
  /\ \/ /\ disk' = [disk EXCEPT ![o] = None]
        /\ spill' = [q \in Spillers |->
                       IF q = s THEN Idle
                       ELSE IF q \in Writing(o) THEN [spill[q] EXCEPT !.file = "unlinked"]
                       ELSE spill[q]]
     \/ /\ disk' = disk
        /\ Return(s)
  /\ UNCHANGED <<storeVars, raced, put_, poll>>

-----------------------------------------------------------------------------
Putter(c) == evict_zero_ref_objects(c) \/ PutRecheck(c) \/ PutInsert(c)
Poller(p) == Deadline(p) \/ Poll(p)
Spiller(s) ==
  \/ SpillOpen(s) \/ SpillOpenErr(s) \/ SpillWrite(s) \/ SpillWriteErr(s) \/ SpillMark(s)
  \/ RestoreRead(s) \/ RestoreReadErr(s) \/ RestoreApply(s) \/ RestoreRemove(s)

Next ==
  \/ \E c \in Putters : Putter(c) \/ \E o \in Objs, d \in Values : put(c, o, d)
  \/ \E o \in Objs : delete(o) \/ add_reference(o) \/ remove_reference(o)
  \/ \E p \in Pollers :
       \/ Poller(p)
       \/ \E o \in Objs, forever \in BOOLEAN : get(p, o, forever)
       \/ \E ids \in SUBSET Objs, forever \in BOOLEAN :
            \E num_ready \in 0 .. Cardinality(ids) + 1 : wait(p, ids, num_ready, forever)
  \/ \E s \in Spillers :
       Spiller(s) \/ \E o \in Objs : spill_to_disk(s, o) \/ restore_from_disk(s, o)

Spec == Init /\ [][Next]_vars

\* Threads are scheduled, file operations end and time passes.  Nothing
\* obliges anyone to make a call.
FairSpec ==
  /\ Spec
  /\ \A c \in Putters : WF_vars(Putter(c))
  /\ \A p \in Pollers : WF_vars(Deadline(p)) /\ WF_vars(Poll(p))
  /\ \A s \in Spillers : WF_vars(Spiller(s))

-----------------------------------------------------------------------------
PutCalls ==
  {Idle} \cup [step : {"evict", "recheck", "insert"}, obj : Objs, data : Values]
PollCalls ==
  {Idle}
  \cup [step : {"polling"}, ids : SUBSET Objs, num_ready : Nat, forever : BOOLEAN,
        expired : BOOLEAN, sure : SUBSET Objs]
  \cup [step : {"returned"}, num_ready : Nat, expired : BOOLEAN, sure : SUBSET Objs,
        reply : SUBSET Objs]
SpillCalls ==
  {Idle}
  \cup [step : {"open", "write", "mark", "apply", "remove"}, obj : Objs,
        data : Contents, file : {"alone", "shared", "unlinked"}]
  \cup [step : {"read"}, obj : Objs, data : {None}, file : {"alone"}]

TypeOK ==
  /\ objects \in [Objs -> Entries \cup {None}]
  /\ disk \in [Objs -> Contents \cup {None}]
  /\ put_ \in [Putters -> PutCalls]
  /\ poll \in [Pollers -> PollCalls]
  /\ spill \in [Spillers -> SpillCalls]
  /\ used \subseteq Objs
  /\ raced \subseteq Objs

\* No stored object has reference count zero: remove_reference removes it in
\* the same section.  So the eviction that put falls back on never frees a
\* byte, and a put that does not fit at first fails.
RefsPositive == \A o \in Stored : objects[o].ref_count > 0

\* Room for one object per putter beside the first.
Allowance == (Cardinality(Putters) - 1) * MaxSize

\* The memory budget is exceeded by at most one object per put in flight
\* beside the first: each checks the total before it inserts, but does not
\* see what the others are about to insert.  (A restore that brings back other
\* data than the entry holds does not check the budget at all.)
OvershootBounded ==
  Budget > 0 /\ raced = {} => total_size <= Budget + Allowance

\* An object that was deleted or evicted does not come back unless it is put
\* again: neither marking nor restoring inserts an entry.
GoneStaysGone ==
  [][\A o \in Objs :
       o \notin Stored /\ (\A c \in Putters : put_[c] # Idle => put_[c].obj # o)
         => o \notin Stored']_vars

\* The spill file holds the data of the entry, unless a spill is rewriting it.
FileFaithful(o) == objects[o].is_spilled /\ Writing(o) = {} => disk[o] = objects[o].data

\* As long as the spills and restores of an object come one after the other,
\* none overlaps a put of it and no write fails: an object marked as spilled
\* has its data in its file...
SpillFaithful == \A o \in Stored \ raced : FileFaithful(o)

\* ... and nothing but a put changes the data of a stored object.
RestoreFaithful ==
  [][\A o \in Objs \ raced' :
       /\ o \in Stored /\ o \in Stored' /\ objects'[o].data # objects[o].data
       => \E c \in Putters : put_[c] # Idle /\ put_[c].obj = o /\ put_'[c] = Idle]_vars

\* get and wait report every object that was stored throughout the call, even
\* if the deadline passes before the first look.
PollSeesStored ==
  \A p \in Pollers : poll[p].step = "returned" => poll[p].sure \subseteq poll[p].reply

\* What is about to be inserted, one element per byte.
Admitted == {c \in Putters : put_[c].step = "insert"}
AdmittedBytes(A) == UNION {{c} \X (1 .. Size[put_[c].data]) : c \in A}

\* OvershootBounded, with the puts that have passed their check counted in.
BudgetInv ==
  Budget > 0 /\ raced = {} =>
    total_size + Cardinality(AdmittedBytes(Admitted)) <= Budget + Allowance

\* The one spill or restore of an object that never raced: its copy is the
\* object's data, and the file is what the step says.
CallFaithful(s) ==
  LET call == spill[s]
      o    == call.obj
  IN
  call # Idle /\ o \notin raced =>
    /\ \A q \in Spillers : spill[q] # Idle /\ spill[q].obj = o => q = s
    /\ call.step = "write" => call.file = "alone"
    /\ call.step = "mark" => disk[o] = call.data
    /\ o \in Stored =>
         /\ call.step \in {"open", "write", "mark", "apply"} => call.data = objects[o].data
         /\ call.step \in {"read", "apply"} => objects[o].is_spilled
         /\ call.step = "remove" => ~objects[o].is_spilled
SpillInv == \A s \in Spillers : CallFaithful(s)

\* What a poll is sure of is there.
PollInv ==
  \A p \in Pollers :
    poll[p].step = "polling" => poll[p].sure \subseteq poll[p].ids \cap Stored

\* The invariants of the store together with what makes them inductive.
IInv ==
  /\ TypeOK /\ RefsPositive /\ SpillFaithful /\ SpillInv /\ BudgetInv
  /\ PollInv /\ PollSeesStored

\* Every put returns, and so does every get and wait that has a deadline or that
\* enough objects stay available for.
CallsReturn ==
  /\ \A c \in Putters : put_[c] # Idle ~> put_[c] = Idle
  /\ \A p \in Pollers :
       /\ poll[p].step = "polling" /\ ~poll[p].forever ~> poll[p].step = "returned"
       /\ ~<>[](poll[p].step = "polling" /\ Cardinality(Ready(p)) >= poll[p].num_ready)
=============================================================================
