------------------------ MODULE LocalSchedulerProofs ------------------------
(***************************************************************************)
(* Proofs about LocalScheduler, for any number of submissions, task ids,   *)
(* clients and resources and any channel capacity.                         *)
(***************************************************************************)
EXTENDS LocalScheduler, FiniteSetTheorems, SequenceTheorems, TLAPS

(***************************************************************************)
(* Resource maps, and the demand of a set of holders                       *)
(***************************************************************************)

\* get never leaves the naturals (absent names count as zero).
LEMMA GetType ==
  ASSUME NEW m, IsResMap(m), NEW r
  PROVE  get(m, r) \in Nat
BY DEF IsResMap, get

\* subtract on a map that can satisfy the request takes exactly the request
\* away, for every name, although it removes the entries that reach zero.
LEMMA SubtractGet ==
  ASSUME NEW m, NEW q, IsResMap(m), IsResMap(q), can_satisfy(m, q)
  PROVE  /\ IsResMap(subtract(m, q))
         /\ \A r : get(subtract(m, q), r) = get(m, r) - get(q, r)
<1>1. \A r : get(m, r) \in Nat /\ get(q, r) \in Nat
  BY GetType
<1>2. \A r : get(m, r) - get(q, r) \in Nat
  BY <1>1 DEF can_satisfy, get, IsResMap
<1>3. IsResMap(subtract(m, q))
  BY <1>1, <1>2 DEF subtract, IsResMap, get
<1>4. ASSUME NEW r PROVE get(subtract(m, q), r) = get(m, r) - get(q, r)
  BY <1>1, <1>2 DEF subtract, get, IsResMap
<1> QED BY <1>3, <1>4

\* add adds exactly the released request, for every name.
LEMMA AddGet ==
  ASSUME NEW m, NEW q, IsResMap(m), IsResMap(q)
  PROVE  /\ IsResMap(add(m, q))
         /\ \A r : get(add(m, q), r) = get(m, r) + get(q, r)
<1>1. \A r : get(m, r) \in Nat /\ get(q, r) \in Nat
  BY GetType
<1>2. IsResMap(add(m, q))
  BY <1>1 DEF add, IsResMap
<1>3. ASSUME NEW r PROVE get(add(m, q), r) = get(m, r) + get(q, r)
  BY <1>1 DEF add, get
<1> QED BY <1>2, <1>3

\* Finitely many holders have finitely many units.
LEMMA UnitsFinite ==
  ASSUME NEW S, IsFiniteSet(S), NEW need, \A h \in S : IsResMap(need[h]), NEW r
  PROVE  IsFiniteSet(Units(S, need, r)) /\ Demand(S, need, r) \in Nat
<1> DEFINE part(h) == {h} \X (1 .. get(need[h], r))
           parts   == {part(h) : h \in S}
           f       == [h \in S |-> part(h)]
<1>1. f \in Surjection(S, parts)
  BY DEF Surjection
<1>2. IsFiniteSet(parts)
  <2> HIDE DEF f, parts
  <2> QED BY <1>1, FS_Surjection
<1>3. ASSUME NEW h \in S PROVE IsFiniteSet(part(h))
  <2>1. get(need[h], r) \in Nat
    BY GetType
  <2>2. IsFiniteSet({h})
    BY FS_Singleton
  <2>3. IsFiniteSet(1 .. get(need[h], r))
    BY <2>1, FS_Interval
  <2> QED BY <2>2, <2>3, FS_Product
<1>4. \A T \in parts : IsFiniteSet(T)
  BY <1>3
<1>5. IsFiniteSet(UNION parts)
  <2> HIDE DEF parts
  <2> QED BY <1>2, <1>4, FS_UNION
<1>6. IsFiniteSet(Units(S, need, r))
  BY <1>5 DEF Units
<1> QED BY <1>6, FS_CardinalityType DEF Demand

\* One more holder adds its own request to the demand.
LEMMA DemandAdd ==
  ASSUME NEW S, IsFiniteSet(S), NEW need, NEW h, h \notin S,
         \A g \in S \cup {h} : IsResMap(need[g]), NEW r
  PROVE  Demand(S \cup {h}, need, r) = Demand(S, need, r) + get(need[h], r)
<1> DEFINE n    == get(need[h], r)
           U    == Units(S, need, r)
           part == {h} \X (1 .. n)
<1>1. n \in Nat
  BY GetType
<1>2. IsFiniteSet(U) /\ Cardinality(U) \in Nat
  BY UnitsFinite DEF Demand
<1>3. IsFiniteSet({h}) /\ Cardinality({h}) = 1
  BY FS_Singleton
<1>4. IsFiniteSet(1 .. n) /\ Cardinality(1 .. n) = n
  BY <1>1, FS_Interval
<1>5. IsFiniteSet(part) /\ Cardinality(part) = Cardinality({h}) * Cardinality(1 .. n)
  <2> HIDE DEF n
  <2> QED BY <1>3, <1>4, FS_Product
<1>6. U \cap part = {}
  BY DEF Units
<1>7. Units(S \cup {h}, need, r) = U \cup part
  BY DEF Units
<1>8. Cardinality(U \cup part) = Cardinality(U) + Cardinality(part) - Cardinality(U \cap part)
  <2> HIDE DEF U, part
  <2> QED BY <1>2, <1>5, FS_Union
<1>9. Cardinality(U \cap part) = 0
  BY <1>6, FS_EmptySet
<1> HIDE DEF U, n, part
<1>10. Cardinality(U \cup part) = Cardinality(U) + n
  BY <1>1, <1>2, <1>3, <1>4, <1>5, <1>8, <1>9
<1> QED BY <1>7, <1>10 DEF Demand, U, n

\* Nobody holds nothing.
LEMMA DemandEmpty ==
  ASSUME NEW need, NEW r
  PROVE  Demand({}, need, r) = 0
<1>1. Units({}, need, r) = {}
  BY DEF Units
<1> QED BY <1>1, FS_EmptySet DEF Demand

(***************************************************************************)
(* Sequences                                                               *)
(***************************************************************************)

\* Taking the first command or entry out of a queue shifts the others.
LEMMA TailElements ==
  ASSUME NEW S, NEW q \in Seq(S), q # <<>>
  PROVE  /\ Len(q) \in Nat \ {0}
         /\ Head(q) = q[1] /\ Head(q) \in S
         /\ Tail(q) \in Seq(S) /\ Len(Tail(q)) = Len(q) - 1
         /\ \A i \in 1 .. Len(Tail(q)) : Tail(q)[i] = q[i + 1]
         /\ \A i \in 1 .. Len(q) : i = 1 \/ (i - 1 \in 1 .. Len(Tail(q)) /\ Tail(q)[i - 1] = q[i])
<1>1. Len(q) \in Nat \ {0}
  BY EmptySeq
<1>2. /\ Head(q) \in S /\ Tail(q) \in Seq(S) /\ Len(Tail(q)) = Len(q) - 1
      /\ \A i \in 1 .. Len(Tail(q)) : Tail(q)[i] = q[i + 1]
  BY HeadTailProperties
<1>3. Head(q) = q[1]
  OBVIOUS
<1>4. ASSUME NEW i \in 1 .. Len(q), i # 1
      PROVE  i - 1 \in 1 .. Len(Tail(q)) /\ Tail(q)[i - 1] = q[i]
  <2>1. i - 1 \in 1 .. Len(Tail(q)) /\ (i - 1) + 1 = i
    BY <1>1, <1>2, <1>4
  <2> QED BY <2>1, <1>2
<1> QED BY <1>1, <1>2, <1>3, <1>4

\* Appending adds one element at the end.
LEMMA AppendElements ==
  ASSUME NEW S, NEW q \in Seq(S), NEW e \in S
  PROVE  /\ Append(q, e) \in Seq(S)
         /\ Len(q) \in Nat /\ Len(Append(q, e)) = Len(q) + 1
         /\ \A i \in 1 .. Len(q) : Append(q, e)[i] = q[i]
         /\ Append(q, e)[Len(q) + 1] = e
BY AppendProperties, LenProperties

\* Appending brings in no other element.
LEMMA AppendValues ==
  ASSUME NEW S, NEW q \in Seq(S), NEW e \in S, NEW i \in DOMAIN Append(q, e)
  PROVE  Append(q, e)[i] = e \/ (i \in DOMAIN q /\ Append(q, e)[i] = q[i])
<1>1. /\ Append(q, e) \in Seq(S) /\ Len(q) \in Nat /\ Len(Append(q, e)) = Len(q) + 1
      /\ \A j \in 1 .. Len(q) : Append(q, e)[j] = q[j]
      /\ Append(q, e)[Len(q) + 1] = e
  BY AppendElements
<1>2. DOMAIN q = 1 .. Len(q) /\ DOMAIN Append(q, e) = 1 .. Len(Append(q, e))
  BY <1>1
<1>3. i \in 1 .. Len(q) \/ i = Len(q) + 1
  BY <1>1, <1>2
<1> QED BY Zenon, <1>1, <1>2, <1>3

\* What the two operations mean for the elements of a queue.
LEMMA AppendContains ==
  ASSUME NEW S, NEW q \in Seq(S), NEW e \in S, NEW x
  PROVE  /\ Contains(Append(q, e), x) <=> Contains(q, x) \/ x = e
         /\ Once(q, x) /\ ~(x = e /\ Contains(q, x)) => Once(Append(q, e), x)
<1>1. \A i \in 1 .. Len(Append(q, e)) : i \in 1 .. Len(q) \/ i = Len(q) + 1
  BY AppendElements
<1> QED BY <1>1, AppendElements DEF Contains, Once

\* What recv() leaves in the channel: an element of it is the one taken or
\* one of the rest, and one that occurs once is not both.
LEMMA TailContains ==
  ASSUME NEW S, NEW q \in Seq(S), q # <<>>, NEW x
  PROVE  /\ Contains(q, x) <=> Contains(Tail(q), x) \/ x = Head(q)
         /\ Once(q, x) => Once(Tail(q), x) /\ ~(x = Head(q) /\ Contains(Tail(q), x))
<1>1. \A i \in 1 .. Len(Tail(q)) : i + 1 \in 1 .. Len(q) /\ i + 1 # 1
  BY TailElements
<1>2. 1 \in 1 .. Len(q)
  BY TailElements
<1>3. Contains(q, x) <=> Contains(Tail(q), x) \/ x = Head(q)
  BY <1>1, <1>2, TailElements DEF Contains
<1>4. ASSUME Once(q, x) PROVE Once(Tail(q), x)
  <2> SUFFICES ASSUME NEW i \in 1 .. Len(Tail(q)), NEW j \in 1 .. Len(Tail(q)),
                      Tail(q)[i] = x, Tail(q)[j] = x
               PROVE  i = j
    BY DEF Once
  <2>1. i + 1 = j + 1
    BY <1>1, <1>4, TailElements DEF Once
  <2> QED BY <2>1
<1>5. ASSUME Once(q, x), x = Head(q), Contains(Tail(q), x) PROVE FALSE
  BY <1>1, <1>2, <1>5, TailElements DEF Contains, Once
<1> QED BY <1>3, <1>4, <1>5

\* Nothing is in an empty queue.
LEMMA EmptyContains ==
  ASSUME NEW x
  PROVE  ~Contains(<<>>, x) /\ Once(<<>>, x)
BY DEF Contains, Once

(***************************************************************************)
(* Vec::retain                                                             *)
(***************************************************************************)

\* The kept positions are numbered from 1 without gaps.
LEMMA RankBijective ==
  ASSUME NEW q, NEW t, Len(q) \in Nat
  PROVE  LET K == Kept(q, t) IN
         /\ Cardinality(K) \in Nat
         /\ \A i \in K : Rank(K, i) \in 1 .. Cardinality(K)
         /\ \A i, j \in K : Rank(K, i) = Rank(K, j) => i = j
         /\ \A k \in 1 .. Cardinality(K) : \E i \in K : Rank(K, i) = k
<1> DEFINE K       == Kept(q, t)
           N       == Cardinality(K)
           upto(i) == {j \in K : j <= i}
           rank    == [i \in K |-> Cardinality(upto(i))]
<1>1. K \subseteq 1 .. Len(q) /\ K \subseteq Nat
  BY DEF Kept
<1>2. IsFiniteSet(K) /\ N \in Nat
  <2> HIDE DEF K
  <2>1. IsFiniteSet(1 .. Len(q))
    BY FS_Interval
  <2>2. IsFiniteSet(K)
    BY Zenon, <1>1, <2>1, FS_Subset
  <2> QED BY <2>2, FS_CardinalityType
<1> HIDE DEF K
<1>3. ASSUME NEW i \in K
      PROVE  IsFiniteSet(upto(i)) /\ Cardinality(upto(i)) \in 1 .. N
  <2>1. upto(i) \in SUBSET K /\ i \in upto(i)
    BY <1>1
  <2>2. IsFiniteSet(upto(i)) /\ Cardinality(upto(i)) <= N
    <3> HIDE DEF upto
    <3> QED BY <2>1, <1>2, FS_Subset
  <2>3. Cardinality(upto(i)) \in Nat /\ Cardinality(upto(i)) # 0
    <3> HIDE DEF upto
    <3> QED BY <2>1, <2>2, FS_CardinalityType, FS_EmptySet
  <2> QED BY <2>2, <2>3, <1>2
<1>4. ASSUME NEW i \in K, NEW j \in K, i < j
      PROVE  Cardinality(upto(i)) # Cardinality(upto(j))
  <2>1. i \in Nat /\ j \in Nat /\ j <= j /\ ~(j <= i)
    BY <1>1, <1>4
  <2>2. \A k \in K : k <= i => k <= j
    BY <1>1, <1>4
  <2>3. upto(i) \in SUBSET upto(j) /\ j \in upto(j) /\ j \notin upto(i)
    BY Zenon, <2>1, <2>2
  <2> HIDE DEF upto
  <2> QED BY <2>3, <1>3, FS_Subset
<1>5. \A i, j \in K : rank[i] = rank[j] => i = j
  <2> SUFFICES ASSUME NEW i \in K, NEW j \in K, i # j
               PROVE  rank[i] # rank[j]
    OBVIOUS
  <2>1. i < j \/ j < i
    BY <1>1
  <2> QED BY <2>1, <1>4
<1>6. rank \in [K -> 1 .. N]
  BY Zenon, <1>3
<1>7. rank \in Injection(K, 1 .. N)
  <2> HIDE DEF rank, N
  <2> QED BY <1>5, <1>6 DEF Injection, IsInjective
<1>8. IsFiniteSet(1 .. N) /\ Cardinality(1 .. N) = N
  BY <1>2, FS_Interval
<1>9. rank \in Surjection(K, 1 .. N)
  <2> HIDE DEF rank
  <2> QED BY <1>7, <1>8, FS_Injection
<1>10. \A k \in 1 .. N : \E i \in K : rank[i] = k
  <2> HIDE DEF rank, N
  <2> QED BY <1>9 DEF Surjection
<1>11. \A i \in K : rank[i] = Rank(K, i)
  BY DEF Rank
<1> HIDE DEF rank
<1>12. \A i \in K : Rank(K, i) \in 1 .. N
  BY <1>6, <1>11
<1>13. \A i, j \in K : Rank(K, i) = Rank(K, j) => i = j
  BY <1>5, <1>11
<1>14. \A k \in 1 .. N : \E i \in K : Rank(K, i) = k
  BY <1>10, <1>11
<1> QED BY <1>2, <1>12, <1>13, <1>14 DEF K

\* retain keeps exactly the entries of other tasks and repeats none.
LEMMA RetainElements ==
  ASSUME NEW q \in Seq(Subs), NEW t
  PROVE  /\ Retain(q, t) \in Seq(Subs)
         /\ \A s : Contains(Retain(q, t), s) <=> TaskOf[s] # t /\ Contains(q, s)
         /\ \A s : Once(q, s) => Once(Retain(q, t), s)
<1> DEFINE K       == Kept(q, t)
           N       == Cardinality(K)
           at(k)   == CHOOSE i \in K : Rank(K, i) = k
           R       == [k \in 1 .. N |-> q[at(k)]]
<1>1. Len(q) \in Nat
  BY LenProperties
<1>2. /\ N \in Nat
      /\ \A i \in K : Rank(K, i) \in 1 .. N
      /\ \A i, j \in K : Rank(K, i) = Rank(K, j) => i = j
      /\ \A k \in 1 .. N : \E i \in K : Rank(K, i) = k
  BY <1>1, RankBijective
<1>3. \A k \in 1 .. N : at(k) \in K /\ Rank(K, at(k)) = k
  <2> HIDE DEF K, N
  <2> QED BY <1>2
<1>4. \A i \in K : i \in 1 .. Len(q) /\ q[i] \in Subs /\ TaskOf[q[i]] # t
  BY ElementOfSeq DEF Kept
<1>5. Retain(q, t) = R
  BY DEF Retain
<1> HIDE DEF K, N, at
<1>6. R \in [1 .. N -> Subs]
  BY <1>3, <1>4
<1>7. R \in Seq(Subs) /\ Len(R) = N
  <2> HIDE DEF R
  <2>1. R \in Seq(Subs)
    BY <1>2, <1>6, SeqDef
  <2> QED BY <2>1, <1>2, <1>6, LenProperties
<1>8. ASSUME NEW s
      PROVE  (\E k \in 1 .. N : R[k] = s)
             <=> (TaskOf[s] # t /\ \E i \in 1 .. Len(q) : q[i] = s)
  <2>1. ASSUME NEW k \in 1 .. N, R[k] = s
        PROVE  TaskOf[s] # t /\ \E i \in 1 .. Len(q) : q[i] = s
    BY <2>1, <1>3, <1>4
  <2>2. ASSUME TaskOf[s] # t, NEW i \in 1 .. Len(q), q[i] = s
        PROVE  \E k \in 1 .. N : R[k] = s
    <3>1. i \in K
      BY <2>2 DEF K, Kept
    <3>2. Rank(K, i) \in 1 .. N /\ at(Rank(K, i)) = i
      BY Zenon, <3>1, <1>2, <1>3
    <3> QED BY <3>2, <2>2
  <2> QED BY <2>1, <2>2
<1>9. ASSUME NEW s, Once(q, s), NEW k \in 1 .. N, NEW l \in 1 .. N,
             R[k] = s, R[l] = s
      PROVE  k = l
  <2>1. at(k) \in K /\ at(l) \in K /\ q[at(k)] = s /\ q[at(l)] = s
    BY <1>3, <1>9
  <2>2. at(k) = at(l)
    BY <2>1, <1>4, <1>9 DEF Once
  <2> QED BY <2>2, <1>3
<1> HIDE DEF R
<1>10. \A s : Contains(R, s) <=> TaskOf[s] # t /\ Contains(q, s)
  BY <1>7, <1>8 DEF Contains
<1>11. \A s : Once(q, s) => Once(R, s)
  BY Zenon, <1>7, <1>9 DEF Once
<1> QED BY <1>5, <1>7, <1>10, <1>11

-----------------------------------------------------------------------------
(***************************************************************************)
(* Commands and the channel                                                *)
(***************************************************************************)

\* The constructor of a command determines its fields.
LEMMA CommandFields ==
  /\ \A s \in Subs :
       /\ Submit(s) \in Commands /\ Submit(s).op = "SubmitTask"
       /\ Submit(s).sub = s
  /\ \A t \in TaskIds : Cancel(t) \in Commands /\ Cancel(t).op = "CancelTask"
  /\ \A t \in TaskIds, c \in Clients :
       /\ GetStatus(t, c) \in Commands /\ GetStatus(t, c).op = "GetStatus"
       /\ GetStatus(t, c).task = t /\ GetStatus(t, c).client = c
  /\ \A cmd \in Commands :
       /\ cmd.op = "SubmitTask" => cmd.sub \in Subs /\ cmd = Submit(cmd.sub)
       /\ cmd.op = "CancelTask" => cmd.task \in TaskIds
       /\ cmd.op = "GetStatus" => cmd.task \in TaskIds /\ cmd.client \in Clients
<1>1. ASSUME NEW s \in Subs
      PROVE  /\ Submit(s) \in Commands /\ Submit(s).op = "SubmitTask"
             /\ Submit(s).sub = s
  BY DEF Submit, Commands
<1>2. ASSUME NEW t \in TaskIds
      PROVE  /\ Cancel(t) \in Commands /\ Cancel(t).op = "CancelTask"
             /\ Cancel(t).task = t
  BY DEF Cancel, Commands
<1>3. ASSUME NEW t \in TaskIds, NEW c \in Clients
      PROVE  /\ GetStatus(t, c) \in Commands /\ GetStatus(t, c).op = "GetStatus"
             /\ GetStatus(t, c).task = t /\ GetStatus(t, c).client = c
  BY DEF GetStatus, Commands
<1>4. ASSUME NEW cmd \in Commands
      PROVE  \/ \E s \in Subs : cmd = Submit(s)
             \/ \E t \in TaskIds : cmd = Cancel(t)
             \/ \E t \in TaskIds, c \in Clients : cmd = GetStatus(t, c)
  BY DEF Commands
<1> QED BY <1>1, <1>2, <1>3, <1>4

\* send appends one command and respects the capacity.
LEMMA SendChan ==
  ASSUME chan \in Seq(Commands), NEW cmd \in Commands, Send(cmd)
  PROVE  /\ chan' \in Seq(Commands) /\ Len(chan') <= ChanCap
         /\ Len(chan) \in Nat /\ Len(chan') = Len(chan) + 1
         /\ \A i \in 1 .. Len(chan) : chan'[i] = chan[i]
         /\ chan'[Len(chan) + 1] = cmd
<1>1. chan' = Append(chan, cmd) /\ Len(chan) < ChanCap
  BY DEF Send
<1>2. ChanCap \in Nat
  BY SchedulerAssumption
<1> QED BY <1>1, <1>2, AppendElements

\* recv takes the oldest command and keeps the order of the others.
LEMMA ReceiveChan ==
  ASSUME chan \in Seq(Commands), Len(chan) <= ChanCap, NEW op, Receive(op)
  PROVE  /\ loop = "recv" /\ loop' = "drain"
         /\ chan' \in Seq(Commands) /\ Len(chan') <= ChanCap
         /\ Len(chan) \in Nat \ {0} /\ Len(chan') = Len(chan) - 1
         /\ Head(chan) = chan[1] /\ Head(chan) \in Commands /\ Head(chan).op = op
         /\ \A i \in 1 .. Len(chan') : chan'[i] = chan[i + 1]
         /\ \A i \in 1 .. Len(chan) :
              i = 1 \/ (i - 1 \in 1 .. Len(chan') /\ chan'[i - 1] = chan[i])
<1>1. /\ chan # <<>> /\ chan' = Tail(chan) /\ Head(chan).op = op
      /\ loop = "recv" /\ loop' = "drain"
  BY DEF Receive
<1>2. ChanCap \in Nat
  BY SchedulerAssumption
<1> QED BY <1>1, <1>2, TailElements

(***************************************************************************)
(* Type correctness                                                        *)
(***************************************************************************)

\* Init establishes the types.
LEMMA InitTypeOK == Init => TypeOK
<1> SUFFICES ASSUME Init PROVE TypeOK
  OBVIOUS
<1>1. <<>> \in Seq(Commands) /\ <<>> \in Seq(Subs) /\ Len(<<>>) = 0
  BY EmptySeq
<1>2. IsResMap(available) /\ 0 <= ChanCap
  BY SchedulerAssumption DEF Init
<1> QED BY <1>1, <1>2
        DEF Init, TypeOK, Statuses, Stages, Queries, NoQuery

\* Every step of callers, event loop and background tasks keeps the types.
LEMMA NextTypeOK == TypeOK /\ QueriesInFlight /\ [Next]_vars => TypeOK'
<1> SUFFICES ASSUME TypeOK, QueriesInFlight, [Next]_vars PROVE TypeOK'
  OBVIOUS
<1> USE DEF TypeOK
<1>1. ASSUME NEW s \in Subs, submit_task(s) PROVE TypeOK'
  <2>1. chan' \in Seq(Commands) /\ Len(chan') <= ChanCap
    BY <1>1, SendChan, CommandFields DEF submit_task
  <2> QED BY Zenon, <1>1, <2>1 DEF submit_task, loopVars, Stages
<1>2. ASSUME NEW t \in TaskIds, cancel_task(t) PROVE TypeOK'
  <2>1. chan' \in Seq(Commands) /\ Len(chan') <= ChanCap
    BY Zenon, <1>2, SendChan, CommandFields DEF cancel_task
  <2> QED BY <1>2, <2>1 DEF cancel_task, loopVars
<1>3. ASSUME NEW t \in TaskIds, NEW c \in Clients, get_task_status(t, c)
      PROVE  TypeOK'
  <2>1. chan' \in Seq(Commands) /\ Len(chan') <= ChanCap
    BY Zenon, <1>3, SendChan, CommandFields DEF get_task_status
  <2>2. query' \in [Clients -> Queries]
    BY Zenon, <1>3 DEF get_task_status, Queries
  <2> QED BY Zenon, <1>3, <2>1, <2>2 DEF get_task_status, loopVars
<1>4. ASSUME NEW c \in Clients, get_task_status_return(c) PROVE TypeOK'
  BY <1>4 DEF get_task_status_return, loopVars, Queries
<1>5. ASSUME drop_handles PROVE TypeOK'
  BY Zenon, <1>5 DEF drop_handles, loopVars
<1>6. ASSUME HandleSubmitDispatch PROVE TypeOK'
  <2> DEFINE s == Head(chan).sub
  <2>1. /\ chan' \in Seq(Commands) /\ Len(chan') <= ChanCap
        /\ loop' = "drain" /\ s \in Subs
    BY <1>6, ReceiveChan, CommandFields DEF HandleSubmitDispatch
  <2> HIDE DEF s
  <2>2. Dispatch(s)
    BY <1>6 DEF HandleSubmitDispatch, s
  <2>3. IsResMap(available')
    BY <2>1, <2>2, SubtractGet, SchedulerAssumption DEF Dispatch, try_allocate
  <2>4. stage' \in [Subs -> Stages] /\ status' \in [TaskIds -> Statuses \cup {"Absent"}]
    BY Zenon, <2>1, <2>2 DEF Dispatch, Stages, Background, Statuses
  <2> QED BY Zenon, <1>6, <2>1, <2>3, <2>4 DEF HandleSubmitDispatch
<1>7. ASSUME HandleSubmitQueue PROVE TypeOK'
  <2> DEFINE s == Head(chan).sub
  <2>1. /\ chan' \in Seq(Commands) /\ Len(chan') <= ChanCap
        /\ loop' = "drain" /\ s \in Subs
    BY Zenon, <1>7, ReceiveChan, CommandFields DEF HandleSubmitQueue
  <2>2. pending' \in Seq(Subs)
    BY <1>7, <2>1, AppendElements DEF HandleSubmitQueue
  <2>3. stage' \in [Subs -> Stages] /\ status' \in [TaskIds -> Statuses \cup {"Absent"}]
    BY Zenon, <1>7 DEF HandleSubmitQueue, Stages, Statuses
  <2> QED BY <1>7, <2>1, <2>2, <2>3 DEF HandleSubmitQueue
<1>8. ASSUME HandleCancel PROVE TypeOK'
  <2>1. /\ chan' \in Seq(Commands) /\ Len(chan') <= ChanCap
        /\ loop' = "drain"
    BY <1>8, ReceiveChan DEF HandleCancel
  <2>2. pending' \in Seq(Subs)
    BY <1>8, RetainElements DEF HandleCancel
  <2>3. stage' \in [Subs -> Stages] /\ status' \in [TaskIds -> Statuses \cup {"Absent"}]
    BY Zenon, <1>8 DEF HandleCancel, Stages, Statuses
  <2> QED BY Zenon, <1>8, <2>1, <2>2, <2>3 DEF HandleCancel
<1>9. ASSUME HandleGetStatus PROVE TypeOK'
  <2> DEFINE t == Head(chan).task
             c == Head(chan).client
  <2>1. /\ chan' \in Seq(Commands) /\ Len(chan') <= ChanCap
        /\ loop' = "drain" /\ t \in TaskIds /\ c \in Clients
    BY <1>9, ReceiveChan, CommandFields DEF HandleGetStatus
  <2>2. query[c].state = "waiting"
    <3>1. Head(chan) = chan[1] /\ Head(chan).op = "GetStatus" /\ 1 \in 1 .. Len(chan)
      BY <1>9, ReceiveChan DEF HandleGetStatus
    <3> QED BY Zenon, <3>1 DEF QueriesInFlight
  <2> HIDE DEF t, c
  <2>3. query[c].known \in BOOLEAN
    BY <2>1, <2>2 DEF Queries, NoQuery
  <2>4. query' = [query EXCEPT ![c] =
                 [state |-> "answered", task |-> t, known |-> query[c].known,
                  reply |-> IF status[t] = "Absent"
                              THEN "TaskNotFound" ELSE status[t]]]
    BY <1>9 DEF HandleGetStatus, t, c
  <2>5. query' \in [Clients -> Queries]
    BY <2>1, <2>3, <2>4 DEF Queries, Statuses
  <2> QED BY Zenon, <1>9, <2>1, <2>5 DEF HandleGetStatus
<1>10. ASSUME DrainDispatch PROVE TypeOK'
  <2>1. Head(pending) \in Subs /\ pending' \in Seq(Subs)
    BY <1>10, TailElements DEF DrainDispatch
  <2>2. Dispatch(Head(pending))
    BY <1>10 DEF DrainDispatch
  <2>3. IsResMap(available')
    BY <2>1, <2>2, SubtractGet, SchedulerAssumption DEF Dispatch, try_allocate
  <2>4. stage' \in [Subs -> Stages] /\ status' \in [TaskIds -> Statuses \cup {"Absent"}]
    BY Zenon, <2>1, <2>2 DEF Dispatch, Stages, Background, Statuses
  <2> QED BY Zenon, <1>10, <2>1, <2>3, <2>4 DEF DrainDispatch
<1>11. ASSUME DrainKeep PROVE TypeOK'
  <2>1. Head(pending) \in Subs /\ pending' \in Seq(Subs)
    BY <1>11, TailElements DEF DrainKeep
  <2>2. still' \in Seq(Subs)
    BY <1>11, <2>1, AppendElements DEF DrainKeep
  <2> QED BY <1>11, <2>1, <2>2 DEF DrainKeep
<1>12. ASSUME DrainEnd PROVE TypeOK'
  <2>1. <<>> \in Seq(Subs)
    BY EmptySeq
  <2> QED BY <1>12, <2>1 DEF DrainEnd
<1>13. ASSUME LoopExit PROVE TypeOK'
  <2>1. <<>> \in Seq(Subs)
    BY EmptySeq
  <2> QED BY Zenon, <1>13, <2>1 DEF LoopExit, Stages
<1>14. ASSUME NEW s \in Subs, BackgroundTask(s) PROVE TypeOK'
  <2> USE DEF Step, loopVars, Stages, Background
  <2>1. CASE GetWorker(s)
    BY <2>1 DEF GetWorker
  <2>2. CASE ExecuteOk(s)
    BY <2>2 DEF ExecuteOk
  <2>3. CASE ExecuteErr(s)
    BY <2>3 DEF ExecuteErr
  <2>4. CASE Put(s)
    BY <2>4 DEF Put
  <2>5. CASE ReturnWorker(s)
    BY <2>5 DEF ReturnWorker
  <2>6. CASE release(s)
    <3>1. IsResMap(available')
      BY Zenon, <2>6, AddGet, SchedulerAssumption DEF release
    <3> QED BY <2>6, <3>1 DEF release
  <2> QED BY Zenon, <1>14, <2>1, <2>2, <2>3, <2>4, <2>5, <2>6 DEF BackgroundTask
<1>15. CASE UNCHANGED vars
  BY <1>15 DEF vars, loopVars
<1> QED BY Zenon, <1>1, <1>2, <1>3, <1>4, <1>5, <1>6, <1>7, <1>8, <1>9, <1>10, <1>11,
           <1>12, <1>13, <1>14, <1>15 DEF Next, EventLoop

(***************************************************************************)
(* The resource books                                                      *)
(***************************************************************************)

\* The books: what is available and what tasks hold add up to K.  K is the
\* total of the node, less what is leased (see NodeProofs).
Balance(K) == \A r \in Res : get(available, r) + Demand(Allocated, Need, r) = K[r]

\* The books do not change while neither side of them does.
LEMMA KeepBooks ==
  ASSUME NEW K, Balance(K), available' = available, Allocated' = Allocated
  PROVE  Balance(K)'
BY DEF Balance

\* A successful try_allocate moves the request from one side to the other.
LEMMA DispatchBooks ==
  ASSUME TypeOK, NEW K, Balance(K), NEW s \in Subs, stage[s] \notin Background, Dispatch(s)
  PROVE  /\ Allocated' = Allocated \cup {s} /\ s \notin Allocated
         /\ Balance(K)'
<1>1. Allocated' = Allocated \cup {s} /\ s \notin Allocated
  BY DEF Allocated, Dispatch, TypeOK, Background
<1>2. IsFiniteSet(Allocated) /\ \A g \in Subs : IsResMap(Need[g])
  BY SchedulerAssumption, FS_Subset DEF Allocated
<1>3. Allocated \subseteq Subs
  BY DEF Allocated
<1>4. ASSUME NEW r \in Res
      PROVE  get(available', r) + Demand(Allocated', Need, r) = K[r]
  <2>1. get(available', r) = get(available, r) - get(Need[s], r)
    BY <1>2, SubtractGet DEF Dispatch, try_allocate, TypeOK
  <2>2. Demand(Allocated', Need, r) = Demand(Allocated, Need, r) + get(Need[s], r)
    <3>1. \A g \in Allocated \cup {s} : IsResMap(Need[g])
      BY <1>2, <1>3
    <3>2. Demand(Allocated \cup {s}, Need, r) = Demand(Allocated, Need, r) + get(Need[s], r)
      BY <1>1, <1>2, <3>1, DemandAdd
    <3> QED BY Zenon, <1>1, <3>2
  <2>3. /\ get(available, r) \in Nat /\ get(Need[s], r) \in Nat
        /\ Demand(Allocated, Need, r) \in Nat
    BY Zenon, <1>2, <1>3, GetType, UnitsFinite DEF TypeOK
  <2>4. get(available, r) + Demand(Allocated, Need, r) = K[r]
    BY DEF Balance
  <2> QED BY <2>1, <2>2, <2>3, <2>4
<1> QED BY Zenon, <1>1, <1>4 DEF Balance

\* release moves it back.
LEMMA ReleaseBooks ==
  ASSUME TypeOK, NEW K, Balance(K), NEW s \in Subs, release(s)
  PROVE  /\ Allocated' = Allocated \ {s} /\ s \in Allocated
         /\ Balance(K)'
<1>1. Allocated' = Allocated \ {s} /\ s \in Allocated
  BY DEF Allocated, release, Step, TypeOK, Background
<1> DEFINE A == Allocated \ {s}
<1>2. IsFiniteSet(A) /\ A \subseteq Subs /\ \A g \in Subs : IsResMap(Need[g])
  <2>1. A \subseteq Subs
    BY DEF Allocated
  <2> QED BY <2>1, SchedulerAssumption, FS_Subset
<1>3. Allocated = A \cup {s} /\ s \notin A
  BY Zenon, <1>1
<1> HIDE DEF A
<1>4. ASSUME NEW r \in Res
      PROVE  get(available', r) + Demand(A, Need, r) = K[r]
  <2>1. get(available', r) = get(available, r) + get(Need[s], r)
    BY <1>2, AddGet DEF release, TypeOK
  <2>2. Demand(Allocated, Need, r) = Demand(A, Need, r) + get(Need[s], r)
    BY <1>2, <1>3, DemandAdd
  <2>3. /\ get(available, r) \in Nat /\ get(Need[s], r) \in Nat
        /\ Demand(A, Need, r) \in Nat
    BY Zenon, <1>2, GetType, UnitsFinite DEF TypeOK
  <2>4. get(available, r) + Demand(Allocated, Need, r) = K[r]
    BY DEF Balance
  <2> QED BY <2>1, <2>2, <2>3, <2>4
<1> QED BY <1>1, <1>4 DEF Balance, A

\* A SubmitTask the loop takes from the channel carries a submission.
LEMMA HeadSubmit ==
  ASSUME TypeOK, Receive("SubmitTask")
  PROVE  Head(chan).sub \in Subs /\ Head(chan) = Submit(Head(chan).sub)
<1>1. Head(chan) \in Commands /\ Head(chan).op = "SubmitTask"
  BY ReceiveChan DEF TypeOK
<1> QED BY <1>1, CommandFields

\* A command or entry at the head of its queue says where the submission is.
LEMMA HeadStage ==
  ASSUME TypeOK, NoneLost
  PROVE  /\ Receive("SubmitTask") =>
              Head(chan).sub \in Subs /\ stage[Head(chan).sub] = "sent"
         /\ pending # <<>> => Head(pending) \in Subs /\ stage[Head(pending)] = "queued"
<1>1. ASSUME Receive("SubmitTask")
      PROVE  Head(chan).sub \in Subs /\ stage[Head(chan).sub] = "sent"
  <2>1. /\ Head(chan) \in Commands /\ Head(chan).op = "SubmitTask"
        /\ chan \in Seq(Commands) /\ chan # <<>>
    BY Zenon, <1>1, ReceiveChan DEF TypeOK, Receive
  <2>2. Contains(chan, Head(chan))
    BY <2>1, TailContains
  <2> QED BY <2>1, <2>2, CommandFields DEF NoneLost
<1>2. ASSUME pending # <<>>
      PROVE  Head(pending) \in Subs /\ stage[Head(pending)] = "queued"
  <2>1. Head(pending) \in Subs /\ Contains(pending, Head(pending))
    BY Zenon, <1>2, TailElements, TailContains DEF TypeOK
  <2> QED BY <2>1 DEF NoneLost
<1> QED BY Zenon, <1>1, <1>2

\* Every step either leaves the set of holders alone, adds one holder by a
\* successful try_allocate or removes one by a release.
LEMMA BalanceSteps ==
  ASSUME TypeOK, NEW K, Balance(K), NoneLost, [Next]_vars
  PROVE  /\ Balance(K)'
         /\ \/ Allocated' = Allocated
            \/ \E s \in Subs : s \notin Allocated /\ Allocated' = Allocated \cup {s}
            \/ \E s \in Subs : s \in Allocated /\ Allocated' = Allocated \ {s}
<1> DEFINE Goal == /\ Balance(K)'
                   /\ \/ Allocated' = Allocated
                      \/ \E s \in Subs : s \notin Allocated /\ Allocated' = Allocated \cup {s}
                      \/ \E s \in Subs : s \in Allocated /\ Allocated' = Allocated \ {s}
<1>1. ASSUME available' = available, Allocated' = Allocated PROVE Goal
  BY <1>1, KeepBooks
<1>2. ASSUME NEW s \in Subs, stage[s] \notin Background, Dispatch(s) PROVE Goal
  BY <1>2, DispatchBooks
<1>3. ASSUME NEW s \in Subs, release(s) PROVE Goal
  BY <1>3, ReleaseBooks
<1>4. ASSUME NEW s \in Subs, submit_task(s) PROVE Goal
  <2>1. Allocated' = Allocated
    BY Zenon, <1>4 DEF submit_task, Allocated, TypeOK, Background
  <2> QED BY Zenon, <1>1, <1>4, <2>1 DEF submit_task
<1>5. ASSUME UNCHANGED <<stage, available>> PROVE Goal
  BY Zenon, <1>1, <1>5 DEF Allocated
<1>6. ASSUME HandleSubmitDispatch PROVE Goal
  BY Zenon, <1>2, <1>6, HeadStage DEF HandleSubmitDispatch, Background
<1>7. ASSUME HandleSubmitQueue PROVE Goal
  <2>1. Allocated' = Allocated
    BY Zenon, <1>7, HeadStage DEF HandleSubmitQueue, Allocated, TypeOK, Background
  <2> QED BY Zenon, <1>1, <1>7, <2>1 DEF HandleSubmitQueue
<1>8. ASSUME HandleCancel PROVE Goal
  <2>1. Allocated' = Allocated
    BY Zenon, <1>8 DEF HandleCancel, Allocated, TypeOK, Background
  <2> QED BY Zenon, <1>1, <1>8, <2>1 DEF HandleCancel
<1>9. ASSUME DrainDispatch PROVE Goal
  BY Zenon, <1>2, <1>9, HeadStage DEF DrainDispatch, Background
<1>10. ASSUME LoopExit PROVE Goal
  <2>1. Allocated' = Allocated
    BY <1>10 DEF LoopExit, Allocated, TypeOK, Background
  <2> QED BY Zenon, <1>1, <1>10, <2>1 DEF LoopExit
<1>11. ASSUME NEW s \in Subs, BackgroundTask(s), ~release(s) PROVE Goal
  <2>1. available' = available /\ Allocated' = Allocated
    BY Zenon, <1>11 DEF BackgroundTask, GetWorker, ExecuteOk, ExecuteErr, Put,
                 ReturnWorker, Step, Allocated, TypeOK, Background
  <2> QED BY Zenon, <1>1, <2>1
<1> HIDE DEF Goal
<1>12. ASSUME HandleGetStatus \/ DrainKeep \/ DrainEnd \/ drop_handles \/ UNCHANGED vars
       PROVE  Goal
  BY Zenon, <1>5, <1>12 DEF HandleGetStatus, DrainKeep, DrainEnd, drop_handles, vars
<1>13. ASSUME NEW t \in TaskIds, cancel_task(t) PROVE Goal
  BY <1>5, <1>13 DEF cancel_task
<1>14. ASSUME NEW c \in Clients, get_task_status_return(c) PROVE Goal
  BY Zenon, <1>5, <1>14 DEF get_task_status_return
<1>15. ASSUME NEW t \in TaskIds, NEW c \in Clients, get_task_status(t, c) PROVE Goal
  BY <1>5, <1>15 DEF get_task_status
<1>16. Goal
  BY Zenon, <1>3, <1>4, <1>6, <1>7, <1>8, <1>9, <1>10, <1>11, <1>12, <1>13, <1>14, <1>15
     DEF Next, EventLoop
<1> QED BY <1>16 DEF Goal

\* The scheduler alone: everything that is not available is held by a task.
LEMMA HolderSteps ==
  ASSUME TypeOK, Conservation, NoneLost, [Next]_vars
  PROVE  /\ Conservation'
         /\ \/ Allocated' = Allocated
            \/ \E s \in Subs : s \notin Allocated /\ Allocated' = Allocated \cup {s}
            \/ \E s \in Subs : s \in Allocated /\ Allocated' = Allocated \ {s}
<1> DEFINE K == [r \in Res |-> get(Total, r)]
<1>1. (Balance(K) <=> Conservation) /\ (Balance(K)' <=> Conservation')
  BY Zenon DEF Balance, Conservation
<1> HIDE DEF K
<1>2. Balance(K)
  BY Zenon, <1>1
<1> QED BY Zenon, <1>1, <1>2, BalanceSteps

(***************************************************************************)
(* Where the submissions are                                               *)
(***************************************************************************)

\* What a step of the channel means for the SubmitTask commands in it.
LEMMA SendContains ==
  ASSUME TypeOK, NEW cmd \in Commands, Send(cmd), NEW x
  PROVE  /\ Contains(chan', x) <=> Contains(chan, x) \/ x = cmd
         /\ Once(chan, x) /\ ~(x = cmd /\ Contains(chan, x)) => Once(chan', x)
BY AppendContains DEF Send, TypeOK

\* What recv() does to the commands in the channel.
LEMMA ReceiveContains ==
  ASSUME TypeOK, NEW op, Receive(op), NEW x
  PROVE  /\ Contains(chan, x) <=> Contains(chan', x) \/ x = Head(chan)
         /\ Once(chan, x) => Once(chan', x) /\ ~(x = Head(chan) /\ Contains(chan', x))
BY TailContains DEF Receive, TypeOK

\* No step loses a submission or puts it in two places.
LEMMA NextPlacement ==
  TypeOK /\ ExactlyOnce /\ StillLocal /\ [Next]_vars => ExactlyOnce' /\ StillLocal'
<1> SUFFICES ASSUME TypeOK, NoneLost, NoneDuplicated, StillLocal, [Next]_vars
             PROVE  ExactlyOnce' /\ StillLocal'
  BY Zenon DEF ExactlyOnce
<1> DEFINE Lost(s) == /\ stage[s] = "sent" <=> Contains(chan, Submit(s))
                      /\ stage[s] = "queued" <=> Contains(pending, s) \/ Contains(still, s)
           Dup(s)  == /\ Once(chan, Submit(s)) /\ Once(pending, s) /\ Once(still, s)
                      /\ ~(Contains(pending, s) /\ Contains(still, s))
           Goal    == (\A s \in Subs : Lost(s)' /\ Dup(s)') /\ StillLocal'
<1>0. SUFFICES Goal
  BY DEF ExactlyOnce, NoneLost, NoneDuplicated
<1>1. \A s \in Subs : Lost(s) /\ Dup(s)
  BY Zenon DEF NoneLost, NoneDuplicated
<1>2. /\ \A s, u \in Subs : Submit(s) = Submit(u) => s = u
      /\ \A s \in Subs, t \in TaskIds : Submit(s) # Cancel(t)
      /\ \A s \in Subs, t \in TaskIds, c \in Clients : Submit(s) # GetStatus(t, c)
  BY DEF Submit, Cancel, GetStatus
<1>3. ASSUME NEW s \in Subs, submit_task(s) PROVE Goal
  <2>1. /\ stage[s] = "new" /\ stage' = [stage EXCEPT ![s] = "sent"]
        /\ Send(Submit(s)) /\ Submit(s) \in Commands
        /\ UNCHANGED <<loop, pending, still>>
    BY Zenon, <1>3, CommandFields DEF submit_task, loopVars
  <2>2. ASSUME NEW u \in Subs PROVE Lost(u)' /\ Dup(u)'
    BY Zenon, <1>1, <1>2, <2>1, SendContains DEF TypeOK
  <2> QED BY Zenon, <2>1, <2>2 DEF StillLocal
<1>4. ASSUME NEW cmd \in Commands, Send(cmd), \A s \in Subs : Submit(s) # cmd,
             UNCHANGED <<stage, loop, pending, still>>
      PROVE  Goal
  <2>1. ASSUME NEW u \in Subs PROVE Lost(u)' /\ Dup(u)'
    BY Zenon, <1>1, <1>4, SendContains
  <2> QED BY Zenon, <1>4, <2>1 DEF StillLocal
<1>5. ASSUME NEW t \in TaskIds, cancel_task(t) PROVE Goal
  BY SMTT(30), <1>2, <1>4, <1>5, CommandFields DEF cancel_task, loopVars
<1>6. ASSUME NEW t \in TaskIds, NEW c \in Clients, get_task_status(t, c) PROVE Goal
  BY <1>2, <1>4, <1>6, CommandFields DEF get_task_status, loopVars
<1>7. ASSUME UNCHANGED <<chan, loop, pending, still>>,
             \A u \in Subs : /\ stage'[u] = "sent" <=> stage[u] = "sent"
                             /\ stage'[u] = "queued" <=> stage[u] = "queued"
      PROVE  Goal
  <2>1. chan' = chan /\ pending' = pending /\ still' = still /\ loop' = loop
    BY Zenon, <1>7
  <2>2. ASSUME NEW u \in Subs PROVE Lost(u)' /\ Dup(u)'
    <3>1. Lost(u) /\ Dup(u)
      BY <1>1
    <3>2. /\ stage'[u] = "sent" <=> stage[u] = "sent"
          /\ stage'[u] = "queued" <=> stage[u] = "queued"
      BY <1>7
    <3> QED BY Zenon, <2>1, <3>1, <3>2
  <2> QED BY Zenon, <2>1, <2>2 DEF StillLocal
<1>8. ASSUME NEW c \in Clients, get_task_status_return(c) PROVE Goal
  BY Zenon, <1>7, <1>8 DEF get_task_status_return, loopVars
<1>9. ASSUME drop_handles \/ UNCHANGED vars PROVE Goal
  BY Zenon, <1>7, <1>9 DEF drop_handles, vars, loopVars
<1>10. ASSUME NEW s \in Subs, BackgroundTask(s) PROVE Goal
  <2>1. \E from \in Background, to \in Background \cup {"done"} : Step(s, from, to)
    BY Zenon, <1>10 DEF BackgroundTask, GetWorker, ExecuteOk, ExecuteErr, Put,
                 ReturnWorker, release, Background
  <2>2. UNCHANGED <<chan, loop, pending, still>>
    BY Zenon, <2>1 DEF Step, loopVars
  <2>3. \A u \in Subs : /\ stage'[u] = "sent" <=> stage[u] = "sent"
                        /\ stage'[u] = "queued" <=> stage[u] = "queued"
    BY Zenon, <2>1 DEF Step, Background, TypeOK
  <2> QED BY Zenon, <1>7, <2>2, <2>3
<1>11. ASSUME HandleSubmitDispatch PROVE Goal
  <2> DEFINE s == Head(chan).sub
  <2>0. Receive("SubmitTask")
    BY Zenon, <1>11 DEF HandleSubmitDispatch
  <2>1. /\ s \in Subs /\ Head(chan) = Submit(s) /\ stage[s] = "sent"
        /\ Receive("SubmitTask") /\ UNCHANGED <<pending, still>>
        /\ stage' = [stage EXCEPT ![s] = "get_worker"]
    <3>1. s \in Subs /\ stage[s] = "sent" /\ Head(chan) = Submit(s)
      BY Zenon, <2>0, HeadStage, HeadSubmit
    <3> QED BY Zenon, <1>11, <2>0, <3>1 DEF HandleSubmitDispatch, Dispatch
  <2> HIDE DEF s
  <2>2. ASSUME NEW u \in Subs PROVE Lost(u)' /\ Dup(u)'
    BY Zenon, <1>1, <1>2, <2>1, ReceiveContains DEF TypeOK
  <2>3. StillLocal'
    BY Zenon, <2>1 DEF StillLocal, Receive
  <2> QED BY Zenon, <2>2, <2>3
<1>12. ASSUME HandleSubmitQueue PROVE Goal
  <2> DEFINE s == Head(chan).sub
  <2>0. Receive("SubmitTask")
    BY Zenon, <1>12 DEF HandleSubmitQueue
  <2>1. /\ s \in Subs /\ Head(chan) = Submit(s) /\ stage[s] = "sent"
        /\ Receive("SubmitTask") /\ UNCHANGED still
        /\ pending' = Append(pending, s)
        /\ stage' = [stage EXCEPT ![s] = "queued"]
    <3>1. s \in Subs /\ stage[s] = "sent" /\ Head(chan) = Submit(s)
      BY <2>0, HeadStage, HeadSubmit
    <3> QED BY Zenon, <1>12, <2>0, <3>1 DEF HandleSubmitQueue
  <2> HIDE DEF s
  <2>2. ASSUME NEW u \in Subs PROVE Lost(u)' /\ Dup(u)'
    <3>1. /\ Contains(pending', u) <=> Contains(pending, u) \/ u = s
          /\ Once(pending, u) /\ ~(u = s /\ Contains(pending, u)) => Once(pending', u)
      BY <2>1, AppendContains DEF TypeOK
    <3> QED BY Zenon, <1>1, <1>2, <2>1, <3>1, ReceiveContains DEF TypeOK
  <2>3. StillLocal'
    BY <2>1 DEF StillLocal, Receive
  <2> QED BY <2>2, <2>3
<1>13. ASSUME NEW op, Receive(op), op # "SubmitTask", NEW u \in Subs
       PROVE  /\ Contains(chan', Submit(u)) <=> Contains(chan, Submit(u))
              /\ Once(chan, Submit(u)) => Once(chan', Submit(u))
  <2>1. Head(chan) # Submit(u)
    BY <1>13, CommandFields DEF Receive
  <2> QED BY Zenon, <1>13, <2>1, ReceiveContains
<1>14. ASSUME HandleCancel PROVE Goal
  <2> DEFINE t == Head(chan).task
  <2>1. /\ Receive("CancelTask") /\ UNCHANGED still
        /\ pending' = Retain(pending, t)
        /\ stage' = [u \in Subs |-> IF stage[u] = "queued" /\ TaskOf[u] = t
                                      THEN "cancelled" ELSE stage[u]]
    BY <1>14 DEF HandleCancel
  <2>2. still = <<>>
    BY Zenon, <2>1 DEF StillLocal, Receive
  <2> HIDE DEF t
  <2>3. ASSUME NEW u \in Subs PROVE Lost(u)' /\ Dup(u)'
    <3>1. /\ Contains(pending', u) <=> TaskOf[u] # t /\ Contains(pending, u)
          /\ Once(pending, u) => Once(pending', u)
      BY Zenon, <2>1, RetainElements DEF TypeOK
    <3>2. ~Contains(still, u)
      BY Zenon, <2>2, EmptyContains
    <3> QED BY Zenon, <1>1, <1>13, <2>1, <3>1, <3>2
  <2>4. StillLocal'
    BY Zenon, <2>1 DEF StillLocal, Receive
  <2> QED BY <2>3, <2>4
<1>15. ASSUME HandleGetStatus PROVE Goal
  <2>1. Receive("GetStatus") /\ UNCHANGED <<pending, still, stage>>
    BY Zenon, <1>15 DEF HandleGetStatus
  <2>2. ASSUME NEW u \in Subs PROVE Lost(u)' /\ Dup(u)'
    BY Zenon, <1>1, <1>13, <2>1
  <2>3. StillLocal'
    BY Zenon, <2>1 DEF StillLocal, Receive
  <2> QED BY <2>2, <2>3
<1>16. ASSUME DrainDispatch PROVE Goal
  <2> DEFINE s == Head(pending)
  <2>1. /\ s \in Subs /\ stage[s] = "queued" /\ pending # <<>>
        /\ UNCHANGED <<chan, loop, still>> /\ pending' = Tail(pending)
        /\ stage' = [stage EXCEPT ![s] = "get_worker"]
    BY Zenon, <1>16, HeadStage DEF DrainDispatch, Dispatch
  <2>2. ASSUME NEW u \in Subs PROVE Lost(u)' /\ Dup(u)'
    <3>1. /\ Contains(pending, u) <=> Contains(pending', u) \/ u = s
          /\ Once(pending, u) => Once(pending', u) /\ ~(u = s /\ Contains(pending', u))
      BY <2>1, TailContains DEF TypeOK
    <3> HIDE DEF s
    <3> QED BY Zenon, <1>1, <2>1, <3>1 DEF TypeOK
  <2>3. StillLocal'
    BY Zenon, <2>1 DEF StillLocal
  <2> QED BY <2>2, <2>3
<1>17. ASSUME DrainKeep PROVE Goal
  <2> DEFINE s == Head(pending)
  <2>1. /\ s \in Subs /\ stage[s] = "queued" /\ pending # <<>>
        /\ UNCHANGED <<chan, loop, stage>> /\ pending' = Tail(pending)
        /\ still' = Append(still, s) /\ loop = "drain"
    BY Zenon, <1>17, HeadStage DEF DrainKeep
  <2>2. ASSUME NEW u \in Subs PROVE Lost(u)' /\ Dup(u)'
    <3>1. /\ Contains(pending, u) <=> Contains(pending', u) \/ u = s
          /\ Once(pending, u) => Once(pending', u) /\ ~(u = s /\ Contains(pending', u))
      BY Zenon, <2>1, TailContains DEF TypeOK
    <3>2. /\ Contains(still', u) <=> Contains(still, u) \/ u = s
          /\ Once(still, u) /\ ~(u = s /\ Contains(still, u)) => Once(still', u)
      BY <2>1, AppendContains DEF TypeOK
    <3> HIDE DEF s
    <3> QED BY Zenon, <1>1, <2>1, <3>1, <3>2
  <2>3. StillLocal'
    BY Zenon, <2>1 DEF StillLocal
  <2> QED BY <2>2, <2>3
<1>18. ASSUME DrainEnd PROVE Goal
  <2>1. /\ pending = <<>> /\ pending' = still /\ still' = <<>> /\ loop' = "recv"
        /\ UNCHANGED <<chan, stage>>
    BY Zenon, <1>18 DEF DrainEnd
  <2>2. ASSUME NEW u \in Subs PROVE Lost(u)' /\ Dup(u)'
    BY Zenon, <1>1, <2>1, EmptyContains
  <2> QED BY <2>1, <2>2 DEF StillLocal
<1>19. ASSUME LoopExit PROVE Goal
  <2>1. /\ loop = "recv" /\ pending' = <<>> /\ UNCHANGED <<chan, still>>
        /\ stage' = [u \in Subs |-> IF stage[u] = "queued" THEN "dropped" ELSE stage[u]]
    BY <1>19 DEF LoopExit
  <2>2. still = <<>>
    BY Zenon, <2>1 DEF StillLocal
  <2>3. ASSUME NEW u \in Subs PROVE Lost(u)' /\ Dup(u)'
    BY Zenon, <1>1, <2>1, <2>2, EmptyContains
  <2> QED BY Zenon, <2>1, <2>2, <2>3 DEF StillLocal
<1> HIDE DEF Goal
<1> QED BY Zenon, <1>3, <1>5, <1>6, <1>8, <1>9, <1>10, <1>11, <1>12, <1>14, <1>15, <1>16,
           <1>17, <1>18, <1>19 DEF Next, EventLoop

(***************************************************************************)
(* Statuses and queries                                                    *)
(***************************************************************************)

\* No step makes task_statuses disagree with the queue.
LEMMA NextStatus ==
  ASSUME TypeOK, NoneLost, StatusAgrees, SeenHasStatus, [Next]_vars
  PROVE  StatusAgrees' /\ SeenHasStatus'
<1> DEFINE Goal == StatusAgrees' /\ SeenHasStatus'
<1>0. TaskOf \in [Subs -> TaskIds]
  BY Zenon, SchedulerAssumption
<1> USE <1>0 DEF StatusAgrees, SeenHasStatus, Background, TypeOK
<1>1. ASSUME UNCHANGED status, (loop' # "exited" => loop # "exited"),
             \A u \in Subs : \/ stage'[u] = stage[u]
                             \/ stage[u] = "new" /\ stage'[u] = "sent"
                             \/ /\ stage[u] \in Background
                                /\ stage'[u] \in Background \cup {"done"}
      PROVE  Goal
  <2>1. \A u \in Subs : /\ stage'[u] = "queued" <=> stage[u] = "queued"
                        /\ stage[u] \in Background \cup {"done"} =>
                             stage'[u] \in Background \cup {"done"}
                        /\ stage'[u] \notin {"new", "sent"} => stage[u] \notin {"new", "sent"}
    BY Zenon, <1>1
  <2>2. SeenHasStatus'
    BY <1>1, <2>1
  <2>3. ASSUME loop' # "exited", NEW t \in TaskIds
        PROVE  /\ status'[t] = "Pending" =>
                    \E s \in Subs : TaskOf[s] = t /\ stage'[s] = "queued"
               /\ status'[t] = "Running" =>
                    \E s \in Subs : TaskOf[s] = t /\ stage'[s] \in Background \cup {"done"}
    BY <1>1, <2>1, <2>3
  <2>4. ASSUME loop' # "exited", NEW s \in Subs, stage'[s] = "queued"
        PROVE  status'[TaskOf[s]] \in {"Pending", "Running"}
    BY Zenon, <1>1, <2>1, <2>4
  <2> QED BY Zenon, <2>2, <2>3, <2>4
<1>2. ASSUME NEW s \in Subs, Dispatch(s), loop # "exited",
             stage[s] \in {"sent", "queued"}
      PROVE  Goal
  BY <1>2 DEF Dispatch
<1>3. ASSUME NEW s \in Subs, submit_task(s) PROVE Goal
  BY <1>1, <1>3 DEF submit_task, loopVars
<1>4. ASSUME NEW t \in TaskIds, cancel_task(t) PROVE Goal
  BY Zenon, <1>1, <1>4 DEF cancel_task, loopVars
<1>5. ASSUME NEW t \in TaskIds, NEW c \in Clients, get_task_status(t, c) PROVE Goal
  BY Zenon, <1>1, <1>5 DEF get_task_status, loopVars
<1>6. ASSUME NEW c \in Clients, get_task_status_return(c) PROVE Goal
  BY Zenon, <1>1, <1>6 DEF get_task_status_return, loopVars
<1>7. ASSUME drop_handles \/ UNCHANGED vars PROVE Goal
  BY Zenon, <1>1, <1>7 DEF drop_handles, vars, loopVars
<1>8. ASSUME NEW s \in Subs, BackgroundTask(s) PROVE Goal
  <2>1. \E from \in Background, to \in Background \cup {"done"} : Step(s, from, to)
    BY Zenon, <1>8 DEF BackgroundTask, GetWorker, ExecuteOk, ExecuteErr, Put,
                ReturnWorker, release
  <2> QED BY <1>1, <2>1 DEF Step, loopVars
<1>9. ASSUME HandleSubmitDispatch PROVE Goal
  BY Zenon, <1>2, <1>9, HeadStage DEF HandleSubmitDispatch, Receive
<1>10. ASSUME HandleSubmitQueue PROVE Goal
  <2> DEFINE s == Head(chan).sub
  <2>1. s \in Subs /\ stage[s] = "sent" /\ loop = "recv"
    BY Zenon, <1>10, HeadStage DEF HandleSubmitQueue, Receive
  <2>2. /\ stage' = [stage EXCEPT ![s] = "queued"]
        /\ status' = [status EXCEPT ![TaskOf[s]] = "Pending"]
    BY Zenon, <1>10 DEF HandleSubmitQueue
  <2> HIDE DEF s
  <2> QED BY <2>1, <2>2
<1>11. ASSUME HandleCancel PROVE Goal
  <2> DEFINE t == Head(chan).task
  <2>1. /\ status' = IF status[t] = "Absent" THEN status
                       ELSE [status EXCEPT ![t] = "Cancelled"]
        /\ stage' = [u \in Subs |-> IF stage[u] = "queued" /\ TaskOf[u] = t
                                      THEN "cancelled" ELSE stage[u]]
        /\ loop = "recv"
    BY Zenon, <1>11 DEF HandleCancel, Receive
  <2>2. t \in TaskIds
    BY <1>11, ReceiveChan, CommandFields DEF HandleCancel
  <2> HIDE DEF t
  <2> QED BY <2>1, <2>2
<1>12. ASSUME HandleGetStatus PROVE Goal
  BY Zenon, <1>1, <1>12 DEF HandleGetStatus, Receive
<1>13. ASSUME DrainDispatch PROVE Goal
  BY Zenon, <1>2, <1>13, HeadStage DEF DrainDispatch
<1>14. ASSUME DrainKeep \/ DrainEnd PROVE Goal
  BY Zenon, <1>1, <1>14 DEF DrainKeep, DrainEnd
<1>15. ASSUME LoopExit PROVE Goal
  BY Zenon, <1>15 DEF LoopExit
<1> HIDE DEF Goal
<1>16. Goal
  BY Zenon, <1>3, <1>4, <1>5, <1>6, <1>7, <1>8, <1>9, <1>10, <1>11, <1>12, <1>13,
     <1>14, <1>15 DEF Next, EventLoop
<1> QED BY <1>16 DEF Goal

\* A step that keeps the channel and forgets no status keeps the queries.
LEMMA KeepQueries ==
  ASSUME QueriesInFlight, chan' = chan,
         \A i \in 1 .. Len(chan) :
           chan[i].op = "GetStatus" => /\ query'[chan[i].client] = query[chan[i].client]
                                       /\ status[chan[i].task] # "Absent" =>
                                            status'[chan[i].task] # "Absent"
  PROVE  QueriesInFlight'
BY DEF QueriesInFlight

\* Sending a command keeps the older ones ahead of it.
LEMMA SendQueries ==
  ASSUME TypeOK, QueriesInFlight, NEW cmd \in Commands, Send(cmd), UNCHANGED status,
         cmd.op = "GetStatus" =>
           /\ query[cmd.client] = NoQuery
           /\ query'[cmd.client].state = "waiting"
           /\ query'[cmd.client].known =>
                \/ status[cmd.task] # "Absent"
                \/ \E j \in 1 .. Len(chan) : chan[j].op = "SubmitTask" /\ TaskOf[chan[j].sub] = cmd.task,
         \A c \in Clients : query'[c] = query[c] \/ (cmd.op = "GetStatus" /\ c = cmd.client)
  PROVE  QueriesInFlight'
<1> DEFINE n == Len(chan)
<1>1. /\ n \in Nat /\ Len(chan') = n + 1 /\ chan'[n + 1] = cmd
      /\ \A i \in 1 .. n : chan'[i] = chan[i]
      /\ \A i \in 1 .. n + 1 : i \in 1 .. n \/ i = n + 1
  BY SendChan DEF TypeOK
<1>2. ASSUME NEW i \in 1 .. n, chan[i].op = "GetStatus"
      PROVE  /\ query'[chan[i].client] = query[chan[i].client]
             /\ query[chan[i].client].state = "waiting"
             /\ cmd.op = "GetStatus" => chan[i].client # cmd.client
  <2>1. chan[i].client \in Clients
    BY Zenon, <1>2, CommandFields, ElementOfSeq DEF TypeOK
  <2>2. query[chan[i].client].state = "waiting"
    BY Zenon, <1>2 DEF QueriesInFlight
  <2> QED BY SMTT(30), <2>1, <2>2 DEF NoQuery
<1>3. ASSUME NEW i \in 1 .. n + 1, chan'[i].op = "GetStatus"
      PROVE  /\ query'[chan'[i].client].state = "waiting"
             /\ query'[chan'[i].client].known =>
                  \/ status'[chan'[i].task] # "Absent"
                  \/ \E j \in 1 .. i - 1 : /\ chan'[j].op = "SubmitTask"
                                           /\ TaskOf[chan'[j].sub] = chan'[i].task
  <2>1. CASE i \in 1 .. n
    <3>1. \A j \in 1 .. i - 1 : j \in 1 .. n
      BY <2>1, <1>1
    <3> QED BY SMTT(30), <1>1, <1>2, <1>3, <2>1, <3>1 DEF QueriesInFlight
  <2>2. CASE i = n + 1
    <3>1. i - 1 = n
      BY SMTT(30), <2>2, <1>1
    <3> QED BY Zenon, <1>1, <1>3, <2>2, <3>1
  <2> QED BY Zenon, <1>1, <2>1, <2>2
<1>4. ASSUME NEW i \in 1 .. n + 1, NEW j \in 1 .. n + 1,
             chan'[i].op = "GetStatus", chan'[j].op = "GetStatus",
             chan'[i].client = chan'[j].client
      PROVE  i = j
  <2>1. CASE i \in 1 .. n /\ j \in 1 .. n
    <3>1. chan'[i] = chan[i] /\ chan'[j] = chan[j]
      BY <1>1, <2>1
    <3> QED BY <1>4, <2>1, <3>1 DEF QueriesInFlight
  <2>2. CASE i \in 1 .. n /\ j = n + 1
    BY <1>1, <1>2, <1>4, <2>2
  <2>3. CASE i = n + 1 /\ j \in 1 .. n
    BY <1>1, <1>2, <1>4, <2>3
  <2> QED BY <1>1, <2>1, <2>2, <2>3
<1> QED BY SMTT(30), <1>1, <1>3, <1>4 DEF QueriesInFlight

\* Receiving a command keeps the queries behind it, provided a received
\* SubmitTask gives its task a status.
LEMMA ReceiveQueries ==
  ASSUME TypeOK, QueriesInFlight, NEW op, Receive(op),
         \A t \in TaskIds : status[t] # "Absent" => status'[t] # "Absent",
         op = "SubmitTask" => status'[TaskOf[Head(chan).sub]] # "Absent",
         \A c \in Clients : query'[c] = query[c] \/ (op = "GetStatus" /\ c = Head(chan).client)
  PROVE  QueriesInFlight'
<1> DEFINE m == Len(chan')
<1>1. /\ m \in Nat /\ Len(chan) = m + 1 /\ chan[1].op = op /\ Head(chan) = chan[1]
      /\ \A i \in 1 .. m : chan'[i] = chan[i + 1] /\ i + 1 \in 1 .. Len(chan) /\ i + 1 # 1
      /\ 1 \in 1 .. Len(chan)
  <2>1. chan \in Seq(Commands) /\ Len(chan) <= ChanCap
    BY DEF TypeOK
  <2>2. /\ Len(chan) \in Nat \ {0} /\ m = Len(chan) - 1
        /\ Head(chan) = chan[1] /\ Head(chan).op = op
        /\ \A i \in 1 .. m : chan'[i] = chan[i + 1]
    BY Zenon, <2>1, ReceiveChan
  <2> HIDE DEF m
  <2>3. /\ m \in Nat /\ Len(chan) = m + 1 /\ 1 \in 1 .. Len(chan)
        /\ \A i \in 1 .. m : i + 1 \in 1 .. Len(chan) /\ i + 1 # 1
    BY <2>2
  <2> QED BY <2>2, <2>3
<1>2. ASSUME NEW i \in 1 .. m, chan'[i].op = "GetStatus"
      PROVE  /\ query'[chan'[i].client].state = "waiting"
             /\ query'[chan'[i].client].known =>
                  \/ status'[chan'[i].task] # "Absent"
                  \/ \E j \in 1 .. i - 1 : /\ chan'[j].op = "SubmitTask"
                                           /\ TaskOf[chan'[j].sub] = chan'[i].task
  <2> DEFINE k == i + 1
             q == query[chan[k].client]
  <2>1. k \in 1 .. Len(chan) /\ chan'[i] = chan[k] /\ k # 1 /\ k - 1 = i
    BY SMTT(30), <1>1
  <2>2. chan[k].client \in Clients /\ chan[k].task \in TaskIds
    BY SMTT(30), <1>2, <2>1, CommandFields, ElementOfSeq DEF TypeOK
  <2>3. /\ q.state = "waiting"
        /\ q.known => \/ status[chan[k].task] # "Absent"
                      \/ \E j \in 1 .. k - 1 : /\ chan[j].op = "SubmitTask"
                                               /\ TaskOf[chan[j].sub] = chan[k].task
    BY Zenon, <1>2, <2>1 DEF QueriesInFlight
  <2>4. query'[chan'[i].client] = q
    BY Zenon, <1>1, <1>2, <2>1, <2>2 DEF QueriesInFlight
  <2>5. ASSUME NEW j \in 1 .. k - 1, chan[j].op = "SubmitTask",
               TaskOf[chan[j].sub] = chan[k].task
        PROVE  \/ status'[chan[k].task] # "Absent"
               \/ \E h \in 1 .. i - 1 : /\ chan'[h].op = "SubmitTask"
                                        /\ TaskOf[chan'[h].sub] = chan[k].task
    <3>1. CASE j = 1
      BY Zenon, <1>1, <2>5, <3>1
    <3>2. CASE j # 1
      <4>1. j - 1 \in 1 .. i - 1 /\ j - 1 \in 1 .. m /\ (j - 1) + 1 = j
        BY SMTT(30), <1>1, <2>1, <3>2
      <4>2. chan'[j - 1] = chan[j]
        BY Zenon, <1>1, <4>1
      <4> QED BY Zenon, <2>5, <4>1, <4>2
    <3> QED BY Zenon, <3>1, <3>2
  <2> HIDE DEF k, q
  <2> QED BY <2>1, <2>2, <2>3, <2>4, <2>5
<1>3. ASSUME NEW i \in 1 .. m, NEW j \in 1 .. m,
             chan'[i].op = "GetStatus", chan'[j].op = "GetStatus",
             chan'[i].client = chan'[j].client
      PROVE  i = j
  <2>1. i + 1 = j + 1
    BY Zenon, <1>1, <1>3 DEF QueriesInFlight
  <2> QED BY <2>1
<1> QED BY Zenon, <1>2, <1>3 DEF QueriesInFlight

\* The invariants that do not depend on who else allocates resources.
QueueInv ==
  /\ TypeOK /\ ExactlyOnce /\ StatusAgrees /\ ReadYourSubmit
  /\ StillLocal /\ QueriesInFlight /\ SeenHasStatus

\* No step lets a query overtake the submission it asks about.
LEMMA NextQueries ==
  ASSUME QueueInv, [Next]_vars
  PROVE  QueriesInFlight' /\ ReadYourSubmit'
<1> USE DEF QueueInv
<1> DEFINE Goal == QueriesInFlight' /\ ReadYourSubmit'
<1>1. \A i \in 1 .. Len(chan) :
        /\ chan[i].op = "GetStatus" =>
             /\ chan[i].client \in Clients /\ chan[i].task \in TaskIds
             /\ query[chan[i].client].state = "waiting"
        /\ chan[i] \in Commands
  <2>1. \A i \in 1 .. Len(chan) : chan[i] \in Commands
    BY Zenon, ElementOfSeq DEF TypeOK
  <2> QED BY Zenon, <2>1, CommandFields DEF QueriesInFlight
<1>2. ASSUME UNCHANGED <<chan, query>>,
             \A t \in TaskIds : status[t] # "Absent" => status'[t] # "Absent"
      PROVE  Goal
  <2>1. QueriesInFlight'
    BY Zenon, <1>1, <1>2, KeepQueries
  <2> QED BY Zenon, <1>2, <2>1 DEF ReadYourSubmit
<1>3. ASSUME NEW s \in Subs, submit_task(s) PROVE Goal
  <2>1. Send(Submit(s)) /\ UNCHANGED <<status, query>>
    BY Zenon, <1>3 DEF submit_task, loopVars
  <2>2. QueriesInFlight'
    BY Zenon, <2>1, SendQueries, CommandFields
  <2> QED BY Zenon, <2>1, <2>2 DEF ReadYourSubmit
<1>4. ASSUME NEW t \in TaskIds, cancel_task(t) PROVE Goal
  <2>1. Send(Cancel(t)) /\ UNCHANGED <<status, query>>
    BY Zenon, <1>4 DEF cancel_task, loopVars
  <2>2. QueriesInFlight'
    BY Zenon, <2>1, SendQueries, CommandFields
  <2> QED BY <2>1, <2>2 DEF ReadYourSubmit
<1>5. ASSUME NEW t \in TaskIds, NEW c \in Clients, get_task_status(t, c) PROVE Goal
  <2> DEFINE cmd   == GetStatus(t, c)
             known == \E s \in Subs : TaskOf[s] = t /\ stage[s] # "new"
  <2>1. /\ Send(cmd) /\ UNCHANGED status /\ query[c] = NoQuery
        /\ query' = [query EXCEPT ![c] = [state |-> "waiting", task |-> t, known |-> known]]
    BY Zenon, <1>5 DEF get_task_status, loopVars
  <2>2. cmd \in Commands /\ cmd.op = "GetStatus" /\ cmd.task = t /\ cmd.client = c
    BY CommandFields
  <2>3. ASSUME known
        PROVE  \/ status[t] # "Absent"
               \/ \E j \in 1 .. Len(chan) : chan[j].op = "SubmitTask" /\ TaskOf[chan[j].sub] = t
    <3>1. PICK s \in Subs : TaskOf[s] = t /\ stage[s] # "new"
      BY Zenon, <2>3
    <3>2. CASE stage[s] = "sent"
      <4>1. PICK j \in 1 .. Len(chan) : chan[j] = Submit(s)
        BY Zenon, <3>2 DEF ExactlyOnce, NoneLost, Contains
      <4> QED BY SMTT(30), <3>1, <4>1, CommandFields
    <3>3. CASE stage[s] # "sent"
      BY Zenon, <3>1, <3>3 DEF SeenHasStatus
    <3> QED BY Zenon, <3>2, <3>3
  <2> HIDE DEF known, cmd
  <2>4. /\ query'[c].state = "waiting" /\ query'[c].known = known
        /\ \A d \in Clients : d # c => query'[d] = query[d]
    BY Zenon, <2>1 DEF TypeOK
  <2>5. QueriesInFlight'
    BY Zenon, <2>1, <2>2, <2>3, <2>4, SendQueries
  <2> QED BY Zenon, <2>4, <2>5 DEF ReadYourSubmit
<1>6. ASSUME NEW c \in Clients, get_task_status_return(c) PROVE Goal
  <2>1. /\ UNCHANGED <<chan, status>> /\ query[c].state = "answered"
        /\ query' = [query EXCEPT ![c] = NoQuery]
    BY Zenon, <1>6 DEF get_task_status_return, loopVars
  <2>2. \A d \in Clients : d # c => query'[d] = query[d]
    BY Zenon, <2>1 DEF TypeOK
  <2>3. QueriesInFlight'
    BY Zenon, <1>1, <2>1, <2>2, KeepQueries
  <2>4. query'[c].state = "none"
    BY Zenon, <2>1 DEF TypeOK, NoQuery
  <2> QED BY Zenon, <2>2, <2>3, <2>4 DEF ReadYourSubmit
<1>7. ASSUME drop_handles \/ DrainKeep \/ DrainEnd \/ LoopExit \/ UNCHANGED vars PROVE Goal
  BY Zenon, <1>2, <1>7 DEF drop_handles, DrainKeep, DrainEnd, LoopExit, vars, loopVars
<1>8. ASSUME NEW s \in Subs, BackgroundTask(s) PROVE Goal
  BY Zenon, <1>2, <1>8 DEF BackgroundTask, GetWorker, ExecuteOk, ExecuteErr, Put,
                    ReturnWorker, release, Step, loopVars
<1>9. ASSUME NEW op, Receive(op), op # "GetStatus", UNCHANGED query,
             \A t \in TaskIds : status[t] # "Absent" => status'[t] # "Absent",
             op = "SubmitTask" => status'[TaskOf[Head(chan).sub]] # "Absent"
      PROVE  Goal
  <2>1. QueriesInFlight'
    BY Zenon, <1>9, ReceiveQueries
  <2> QED BY Zenon, <1>9, <2>1 DEF ReadYourSubmit
<1>10. ASSUME HandleSubmitDispatch \/ HandleSubmitQueue PROVE Goal
  <2> DEFINE t == TaskOf[Head(chan).sub]
  <2>1. Receive("SubmitTask") /\ UNCHANGED query
    BY Zenon, <1>10 DEF HandleSubmitDispatch, HandleSubmitQueue
  <2>2. t \in TaskIds
    BY Zenon, <2>1, HeadSubmit, SchedulerAssumption
  <2>3. \E st \in {"Running", "Pending"} : status' = [status EXCEPT ![t] = st]
    BY Zenon, <1>10 DEF HandleSubmitDispatch, HandleSubmitQueue, Dispatch
  <2> HIDE DEF t
  <2>4. /\ status'[t] # "Absent"
        /\ \A u \in TaskIds : status[u] # "Absent" => status'[u] # "Absent"
    BY Zenon, <2>2, <2>3 DEF TypeOK
  <2> QED BY Zenon, <1>9, <2>1, <2>4 DEF t
<1>11. ASSUME HandleCancel PROVE Goal
  <2>1. Receive("CancelTask") /\ UNCHANGED query
    BY Zenon, <1>11 DEF HandleCancel
  <2>2. \A u \in TaskIds : status[u] # "Absent" => status'[u] # "Absent"
    BY Zenon, <1>11 DEF HandleCancel, TypeOK
  <2> QED BY Zenon, <1>9, <2>1, <2>2
<1>12. ASSUME HandleGetStatus PROVE Goal
  <2> DEFINE t == Head(chan).task
             c == Head(chan).client
             ans == [state |-> "answered", task |-> t, known |-> query[c].known,
                     reply |-> IF status[t] = "Absent" THEN "TaskNotFound" ELSE status[t]]
  <2>1. /\ Receive("GetStatus") /\ UNCHANGED status
        /\ query' = [query EXCEPT ![c] = ans]
    BY Zenon, <1>12 DEF HandleGetStatus
  <2>2. /\ Head(chan) = chan[1] /\ 1 \in 1 .. Len(chan) /\ chan[1].op = "GetStatus"
    BY <2>1, ReceiveChan DEF TypeOK
  <2>3. c \in Clients /\ t \in TaskIds
    BY Zenon, <1>1, <2>2
  <2>4. query[c].known => status[t] # "Absent"
    BY <2>2 DEF QueriesInFlight
  <2>5. status[t] # "TaskNotFound"
    BY Zenon, <2>3 DEF TypeOK, Statuses
  <2>6. ans.known /\ ans.state = "answered" => ans.reply # "TaskNotFound"
    BY Zenon, <2>4, <2>5
  <2> HIDE DEF ans, c, t
  <2>7. query'[c] = ans /\ \A d \in Clients : d # c => query'[d] = query[d]
    BY Zenon, <2>1, <2>3 DEF TypeOK
  <2>8. QueriesInFlight'
    BY Zenon, <2>1, <2>7, ReceiveQueries DEF c
  <2> QED BY Zenon, <2>6, <2>7, <2>8 DEF ReadYourSubmit
<1>13. ASSUME DrainDispatch PROVE Goal
  <2>1. UNCHANGED <<chan, query>> /\ \E t : status' = [status EXCEPT ![t] = "Running"]
    BY Zenon, <1>13 DEF DrainDispatch, Dispatch
  <2>2. \A u \in TaskIds : status[u] # "Absent" => status'[u] # "Absent"
    BY <2>1 DEF TypeOK
  <2> QED BY <1>2, <2>1, <2>2
<1> HIDE DEF Goal
<1>14. Goal
  BY Zenon, <1>3, <1>4, <1>5, <1>6, <1>7, <1>8, <1>10, <1>11, <1>12, <1>13 DEF Next, EventLoop
<1> QED BY <1>14 DEF Goal

-----------------------------------------------------------------------------
(***************************************************************************)
(* The theorems                                                            *)
(***************************************************************************)

\* The invariant holds initially.
LEMMA InitIInv == Init => IInv
<1> SUFFICES ASSUME Init PROVE IInv
  OBVIOUS
<1>1. TypeOK
  BY Zenon, InitTypeOK
<1>2. Conservation
  <2>1. Allocated = {}
    BY DEF Init, Allocated, Background
  <2>2. \A r \in Res : get(Total, r) \in Nat
    BY Zenon, SchedulerAssumption, GetType
  <2> QED BY <2>1, <2>2, DemandEmpty DEF Conservation, Init
<1>3. ExactlyOnce
  BY Zenon, EmptyContains DEF Init, ExactlyOnce, NoneLost, NoneDuplicated
<1>4. StatusAgrees /\ SeenHasStatus
  BY Zenon, SchedulerAssumption DEF Init, StatusAgrees, SeenHasStatus
<1>5. ReadYourSubmit
  BY Zenon DEF Init, ReadYourSubmit, NoQuery
<1>6. StillLocal /\ QueriesInFlight
  BY DEF Init, StillLocal, QueriesInFlight
<1> QED BY Zenon, <1>1, <1>2, <1>3, <1>4, <1>5, <1>6 DEF IInv

\* Every step preserves the part that is not about the resource books.
LEMMA NextQueueInv == QueueInv /\ [Next]_vars => QueueInv'
<1> SUFFICES ASSUME QueueInv, [Next]_vars PROVE QueueInv'
  OBVIOUS
<1>1. TypeOK' BY NextTypeOK DEF QueueInv
<1>2. ExactlyOnce' /\ StillLocal' BY NextPlacement DEF QueueInv
<1>3. StatusAgrees' /\ SeenHasStatus' BY NextStatus DEF QueueInv, ExactlyOnce
<1>4. QueriesInFlight' /\ ReadYourSubmit' BY NextQueries
<1> QED BY Zenon, <1>1, <1>2, <1>3, <1>4 DEF QueueInv

\* Every step preserves the whole.
LEMMA NextIInv == IInv /\ [Next]_vars => IInv'
<1> SUFFICES ASSUME IInv, [Next]_vars PROVE IInv'
  OBVIOUS
<1>1. QueueInv' BY Zenon, NextQueueInv DEF IInv, QueueInv
<1>2. Conservation' BY HolderSteps DEF IInv, ExactlyOnce
<1> QED BY Zenon, <1>1, <1>2 DEF IInv, QueueInv

\* The conjunction of all of them is an invariant.
THEOREM Invariance == Spec => []IInv
BY InitIInv, NextIInv, PTL DEF Spec

\* Every variable of the scheduler keeps its type and the channel its bound.
THEOREM TypeCorrect == Spec => []TypeOK
<1>1. IInv => TypeOK BY DEF IInv
<1> QED BY <1>1, Invariance, PTL

\* The books of the ResourceManager balance in every reachable state, with
\* any number of tasks allocating and releasing concurrently.
THEOREM ResourceConservation == Spec => []Conservation
<1>1. IInv => Conservation BY DEF IInv
<1> QED BY <1>1, Invariance, PTL

\* No submission is lost or dispatched twice.
THEOREM SubmittedExactlyOnce == Spec => []ExactlyOnce
<1>1. IInv => ExactlyOnce BY DEF IInv
<1> QED BY <1>1, Invariance, PTL

\* task_statuses never disagrees with the queue.
THEOREM StatusesAgree == Spec => []StatusAgrees
<1>1. IInv => StatusAgrees BY Zenon DEF IInv
<1> QED BY <1>1, Invariance, PTL

\* A task submitted before it is asked about is found.
THEOREM SubmitBeforeQuery == Spec => []ReadYourSubmit
<1>1. IInv => ReadYourSubmit BY DEF IInv
<1> QED BY <1>1, Invariance, PTL

\* A handled cancellation is undone only by a new submission of the id: the
\* walk over the queue finds no entry of a cancelled task.
THEOREM CancellationSticks == Spec => CancelSticks
<1> DEFINE A == \A t \in TaskIds :
                  status[t] = "Cancelled" /\ status'[t] # "Cancelled" =>
                    /\ loop = "recv"
                    /\ \E s \in Subs : TaskOf[s] = t /\ Head(chan) = Submit(s)
<1>1. IInv /\ [Next]_vars => [A]_vars
  <2> SUFFICES ASSUME IInv, [Next]_vars PROVE A
    OBVIOUS
  <2> USE DEF IInv
  <2>1. ASSUME UNCHANGED status PROVE A
    BY Zenon, <2>1
  <2>2. ASSUME HandleSubmitDispatch \/ HandleSubmitQueue PROVE A
    <3> DEFINE s == Head(chan).sub
    <3>1. Receive("SubmitTask") /\ loop = "recv"
      BY Zenon, <2>2 DEF HandleSubmitDispatch, HandleSubmitQueue, Receive
    <3>2. s \in Subs /\ Head(chan) = Submit(s)
      BY <3>1, HeadSubmit
    <3>3. \E st : status' = [status EXCEPT ![TaskOf[s]] = st]
      BY Zenon, <2>2 DEF HandleSubmitDispatch, HandleSubmitQueue, Dispatch
    <3> HIDE DEF s
    <3> QED BY Zenon, <3>1, <3>2, <3>3 DEF TypeOK
  <2>3. ASSUME HandleCancel PROVE A
    BY Zenon, <2>3 DEF HandleCancel, TypeOK
  <2>4. ASSUME DrainDispatch PROVE A
    <3> DEFINE s == Head(pending)
    <3>1. s \in Subs /\ stage[s] = "queued" /\ loop = "drain"
      BY Zenon, <2>4, HeadStage DEF DrainDispatch, ExactlyOnce
    <3>2. status[TaskOf[s]] # "Cancelled"
      BY Zenon, <3>1 DEF StatusAgrees
    <3>3. status' = [status EXCEPT ![TaskOf[s]] = "Running"]
      BY Zenon, <2>4 DEF DrainDispatch, Dispatch
    <3> HIDE DEF s
    <3> QED BY Zenon, <3>2, <3>3 DEF TypeOK
  <2>5. ASSUME NEW s \in Subs, submit_task(s) \/ BackgroundTask(s) PROVE A
    BY Zenon, <2>1, <2>5 DEF submit_task, BackgroundTask, GetWorker, ExecuteOk, ExecuteErr,
                      Put, ReturnWorker, release, Step, loopVars
  <2>6. ASSUME HandleGetStatus \/ DrainKeep \/ DrainEnd \/ LoopExit \/ drop_handles
               \/ UNCHANGED vars
        PROVE  A
    BY Zenon, <2>1, <2>6 DEF HandleGetStatus, DrainKeep, DrainEnd, LoopExit, drop_handles,
                      vars, loopVars
  <2>7. ASSUME NEW t \in TaskIds, cancel_task(t) PROVE A
    BY Zenon, <2>1, <2>7 DEF cancel_task, loopVars
  <2>8. ASSUME NEW t \in TaskIds, NEW c \in Clients, get_task_status(t, c) PROVE A
    BY Zenon, <2>1, <2>8 DEF get_task_status, loopVars
  <2>9. ASSUME NEW c \in Clients, get_task_status_return(c) PROVE A
    BY <2>1, <2>9 DEF get_task_status_return, loopVars
  <2> HIDE DEF A
  <2> QED BY Zenon, <2>2, <2>3, <2>4, <2>5, <2>6, <2>7, <2>8, <2>9 DEF Next, EventLoop
<1>2. Spec => [][A]_vars
  <2> HIDE DEF A
  <2> QED BY <1>1, Invariance, PTL DEF Spec
<1> QED BY <1>2 DEF CancelSticks

\* The abstract specification speaks about the same demand.
LEMMA AllocDemand ==
  /\ \A S, need, r : Alloc!Demand(S, need, r) = Demand(S, need, r)
  /\ \A m, r : Alloc!get(m, r) = get(m, r)
<1>1. \A S : Alloc!Cardinality(S) = Cardinality(S)
  BY Zenon DEF Alloc!Cardinality, Cardinality
<1>2. \A m, r : Alloc!get(m, r) = get(m, r)
  BY DEF Alloc!get, get
<1>3. \A S, need, r : Alloc!Units(S, need, r) = Units(S, need, r)
  BY <1>2 DEF Alloc!Units, Units
<1> QED BY Zenon, <1>1, <1>2, <1>3 DEF Alloc!Demand, Demand

\* The scheduler implements Allocation: the tasks it lets hold resources
\* never need more together than the node has, and only a release ends that.
THEOREM ImplementsAllocation == Spec => AllocSafe
<1>1. Init => Alloc!Init
  BY DEF Init, Alloc!Init, Allocated, Background
<1>2. IInv /\ IInv' /\ [Next]_vars => [Alloc!Next]_Allocated
  <2> SUFFICES ASSUME IInv, IInv', [Next]_vars, Allocated' # Allocated
               PROVE  Alloc!Next
    OBVIOUS
  <2>1. \/ \E s \in Subs : s \notin Allocated /\ Allocated' = Allocated \cup {s}
        \/ \E s \in Subs : s \in Allocated /\ Allocated' = Allocated \ {s}
    BY Zenon, HolderSteps DEF IInv, ExactlyOnce
  <2>2. ASSUME NEW r \in Res PROVE Demand(Allocated', Need, r) <= get(Total, r)
    <3>1. get(available', r) + Demand(Allocated', Need, r) = get(Total, r)
      BY Zenon DEF IInv, Conservation
    <3>2. get(available', r) \in Nat
      BY Zenon, GetType DEF IInv, TypeOK
    <3>3. Demand(Allocated', Need, r) \in Nat
      <4>1. IsFiniteSet(Subs) /\ Allocated' \subseteq Subs /\ \A s \in Subs : IsResMap(Need[s])
        BY Zenon, SchedulerAssumption DEF Allocated
      <4>2. IsFiniteSet(Allocated')
        BY Zenon, <4>1, FS_Subset
      <4> QED BY Zenon, <4>1, <4>2, UnitsFinite
    <3> QED BY <3>1, <3>2, <3>3
  <2>3. Alloc!Fits(Allocated')
    BY Zenon, <2>2, AllocDemand DEF Alloc!Fits
  <2>4. CASE \E s \in Subs : s \notin Allocated /\ Allocated' = Allocated \cup {s}
    BY Zenon, <2>3, <2>4 DEF Alloc!Next, Alloc!Acquire
  <2>5. CASE \E s \in Subs : s \in Allocated /\ Allocated' = Allocated \ {s}
    BY <2>5 DEF Alloc!Next, Alloc!Release
  <2> QED BY Zenon, <2>1, <2>4, <2>5
<1>3. Spec => Alloc!Spec
  BY <1>1, <1>2, Invariance, PTL DEF Spec, Alloc!Spec
<1> QED BY <1>3 DEF AllocSafe
=============================================================================
