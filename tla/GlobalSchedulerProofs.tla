----------------------- MODULE GlobalSchedulerProofs -----------------------
(***************************************************************************)
(* Proofs about GlobalScheduler, for any finite sets of nodes and tasks    *)
(* and any resources: the policies choose a best node, and what a task was *)
(* placed by is backed by its node and by what that has handed out since.  *)
(***************************************************************************)
EXTENDS GlobalScheduler, FiniteSetTheorems, WellFoundedInduction, SequenceTheorems, TLAPS

\* A set of naturals with an element has a least one: the form in which the
\* proofs below do induction over the list a policy walks over.
LEMMA LeastElement ==
  ASSUME NEW T, T \subseteq Nat, T # {}
  PROVE  \E n \in T : \A m \in T : ~(m < n)
<1>1. PICK n \in T : \A m \in T : ~(<<m, n>> \in OpToRel(<, Nat))
  BY Zenon, NatLessThanWellFounded, WFMin
<1>2. ASSUME NEW m \in T, m < n PROVE FALSE
  <2>1. <<m, n>> \in Nat \X Nat /\ <<m, n>>[1] < <<m, n>>[2]
    BY <1>2
  <2> QED BY <1>1, <2>1 DEF OpToRel
<1> QED BY <1>2

\* Whether the policy prefers a, seen after b.
Better(a, b) == IF policy = "spread" THEN CPU(a) >= CPU(b) ELSE CPU(a) < CPU(b)

\* best is what the policy has chosen so far, position by position.
Walk(order, best, n) ==
  best = [i \in 1 .. n |-> IF i = 1 THEN order[1]
                           ELSE IF Better(order[i], best[i - 1]) THEN order[i] ELSE best[i - 1]]

\* The walk over the first n nodes is well defined.
LEMMA WalkExists ==
  ASSUME NEW order, NEW k \in Nat
  PROVE  \E best : Walk(order, best, k)
<1> DEFINE Bad == {n \in Nat : ~ \E best : Walk(order, best, n)}
<1>1. SUFFICES ASSUME Bad # {} PROVE FALSE
  OBVIOUS
<1>2. PICK n \in Bad : \A m \in Bad : ~(m < n)
  <2> HIDE DEF Bad
  <2>1. Bad \subseteq Nat BY DEF Bad
  <2> QED BY Zenon, <1>1, <2>1, LeastElement
<1>3. n \in Nat /\ ~ \E best : Walk(order, best, n)
  OBVIOUS
<1>4. n # 0
  <2> DEFINE f == [i \in 1 .. 0 |-> 0]
  <2>1. Walk(order, f, 0)
    BY DEF Walk
  <2> QED BY Zenon, <1>3, <2>1
<1>5. n - 1 \in Nat /\ n - 1 < n
  BY <1>3, <1>4
<1>6. n - 1 \notin Bad
  <2> HIDE DEF Bad
  <2> QED BY Zenon, <1>2, <1>5
<1>7. PICK g : Walk(order, g, n - 1)
  BY Zenon, <1>5, <1>6
<1> DEFINE next == IF n = 1 THEN order[1]
                   ELSE IF Better(order[n], g[n - 1]) THEN order[n] ELSE g[n - 1]
           f    == [i \in 1 .. n |-> IF i = n THEN next ELSE g[i]]
<1>8. \A i \in 1 .. n : i # n => f[i] = g[i]
  OBVIOUS
<1>9. ASSUME NEW i \in 1 .. n
      PROVE  f[i] = IF i = 1 THEN order[1]
                    ELSE IF Better(order[i], f[i - 1]) THEN order[i] ELSE f[i - 1]
  <2>1. i # 1 => f[i - 1] = g[i - 1]
    <3> HIDE DEF f
    <3> QED BY <1>3, <1>8
  <2>2. CASE i = n
    <3>1. f[i] = next BY <2>2
    <3> QED BY Zenon, <2>1, <2>2, <3>1
  <2>3. CASE i # n
    <3>1. f[i] = g[i] BY <2>3
    <3>2. i \in 1 .. n - 1 BY <2>3, <1>3
    <3>3. g[i] = IF i = 1 THEN order[1]
                 ELSE IF Better(order[i], g[i - 1]) THEN order[i] ELSE g[i - 1]
      BY Zenon, <1>7, <3>2 DEF Walk
    <3> QED BY Zenon, <2>1, <3>1, <3>3
  <2> QED BY <2>2, <2>3
<1>10. Walk(order, f, n)
  <2>1. f = [i \in 1 .. n |-> f[i]]
    BY Zenon
  <2> HIDE DEF f
  <2> QED BY Zenon, <1>9, <2>1 DEF Walk
<1> QED BY Zenon, <1>3, <1>10

\* a is at least as good a choice as b.
NotWorse(a, b) == IF policy = "spread" THEN CPU(b) <= CPU(a) ELSE CPU(a) <= CPU(b)

\* c is a best choice among the first i nodes of the list.
Chosen(order, i, c) ==
  \E j \in 1 .. i : c = order[j] /\ \A l \in 1 .. i : NotWorse(order[j], order[l])

\* One more node: the policy keeps what it has or takes the new one.
LEMMA ChosenGrows ==
  ASSUME NEW k \in Nat, NEW order, \A j \in 1 .. k : CPU(order[j]) \in Nat,
         NEW i \in 1 .. k, i # 1, NEW b, Chosen(order, i - 1, b)
  PROVE  Chosen(order, i, IF Better(order[i], b) THEN order[i] ELSE b)
<1>1. PICK j \in 1 .. i - 1 : b = order[j] /\ \A l \in 1 .. i - 1 : NotWorse(order[j], order[l])
  BY Zenon DEF Chosen
<1>2. j \in 1 .. i /\ j \in 1 .. k /\ i \in 1 .. i /\ \A l \in 1 .. i : l = i \/ l \in 1 .. i - 1
  OBVIOUS
<1>3. \A l \in 1 .. i : CPU(order[l]) \in Nat
  OBVIOUS
<1>4. CASE Better(order[i], b)
  <2>1. ASSUME NEW l \in 1 .. i PROVE NotWorse(order[i], order[l])
    <3>1. CASE l = i
      BY <1>3, <3>1 DEF NotWorse
    <3>2. CASE l \in 1 .. i - 1
      <4>1. NotWorse(order[j], order[l])
        BY Zenon, <1>1, <3>2
      <4>2. CPU(order[i]) \in Nat /\ CPU(order[j]) \in Nat /\ CPU(order[l]) \in Nat
        BY Zenon, <1>2, <1>3
      <4> QED BY <1>1, <1>4, <4>1, <4>2 DEF NotWorse, Better
    <3> QED BY Zenon, <1>2, <3>1, <3>2
  <2> QED BY Zenon, <1>2, <1>4, <2>1 DEF Chosen
<1>5. CASE ~Better(order[i], b)
  <2>1. ASSUME NEW l \in 1 .. i PROVE NotWorse(order[j], order[l])
    <3>1. CASE l = i
      <4>1. CPU(order[i]) \in Nat /\ CPU(order[j]) \in Nat
        BY Zenon, <1>2, <1>3
      <4> QED BY <1>1, <1>5, <3>1, <4>1 DEF NotWorse, Better
    <3>2. CASE l \in 1 .. i - 1
      BY Zenon, <1>1, <3>2
    <3> QED BY Zenon, <1>2, <3>1, <3>2
  <2> QED BY Zenon, <1>1, <1>2, <1>5, <2>1 DEF Chosen
<1> QED BY Zenon, <1>4, <1>5

\* At the end of the walk the policy has a best one.
LEMMA WalkChooses ==
  ASSUME NEW k \in Nat \ {0}, NEW order, \A j \in 1 .. k : CPU(order[j]) \in Nat,
         NEW best, Walk(order, best, k)
  PROVE  Chosen(order, k, best[k])
<1> DEFINE Bad == {i \in 1 .. k : ~Chosen(order, i, best[i])}
<1>1. SUFFICES ASSUME Bad # {} PROVE FALSE
  OBVIOUS
<1>2. PICK i \in Bad : \A m \in Bad : ~(m < i)
  <2>1. Bad \subseteq Nat
    OBVIOUS
  <2> HIDE DEF Bad
  <2> QED BY Zenon, <1>1, <2>1, LeastElement
<1>3. i \in 1 .. k /\ ~Chosen(order, i, best[i])
  OBVIOUS
<1>4. best[i] = IF i = 1 THEN order[1]
                ELSE IF Better(order[i], best[i - 1]) THEN order[i] ELSE best[i - 1]
  BY Zenon, <1>3 DEF Walk
<1>5. CASE i = 1
  <2>1. CPU(order[1]) \in Nat
    BY <1>3, <1>5
  <2>2. NotWorse(order[1], order[1])
    BY <2>1 DEF NotWorse
  <2>3. Chosen(order, 1, order[1])
    BY <2>2 DEF Chosen
  <2> QED BY Zenon, <1>3, <1>4, <1>5, <2>3
<1>6. CASE i # 1
  <2>1. i - 1 \in 1 .. k /\ i - 1 < i
    BY <1>3, <1>6
  <2>2. i - 1 \notin Bad
    <3> HIDE DEF Bad
    <3> QED BY Zenon, <1>2, <2>1
  <2>3. Chosen(order, i - 1, best[i - 1])
    BY Zenon, <2>1, <2>2
  <2>4. Chosen(order, i, best[i])
    BY Zenon, <1>3, <1>4, <1>6, <2>3, ChosenGrows
  <2> QED BY Zenon, <1>3, <2>4
<1> QED BY Zenon, <1>5, <1>6

\* What select_node of the two policies returns.
select_node(order) == IF policy = "spread" THEN max_by(order) ELSE min_by(order)

\* The policies return the end of such a walk.
LEMMA SelectNode ==
  ASSUME NEW S, NEW order \in Seq(S), order # <<>>,
         \A j \in 1 .. Len(order) : CPU(order[j]) \in Nat
  PROVE  Chosen(order, Len(order), select_node(order))
<1>1. Len(order) \in Nat \ {0} /\ DOMAIN order = 1 .. Len(order)
  BY LenProperties, EmptySeq
<1> DEFINE IsMax(f) == f = [i \in DOMAIN order |->
                              IF i = 1 THEN order[1]
                              ELSE IF CPU(order[i]) >= CPU(f[i - 1]) THEN order[i] ELSE f[i - 1]]
           IsMin(f) == f = [i \in DOMAIN order |->
                              IF i = 1 THEN order[1]
                              ELSE IF CPU(order[i]) < CPU(f[i - 1]) THEN order[i] ELSE f[i - 1]]
<1>2. CASE policy = "spread"
  <2>1. \A f : IsMax(f) <=> Walk(order, f, Len(order))
    BY Zenon, <1>1, <1>2 DEF Walk, Better
  <2>2. \E f : IsMax(f)
    BY Zenon, <1>1, <2>1, WalkExists
  <2>3. IsMax(CHOOSE f : IsMax(f))
    BY Zenon, <2>2
  <2>4. max_by(order) = (CHOOSE f : IsMax(f))[Len(order)]
    BY Zenon DEF max_by
  <2>5. PICK f : Walk(order, f, Len(order)) /\ max_by(order) = f[Len(order)]
    <3> HIDE DEF IsMax
    <3> QED BY Zenon, <2>1, <2>3, <2>4
  <2>6. select_node(order) = max_by(order)
    BY Zenon, <1>2 DEF select_node
  <2> QED BY Zenon, <1>1, <2>5, <2>6, WalkChooses
<1>3. CASE policy # "spread"
  <2>1. \A f : IsMin(f) <=> Walk(order, f, Len(order))
    BY Zenon, <1>1, <1>3 DEF Walk, Better
  <2>2. \E f : IsMin(f)
    BY Zenon, <1>1, <2>1, WalkExists
  <2>3. IsMin(CHOOSE f : IsMin(f))
    BY Zenon, <2>2
  <2>4. min_by(order) = (CHOOSE f : IsMin(f))[Len(order)]
    BY Zenon DEF min_by
  <2>5. PICK f : Walk(order, f, Len(order)) /\ min_by(order) = f[Len(order)]
    <3> HIDE DEF IsMin
    <3> QED BY Zenon, <2>1, <2>3, <2>4
  <2>6. select_node(order) = min_by(order)
    BY Zenon, <1>3 DEF select_node
  <2> QED BY Zenon, <1>1, <2>5, <2>6, WalkChooses
<1> QED BY Zenon, <1>2, <1>3

-----------------------------------------------------------------------------
\* A quantity of a resource map is a natural number.
LEMMA GetType ==
  ASSUME NEW m, IsResMap(m), NEW r
  PROVE  get(m, r) \in Nat
BY DEF IsResMap, get

\* A list of the elements of a finite set has all of them.
LEMMA OrderCovers ==
  ASSUME NEW S, IsFiniteSet(S), S # {}, NEW order \in Orders(S)
  PROVE  /\ order \in Seq(S) /\ order # <<>>
         /\ \A j \in 1 .. Len(order) : order[j] \in S
         /\ \A x \in S : \E j \in 1 .. Len(order) : order[j] = x
<1>1. PICK k \in Nat : k = Cardinality(S)
  BY FS_CardinalityType
<1>2. k # 0
  BY <1>1, FS_EmptySet
<1>3. order \in [1 .. k -> S] /\ \A i, j \in 1 .. k : order[i] = order[j] => i = j
  BY Zenon, <1>1 DEF Orders
<1>4. order \in Seq(S) /\ Len(order) = k
  BY <1>3
<1>5. order # <<>>
  BY <1>2, <1>4
<1>6. IsFiniteSet(1 .. k) /\ Cardinality(1 .. k) = k
  BY FS_Interval
<1>7. order \in Injection(1 .. k, S)
  BY Zenon, <1>3 DEF Injection, IsInjective
<1>8. order \in Surjection(1 .. k, S)
  BY Zenon, <1>1, <1>6, <1>7, FS_Injection
<1>9. \A x \in S : \E j \in 1 .. k : order[j] = x
  BY <1>8 DEF Surjection
<1> QED BY Zenon, <1>3, <1>4, <1>5, <1>9

\* The nodes a task is placed on have views with a natural number of CPUs.
LEMMA EligibleNodes ==
  ASSUME TypeOK, NEW t \in Tasks, NEW n \in Eligible(Need[t])
  PROVE  /\ n \in Nodes /\ views[n] # Absent /\ views[n].is_alive
         /\ IsResMap(views[n].available) /\ can_satisfy(views[n].available, Need[t])
         /\ CPU(n) \in Nat
<1>1. n \in Nodes /\ views[n] # Absent /\ views[n].is_alive /\ can_satisfy(views[n].available, Need[t])
  BY Zenon DEF Eligible, Views
<1>2. IsResMap(views[n].available)
  BY Zenon, <1>1 DEF TypeOK, IsReport
<1>3. CPU(n) \in Nat
  BY Zenon, <1>2, GetType DEF CPU
<1> QED BY Zenon, <1>1, <1>2, <1>3

\* schedule_task on node n.
PlacedOn(t, n) ==
  /\ state[t] = "new"
  /\ n \in Eligible(Need[t]) /\ \A m \in Eligible(Need[t]) : NotWorse(n, m)
  /\ place' = [place EXCEPT ![t] = n]
  /\ state' = [state EXCEPT ![t] = "waiting"]
  /\ behind' = [behind EXCEPT ![t] = since[n].view]
  /\ UNCHANGED <<policy, views, external, since>>

\* Whatever order the views are walked over in, schedule_task places the task
\* on a best one of the eligible nodes.
LEMMA SchedulePlaces ==
  ASSUME TypeOK, NEW t \in Tasks, schedule_task(t)
  PROVE  \E n \in Nodes : PlacedOn(t, n)
<1> DEFINE S == Eligible(Need[t])
<1>1. S \subseteq Nodes
  BY Zenon, EligibleNodes
<1>2. IsFiniteSet(S) /\ S # {}
  <2>1. S # {}
    BY Zenon DEF schedule_task
  <2> HIDE DEF S
  <2> QED BY <1>1, <2>1, GlobalAssumption, FS_Subset
<1>3. PICK order \in Orders(S) :
        LET n == select_node(order) IN
        /\ place' = [place EXCEPT ![t] = n]
        /\ state' = [state EXCEPT ![t] = "waiting"]
        /\ behind' = [behind EXCEPT ![t] = since[n].view]
  BY Zenon DEF schedule_task, select_node
<1>4. PICK n : n = select_node(order)
  OBVIOUS
<1> HIDE DEF S
<1>5. /\ order \in Seq(S) /\ order # <<>>
      /\ \A j \in 1 .. Len(order) : order[j] \in S
      /\ \A x \in S : \E j \in 1 .. Len(order) : order[j] = x
  BY Zenon, <1>2, OrderCovers
<1>6. \A j \in 1 .. Len(order) : CPU(order[j]) \in Nat
  BY Zenon, <1>5, EligibleNodes DEF S
<1>7. Chosen(order, Len(order), n)
  BY Zenon, <1>4, <1>5, <1>6, SelectNode
<1>8. n \in S /\ \A m \in S : NotWorse(n, m)
  BY Zenon, <1>5, <1>7 DEF Chosen
<1>9. state[t] = "new" /\ UNCHANGED <<policy, views, external, since>>
  BY Zenon DEF schedule_task
<1> QED BY Zenon, <1>1, <1>3, <1>4, <1>8, <1>9 DEF PlacedOn, S

-----------------------------------------------------------------------------
\* subtract on a map that can satisfy the request takes exactly the request
\* away, for every name, although it removes the entries that reach zero.
LEMMA SubtractGet ==
  ASSUME NEW m, NEW q, IsResMap(m), IsResMap(q), can_satisfy(m, q)
  PROVE  /\ IsResMap(subtract(m, q))
         /\ \A r : get(subtract(m, q), r) = get(m, r) - get(q, r)
<1>1. \A r : get(m, r) \in Nat /\ get(q, r) \in Nat
  BY GetType
<1>2. \A r : get(m, r) - get(q, r) \in Nat
  BY <1>1 DEF can_satisfy, get, IsResMap
<1>3. IsResMap(subtract(m, q))
  BY <1>1, <1>2 DEF subtract, IsResMap, get
<1>4. ASSUME NEW r PROVE get(subtract(m, q), r) = get(m, r) - get(q, r)
  BY <1>1, <1>2 DEF subtract, get, IsResMap
<1> QED BY <1>3, <1>4

\* add adds exactly the released request, for every name.
LEMMA AddGet ==
  ASSUME NEW m, NEW q, IsResMap(m), IsResMap(q)
  PROVE  /\ IsResMap(add(m, q))
         /\ \A r : get(add(m, q), r) = get(m, r) + get(q, r)
<1>1. \A r : get(m, r) \in Nat /\ get(q, r) \in Nat
  BY GetType
<1>2. IsResMap(add(m, q))
  BY <1>1 DEF add, IsResMap
<1>3. ASSUME NEW r PROVE get(add(m, q), r) = get(m, r) + get(q, r)
  BY <1>1 DEF add, get
<1> QED BY <1>2, <1>3

\* Finitely many holders have finitely many units.
LEMMA UnitsFinite ==
  ASSUME NEW S, IsFiniteSet(S), NEW need, \A h \in S : IsResMap(need[h]), NEW r
  PROVE  IsFiniteSet(Units(S, need, r)) /\ Demand(S, need, r) \in Nat
<1> DEFINE part(h) == {h} \X (1 .. get(need[h], r))
           parts   == {part(h) : h \in S}
           f       == [h \in S |-> part(h)]
<1>1. f \in Surjection(S, parts)
  BY DEF Surjection
<1>2. IsFiniteSet(parts)
  <2> HIDE DEF f, parts
  <2> QED BY <1>1, FS_Surjection
<1>3. ASSUME NEW h \in S PROVE IsFiniteSet(part(h))
  <2>1. get(need[h], r) \in Nat
    BY GetType
  <2>2. IsFiniteSet({h})
    BY FS_Singleton
  <2>3. IsFiniteSet(1 .. get(need[h], r))
    BY <2>1, FS_Interval
  <2> QED BY <2>2, <2>3, FS_Product
<1>4. \A T \in parts : IsFiniteSet(T)
  BY <1>3
<1>5. IsFiniteSet(UNION parts)
  <2> HIDE DEF parts
  <2> QED BY <1>2, <1>4, FS_UNION
<1>6. IsFiniteSet(Units(S, need, r))
  BY <1>5 DEF Units
<1> QED BY <1>6, FS_CardinalityType DEF Demand

\* One more holder adds its own request to the demand.
LEMMA DemandAdd ==
  ASSUME NEW S, IsFiniteSet(S), NEW need, NEW h, h \notin S,
         \A g \in S \cup {h} : IsResMap(need[g]), NEW r
  PROVE  Demand(S \cup {h}, need, r) = Demand(S, need, r) + get(need[h], r)
<1> DEFINE n    == get(need[h], r)
           U    == Units(S, need, r)
           part == {h} \X (1 .. n)
<1>1. n \in Nat
  BY GetType
<1>2. IsFiniteSet(U) /\ Cardinality(U) \in Nat
  BY UnitsFinite DEF Demand
<1>3. IsFiniteSet({h}) /\ Cardinality({h}) = 1
  BY FS_Singleton
<1>4. IsFiniteSet(1 .. n) /\ Cardinality(1 .. n) = n
  BY <1>1, FS_Interval
<1>5. IsFiniteSet(part) /\ Cardinality(part) = Cardinality({h}) * Cardinality(1 .. n)
  <2> HIDE DEF n
  <2> QED BY <1>3, <1>4, FS_Product
<1>6. U \cap part = {}
  BY DEF Units
<1>7. Units(S \cup {h}, need, r) = U \cup part
  BY DEF Units
<1>8. Cardinality(U \cup part) = Cardinality(U) + Cardinality(part) - Cardinality(U \cap part)
  <2> HIDE DEF U, part
  <2> QED BY <1>2, <1>5, FS_Union
<1>9. Cardinality(U \cap part) = 0
  BY <1>6, FS_EmptySet
<1> HIDE DEF U, n, part
<1>10. Cardinality(U \cup part) = Cardinality(U) + n
  BY <1>1, <1>2, <1>3, <1>4, <1>5, <1>8, <1>9
<1> QED BY <1>7, <1>10 DEF Demand, U, n

-----------------------------------------------------------------------------
\* The tasks of S that hold their resources.
Out(S) == {q \in S : state[q] = "holding"}

\* What m promises of node n, the node has left or has handed out to S.
Backed(m, n, S) == \A r : get(m, r) <= get(available[n], r) + Demand(Out(S), Need, r)

\* Every view, every report and every placement is backed by its node and by
\* what the node has handed out since.
BackedInv ==
  /\ \A n \in Nodes : views[n] # Absent => Backed(views[n].available, n, since[n].view)
  /\ \A n \in Nodes : report[n] # Absent => Backed(report[n].available, n, since[n].report)
  /\ \A t \in Tasks : Home[t] = NoNode /\ state[t] = "waiting" =>
       Backed(Need[t], place[t], behind[t])

\* The inductive invariant.
Inv == TypeOK /\ BackedInv

\* The demand of any tasks is a natural number, and grows by the request of
\* one more.
LEMMA TasksDemand ==
  ASSUME NEW H, H \subseteq Tasks, NEW r
  PROVE  /\ Demand(H, Need, r) \in Nat
         /\ \A t \in Tasks \ H :
              Demand(H \cup {t}, Need, r) = Demand(H, Need, r) + get(Need[t], r)
<1>1. IsFiniteSet(H)
  BY GlobalAssumption, FS_Subset
<1>2. \A q \in Tasks : IsResMap(Need[q])
  BY Zenon, GlobalAssumption
<1>3. Demand(H, Need, r) \in Nat
  BY <1>1, <1>2, UnitsFinite
<1>4. ASSUME NEW t \in Tasks \ H
      PROVE  Demand(H \cup {t}, Need, r) = Demand(H, Need, r) + get(Need[t], r)
  <2>1. PICK G : G = H \cup {t}
    OBVIOUS
  <2>2. t \notin H /\ \A g \in G : IsResMap(Need[g])
    BY <1>2, <2>1
  <2>3. Demand(G, Need, r) = Demand(H, Need, r) + get(Need[t], r)
    BY <1>1, <2>1, <2>2, DemandAdd
  <2> QED BY Zenon, <2>1, <2>3
<1> QED BY Zenon, <1>3, <1>4

\* What a node has at the snapshot backs the report.
LEMMA BackedNow ==
  ASSUME NEW n \in Nodes, IsResMap(available[n])
  PROVE  Backed(available[n], n, {})
<1> SUFFICES ASSUME NEW r
             PROVE  get(available[n], r) <= get(available[n], r) + Demand(Out({}), Need, r)
  BY Zenon DEF Backed
<1>1. get(available[n], r) \in Nat
  BY Zenon, GetType
<1>2. Demand(Out({}), Need, r) \in Nat
  <2>1. Out({}) \subseteq Tasks
    BY DEF Out
  <2> QED BY Zenon, <2>1, TasksDemand
<1> QED BY <1>1, <1>2

\* A view that satisfies the task backs its placement.
LEMMA BackedPlacement ==
  ASSUME NEW m, NEW q, IsResMap(m), IsResMap(q), can_satisfy(m, q),
         NEW n \in Nodes, IsResMap(available[n]), NEW S, S \subseteq Tasks, Backed(m, n, S)
  PROVE  Backed(q, n, S)
<1> SUFFICES ASSUME NEW r
             PROVE  get(q, r) <= get(available[n], r) + Demand(Out(S), Need, r)
  BY Zenon DEF Backed
<1>1. get(m, r) <= get(available[n], r) + Demand(Out(S), Need, r)
  BY Zenon DEF Backed
<1>2. get(available[n], r) \in Nat /\ get(m, r) \in Nat /\ get(q, r) \in Nat
  BY Zenon, GetType
<1>3. Demand(Out(S), Need, r) \in Nat
  <2>1. Out(S) \subseteq Tasks
    BY DEF Out
  <2> QED BY Zenon, <2>1, TasksDemand
<1>4. get(q, r) <= get(m, r)
  BY <1>2 DEF can_satisfy, get, IsResMap
<1> QED BY <1>1, <1>2, <1>3, <1>4

\* A step that leaves the node and the holders of S alone.
LEMMA BackedStays ==
  ASSUME NEW m, NEW n, NEW S, available'[n] = available[n],
         \A q \in S : state'[q] = "holding" <=> state[q] = "holding",
         Backed(m, n, S)
  PROVE  Backed(m, n, S)'
<1>1. Out(S)' = Out(S)
  BY DEF Out
<1> QED BY Zenon, <1>1 DEF Backed

\* What a node hands out is added to what it has handed out.
LEMMA BackedAllocate ==
  ASSUME NEW m, IsResMap(m), NEW n \in Nodes, IsResMap(available[n]), NEW S, S \subseteq Tasks,
         NEW t \in Tasks, state[t] # "holding", can_satisfy(available[n], Need[t]),
         available'[n] = subtract(available[n], Need[t]),
         state'[t] = "holding", \A q \in Tasks \ {t} : state'[q] = state[q],
         Backed(m, n, S)
  PROVE  Backed(m, n, S \cup {t})'
<1>1. Out(S \cup {t})' = Out(S) \cup {t} /\ t \notin Out(S) /\ Out(S) \subseteq Tasks
  BY DEF Out
<1>2. IsResMap(Need[t])
  BY Zenon, GlobalAssumption
<1> SUFFICES ASSUME NEW r
             PROVE  get(m, r) <= get(available'[n], r) + Demand(Out(S) \cup {t}, Need, r)
  BY Zenon, <1>1 DEF Backed
<1>3. get(m, r) <= get(available[n], r) + Demand(Out(S), Need, r)
  BY Zenon DEF Backed
<1>4. get(available[n], r) \in Nat /\ get(m, r) \in Nat /\ get(Need[t], r) \in Nat
  BY Zenon, <1>2, GetType
<1>5. Demand(Out(S), Need, r) \in Nat
  BY Zenon, <1>1, TasksDemand
<1>6. Demand(Out(S) \cup {t}, Need, r) = Demand(Out(S), Need, r) + get(Need[t], r)
  BY Zenon, <1>1, TasksDemand
<1>7. get(available'[n], r) = get(available[n], r) - get(Need[t], r)
  BY <1>2, SubtractGet
<1> QED BY <1>3, <1>4, <1>5, <1>6, <1>7

\* What a task gives back, the node has again.
LEMMA BackedEnd ==
  ASSUME NEW m, IsResMap(m), NEW n \in Nodes, IsResMap(available[n]), NEW S, S \subseteq Tasks,
         NEW t \in Tasks, available'[n] = add(available[n], Need[t]),
         state'[t] = "ended", \A q \in Tasks \ {t} : state'[q] = state[q],
         Backed(m, n, S)
  PROVE  Backed(m, n, S)'
<1>1. PICK H : H = Out(S) \ {t}
  OBVIOUS
<1>2. Out(S)' = H /\ t \notin H /\ H \subseteq Tasks /\ (Out(S) = H \/ Out(S) = H \cup {t})
  BY <1>1 DEF Out
<1>3. IsResMap(Need[t])
  BY Zenon, GlobalAssumption
<1> SUFFICES ASSUME NEW r
             PROVE  get(m, r) <= get(available'[n], r) + Demand(H, Need, r)
  BY Zenon, <1>2 DEF Backed
<1>4. get(m, r) <= get(available[n], r) + Demand(Out(S), Need, r)
  BY Zenon DEF Backed
<1>5. get(available[n], r) \in Nat /\ get(m, r) \in Nat /\ get(Need[t], r) \in Nat
  BY Zenon, <1>3, GetType
<1>6. Demand(H, Need, r) \in Nat
  BY Zenon, <1>2, TasksDemand
<1>7. Demand(H \cup {t}, Need, r) = Demand(H, Need, r) + get(Need[t], r)
  BY Zenon, <1>2, TasksDemand
<1>8. get(available'[n], r) = get(available[n], r) + get(Need[t], r)
  BY <1>3, AddGet
<1>9. \/ Demand(Out(S), Need, r) = Demand(H, Need, r)
      \/ Demand(Out(S), Need, r) = Demand(H, Need, r) + get(Need[t], r)
  BY Zenon, <1>2, <1>7
<1> QED BY <1>4, <1>5, <1>6, <1>8, <1>9

-----------------------------------------------------------------------------
\* The invariant holds before the first report.
LEMMA InitInv == Init => Inv
<1> SUFFICES ASSUME Init PROVE Inv
  OBVIOUS
<1>1. TypeOK
  <2>1. since \in [Nodes -> [view : SUBSET Tasks, report : SUBSET Tasks]]
    BY DEF Init
  <2>2. \A n \in Nodes : IsReport(views[n]) /\ IsReport(report[n]) /\ IsResMap(available[n])
    BY Zenon, GlobalAssumption DEF Init, IsReport
  <2>3. \A n \in Nodes : since[n].view = {} /\ since[n].report = {}
    BY DEF Init
  <2>4. /\ state \in [Tasks -> {"new", "waiting", "holding", "ended"}]
        /\ \A t \in Tasks : place[t] = NoNode <=> state[t] = "new"
    BY DEF Init
  <2>5. /\ DOMAIN views = Nodes /\ DOMAIN report = Nodes /\ DOMAIN available = Nodes
        /\ policy \in {"spread", "pack"} /\ place \in [Tasks -> Nodes \cup {NoNode}]
        /\ behind \in [Tasks -> SUBSET Tasks] /\ \A t \in Tasks : behind[t] = {}
    BY GlobalAssumption DEF Init
  <2> QED BY <2>1, <2>2, <2>3, <2>4, <2>5 DEF TypeOK
<1>2. \A n \in Nodes : views[n] = Absent /\ report[n] = Absent
  BY Zenon DEF Init
<1>3. \A t \in Tasks : ~(Home[t] = NoNode /\ state[t] = "waiting")
  BY DEF Init
<1> QED BY Zenon, <1>1, <1>2, <1>3 DEF Inv, BackedInv

\* The types of the state, one variable at a time.
LEMMA Types ==
  ASSUME TypeOK
  PROVE  /\ \A n \in Nodes : /\ IsReport(views[n]) /\ IsReport(report[n]) /\ IsResMap(available[n])
                             /\ since[n].view \subseteq Tasks /\ since[n].report \subseteq Tasks
         /\ \A n \in Nodes : /\ views[n] # Absent => IsResMap(views[n].available)
                             /\ report[n] # Absent => IsResMap(report[n].available)
         /\ \A t \in Tasks : behind[t] \subseteq Tasks
         /\ \A t \in Tasks : IsResMap(Need[t])
<1>1. \A n \in Nodes : since[n].view \subseteq Tasks /\ since[n].report \subseteq Tasks
  BY DEF TypeOK
<1>2. \A t \in Tasks : behind[t] \subseteq Tasks
  BY DEF TypeOK
<1> QED BY Zenon, <1>1, <1>2, GlobalAssumption DEF TypeOK, IsReport

\* A placement is backed by the view it was chosen by.
LEMMA PlaceStep ==
  ASSUME Inv, NEW t \in Tasks, NEW n \in Nodes, PlacedOn(t, n)
  PROVE  Inv'
<1> USE DEF Inv
<1>1. /\ views[n] # Absent /\ IsResMap(views[n].available)
      /\ can_satisfy(views[n].available, Need[t])
  BY Zenon, EligibleNodes DEF PlacedOn
<1>2. /\ state[t] = "new" /\ place[t] = NoNode
      /\ place' = [place EXCEPT ![t] = n] /\ state' = [state EXCEPT ![t] = "waiting"]
      /\ behind' = [behind EXCEPT ![t] = since[n].view]
      /\ policy' = policy /\ views' = views /\ available' = available /\ report' = report
      /\ since' = since
  BY Zenon DEF PlacedOn, TypeOK, external
<1>3. /\ place \in [Tasks -> Nodes \cup {NoNode}] /\ behind \in [Tasks -> SUBSET Tasks]
      /\ state \in [Tasks -> {"new", "waiting", "holding", "ended"}]
      /\ NoNode \notin Nodes
  BY Zenon, GlobalAssumption DEF TypeOK
<1>4. /\ place'[t] = n /\ state'[t] = "waiting" /\ behind'[t] = since[n].view
      /\ \A s \in Tasks \ {t} : /\ place'[s] = place[s] /\ state'[s] = state[s]
                                /\ behind'[s] = behind[s]
  BY Zenon, <1>2, <1>3
<1>5. \A q \in Tasks : state'[q] = "holding" <=> state[q] = "holding"
  BY <1>2, <1>4
<1>6. TypeOK'
  <2>1. /\ place' \in [Tasks -> Nodes \cup {NoNode}]
        /\ state' \in [Tasks -> {"new", "waiting", "holding", "ended"}]
    BY <1>2, <1>3
  <2>2. behind' \in [Tasks -> SUBSET Tasks]
    BY <1>2, <1>3, Types
  <2>3. \A s \in Tasks : place'[s] = NoNode <=> state'[s] = "new"
    BY <1>3, <1>4 DEF TypeOK
  <2>4. \A m \in Nodes : \A q \in since[m].view \cup since[m].report :
          q \in Tasks /\ q # t /\ place[q] = m
    BY <1>2, <1>3, Types DEF TypeOK
  <2>5. \A m \in Nodes : \A q \in since'[m].view \cup since'[m].report : place'[q] = m
    BY Zenon, <1>2, <1>4, <2>4
  <2>6. ASSUME NEW s \in Tasks, NEW q \in behind'[s]
        PROVE  place'[q] = place'[s] /\ place'[s] # NoNode
    <3>1. CASE s = t
      BY <1>3, <1>4, <2>4, <2>6, <3>1
    <3>2. CASE s # t
      <4>1. q \in behind[s] /\ q \in Tasks /\ place'[s] = place[s]
        BY Zenon, <1>4, <2>6, <3>2, Types
      <4>2. place[q] = place[s] /\ place[s] # NoNode
        BY Zenon, <4>1 DEF TypeOK
      <4> QED BY Zenon, <1>2, <1>4, <4>1, <4>2
    <3> QED BY Zenon, <3>1, <3>2
  <2>7. \A m \in Nodes : IsReport(views'[m]) /\ IsReport(report'[m]) /\ IsResMap(available'[m])
    BY Zenon, <1>2 DEF TypeOK
  <2> QED BY Zenon, <1>2, <2>1, <2>2, <2>3, <2>5, <2>6, <2>7 DEF TypeOK
<1>7. ASSUME NEW m \in Nodes, views'[m] # Absent
      PROVE  Backed(views[m].available, m, since[m].view)'
  <2>1. PICK a, S : a = views[m].available /\ S = since[m].view
    OBVIOUS
  <2>2. Backed(a, m, S) /\ S \subseteq Tasks
    BY Zenon, <1>2, <1>7, <2>1, Types DEF BackedInv
  <2>3. Backed(a, m, S)'
    BY Zenon, <1>2, <1>5, <2>2, BackedStays
  <2> QED BY Zenon, <1>2, <2>1, <2>3 DEF Backed, Out
<1>8. ASSUME NEW m \in Nodes, report'[m] # Absent
      PROVE  Backed(report[m].available, m, since[m].report)'
  <2>1. PICK a, S : a = report[m].available /\ S = since[m].report
    OBVIOUS
  <2>2. Backed(a, m, S) /\ S \subseteq Tasks
    BY Zenon, <1>2, <1>8, <2>1, Types DEF BackedInv
  <2>3. Backed(a, m, S)'
    BY Zenon, <1>2, <1>5, <2>2, BackedStays
  <2> QED BY Zenon, <1>2, <2>1, <2>3 DEF Backed, Out
<1>9. ASSUME NEW s \in Tasks, Home[s] = NoNode, state'[s] = "waiting"
      PROVE  Backed(Need[s], place[s], behind[s])'
  <2>1. CASE s = t
    <3>1. PICK S : S = since[n].view
      OBVIOUS
    <3>2. Backed(views[n].available, n, S) /\ S \subseteq Tasks
      BY Zenon, <1>1, <3>1, Types DEF BackedInv
    <3>3. Backed(Need[t], n, S)
      BY Zenon, <1>1, <3>2, Types, BackedPlacement
    <3>4. Backed(Need[t], n, S)'
      BY Zenon, <1>2, <1>5, <3>2, <3>3, BackedStays
    <3> QED BY Zenon, <1>4, <2>1, <3>1, <3>4 DEF Backed, Out
  <2>2. CASE s # t
    <3>1. PICK k, S : k = place[s] /\ S = behind[s]
      OBVIOUS
    <3>2. Backed(Need[s], k, S) /\ S \subseteq Tasks
      BY Zenon, <1>4, <1>9, <2>2, <3>1, Types DEF BackedInv
    <3>3. Backed(Need[s], k, S)'
      BY Zenon, <1>2, <1>5, <3>2, BackedStays
    <3> QED BY Zenon, <1>4, <2>2, <3>1, <3>3 DEF Backed, Out
  <2> QED BY Zenon, <2>1, <2>2
<1> QED BY Zenon, <1>6, <1>7, <1>8, <1>9 DEF BackedInv

\* A step that changes what is available on one node and who holds it, and
\* keeps every view, report and placement of the node backed.
LEMMA NodeStep ==
  ASSUME Inv, TypeOK', NEW t \in Tasks, NEW n \in Nodes, place[t] = n,
         state[t] # "new", state'[t] # "waiting",
         place' = place, views' = views, report' = report,
         \A m \in Nodes \ {n} : available'[m] = available[m] /\ since'[m] = since[m],
         \A s \in Tasks \ {t} : state'[s] = state[s],
         \A s \in Tasks : place[s] # n => behind'[s] = behind[s],
         views[n] # Absent => Backed(views[n].available, n, since[n].view)',
         report[n] # Absent => Backed(report[n].available, n, since[n].report)',
         \A s \in Tasks \ {t} : Home[s] = NoNode /\ state[s] = "waiting" /\ place[s] = n =>
           Backed(Need[s], n, behind[s])'
  PROVE  Inv'
<1> USE DEF Inv
<1>1. ASSUME NEW m \in Nodes \ {n}, NEW a, NEW S, S \subseteq Tasks, \A q \in S : place[q] = m,
             Backed(a, m, S)
      PROVE  Backed(a, m, S)'
  <2>1. \A q \in S : state'[q] = "holding" <=> state[q] = "holding"
    BY Zenon, <1>1
  <2> QED BY Zenon, <1>1, <2>1, BackedStays
<1>2. ASSUME NEW m \in Nodes \ {n}, views[m] # Absent
      PROVE  Backed(views[m].available, m, since[m].view)'
  <2>1. PICK a, S : a = views[m].available /\ S = since[m].view
    OBVIOUS
  <2>2. Backed(a, m, S)
    BY Zenon, <1>2, <2>1 DEF BackedInv
  <2>3. S \subseteq Tasks /\ \A q \in S : place[q] = m
    BY <2>1, Types DEF TypeOK
  <2>4. Backed(a, m, S)'
    BY Zenon, <1>1, <2>2, <2>3
  <2> QED BY Zenon, <2>1, <2>4 DEF Backed, Out
<1>3. ASSUME NEW m \in Nodes \ {n}, report[m] # Absent
      PROVE  Backed(report[m].available, m, since[m].report)'
  <2>1. PICK a, S : a = report[m].available /\ S = since[m].report
    OBVIOUS
  <2>2. Backed(a, m, S)
    BY Zenon, <1>3, <2>1 DEF BackedInv
  <2>3. S \subseteq Tasks /\ \A q \in S : place[q] = m
    BY <2>1, Types DEF TypeOK
  <2>4. Backed(a, m, S)'
    BY Zenon, <1>1, <2>2, <2>3
  <2> QED BY Zenon, <2>1, <2>4 DEF Backed, Out
<1>4. ASSUME NEW s \in Tasks, Home[s] = NoNode, state'[s] = "waiting", place[s] # n
      PROVE  Backed(Need[s], place[s], behind[s])'
  <2>1. PICK m, S : m = place[s] /\ S = behind[s]
    OBVIOUS
  <2>2. s # t /\ state[s] = "waiting"
    BY Zenon, <1>4
  <2>3. m \in Nodes \ {n}
    BY <1>4, <2>1, <2>2 DEF TypeOK
  <2>4. Backed(Need[s], m, S)
    BY Zenon, <1>4, <2>1, <2>2 DEF BackedInv
  <2>5. S \subseteq Tasks /\ \A q \in S : place[q] = m
    BY <2>1, Types DEF TypeOK
  <2>6. Backed(Need[s], m, S)'
    BY Zenon, <1>1, <2>3, <2>4, <2>5
  <2> QED BY Zenon, <1>4, <2>1, <2>6 DEF Backed, Out
<1>5. ASSUME NEW s \in Tasks, Home[s] = NoNode, state'[s] = "waiting", place[s] = n
      PROVE  Backed(Need[s], place[s], behind[s])'
  <2>1. s # t /\ state[s] = "waiting"
    BY Zenon, <1>5
  <2>2. Backed(Need[s], n, behind[s])'
    BY Zenon, <1>5, <2>1
  <2> QED BY Zenon, <1>5, <2>2 DEF Backed
<1>6. /\ \A m \in Nodes : views'[m] # Absent => Backed(views[m].available, m, since[m].view)'
      /\ \A m \in Nodes : report'[m] # Absent => Backed(report[m].available, m, since[m].report)'
  BY Zenon, <1>2, <1>3
<1> QED BY Zenon, <1>4, <1>5, <1>6 DEF BackedInv

\* What a task allocates is counted behind every view, report and waiting task
\* of its node.
LEMMA AllocateStep ==
  ASSUME Inv, NEW t \in Tasks, Allocate(t)
  PROVE  Inv'
<1> USE DEF Inv
<1>1. PICK n : n = place[t]
  OBVIOUS
<1>2. /\ state[t] = "waiting" /\ can_satisfy(available[n], Need[t])
      /\ available' = [available EXCEPT ![n] = subtract(available[n], Need[t])]
      /\ state' = [state EXCEPT ![t] = "holding"]
      /\ since' = [since EXCEPT ![n] = [view   |-> since[n].view \cup {t},
                                        report |-> since[n].report \cup {t}]]
      /\ behind' = [q \in Tasks |-> IF q \in Waiting(n) \ {t} THEN behind[q] \cup {t} ELSE behind[q]]
      /\ policy' = policy /\ views' = views /\ place' = place /\ report' = report
  BY Zenon, <1>1 DEF Allocate
<1>3. /\ place \in [Tasks -> Nodes \cup {NoNode}]
      /\ state \in [Tasks -> {"new", "waiting", "holding", "ended"}]
      /\ place[t] = NoNode <=> state[t] = "new"
      /\ since \in [Nodes -> [view : SUBSET Tasks, report : SUBSET Tasks]]
  BY Zenon DEF TypeOK
<1>4. n \in Nodes
  BY <1>1, <1>2, <1>3
<1>5. IsResMap(subtract(available[n], Need[t])) /\ IsResMap(available[n])
  BY Zenon, <1>2, <1>4, SubtractGet, Types
<1>6. /\ available'[n] = subtract(available[n], Need[t]) /\ DOMAIN available' = Nodes
      /\ \A m \in Nodes \ {n} : available'[m] = available[m]
  BY Zenon, <1>2, <1>4 DEF TypeOK
<1>7. state'[t] = "holding" /\ \A s \in Tasks \ {t} : state'[s] = state[s]
  BY Zenon, <1>2, <1>3
<1>8. /\ since'[n].view = since[n].view \cup {t} /\ since'[n].report = since[n].report \cup {t}
      /\ \A m \in Nodes \ {n} : since'[m] = since[m]
  BY <1>2, <1>3, <1>4
<1>9. \A s \in Tasks : \/ s \in Waiting(n) \ {t} /\ behind'[s] = behind[s] \cup {t}
                       \/ s \notin Waiting(n) \ {t} /\ behind'[s] = behind[s]
  BY Zenon, <1>2
<1>10. TypeOK'
  <2>1. state' \in [Tasks -> {"new", "waiting", "holding", "ended"}]
    BY <1>2, <1>3
  <2>2. \A s \in Tasks : place'[s] = NoNode <=> state'[s] = "new"
    BY <1>2, <1>3, <1>7 DEF TypeOK
  <2>3. \A m \in Nodes : IsReport(views'[m]) /\ IsReport(report'[m]) /\ IsResMap(available'[m])
    BY Zenon, <1>2, <1>5, <1>6 DEF TypeOK
  <2>4. since' \in [Nodes -> [view : SUBSET Tasks, report : SUBSET Tasks]]
    BY <1>2, <1>3, <1>4
  <2>5. \A m \in Nodes : \A q \in since'[m].view \cup since'[m].report : place'[q] = m
    <3>1. ASSUME NEW q \in since'[n].view \cup since'[n].report PROVE place'[q] = n
      <4>1. q = t \/ q \in since[n].view \cup since[n].report
        BY <1>8, <3>1
      <4> QED BY Zenon, <1>1, <1>2, <1>4, <4>1 DEF TypeOK
    <3>2. ASSUME NEW m \in Nodes \ {n}, NEW q \in since'[m].view \cup since'[m].report
          PROVE  place'[q] = m
      BY Zenon, <1>2, <1>8, <3>2 DEF TypeOK
    <3> QED BY Zenon, <3>1, <3>2
  <2>6. behind' \in [Tasks -> SUBSET Tasks]
    <3>1. \A s \in Tasks : behind'[s] \subseteq Tasks
      BY <1>9, Types
    <3> QED BY <1>2, <3>1
  <2>7. ASSUME NEW s \in Tasks, NEW q \in behind'[s]
        PROVE  place'[q] = place'[s] /\ place'[s] # NoNode
    <3>1. q \in behind[s] \/ (q = t /\ place[s] = n)
      BY <1>9, <2>7 DEF Waiting
    <3>2. n # NoNode
      BY <1>4, GlobalAssumption
    <3> QED BY Zenon, <1>1, <1>2, <3>1, <3>2 DEF TypeOK
  <2> QED BY Zenon, <1>2, <1>6, <2>1, <2>2, <2>3, <2>4, <2>5, <2>6, <2>7 DEF TypeOK
<1>11. ASSUME NEW a, IsResMap(a), NEW S, S \subseteq Tasks, Backed(a, n, S)
       PROVE  Backed(a, n, S \cup {t})'
  <2>1. state[t] # "holding"
    BY <1>2
  <2> QED BY Zenon, <1>2, <1>4, <1>5, <1>6, <1>7, <1>11, <2>1, BackedAllocate
<1>12. ASSUME views[n] # Absent PROVE Backed(views[n].available, n, since[n].view)'
  <2>1. PICK a, S : a = views[n].available /\ S = since[n].view
    OBVIOUS
  <2>2. Backed(a, n, S) /\ IsResMap(a) /\ S \subseteq Tasks
    BY Zenon, <1>4, <1>12, <2>1, Types DEF BackedInv
  <2>3. Backed(a, n, S \cup {t})'
    BY Zenon, <1>11, <2>2
  <2> QED BY Zenon, <1>2, <1>8, <2>1, <2>3 DEF Backed, Out
<1>13. ASSUME report[n] # Absent PROVE Backed(report[n].available, n, since[n].report)'
  <2>1. PICK a, S : a = report[n].available /\ S = since[n].report
    OBVIOUS
  <2>2. Backed(a, n, S) /\ IsResMap(a) /\ S \subseteq Tasks
    BY Zenon, <1>4, <1>13, <2>1, Types DEF BackedInv
  <2>3. Backed(a, n, S \cup {t})'
    BY Zenon, <1>11, <2>2
  <2> QED BY Zenon, <1>2, <1>8, <2>1, <2>3 DEF Backed, Out
<1>14. ASSUME NEW s \in Tasks \ {t}, Home[s] = NoNode, state[s] = "waiting", place[s] = n
       PROVE  Backed(Need[s], n, behind[s])'
  <2>1. PICK S : S = behind[s]
    OBVIOUS
  <2>2. Backed(Need[s], n, S) /\ IsResMap(Need[s]) /\ S \subseteq Tasks
    BY Zenon, <1>14, <2>1, Types DEF BackedInv
  <2>3. Backed(Need[s], n, S \cup {t})'
    BY Zenon, <1>11, <2>2
  <2>4. behind'[s] = S \cup {t}
    BY Zenon, <1>9, <1>14, <2>1 DEF Waiting
  <2> QED BY Zenon, <2>3, <2>4 DEF Backed, Out
<1>15. \A s \in Tasks : place[s] # n => behind'[s] = behind[s]
  BY Zenon, <1>9 DEF Waiting
<1>16. state[t] # "new" /\ state'[t] # "waiting"
  BY <1>2, <1>7
<1>17. /\ views[n] # Absent => Backed(views[n].available, n, since[n].view)'
       /\ report[n] # Absent => Backed(report[n].available, n, since[n].report)'
       /\ \A s \in Tasks \ {t} : Home[s] = NoNode /\ state[s] = "waiting" /\ place[s] = n =>
            Backed(Need[s], n, behind[s])'
  BY Zenon, <1>12, <1>13, <1>14
<1>18. place[t] = n /\ place' = place /\ views' = views /\ report' = report
  BY Zenon, <1>1, <1>2
<1>19. \A m \in Nodes \ {n} : available'[m] = available[m] /\ since'[m] = since[m]
  BY Zenon, <1>6, <1>8
<1> QED BY Zenon, <1>4, <1>7, <1>10, <1>15, <1>16, <1>17, <1>18, <1>19, NodeStep

\* What a task gives back at its end is available again.
LEMMA EndStep ==
  ASSUME Inv, NEW t \in Tasks, End(t)
  PROVE  Inv'
<1> USE DEF Inv
<1>1. PICK n : n = place[t]
  OBVIOUS
<1>2. /\ state[t] = "holding"
      /\ available' = [available EXCEPT ![n] = add(available[n], Need[t])]
      /\ state' = [state EXCEPT ![t] = "ended"] /\ since' = since /\ behind' = behind
      /\ policy' = policy /\ views' = views /\ place' = place /\ report' = report
  BY Zenon, <1>1 DEF End
<1>3. /\ place \in [Tasks -> Nodes \cup {NoNode}]
      /\ state \in [Tasks -> {"new", "waiting", "holding", "ended"}]
      /\ place[t] = NoNode <=> state[t] = "new"
  BY Zenon DEF TypeOK
<1>4. n \in Nodes
  BY <1>1, <1>2, <1>3
<1>5. IsResMap(add(available[n], Need[t])) /\ IsResMap(available[n])
  BY Zenon, <1>4, AddGet, Types
<1>6. /\ available'[n] = add(available[n], Need[t]) /\ DOMAIN available' = Nodes
      /\ \A m \in Nodes \ {n} : available'[m] = available[m]
  BY Zenon, <1>2, <1>4 DEF TypeOK
<1>7. state'[t] = "ended" /\ \A s \in Tasks \ {t} : state'[s] = state[s]
  BY Zenon, <1>2, <1>3
<1>8. TypeOK'
  <2>1. state' \in [Tasks -> {"new", "waiting", "holding", "ended"}]
    BY <1>2, <1>3
  <2>2. \A s \in Tasks : place'[s] = NoNode <=> state'[s] = "new"
    BY <1>2, <1>3, <1>7 DEF TypeOK
  <2>3. \A m \in Nodes : IsReport(views'[m]) /\ IsReport(report'[m]) /\ IsResMap(available'[m])
    BY Zenon, <1>2, <1>5, <1>6 DEF TypeOK
  <2>4. /\ since' \in [Nodes -> [view : SUBSET Tasks, report : SUBSET Tasks]]
        /\ \A m \in Nodes : \A q \in since'[m].view \cup since'[m].report : place'[q] = m
    BY Zenon, <1>2 DEF TypeOK
  <2>5. /\ behind' \in [Tasks -> SUBSET Tasks]
        /\ \A s \in Tasks : \A q \in behind'[s] : place'[q] = place'[s] /\ place'[s] # NoNode
    BY Zenon, <1>2 DEF TypeOK
  <2>6. /\ policy' \in {"spread", "pack"} /\ DOMAIN views' = Nodes /\ DOMAIN report' = Nodes
        /\ place' \in [Tasks -> Nodes \cup {NoNode}]
    BY Zenon, <1>2 DEF TypeOK
  <2> QED BY Zenon, <1>6, <2>1, <2>2, <2>3, <2>4, <2>5, <2>6 DEF TypeOK
<1>9. ASSUME NEW a, IsResMap(a), NEW S, S \subseteq Tasks, Backed(a, n, S)
      PROVE  Backed(a, n, S)'
  BY Zenon, <1>4, <1>5, <1>6, <1>7, <1>9, BackedEnd
<1>10. ASSUME views[n] # Absent PROVE Backed(views[n].available, n, since[n].view)'
  <2>1. PICK a, S : a = views[n].available /\ S = since[n].view
    OBVIOUS
  <2>2. Backed(a, n, S) /\ IsResMap(a) /\ S \subseteq Tasks
    BY Zenon, <1>4, <1>10, <2>1, Types DEF BackedInv
  <2>3. Backed(a, n, S)'
    BY Zenon, <1>9, <2>2
  <2> QED BY Zenon, <1>2, <2>1, <2>3 DEF Backed, Out
<1>11. ASSUME report[n] # Absent PROVE Backed(report[n].available, n, since[n].report)'
  <2>1. PICK a, S : a = report[n].available /\ S = since[n].report
    OBVIOUS
  <2>2. Backed(a, n, S) /\ IsResMap(a) /\ S \subseteq Tasks
    BY Zenon, <1>4, <1>11, <2>1, Types DEF BackedInv
  <2>3. Backed(a, n, S)'
    BY Zenon, <1>9, <2>2
  <2> QED BY Zenon, <1>2, <2>1, <2>3 DEF Backed, Out
<1>12. ASSUME NEW s \in Tasks \ {t}, Home[s] = NoNode, state[s] = "waiting", place[s] = n
       PROVE  Backed(Need[s], n, behind[s])'
  <2>1. PICK S : S = behind[s]
    OBVIOUS
  <2>2. Backed(Need[s], n, S) /\ IsResMap(Need[s]) /\ S \subseteq Tasks
    BY Zenon, <1>12, <2>1, Types DEF BackedInv
  <2>3. Backed(Need[s], n, S)'
    BY Zenon, <1>9, <2>2
  <2> QED BY Zenon, <1>2, <2>1, <2>3 DEF Backed, Out
<1>13. /\ views[n] # Absent => Backed(views[n].available, n, since[n].view)'
       /\ report[n] # Absent => Backed(report[n].available, n, since[n].report)'
       /\ \A s \in Tasks \ {t} : Home[s] = NoNode /\ state[s] = "waiting" /\ place[s] = n =>
            Backed(Need[s], n, behind[s])'
  BY Zenon, <1>10, <1>11, <1>12
<1>14. /\ place[t] = n /\ place' = place /\ views' = views /\ report' = report
       /\ \A s \in Tasks : place[s] # n => behind'[s] = behind[s]
  BY Zenon, <1>1, <1>2
<1>15. \A m \in Nodes \ {n} : available'[m] = available[m] /\ since'[m] = since[m]
  BY Zenon, <1>2, <1>6
<1>16. state[t] # "new" /\ state'[t] # "waiting"
  BY <1>2, <1>7
<1> QED BY Zenon, <1>4, <1>7, <1>8, <1>13, <1>14, <1>15, <1>16, NodeStep

\* A snapshot is backed by the node; the report carries what was handed out
\* since over to the view.
LEMMA ReportStep ==
  ASSUME Inv, NEW n \in Nodes,
         \/ \E alive \in BOOLEAN : update_node(n, alive)
         \/ remove_node(n) \/ Snapshot(n) \/ LoseReport(n)
  PROVE  Inv'
<1> USE DEF Inv
<1>1. /\ policy' = policy /\ place' = place /\ state' = state
      /\ available' = available /\ behind' = behind
  BY Zenon DEF update_node, remove_node, Snapshot, LoseReport, external
<1>2. \A a, m, S : Backed(a, m, S)' <=> Backed(a, m, S)
  BY Zenon, <1>1 DEF Backed, Out
<1>3. SUFFICES
        /\ DOMAIN views' = Nodes /\ DOMAIN report' = Nodes
        /\ since' \in [Nodes -> [view : SUBSET Tasks, report : SUBSET Tasks]]
        /\ \A m \in Nodes :
             /\ IsReport(views'[m]) /\ IsReport(report'[m])
             /\ \A q \in since'[m].view \cup since'[m].report : place[q] = m
             /\ views'[m] # Absent => Backed(views'[m].available, m, since'[m].view)
             /\ report'[m] # Absent => Backed(report'[m].available, m, since'[m].report)
  <2>1. TypeOK'
    BY Zenon, <1>1, <1>3 DEF TypeOK
  <2>2. ASSUME NEW m \in Nodes
        PROVE  /\ views'[m] # Absent => Backed(views[m].available, m, since[m].view)'
               /\ report'[m] # Absent => Backed(report[m].available, m, since[m].report)'
    <3>1. /\ views'[m] # Absent => Backed(views'[m].available, m, since'[m].view)
          /\ report'[m] # Absent => Backed(report'[m].available, m, since'[m].report)
      BY Zenon, <1>3
    <3>2. \A a, S : Backed(a, m, S) <=>
            \A r : get(a, r) <= get(available'[m], r) + Demand({q \in S : state'[q] = "holding"}, Need, r)
      BY Zenon, <1>1 DEF Backed, Out
    <3>3. views'[m] # Absent => Backed(views[m].available, m, since[m].view)'
      BY Zenon, <3>1, <3>2 DEF Backed, Out
    <3>4. report'[m] # Absent => Backed(report[m].available, m, since[m].report)'
      BY Zenon, <3>1, <3>2 DEF Backed, Out
    <3> QED BY Zenon, <3>3, <3>4
  <2>3. ASSUME NEW s \in Tasks, Home[s] = NoNode, state'[s] = "waiting"
        PROVE  Backed(Need[s], place[s], behind[s])'
    BY Zenon, <1>1, <2>3 DEF BackedInv, Backed, Out
  <2> QED BY Zenon, <2>1, <2>2, <2>3 DEF BackedInv
<1>4. /\ DOMAIN views = Nodes /\ DOMAIN report = Nodes
      /\ since \in [Nodes -> [view : SUBSET Tasks, report : SUBSET Tasks]]
      /\ \A m \in Nodes :
           /\ IsReport(views[m]) /\ IsReport(report[m]) /\ IsResMap(available[m])
           /\ \A q \in since[m].view \cup since[m].report : place[q] = m
           /\ views[m] # Absent => Backed(views[m].available, m, since[m].view)
           /\ report[m] # Absent => Backed(report[m].available, m, since[m].report)
  BY Zenon DEF TypeOK, BackedInv
<1>5. IsReport(Absent)
  BY Zenon DEF IsReport
<1>6. ASSUME NEW alive \in BOOLEAN, update_node(n, alive) PROVE <1>3!1
  <2> DEFINE v == [available |-> report[n].available, is_alive |-> alive]
  <2>1. /\ report[n] # Absent /\ views' = [views EXCEPT ![n] = v]
        /\ report' = [report EXCEPT ![n] = Absent]
        /\ since' = [since EXCEPT ![n].view = since[n].report]
    BY Zenon, <1>6 DEF update_node
  <2>2. v.available = report[n].available /\ IsReport(v)
    BY Zenon, <1>4, <2>1 DEF IsReport
  <2>3. /\ since' \in [Nodes -> [view : SUBSET Tasks, report : SUBSET Tasks]]
        /\ since'[n].view = since[n].report /\ since'[n].report = since[n].report
        /\ \A m \in Nodes \ {n} : since'[m] = since[m]
    BY <1>4, <2>1
  <2> HIDE DEF v
  <2>4. /\ views'[n] = v /\ report'[n] = Absent
        /\ \A m \in Nodes \ {n} : views'[m] = views[m] /\ report'[m] = report[m]
    BY Zenon, <1>4, <2>1
  <2>5. DOMAIN views' = Nodes /\ DOMAIN report' = Nodes
    BY Zenon, <1>4, <2>1
  <2>6. \A q \in since'[n].view \cup since'[n].report : place[q] = n
    BY Zenon, <1>4, <2>3
  <2>7. Backed(views'[n].available, n, since'[n].view)
    BY Zenon, <1>4, <2>1, <2>2, <2>3, <2>4
  <2> QED BY Zenon, <1>4, <1>5, <2>2, <2>3, <2>4, <2>5, <2>6, <2>7
<1>7. ASSUME remove_node(n) PROVE <1>3!1
  <2>1. views' = [views EXCEPT ![n] = Absent] /\ report' = report /\ since' = since
    BY Zenon, <1>7 DEF remove_node, external
  <2> QED BY Zenon, <1>4, <1>5, <2>1
<1>8. ASSUME Snapshot(n) PROVE <1>3!1
  <2> DEFINE v == [available |-> available[n], is_alive |-> TRUE]
  <2>1. /\ report' = [report EXCEPT ![n] = v] /\ views' = views
        /\ since' = [since EXCEPT ![n].report = {}]
    BY Zenon, <1>8 DEF Snapshot
  <2>2. v.available = available[n] /\ IsReport(v)
    BY Zenon, <1>4 DEF IsReport
  <2>3. /\ since' \in [Nodes -> [view : SUBSET Tasks, report : SUBSET Tasks]]
        /\ since'[n].view = since[n].view /\ since'[n].report = {}
        /\ \A m \in Nodes \ {n} : since'[m] = since[m]
    BY <1>4, <2>1
  <2> HIDE DEF v
  <2>4. report'[n] = v /\ \A m \in Nodes \ {n} : report'[m] = report[m]
    BY Zenon, <1>4, <2>1
  <2>5. DOMAIN views' = Nodes /\ DOMAIN report' = Nodes
    BY Zenon, <1>4, <2>1
  <2>6. \A q \in since'[n].view \cup since'[n].report : place[q] = n
    BY Zenon, <1>4, <2>3
  <2>7. Backed(report'[n].available, n, since'[n].report)
    BY Zenon, <1>4, <2>2, <2>3, <2>4, BackedNow
  <2> QED BY Zenon, <1>4, <2>1, <2>2, <2>3, <2>4, <2>5, <2>6, <2>7
<1>9. ASSUME LoseReport(n) PROVE <1>3!1
  <2>1. report' = [report EXCEPT ![n] = Absent] /\ views' = views /\ since' = since
    BY Zenon, <1>9 DEF LoseReport
  <2> QED BY Zenon, <1>4, <1>5, <2>1
<1> QED BY Zenon, <1>6, <1>7, <1>8, <1>9

-----------------------------------------------------------------------------
\* Every step keeps the inductive invariant.
LEMMA NextInv == Inv /\ [Next]_vars => Inv'
<1> SUFFICES ASSUME Inv, [Next]_vars PROVE Inv'
  OBVIOUS
<1>1. ASSUME NEW t \in Tasks, schedule_task(t) PROVE Inv'
  BY Zenon, <1>1, SchedulePlaces, PlaceStep DEF Inv
<1>2. ASSUME NEW t \in Tasks, Allocate(t) \/ End(t) PROVE Inv'
  BY Zenon, <1>2, AllocateStep, EndStep
<1>3. ASSUME NEW n \in Nodes,
             \/ \E alive \in BOOLEAN : update_node(n, alive)
             \/ remove_node(n) \/ Snapshot(n) \/ LoseReport(n)
      PROVE  Inv'
  BY Zenon, <1>3, ReportStep
<1>4. ASSUME UNCHANGED vars PROVE Inv'
  <2>1. /\ policy' = policy /\ views' = views /\ place' = place /\ state' = state
        /\ available' = available /\ report' = report /\ since' = since /\ behind' = behind
    BY Zenon, <1>4 DEF vars, external
  <2>2. TypeOK'
    BY <2>1 DEF Inv, TypeOK
  <2>3. BackedInv'
    BY Zenon, <2>1 DEF Inv, BackedInv, Backed, Out
  <2> QED BY Zenon, <2>2, <2>3 DEF Inv
<1> QED BY Zenon, <1>1, <1>2, <1>3, <1>4 DEF Next

\* The inductive invariant of the global scheduler and its nodes holds: what a
\* view or a report promises of a node, late or not, the node has left or has
\* handed out since the snapshot, to whatever task or lease.
THEOREM Invariance == Spec => []Inv
BY InitInv, NextInv, PTL DEF Spec

\* The state of the global scheduler and of the nodes keeps its types.
THEOREM TypeCorrect == Spec => []TypeOK
<1>1. Inv => TypeOK
  BY DEF Inv
<1> QED BY <1>1, Invariance, PTL

\* For any nodes, tasks, leases and requests and any order of reports: a task
\* that schedule_task placed lacks no more on its node than the node has handed
\* out since the snapshot the task was placed by.
THEOREM PlacementsBacked == Spec => []PlacementBacked
<1>1. Inv => PlacementBacked
  <2> SUFFICES ASSUME Inv, NEW t \in Tasks, Home[t] = NoNode /\ state[t] = "waiting",
                      NEW r \in Res
               PROVE  get(Need[t], r) <= get(available[place[t]], r)
                        + Demand({q \in behind[t] : state[q] = "holding"}, Need, r)
    BY Zenon DEF PlacementBacked
  <2>1. Backed(Need[t], place[t], behind[t])
    BY Zenon DEF Inv, BackedInv
  <2> QED BY Zenon, <2>1 DEF Backed, Out
<1> QED BY <1>1, Invariance, PTL

\* For any nodes and any order the views are walked over in: schedule_task
\* returns an eligible node that no eligible node is better than.
THEOREM BestNodeChosen == Spec => BestNode
<1> DEFINE
      Candidates(t) ==
        {m \in Views : views[m].is_alive /\ can_satisfy(views[m].available, Need[t])}
      Best ==
        \A t \in Tasks : place'[t] # place[t] =>
          /\ place'[t] \in Candidates(t)
          /\ \A m \in Candidates(t) : IF policy = "spread" THEN CPU(m) <= CPU(place'[t])
                                                         ELSE CPU(place'[t]) <= CPU(m)
<1>1. TypeOK /\ [Next]_vars => [Best]_vars
  <2> SUFFICES ASSUME TypeOK, Next PROVE Best
    OBVIOUS
  <2>1. ASSUME NEW s \in Tasks, schedule_task(s) PROVE Best
    <3>1. PICK n \in Nodes : PlacedOn(s, n)
      BY Zenon, <2>1, SchedulePlaces
    <3>2. /\ place'[s] = n /\ \A t \in Tasks \ {s} : place'[t] = place[t]
          /\ n \in Eligible(Need[s]) /\ \A m \in Eligible(Need[s]) : NotWorse(n, m)
      BY Zenon, <3>1 DEF PlacedOn, TypeOK
    <3> QED BY Zenon, <3>2 DEF NotWorse, Eligible
  <2>2. ASSUME place' = place PROVE Best
    BY Zenon, <2>2
  <2> QED BY Zenon, <2>1, <2>2
          DEF Next, Allocate, End, update_node, remove_node, Snapshot, LoseReport
<1> QED BY <1>1, TypeCorrect, PTL DEF Spec, BestNode
=============================================================================
