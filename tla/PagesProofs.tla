---------------------------- MODULE PagesProofs ----------------------------
(***************************************************************************)
(* Proofs about Inventory.tla and AlertList.tla: what a poll puts on the   *)
(* pages, for any nodes, addresses, pods, alerts and answers.  Both sort,  *)
(* and share the lemmas about it.                                          *)
(***************************************************************************)
EXTENDS Inventory, AlertList, FiniteSetTheorems, TLAPS

\* Every set of natural numbers that is not empty has a least element.
LEMMA LeastNatural ==
    ASSUME NEW S \in SUBSET Nat, S # {}
    PROVE  \E x \in S : \A y \in S : x <= y
<1> DEFINE R == OpToRel(<, Nat)
<1>1. IsWellFoundedOn(R, Nat)
  BY NatLessThanWellFounded
<1>2. \A x, y \in Nat : y < x => <<y, x>> \in R
  BY DEF OpToRel
<1> HIDE DEF R
<1>3. PICK x \in S : \A y \in S : ~(<<y, x>> \in R)
  BY <1>1, WFMin
<1>4. ASSUME NEW y \in S
      PROVE  x <= y
  <2>1. ~(y < x)
    BY <1>2, <1>3
  <2>2. QED
    BY <2>1
<1>5. QED
  BY <1>4

\* Adding up what is counted for each of the homes counts everything: the sum's recursion
\* has one solution only, the number of things in the homes added so far.
LEMMA SumOfParts ==
    ASSUME NEW P, IsFiniteSet(P), NEW D, IsFiniteSet(D), NEW home, \A p \in P : home[p] \in D
    PROVE  SumFunction([d \in D |-> Cardinality({p \in P : home[p] = d})]) = Cardinality(P)
<1> DEFINE f       == [d \in D |-> Cardinality({p \in P : home[p] = d})]
           one(T)  == CHOOSE x \in T : TRUE
           part(T) == {p \in P : home[p] \in T}
           h       == [T \in SUBSET D |-> Cardinality(part(T))]
           Sums(g) == g = [T \in SUBSET D |-> IF T = {} THEN 0 ELSE f[one(T)] + g[T \ {one(T)}]]
           sum     == CHOOSE g : Sums(g)
<1>1. ASSUME NEW T \in SUBSET D, T # {}
      PROVE  /\ one(T) \in T /\ T \ {one(T)} \in SUBSET D
             /\ h[T] = f[one(T)] + h[T \ {one(T)}]
  <2> DEFINE x == one(T)
             A == {p \in P : home[p] = x}
             B == part(T \ {x})
  <2>1. x \in T
    BY <1>1
  <2> HIDE DEF x
  <2>2. part(T) = A \cup B /\ A \cap B = {} /\ A \in SUBSET P /\ B \in SUBSET P
    BY <2>1
  <2>3. h[T] = Cardinality(part(T)) /\ h[T \ {x}] = Cardinality(B) /\ f[x] = Cardinality(A)
    BY <2>1
  <2> HIDE DEF A, B, h, f, part
  <2>4. IsFiniteSet(A) /\ IsFiniteSet(B)
    BY <2>2, FS_Subset
  <2>5. Cardinality(part(T)) = Cardinality(A) + Cardinality(B) - Cardinality({})
    BY <2>2, <2>4, FS_Union
  <2>6. Cardinality({}) = 0 /\ Cardinality(A) \in Nat /\ Cardinality(B) \in Nat
    BY <2>4, FS_EmptySet, FS_CardinalityType
  <2>7. h[T] = f[x] + h[T \ {x}]
    BY <2>3, <2>5, <2>6
  <2> QED BY <2>1, <2>7 DEF x
<1>2. h[{}] = 0
  <2>1. part({}) = {}
    OBVIOUS
  <2> QED BY <2>1, FS_EmptySet
<1>3. Sums(h)
  <2>1. ASSUME NEW T \in SUBSET D
        PROVE  h[T] = IF T = {} THEN 0 ELSE f[one(T)] + h[T \ {one(T)}]
    <3> HIDE DEF h, f, one
    <3> QED BY <1>1, <1>2
  <2> QED BY <2>1
<1>4. Sums(sum)
  <2> HIDE DEF Sums
  <2> QED BY <1>3
<1> HIDE DEF sum
<1>5. sum[D] = h[D]
  <2> DEFINE bad == {T \in SUBSET D : sum[T] # h[T]}
  <2>1. SUFFICES ASSUME bad # {} PROVE FALSE
    OBVIOUS
  <2>2. bad \subseteq FiniteSubsetsOf(D)
    BY FS_FiniteSubsetsOfFinite
  <2>3. PICK T \in bad : \A U \in bad : ~(<<U, T>> \in StrictSubsetOrdering(D))
    <3> HIDE DEF bad
    <3> QED BY <2>1, <2>2, FS_StrictSubsetOrderingWellFounded, WFMin
  <2>4. sum[T] = IF T = {} THEN 0 ELSE f[one(T)] + sum[T \ {one(T)}]
    <3>1. T \in SUBSET D
      BY <2>3
    <3> HIDE DEF f, one
    <3> QED BY <1>4, <3>1
  <2> HIDE DEF h, f, one
  <2>5. T \in SUBSET D /\ sum[T] # h[T]
    BY <2>3
  <2>6. T # {}
    BY <1>2, <2>4, <2>5
  <2> DEFINE U == T \ {one(T)}
  <2>7. U \in SUBSET D /\ one(T) \in T /\ h[T] = f[one(T)] + h[U] /\ sum[T] = f[one(T)] + sum[U]
    BY <1>1, <2>4, <2>5, <2>6
  <2>8. U \in bad
    BY <2>5, <2>7
  <2>9. <<U, T>> \in StrictSubsetOrdering(D)
    BY <2>5, <2>7 DEF StrictSubsetOrdering
  <2> QED BY <2>3, <2>8, <2>9
<1>6. SumFunction(f) = sum[D]
  <2>1. DOMAIN f = D
    OBVIOUS
  <2> HIDE DEF f
  <2> QED BY <2>1 DEF SumFunction, SumFunctionOnSet, FoldFunctionOnSet, MapThenFoldSet, sum
<1>7. part(D) = P
  OBVIOUS
<1> QED BY <1>5, <1>6, <1>7

\* R is a strict and total order of S.
Orders(R, S) ==
    /\ \A x \in S : ~(<<x, x>> \in R)
    /\ \A x, y, z \in S : <<x, y>> \in R /\ <<y, z>> \in R => <<x, z>> \in R
    /\ \A x, y \in S : x # y => <<x, y>> \in R \/ <<y, x>> \in R

\* ahead counts the elements of S before each.
Counts(ahead, S, R) == \A x \in S : ahead[x] = Cardinality({y \in S : <<y, x>> \in R})

\* s has each element at the place its number ahead gives.
Places(s, S, ahead) ==
    s = [k \in 1 .. Cardinality(S) |-> CHOOSE x \in S : ahead[x] = k - 1]

\* s is the set S in the order R.
Lists(s, S, R) ==
    /\ Cardinality(S) \in Nat
    /\ s \in [1 .. Cardinality(S) -> S]
    /\ \A x \in S : \E k \in 1 .. Cardinality(S) : s[k] = x
    /\ \A i, j \in 1 .. Cardinality(S) : i < j <=> <<s[i], s[j]>> \in R
    /\ \A i, j \in 1 .. Cardinality(S) : s[i] = s[j] => i = j

\* SortedBy sorts: the number of elements ahead tells the elements of an ordered set apart,
\* and takes every value below their number.
LEMMA SortedLemma ==
    ASSUME NEW S, IsFiniteSet(S), NEW R, Orders(R, S),
           NEW ahead, Counts(ahead, S, R),
           NEW s, Places(s, S, ahead)
    PROVE  Lists(s, S, R)
<1> DEFINE n == Cardinality(S)
<1>1. n \in Nat
  BY FS_CardinalityType
<1>2. \A x \in S : ahead[x] = Cardinality({y \in S : <<y, x>> \in R})
  BY DEF Counts
<1>3. s = [k \in 1 .. n |-> CHOOSE x \in S : ahead[x] = k - 1]
  BY DEF Places
<1>5. ASSUME NEW x \in S PROVE ahead[x] \in 0 .. n - 1
  <2> DEFINE A == {y \in S : <<y, x>> \in R}
  <2>1. A \in SUBSET S /\ A # S
    BY DEF Orders
  <2>2. ahead[x] = Cardinality(A)
    BY <1>2
  <2> HIDE DEF A
  <2>3. IsFiniteSet(A) /\ Cardinality(A) <= n /\ Cardinality(A) # n
    BY <2>1, FS_Subset
  <2>4. Cardinality(A) \in Nat
    BY <2>3, FS_CardinalityType
  <2> QED BY <1>1, <2>2, <2>3, <2>4
<1>6. ASSUME NEW x \in S, NEW y \in S, <<x, y>> \in R PROVE ahead[x] < ahead[y]
  <2> DEFINE A == {z \in S : <<z, x>> \in R}
             B == {z \in S : <<z, y>> \in R}
  <2>1. A \in SUBSET B /\ B \in SUBSET S /\ x \in B /\ x \notin A
    BY <1>6 DEF Orders
  <2>2. ahead[x] = Cardinality(A) /\ ahead[y] = Cardinality(B)
    BY <1>2
  <2> HIDE DEF A, B
  <2>3. IsFiniteSet(B)
    BY <2>1, FS_Subset
  <2>4. Cardinality(A) <= Cardinality(B) /\ Cardinality(A) # Cardinality(B) /\ IsFiniteSet(A)
    BY <2>1, <2>3, FS_Subset
  <2>5. Cardinality(A) \in Nat /\ Cardinality(B) \in Nat
    BY <2>3, <2>4, FS_CardinalityType
  <2> QED BY <2>2, <2>4, <2>5
<1>7. \A x, y \in S : ahead[x] = ahead[y] => x = y
  <2> SUFFICES ASSUME NEW x \in S, NEW y \in S, x # y PROVE ahead[x] # ahead[y]
    OBVIOUS
  <2>1. ahead[x] < ahead[y] \/ ahead[y] < ahead[x]
    BY <1>6 DEF Orders
  <2>2. ahead[x] \in Int /\ ahead[y] \in Int
    BY <1>5
  <2> QED BY <2>1, <2>2
<1>8. \A k \in 1 .. n : \E x \in S : ahead[x] = k - 1
  <2> DEFINE f == [x \in S |-> ahead[x]]
  <2>1. f \in [S -> 0 .. n - 1] /\ DOMAIN f = S /\ \A x \in S : f[x] = ahead[x]
    BY <1>5
  <2> HIDE DEF f
  <2>2. f \in Injection(S, 0 .. n - 1)
    BY ONLY <1>7, <2>1 DEF Injection, IsInjective
  <2>3. IsFiniteSet(0 .. n - 1) /\ Cardinality(0 .. n - 1) = n
    <3> HIDE DEF n
    <3> QED BY ONLY <1>1, FS_Interval
  <2>4. f \in Surjection(S, 0 .. n - 1)
    BY <2>2, <2>3, FS_Injection
  <2>5. \A k \in 1 .. n : k - 1 \in 0 .. n - 1
    BY <1>1
  <2> QED BY <2>1, <2>4, <2>5 DEF Surjection
<1>9. \A k \in 1 .. n : s[k] \in S /\ ahead[s[k]] = k - 1
  BY <1>3, <1>8
<1>10. s = [k \in 1 .. n |-> s[k]]
  BY <1>3
<1> HIDE DEF n
<1>11. s \in [1 .. n -> S]
  BY <1>9, <1>10
<1>12. ASSUME NEW x \in S PROVE \E k \in 1 .. n : s[k] = x
  <2>1. ahead[x] + 1 \in 1 .. n /\ (ahead[x] + 1) - 1 = ahead[x]
    BY <1>1, <1>5
  <2>2. s[ahead[x] + 1] = x
    BY <1>7, <1>9, <2>1
  <2> QED BY <2>1, <2>2
<1>13. ASSUME NEW i \in 1 .. n, NEW j \in 1 .. n
       PROVE  (i < j <=> <<s[i], s[j]>> \in R) /\ (s[i] = s[j] => i = j)
  <2>1. s[i] \in S /\ s[j] \in S /\ ahead[s[i]] = i - 1 /\ ahead[s[j]] = j - 1
    BY <1>9
  <2>2. i \in Int /\ j \in Int
    BY <1>1
  <2>3. s[i] = s[j] => i = j
    BY <2>1, <2>2
  <2>4. ASSUME i < j PROVE <<s[i], s[j]>> \in R
    <3>1. ~(ahead[s[j]] < ahead[s[i]]) /\ s[i] # s[j]
      BY ONLY <2>1, <2>2, <2>4
    <3> QED BY <1>6, <2>1, <3>1 DEF Orders
  <2>5. ASSUME <<s[i], s[j]>> \in R PROVE i < j
    <3>1. ahead[s[i]] < ahead[s[j]]
      BY <1>6, <2>1, <2>5
    <3> QED BY ONLY <2>1, <2>2, <3>1
  <2> QED BY <2>3, <2>4, <2>5
<1> QED BY <1>1, <1>11, <1>12, <1>13 DEF n, Lists

\* Every node has its place in the API server's order.
LEMMA PositionType ==
    ASSUME NEW n \in Nodes
    PROVE  Position(n) \in 1 .. Len(NodeOrder) /\ NodeOrder[Position(n)] = n
<1>1. DOMAIN NodeOrder = 1 .. Len(NodeOrder)
  BY OrderAssumption
<1>2. \E i \in DOMAIN NodeOrder : NodeOrder[i] = n
  BY DEF Nodes, ToSet
<1>3. QED
  BY <1>1, <1>2 DEF Position

-----------------------------------------------------------------------------
(* The join *)

\* However many nodes share an address, one of them is the last, and the map gives the
\* address to a node that has it.
LEMMA IpMapLemma ==
    ASSUME NEW names \in SUBSET Nodes, NEW a \in DOMAIN IpMap(names)
    PROVE  IpMap(names)[a] \in names /\ AddressOf[IpMap(names)[a]] = a
<1> DEFINE having    == {n \in names : AddressOf[n] = a}
           fromEnd   == {Len(NodeOrder) - Position(n) : n \in having}
           IsLast(n) == /\ AddressOf[n] = a
                        /\ \A other \in names :
                              AddressOf[other] = a => Position(other) <= Position(n)
<1>1. Len(NodeOrder) \in Nat
  BY OrderAssumption
<1>2. having # {}
  BY DEF IpMap
<1>3. \A n \in having : Position(n) \in 1 .. Len(NodeOrder)
  BY PositionType
<1>4. fromEnd \in SUBSET Nat /\ fromEnd # {}
  BY <1>1, <1>2, <1>3
<1>5. PICK d \in fromEnd : \A e \in fromEnd : d <= e
  BY <1>4, LeastNatural
<1>6. PICK n \in having : d = Len(NodeOrder) - Position(n)
  BY <1>5
<1>7. IsLast(n)
  <2>1. ASSUME NEW other \in having
        PROVE  Position(other) <= Position(n)
    <3>1. d <= Len(NodeOrder) - Position(other)
      BY <1>5
    <3>2. Position(n) \in Nat /\ Position(other) \in Nat
      BY <1>3
    <3>3. QED
      BY <1>1, <1>6, <3>1, <3>2
  <2>2. QED
    BY <2>1
<1>8. \E m \in names : IsLast(m)
  BY <1>7
<1>9. IpMap(names)[a] = CHOOSE m \in names : IsLast(m)
  BY DEF IpMap
<1>10. QED
  BY <1>8, <1>9

\* A node is given nothing but what was measured at its own address, and only if the
\* address is given to it.
LEMMA SampleLemma ==
    ASSUME NEW names \in SUBSET Nodes, NEW samples, NEW n \in names,
           SampleFor(names, samples, n) # NoSample
    PROVE  /\ SampleFor(names, samples, n) = AddressOf[n]
           /\ AddressOf[n] \in DOMAIN IpMap(names)
           /\ IpMap(names)[AddressOf[n]] = n
<1> DEFINE own == {a \in samples : a \in DOMAIN IpMap(names) /\ IpMap(names)[a] = n}
           s   == CHOOSE a \in own : TRUE
<1>1. own # {} /\ SampleFor(names, samples, n) = s
  BY DEF SampleFor
<1>2. s \in own
  BY <1>1
<1>3. AddressOf[n] = s
  BY <1>2, IpMapLemma
<1>4. QED
  BY <1>1, <1>2, <1>3

-----------------------------------------------------------------------------
(* The poll *)

\* What is known of the nodes that the thread and the snapshot hold.
Polls == [at : {"list_nodes", "list_pods", "query", "update"}, nodes : ListingsOf(Nodes, NodeStates),
          pods : ListingsOf(Pods, PodStates), samples : SUBSET Addresses]

TypeInv ==
    /\ nodes \in ListingsOf(Nodes, NodeStates)
    /\ pods \in ListingsOf(Pods, PodStates)
    /\ poll \in Polls

\* A set of functions from some of the names is what it says.
LEMMA ListingsLemma ==
    ASSUME NEW names, NEW states, NEW some \in SUBSET names, NEW f \in [some -> states]
    PROVE  f \in ListingsOf(names, states)
BY DEF ListingsOf

LEMMA NoneLemma ==
    ASSUME NEW names, NEW states
    PROVE  None \in ListingsOf(names, states)
<1>1. None \in [{} -> states]
  BY DEF None
<1>2. QED
  BY <1>1, ListingsLemma

LEMMA InitType == Init => TypeInv
<1> SUFFICES ASSUME Init PROVE TypeInv
  OBVIOUS
<1>1. PICK some \in SUBSET Nodes : nodes \in [some -> {[ready |-> TRUE, cordoned |-> FALSE]}]
  BY DEF Init, ListingsOf
<1>2. nodes \in [some -> NodeStates]
  <2>1. [ready |-> TRUE, cordoned |-> FALSE] \in NodeStates
    BY DEF NodeStates
  <2>2. QED
    BY <1>1, <2>1
<1>3. nodes \in ListingsOf(Nodes, NodeStates)
  BY <1>2, ListingsLemma
<1>4. poll \in Polls
  BY NoneLemma DEF Init, Idle, Polls
<1>5. QED
  BY <1>3, <1>4, NoneLemma DEF Init, TypeInv

LEMMA NextType == TypeInv /\ [Next]_vars => TypeInv'
<1> SUFFICES ASSUME TypeInv, [Next]_vars PROVE TypeInv'
  OBVIOUS
<1> USE DEF TypeInv
<1>1. Idle \in Polls
  BY NoneLemma DEF Idle, Polls
<1>2. CASE ListNodes
  BY <1>2 DEF ListNodes, Polls
<1>3. CASE ListPods
  BY <1>3 DEF ListPods, Polls
<1>4. CASE Query
  BY <1>4 DEF Query, Polls
<1>5. CASE Publish \/ PollFails \/ UNCHANGED vars
  BY <1>1, <1>5 DEF Publish, PollFails, vars
<1>6. CASE NodesChange
  <2>1. PICK n \in Nodes :
           \/ \E state \in NodeStates :
                 nodes' = [m \in DOMAIN nodes \cup {n} |-> IF m = n THEN state ELSE nodes[m]]
           \/ nodes' = [m \in DOMAIN nodes \ {n} |-> nodes[m]]
    BY <1>6 DEF NodesChange
  <2>2. PICK some \in SUBSET Nodes : nodes \in [some -> NodeStates]
    BY DEF ListingsOf
  <2>3. \/ nodes' \in [some \cup {n} -> NodeStates]
        \/ nodes' \in [some \ {n} -> NodeStates]
    BY <2>1, <2>2
  <2>4. some \cup {n} \in SUBSET Nodes /\ some \ {n} \in SUBSET Nodes
    BY <2>2
  <2>5. nodes' \in ListingsOf(Nodes, NodeStates)
    BY <2>3, <2>4, ListingsLemma
  <2>6. QED
    BY <1>6, <2>5 DEF NodesChange
<1>7. CASE PodsChange
  <2>1. PICK p \in Pods :
           \/ \E state \in [status : PodStatuses, node : DOMAIN nodes \cup {NoNode}] :
                 pods' = [q \in DOMAIN pods \cup {p} |-> IF q = p THEN state ELSE pods[q]]
           \/ pods' = [q \in DOMAIN pods \ {p} |-> pods[q]]
    BY <1>7 DEF PodsChange
  <2>2. PICK some \in SUBSET Pods : pods \in [some -> PodStates]
    BY DEF ListingsOf
  <2>3. DOMAIN nodes \subseteq Nodes
    BY DEF ListingsOf
  <2>4. [status : PodStatuses, node : DOMAIN nodes \cup {NoNode}] \subseteq PodStates
    BY <2>3 DEF PodStates
  <2>5. \/ pods' \in [some \cup {p} -> PodStates]
        \/ pods' \in [some \ {p} -> PodStates]
    BY <2>1, <2>2, <2>4
  <2>6. some \cup {p} \in SUBSET Pods /\ some \ {p} \in SUBSET Pods
    BY <2>2
  <2>7. pods' \in ListingsOf(Pods, PodStates)
    BY <2>5, <2>6, ListingsLemma
  <2>8. QED
    BY <1>7, <2>7 DEF PodsChange
<1>8. QED
  BY <1>2, <1>3, <1>4, <1>5, <1>6, <1>7 DEF Next, PollStep

LEMMA TypeCorrect == Spec => []TypeInv
BY InitType, NextType, PTL DEF Spec

-----------------------------------------------------------------------------
(* What the pages show of it *)

\* No node's row ever shows the load of another, whatever nodes share an address, have
\* none, come or go, and whichever samples are missing.
THEOREM LoadIsRight == Spec => []LoadIsOfTheNode
<1>1. Init => LoadIsOfTheNode
  BY DEF Init, EmptySnapshot, None, LoadIsOfTheNode
<1>2. TypeInv /\ LoadIsOfTheNode /\ [Next]_vars => LoadIsOfTheNode'
  <2> SUFFICES ASSUME TypeInv, LoadIsOfTheNode, [Next]_vars PROVE LoadIsOfTheNode'
    OBVIOUS
  <2>1. CASE Publish
    <3> DEFINE names == DOMAIN poll.nodes
               Shown(n) == SampleFor(names, poll.samples, n)
    <3>1. names \in SUBSET Nodes
      BY DEF TypeInv, Polls, ListingsOf
    <3>2. snap'.nodes = MergeNodeStats(poll.nodes, poll.samples, poll.pods)
      BY <2>1 DEF Publish
    <3>3. DOMAIN snap'.nodes = names /\ \A n \in names : snap'.nodes[n].cpu = Shown(n)
      BY <3>2 DEF MergeNodeStats
    <3>4. ASSUME NEW n \in names, Shown(n) # NoSample
          PROVE  /\ Shown(n) = AddressOf[n]
                 /\ \A m \in names \ {n} : Shown(m) # Shown(n)
      <4>1. Shown(n) = AddressOf[n] /\ IpMap(names)[AddressOf[n]] = n
        BY <3>1, <3>4, SampleLemma
      <4>2. ASSUME NEW m \in names \ {n}, Shown(m) = Shown(n)
            PROVE  FALSE
        <5>1. Shown(m) = AddressOf[m] /\ IpMap(names)[AddressOf[m]] = m
          BY <3>1, <3>4, <4>2, SampleLemma
        <5>2. QED
          BY <4>1, <4>2, <5>1
      <4>3. QED
        BY <4>1, <4>2
    <3> HIDE DEF Shown
    <3>5. QED
      BY <3>3, <3>4 DEF LoadIsOfTheNode
  <2>2. CASE ListNodes \/ ListPods \/ Query \/ PollFails \/ NodesChange \/ PodsChange \/ UNCHANGED vars
    BY <2>2 DEF ListNodes, ListPods, Query, PollFails, NodesChange, PodsChange, vars, LoadIsOfTheNode
  <2>3. QED
    BY <2>1, <2>2 DEF Next, PollStep
<1>3. QED
  BY <1>1, <1>2, TypeCorrect, PTL DEF Spec

-----------------------------------------------------------------------------
(* The numbers on the pages *)

\* All parts of a snapshot are made of the same answers.
SnapInv ==
    /\ DOMAIN snap.nodes \subseteq Nodes
    /\ \A n \in DOMAIN snap.nodes :
          /\ snap.nodes[n].state \in NodeStates
          /\ snap.nodes[n].pods = Cardinality(PodsOn(snap.pods, n))
    /\ DOMAIN snap.pods \subseteq Pods
    /\ snap.namespaces = NamespaceStats(snap.pods)

LEMMA InitSnap == Init => SnapInv
<1> SUFFICES ASSUME Init PROVE SnapInv
  OBVIOUS
<1>1. snap.nodes = None /\ snap.namespaces = None /\ snap.pods = None /\ DOMAIN None = {}
  BY DEF Init, EmptySnapshot, None
<1>2. NamespaceStats(None) = None
  BY <1>1 DEF NamespaceStats, None
<1> QED BY <1>1, <1>2 DEF SnapInv

LEMMA NextSnap == TypeInv /\ SnapInv /\ [Next]_vars => SnapInv'
<1> SUFFICES ASSUME TypeInv, SnapInv, [Next]_vars PROVE SnapInv'
  OBVIOUS
<1>1. CASE Publish
  <2>1. /\ snap'.nodes = MergeNodeStats(poll.nodes, poll.samples, poll.pods)
        /\ snap'.namespaces = NamespaceStats(poll.pods) /\ snap'.pods = poll.pods
    BY <1>1 DEF Publish
  <2>2. /\ DOMAIN poll.nodes \subseteq Nodes /\ DOMAIN poll.pods \subseteq Pods
        /\ \A n \in DOMAIN poll.nodes : poll.nodes[n] \in NodeStates
    BY DEF TypeInv, Polls, ListingsOf
  <2>3. /\ DOMAIN snap'.nodes = DOMAIN poll.nodes
        /\ \A n \in DOMAIN poll.nodes :
              /\ snap'.nodes[n].state = poll.nodes[n]
              /\ snap'.nodes[n].pods = Cardinality(PodsOn(poll.pods, n))
    BY <2>1 DEF MergeNodeStats
  <2> QED BY <2>1, <2>2, <2>3 DEF SnapInv
<1>2. CASE ListNodes \/ ListPods \/ Query \/ PollFails \/ NodesChange \/ PodsChange \/ UNCHANGED vars
  <2>1. snap' = snap
    BY <1>2 DEF ListNodes, ListPods, Query, PollFails, NodesChange, PodsChange, vars
  <2> QED BY <2>1 DEF SnapInv
<1> QED BY <1>1, <1>2 DEF Next, PollStep

LEMMA SnapCorrect == Spec => []SnapInv
BY InitSnap, NextSnap, TypeCorrect, PTL DEF Spec

LEMMA NodesFinite == IsFiniteSet(Nodes)
<1>1. NodeOrder \in Surjection(1 .. Len(NodeOrder), Nodes) /\ Len(NodeOrder) \in Nat
  BY OrderAssumption DEF Surjection, Nodes, ToSet
<1>2. IsFiniteSet(1 .. Len(NodeOrder))
  BY <1>1, FS_Interval
<1> QED BY <1>1, <1>2, FS_Surjection

\* The rows of a table and its note count all items.
LEMMA TableLemma ==
    ASSUME NEW T, NEW items \in Seq(T), NEW slots \in Nat \ {0}
    PROVE  Len(RowsShown(items, slots)) + More(items, slots) = Len(items)
<1> DEFINE n     == Len(items)
           shown == IF n > slots THEN slots - 1 ELSE slots
           last  == IF n < shown THEN n ELSE shown
<1>1. n \in Nat /\ last \in 0 .. n
  OBVIOUS
<1>2. RowsShown(items, slots) = SubSeq(items, 1, last)
  BY DEF RowsShown
<1>3. Len(SubSeq(items, 1, last)) = last
  <2> HIDE DEF last
  <2> QED BY <1>1
<1>4. Len(RowsShown(items, slots)) = last
  BY <1>2, <1>3
<1>5. More(items, slots) = IF n > slots THEN n - (slots - 1) ELSE 0
  BY DEF More
<1>6. last + (IF n > slots THEN n - (slots - 1) ELSE 0) = n
  <2> HIDE DEF n
  <2> QED BY <1>1
<1> QED BY ONLY <1>4, <1>5, <1>6, Zenon

LEMMA SnapAgrees == SnapInv => PagesAgree
<1> SUFFICES ASSUME SnapInv PROVE PagesAgree
  OBVIOUS
<1> DEFINE names == DOMAIN snap.nodes
           P     == DOMAIN snap.pods
           D     == {NamespaceOf[p] : p \in P}
           bad   == Unhealthy(snap.pods)
           ready == {n \in names : snap.nodes[n].state.ready}
<1>1. IsFiniteSet(P) /\ bad \in SUBSET P /\ IsFiniteSet(bad)
  <2>1. P \in SUBSET Pods /\ bad \in SUBSET P
    BY DEF SnapInv, Unhealthy
  <2>2. IsFiniteSet(P)
    BY <2>1, PodsAssumption, FS_Subset
  <2> QED BY <2>1, <2>2, FS_Subset
<1>2. IsFiniteSet(D)
  <2> DEFINE g == [p \in P |-> NamespaceOf[p]]
  <2>1. g \in Surjection(P, D)
    BY DEF Surjection
  <2> QED BY <1>1, <2>1, FS_Surjection
<1>3. /\ DOMAIN snap.namespaces = D
      /\ \A ns \in D : /\ snap.namespaces[ns].pods = Cardinality({p \in P : NamespaceOf[p] = ns})
                        /\ snap.namespaces[ns].unhealthy = Cardinality({p \in bad : NamespaceOf[p] = ns})
  BY DEF SnapInv, NamespaceStats
<1>4. \A p \in P : NamespaceOf[p] \in D
  OBVIOUS
<1> HIDE DEF D
<1>5. ASSUME NEW n \in names PROVE PodsCard(n) = Cardinality(PodRows(n))
  BY DEF PodsCard, PodRows, SnapInv
<1>6. SumFunction([ns \in DOMAIN snap.namespaces |-> snap.namespaces[ns].pods]) = Cardinality(P)
  <2> HIDE DEF P, bad
  <2>1. [ns \in DOMAIN snap.namespaces |-> snap.namespaces[ns].pods]
           = [ns \in D |-> Cardinality({p \in P : NamespaceOf[p] = ns})]
    BY <1>3
  <2>2. SumFunction([ns \in D |-> Cardinality({p \in P : NamespaceOf[p] = ns})]) = Cardinality(P)
    BY <1>1, <1>2, <1>4, SumOfParts
  <2> QED BY <2>1, <2>2
<1>7. SumFunction([ns \in DOMAIN snap.namespaces |-> snap.namespaces[ns].unhealthy]) = UnhealthyPods
  <2>1. UnhealthyPods = Cardinality(bad)
    BY DEF UnhealthyPods
  <2> HIDE DEF P, bad
  <2>2. [ns \in DOMAIN snap.namespaces |-> snap.namespaces[ns].unhealthy]
           = [ns \in D |-> Cardinality({p \in bad : NamespaceOf[p] = ns})]
    BY <1>3
  <2>3. \A p \in bad : NamespaceOf[p] \in D
    BY <1>1, <1>4
  <2>4. SumFunction([ns \in D |-> Cardinality({p \in bad : NamespaceOf[p] = ns})]) = Cardinality(bad)
    BY <1>1, <1>2, <2>3, SumOfParts
  <2> QED BY <2>1, <2>2, <2>4
<1>8. /\ names \in SUBSET Nodes /\ IsFiniteSet(names) /\ Cardinality(names) \in Nat
      /\ ready \in SUBSET names /\ IsFiniteSet(ready) /\ Cardinality(ready) \in Nat
  <2>1. names \in SUBSET Nodes /\ ready \in SUBSET names
    BY DEF SnapInv
  <2> HIDE DEF names, ready
  <2>2. IsFiniteSet(names) /\ IsFiniteSet(ready)
    BY <2>1, NodesFinite, FS_Subset
  <2> QED BY <2>1, <2>2, FS_CardinalityType
<1>9. ReadyCount = Cardinality(ready) /\ NotReadyCount = Cardinality(names) - Cardinality(ready)
  BY DEF ReadyCount, NotReadyCount
<1>10. NotReadyCount = Cardinality({n \in Nodes : NodeState(n) = "notready"})
  <2>1. {n \in Nodes : NodeState(n) = "notready"} = names \ ready
    BY <1>8 DEF NodeState, SnapInv, NodeStates
  <2>2. names \cap ready = ready
    BY <1>8
  <2> HIDE DEF names, ready
  <2>3. Cardinality(names \ ready) = Cardinality(names) - Cardinality(names \cap ready)
    BY <1>8, FS_Difference
  <2> QED BY <1>9, <2>1, <2>2, <2>3
<1>11. Len(NodeTable) + MoreNodes = ReadyCount + NotReadyCount
  <2>1. PICK T : NodeList \in Seq(T) /\ Len(NodeList) = Cardinality(names)
    <3> DEFINE ahead == [n \in names |-> Cardinality({m \in names : Position(m) < Position(n)})]
               row(k) == CHOOSE n \in names : ahead[n] = k - 1
    <3>1. NodeList = [k \in 1 .. Cardinality(names) |-> row(k)]
      BY DEF NodeList, SortedBy
    <3> HIDE DEF row, names
    <3>2. /\ NodeList \in Seq({row(k) : k \in 1 .. Cardinality(names)})
          /\ Len(NodeList) = Cardinality(names)
      BY <1>8, <3>1
    <3> QED BY <3>2
  <2>2. Len(NodeTable) + MoreNodes = Cardinality(names)
    BY <2>1, InventoryAssumption, TableLemma DEF NodeTable, MoreNodes
  <2> QED BY <1>8, <1>9, <2>2
<1> QED BY <1>5, <1>6, <1>7, <1>10, <1>11 DEF PagesAgree

\* For any cluster, however it changes between the calls of a poll and whichever calls fail,
\* no two numbers on the pages contradict each other (collector.py:115).
THEOREM NumbersAgree == Spec => []PagesAgree
BY SnapCorrect, SnapAgrees, PTL

-----------------------------------------------------------------------------
(* The order of Explore *)

\* Every namespace has its place among the names.
LEMMA PlaceLemma ==
    ASSUME NEW a \in ToSet(Namespaces)
    PROVE  NamePlace(a) \in 1 .. Len(Namespaces) /\ Namespaces[NamePlace(a)] = a
<1> DEFINE I == {i \in 1 .. Len(Namespaces) : Namespaces[i] = a}
<1>1. DOMAIN Namespaces = 1 .. Len(Namespaces)
  BY NamespaceAssumption
<1>2. I \in SUBSET Nat /\ I # {}
  BY <1>1 DEF ToSet
<1>3. \E i \in I : \A j \in I : i <= j
  <2> HIDE DEF I
  <2> QED BY <1>2, LeastNatural
<1>4. Min(I) \in I
  BY <1>3 DEF Min
<1>5. NamePlace(a) = Min(I)
  BY <1>2 DEF NamePlace, SelectInSeq
<1> QED BY <1>4, <1>5

\* Of two namespaces one stands above the other, whatever their problems.
LEMMA AboveOrders ==
    ASSUME NEW D \in SUBSET ToSet(Namespaces)
    PROVE  /\ \A a \in D : ~Above(a, a)
           /\ \A a, b, c \in D : Above(a, b) /\ Above(b, c) => Above(a, c)
           /\ \A a, b \in D : a # b => Above(a, b) \/ Above(b, a)
<1>1. ASSUME NEW a \in D PROVE NamePlace(a) \in Int /\ Namespaces[NamePlace(a)] = a
  BY PlaceLemma
<1>2. \A a, b \in D : Above(a, b) <=>
         \/ HasProblems(a) /\ ~HasProblems(b)
         \/ (HasProblems(a) <=> HasProblems(b)) /\ NamePlace(a) < NamePlace(b)
  BY DEF Above, ByNameOnly, HasProblems
<1>3. \A a, b \in D : a # b => NamePlace(a) # NamePlace(b)
  BY <1>1
<1>4. \A a \in D : ~Above(a, a)
  BY <1>1, <1>2
<1>5. \A a, b, c \in D : Above(a, b) /\ Above(b, c) => Above(a, c)
  BY <1>1, <1>2
<1>6. ASSUME NEW a \in D, NEW b \in D, a # b PROVE Above(a, b) \/ Above(b, a)
  <2>1. NamePlace(a) < NamePlace(b) \/ NamePlace(b) < NamePlace(a)
    BY <1>1, <1>3, <1>6
  <2> QED BY <1>2, <2>1
<1> QED BY <1>4, <1>5, <1>6

LEMMA ExploreSorted == SnapInv => ProblemsComeFirst
<1> SUFFICES ASSUME SnapInv PROVE ProblemsComeFirst
  OBVIOUS
<1> DEFINE D     == DOMAIN snap.namespaces
           R     == {p \in D \X D : Above(p[1], p[2])}
           n     == Cardinality(D)
           ahead == [x \in D |-> Cardinality({y \in D : Above(y, x)})]
<1>1. D \in SUBSET ToSet(Namespaces) /\ IsFiniteSet(D)
  <2>1. D = {NamespaceOf[p] : p \in DOMAIN snap.pods} /\ DOMAIN snap.pods \in SUBSET Pods
    BY DEF SnapInv, NamespaceStats
  <2> DEFINE P == DOMAIN snap.pods
             g == [p \in P |-> NamespaceOf[p]]
  <2>2. g \in Surjection(P, D) /\ D \in SUBSET ToSet(Namespaces)
    BY <2>1, NamespaceAssumption DEF Surjection
  <2>3. IsFiniteSet(P)
    BY <2>1, PodsAssumption, FS_Subset
  <2> QED BY <2>2, <2>3, FS_Surjection
<1>2. /\ \A x \in D : ~Above(x, x)
      /\ \A x, y, z \in D : Above(x, y) /\ Above(y, z) => Above(x, z)
      /\ \A x, y \in D : x # y => Above(x, y) \/ Above(y, x)
  BY <1>1, AboveOrders
<1>3. ExploreRows = [k \in 1 .. n |-> CHOOSE x \in D : ahead[x] = k - 1]
  BY DEF ExploreRows, SortedBy
<1> HIDE DEF D
<1>4. \A x, y \in D : <<x, y>> \in R <=> Above(x, y)
  OBVIOUS
<1>5. \A x \in D : ahead[x] = Cardinality({y \in D : <<y, x>> \in R})
  <2>1. \A x \in D : {y \in D : Above(y, x)} = {y \in D : <<y, x>> \in R}
    OBVIOUS
  <2> HIDE DEF R
  <2> QED BY <2>1
<1> HIDE DEF R, ahead
<1>6. Lists(ExploreRows, D, R)
  <2>1. Orders(R, D)
    BY <1>2, <1>4 DEF Orders
  <2>2. Counts(ahead, D, R) /\ Places(ExploreRows, D, ahead)
    BY <1>3, <1>5 DEF Counts, Places
  <2> QED BY <1>1, <2>1, <2>2, SortedLemma
<1>7. /\ n \in Nat /\ ExploreRows \in [1 .. n -> D]
      /\ \A x \in D : \E k \in 1 .. n : ExploreRows[k] = x
      /\ \A i, j \in 1 .. n : i < j <=> <<ExploreRows[i], ExploreRows[j]>> \in R
      /\ \A i, j \in 1 .. n : ExploreRows[i] = ExploreRows[j] => i = j
  BY <1>6 DEF Lists
<1> HIDE DEF n
<1>8. DOMAIN ExploreRows = 1 .. n
  BY <1>7
<1>9. IsInjective(ExploreRows) /\ ToSet(ExploreRows) = D
  BY <1>7, <1>8 DEF IsInjective, ToSet
<1>10. ASSUME NEW i \in 1 .. n, NEW j \in 1 .. n, i < j, HasProblems(ExploreRows[j])
       PROVE  HasProblems(ExploreRows[i])
  <2>1. Above(ExploreRows[i], ExploreRows[j])
    BY <1>4, <1>7, <1>10
  <2> QED BY <1>10, <2>1 DEF Above
<1> QED BY <1>8, <1>9, <1>10 DEF ProblemsComeFirst, D

\* For any namespaces and any pods in them, Explore has one row for each namespace of the
\* snapshot and no row without a problem above one with a problem (Explore.qml:5).
THEOREM ProblemsFirst == Spec => []ProblemsComeFirst
BY SnapCorrect, ExploreSorted, PTL

-----------------------------------------------------------------------------
(* The list of alerts *)

Items == [alert : Alerts, state : {"active", "suppressed"}]

\* Alertmanager answers with each alert at most once.
AnswerInv ==
    /\ firing \in Seq(Items)
    /\ \A i, j \in DOMAIN firing : firing[i].alert = firing[j].alert => i = j

\* No alert on the list precedes one above it.
IsRanked(list) == \A i, j \in DOMAIN list : i < j => ~Precedes(list[j], list[i])

\* The active ones of an answer are parsed, each once.
LEMMA ParseLemma ==
    ASSUME AnswerInv
    PROVE  /\ ParseAlerts(firing) \in Seq(Alerts)
           /\ IsInjective(ParseAlerts(firing))
           /\ \A a \in Alerts : a \in ToSet(ParseAlerts(firing))
                                  <=> [alert |-> a, state |-> "active"] \in ToSet(firing)
<1> DEFINE S     == {i \in DOMAIN firing : firing[i].state = "active"}
           R     == {p \in S \X S : p[1] < p[2]}
           n     == Cardinality(S)
           ahead == [x \in S |-> Cardinality({y \in S : y < x})]
           s     == [k \in 1 .. n |-> CHOOSE x \in S : ahead[x] = k - 1]
           list  == ParseAlerts(firing)
<1>1. /\ Len(firing) \in Nat /\ DOMAIN firing = 1 .. Len(firing)
      /\ \A i \in DOMAIN firing : firing[i] \in Items
  BY DEF AnswerInv
<1>2. S \in SUBSET (1 .. Len(firing)) /\ S \in SUBSET Int /\ IsFiniteSet(S)
  <2>1. S \in SUBSET (1 .. Len(firing)) /\ S \in SUBSET Int
    BY <1>1
  <2>2. IsFiniteSet(1 .. Len(firing))
    BY <1>1, FS_Interval
  <2> HIDE DEF S
  <2> QED BY <2>1, <2>2, FS_Subset
<1>3. list = [k \in DOMAIN s |-> firing[s[k]].alert]
  BY DEF ParseAlerts, SortedBy
<1>4. \A i \in DOMAIN firing : i \in S <=> firing[i].state = "active"
  OBVIOUS
<1> HIDE DEF S
<1>5. \A x, y \in S : <<x, y>> \in R <=> x < y
  OBVIOUS
<1>6. \A x \in S : ahead[x] = Cardinality({y \in S : <<y, x>> \in R})
  <2>1. \A x \in S : {y \in S : y < x} = {y \in S : <<y, x>> \in R}
    BY <1>5
  <2> HIDE DEF R
  <2> QED BY <2>1
<1>7. s = [k \in 1 .. n |-> CHOOSE x \in S : ahead[x] = k - 1]
  OBVIOUS
<1> HIDE DEF R, ahead, s
<1>8. Orders(R, S)
  <2>1. \A x, y \in S : x \in Int /\ y \in Int
    BY <1>2
  <2>2. \A x \in S : ~(<<x, x>> \in R)
    BY <1>5, <2>1
  <2>3. \A x, y, z \in S : <<x, y>> \in R /\ <<y, z>> \in R => <<x, z>> \in R
    BY <1>5, <2>1
  <2>4. ASSUME NEW x \in S, NEW y \in S, x # y PROVE <<x, y>> \in R \/ <<y, x>> \in R
    <3>1. x < y \/ y < x
      BY <2>1, <2>4
    <3> QED BY <1>5, <3>1
  <2> QED BY <2>2, <2>3, <2>4 DEF Orders
<1>9. Lists(s, S, R)
  <2>1. Counts(ahead, S, R) /\ Places(s, S, ahead)
    BY <1>6, <1>7 DEF Counts, Places
  <2> QED BY <1>2, <1>8, <2>1, SortedLemma
<1>10. /\ n \in Nat /\ s \in [1 .. n -> S]
       /\ \A x \in S : \E k \in 1 .. n : s[k] = x
       /\ \A i, j \in 1 .. n : s[i] = s[j] => i = j
  BY <1>9 DEF Lists
<1> HIDE DEF n, list
<1>11. list = [k \in 1 .. n |-> firing[s[k]].alert]
  BY <1>3, <1>10
<1>12. \A k \in 1 .. n : s[k] \in DOMAIN firing /\ firing[s[k]] \in Items
  BY <1>1, <1>2, <1>10
<1>13. list \in Seq(Alerts) /\ DOMAIN list = 1 .. n
  <2>1. \A k \in 1 .. n : firing[s[k]].alert \in Alerts
    BY <1>12 DEF Items
  <2> QED BY <1>10, <1>11, <2>1
<1>14. IsInjective(list)
  BY <1>10, <1>11, <1>12, <1>13 DEF IsInjective, AnswerInv
<1>15. ASSUME NEW a \in Alerts
       PROVE  a \in ToSet(list) <=> [alert |-> a, state |-> "active"] \in ToSet(firing)
  <2>1. ASSUME a \in ToSet(list) PROVE [alert |-> a, state |-> "active"] \in ToSet(firing)
    <3>1. PICK k \in 1 .. n : a = list[k]
      BY <1>13, <2>1 DEF ToSet
    <3>2. s[k] \in S /\ s[k] \in DOMAIN firing /\ firing[s[k]] \in Items /\ firing[s[k]].alert = a
      BY <1>10, <1>11, <1>12, <3>1
    <3>3. firing[s[k]] = [alert |-> a, state |-> "active"]
      BY <1>4, <3>2 DEF Items
    <3> QED BY <3>2, <3>3 DEF ToSet
  <2>2. ASSUME [alert |-> a, state |-> "active"] \in ToSet(firing) PROVE a \in ToSet(list)
    <3>1. PICK i \in DOMAIN firing : firing[i] = [alert |-> a, state |-> "active"]
      BY <2>2 DEF ToSet
    <3>2. PICK k \in 1 .. n : s[k] = i
      BY <1>4, <1>10, <3>1
    <3>3. list[k] = a
      BY <1>11, <3>1, <3>2
    <3> QED BY <1>13, <3>3 DEF ToSet
  <2> QED BY <2>1, <2>2
<1> QED BY <1>13, <1>14, <1>15 DEF list

\* The rank of an alert is two numbers, whatever its label.
LEMMA PrecedesLemma ==
    ASSUME NEW a \in Alerts
    PROVE  Order(a) \in {0, 1, 2, 99} /\ StartsAt[a] \in Int
BY StartsAssumption DEF Order

\* Ranking loses no alert and doubles none.
LEMMA RankLemma ==
    ASSUME NEW list \in Seq(Alerts)
    PROVE  /\ RankAlerts(list) \in Seq(Alerts)
           /\ IsInjective(list) => IsInjective(RankAlerts(list))
           /\ ToSet(RankAlerts(list)) = ToSet(list)
           /\ IsRanked(RankAlerts(list))
<1> DEFINE S            == DOMAIN list
           before(i, j) == \/ Precedes(list[i], list[j])
                           \/ ~Precedes(list[j], list[i]) /\ i < j
           R            == {p \in S \X S : before(p[1], p[2])}
           n            == Cardinality(S)
           ahead        == [x \in S |-> Cardinality({y \in S : before(y, x)})]
           s            == [k \in 1 .. n |-> CHOOSE x \in S : ahead[x] = k - 1]
           ranked       == RankAlerts(list)
<1>1. /\ Len(list) \in Nat /\ S = 1 .. Len(list) /\ S \in SUBSET Int
      /\ \A i \in S : list[i] \in Alerts
  OBVIOUS
<1>2. IsFiniteSet(S) /\ n = Len(list)
  BY <1>1, FS_Interval
<1>3. ranked = [k \in S |-> list[s[k]]]
  BY DEF RankAlerts, SortedBy
<1> DEFINE o(i) == Order(list[i])
           t(i) == StartsAt[list[i]]
<1>4. \A i, j \in S : Precedes(list[i], list[j]) <=> o(i) < o(j) \/ (o(i) = o(j) /\ t(i) > t(j))
  BY DEF Precedes
<1>5. \A i \in S : o(i) \in Int /\ t(i) \in Int /\ i \in Int
  BY <1>1, PrecedesLemma
<1> HIDE DEF o, t
<1>6. \A i, j \in S : <<i, j>> \in R <=> before(i, j)
  OBVIOUS
<1>7. \A x \in S : ahead[x] = Cardinality({y \in S : <<y, x>> \in R})
  <2>1. \A x \in S : {y \in S : before(y, x)} = {y \in S : <<y, x>> \in R}
    OBVIOUS
  <2> HIDE DEF R, before
  <2> QED BY <2>1
<1>8. \A i, j \in S : before(i, j) <=> \/ o(i) < o(j)
                                       \/ o(i) = o(j) /\ t(i) > t(j)
                                       \/ o(i) = o(j) /\ t(i) = t(j) /\ i < j
  BY <1>4, <1>5
<1> HIDE DEF S, R, before, ahead
<1>9. Orders(R, S)
  <2>1. \A x \in S : ~(<<x, x>> \in R)
    BY <1>5, <1>6, <1>8
  <2>2. \A x, y, z \in S : <<x, y>> \in R /\ <<y, z>> \in R => <<x, z>> \in R
    BY <1>5, <1>6, <1>8
  <2>3. ASSUME NEW x \in S, NEW y \in S, x # y PROVE <<x, y>> \in R \/ <<y, x>> \in R
    BY <1>5, <1>6, <1>8, <2>3
  <2> QED BY <2>1, <2>2, <2>3 DEF Orders
<1>10. s = [k \in 1 .. n |-> CHOOSE x \in S : ahead[x] = k - 1]
  OBVIOUS
<1> HIDE DEF s
<1> HIDE DEF ranked
<1>11. Lists(s, S, R)
  <2>1. Counts(ahead, S, R) /\ Places(s, S, ahead)
    BY <1>7, <1>10 DEF Counts, Places
  <2> QED BY <1>2, <1>9, <2>1, SortedLemma
<1>12. /\ n \in Nat /\ S = 1 .. n /\ s \in [1 .. n -> S]
       /\ \A x \in S : \E k \in 1 .. n : s[k] = x
       /\ \A i, j \in 1 .. n : i < j <=> <<s[i], s[j]>> \in R
       /\ \A i, j \in 1 .. n : s[i] = s[j] => i = j
  BY <1>1, <1>2, <1>11 DEF Lists
<1> HIDE DEF n
<1>13. /\ ranked = [k \in 1 .. n |-> list[s[k]]] /\ DOMAIN ranked = 1 .. n
       /\ \A k \in 1 .. n : s[k] \in S /\ ranked[k] = list[s[k]]
  BY <1>3, <1>12
<1>14. ranked \in Seq(Alerts)
  BY <1>1, <1>12, <1>13
<1>15. IsInjective(list) => IsInjective(ranked)
  BY <1>12, <1>13 DEF IsInjective, S
<1>16. ToSet(ranked) = ToSet(list)
  <2>1. DOMAIN list = S
    BY DEF S
  <2>2. ToSet(ranked) = {list[s[k]] : k \in 1 .. n}
    BY <1>13 DEF ToSet
  <2>3. ToSet(list) = {list[i] : i \in S}
    BY <2>1 DEF ToSet
  <2>4. \A k \in 1 .. n : s[k] \in S
    BY <1>13
  <2>5. \A i \in S : \E k \in 1 .. n : s[k] = i
    BY <1>12
  <2> QED BY ONLY <2>2, <2>3, <2>4, <2>5
<1>17. ASSUME NEW i \in 1 .. n, NEW j \in 1 .. n, i < j PROVE ~Precedes(ranked[j], ranked[i])
  <2>1. before(s[i], s[j]) /\ s[i] \in S /\ s[j] \in S
    BY <1>6, <1>12, <1>17
  <2>2. ~Precedes(list[s[j]], list[s[i]])
    BY <1>4, <1>5, <1>8, <2>1
  <2> QED BY <1>13, <2>2
<1>18. IsRanked(ranked)
  BY <1>13, <1>17 DEF IsRanked
<1> QED BY <1>14, <1>15, <1>16, <1>18 DEF ranked

\* An element that is put in is at its place; those before it keep theirs and the others
\* move up by one.
LEMMA InsertLemma ==
    ASSUME NEW T, NEW q \in Seq(T), NEW e \in T, NEW i \in 1 .. Len(q) + 1
    PROVE  /\ InsertAt(q, i, e) \in Seq(T)
           /\ Len(InsertAt(q, i, e)) = Len(q) + 1
           /\ \A j \in 1 .. Len(q) + 1 :
                 InsertAt(q, i, e)[j] = IF j < i THEN q[j] ELSE IF j = i THEN e ELSE q[j - 1]
<1> DEFINE front == SubSeq(q, 1, i - 1)
           back  == SubSeq(q, i, Len(q))
<1>1. /\ front \in Seq(T) /\ Len(front) = i - 1
      /\ \A j \in 1 .. i - 1 : front[j] = q[j]
  OBVIOUS
<1>2. /\ back \in Seq(T) /\ Len(back) = Len(q) + 1 - i
      /\ \A j \in 1 .. Len(q) + 1 - i : back[j] = q[i + j - 1]
  OBVIOUS
<1>3. InsertAt(q, i, e) = front \o <<e>> \o back
  BY DEF InsertAt
<1> HIDE DEF front, back
<1>4. /\ front \o <<e>> \in Seq(T) /\ Len(front \o <<e>>) = i
      /\ \A j \in 1 .. i : (front \o <<e>>)[j] = IF j < i THEN front[j] ELSE e
  BY <1>1
<1>5. /\ InsertAt(q, i, e) \in Seq(T) /\ Len(InsertAt(q, i, e)) = Len(q) + 1
      /\ \A j \in 1 .. Len(q) + 1 :
            InsertAt(q, i, e)[j] = IF j <= i THEN (front \o <<e>>)[j] ELSE back[j - i]
  BY <1>2, <1>3, <1>4
<1>6. ASSUME NEW j \in 1 .. Len(q) + 1, i < j PROVE back[j - i] = q[j - 1]
  BY <1>2, <1>6
<1>7. ASSUME NEW j \in 1 .. Len(q) + 1
      PROVE  InsertAt(q, i, e)[j] = IF j < i THEN q[j] ELSE IF j = i THEN e ELSE q[j - 1]
  <2>1. i \in Int /\ j \in Int
    OBVIOUS
  <2>2. CASE j < i
    BY <1>1, <1>4, <1>5, <2>1, <2>2
  <2>3. CASE j = i
    BY <1>4, <1>5, <2>1, <2>3
  <2>4. CASE i < j
    BY <1>5, <1>6, <2>1, <2>4
  <2> QED BY <2>1, <2>2, <2>3, <2>4
<1> QED BY <1>5, <1>7

\* Without one of its elements a sequence has those before it as they were and the others
\* moved down by one.
LEMMA RemoveLemma ==
    ASSUME NEW T, NEW q \in Seq(T), NEW i \in 1 .. Len(q)
    PROVE  /\ RemoveAt(q, i) \in Seq(T)
           /\ Len(RemoveAt(q, i)) = Len(q) - 1
           /\ \A j \in 1 .. Len(q) - 1 :
                 RemoveAt(q, i)[j] = IF j < i THEN q[j] ELSE q[j + 1]
<1> DEFINE front == SubSeq(q, 1, i - 1)
           back  == SubSeq(q, i + 1, Len(q))
<1>1. /\ front \in Seq(T) /\ Len(front) = i - 1
      /\ \A j \in 1 .. i - 1 : front[j] = q[j]
  OBVIOUS
<1>2. /\ back \in Seq(T) /\ Len(back) = Len(q) - i
      /\ \A j \in 1 .. Len(q) - i : back[j] = q[i + j]
  OBVIOUS
<1>3. RemoveAt(q, i) = front \o back
  BY DEF RemoveAt
<1> HIDE DEF front, back
<1>4. /\ RemoveAt(q, i) \in Seq(T) /\ Len(RemoveAt(q, i)) = Len(q) - 1
      /\ \A j \in 1 .. Len(q) - 1 :
            RemoveAt(q, i)[j] = IF j < i THEN front[j] ELSE back[j - (i - 1)]
  BY <1>1, <1>2, <1>3
<1>5. ASSUME NEW j \in 1 .. Len(q) - 1, ~(j < i) PROVE back[j - (i - 1)] = q[j + 1]
  BY <1>2, <1>5
<1> QED BY <1>1, <1>4, <1>5

AlertInv == AnswerInv /\ alerts \in Seq(Alerts) /\ IsRanked(alerts)

LEMMA InitAlerts == AlertInit => AlertInv
BY DEF AlertInit, AlertInv, AnswerInv, IsRanked

LEMMA StepAlerts == AlertInv /\ [AlertNext]_alertVars => AlertInv'
<1> SUFFICES ASSUME AlertInv, [AlertNext]_alertVars PROVE AlertInv'
  OBVIOUS
<1>1. /\ AnswerInv /\ firing \in Seq(Items) /\ Len(firing) \in Nat
      /\ DOMAIN firing = 1 .. Len(firing)
      /\ \A i \in 1 .. Len(firing) : firing[i] \in Items
      /\ \A i, j \in 1 .. Len(firing) : firing[i].alert = firing[j].alert => i = j
  BY DEF AlertInv, AnswerInv
<1>2. ASSUME NEW a \in Alerts, Fire(a) PROVE AlertInv'
  <2>1. PICK e \in Items, i \in 1 .. Len(firing) + 1 :
           e.alert = a /\ firing' = InsertAt(firing, i, e)
    BY <1>2 DEF Fire, Items
  <2>2. \A k \in 1 .. Len(firing) : firing[k].alert # a
    BY <1>1, <1>2 DEF Fire, IsFiring
  <2>3. /\ firing' \in Seq(Items) /\ Len(firing') = Len(firing) + 1
        /\ \A j \in 1 .. Len(firing) + 1 :
              firing'[j] = IF j < i THEN firing[j] ELSE IF j = i THEN e ELSE firing[j - 1]
    <3>1. /\ InsertAt(firing, i, e) \in Seq(Items)
          /\ Len(InsertAt(firing, i, e)) = Len(firing) + 1
          /\ \A j \in 1 .. Len(firing) + 1 :
                InsertAt(firing, i, e)[j] =
                   IF j < i THEN firing[j] ELSE IF j = i THEN e ELSE firing[j - 1]
      BY <1>1, InsertLemma
    <3> QED BY <2>1, <3>1, Zenon
  <2>4. DOMAIN firing' = 1 .. Len(firing) + 1
    BY <2>3
  <2> DEFINE old(j) == IF j < i THEN j ELSE j - 1
  <2>5. \A j \in 1 .. Len(firing) + 1 : j # i => old(j) \in 1 .. Len(firing) /\ firing'[j] = firing[old(j)]
    BY <1>1, <2>3
  <2>6. \A j, k \in 1 .. Len(firing) + 1 : j # i /\ k # i /\ old(j) = old(k) => j = k
    BY <1>1
  <2>7. firing'[i] = e
    BY <1>1, <2>3
  <2> HIDE DEF old
  <2>8. ASSUME NEW j \in 1 .. Len(firing) + 1, NEW k \in 1 .. Len(firing) + 1,
               firing'[j].alert = firing'[k].alert
        PROVE  j = k
    <3>1. CASE j # i /\ k # i
      BY <1>1, <2>5, <2>6, <2>8, <3>1
    <3>2. CASE j = i \/ k = i
      BY <2>1, <2>2, <2>5, <2>7, <2>8, <3>2
    <3> QED BY <3>1, <3>2
  <2>9. AnswerInv'
    BY <2>3, <2>4, <2>8 DEF AnswerInv
  <2> QED BY <1>2, <2>9 DEF AlertInv, Fire, IsRanked
<1>3. ASSUME NEW a \in Alerts, Resolve(a) PROVE AlertInv'
  <2>1. PICK i \in 1 .. Len(firing) : firing' = RemoveAt(firing, i)
    BY <1>1, <1>3 DEF Resolve
  <2>2. /\ firing' \in Seq(Items) /\ Len(firing') = Len(firing) - 1
        /\ \A j \in 1 .. Len(firing) - 1 :
              firing'[j] = IF j < i THEN firing[j] ELSE firing[j + 1]
    BY <1>1, <2>1, RemoveLemma
  <2>3. DOMAIN firing' = 1 .. Len(firing) - 1
    BY <2>2
  <2> DEFINE old(j) == IF j < i THEN j ELSE j + 1
  <2>4. \A j \in 1 .. Len(firing) - 1 : old(j) \in 1 .. Len(firing) /\ firing'[j] = firing[old(j)]
    BY <1>1, <2>2
  <2>5. \A j, k \in 1 .. Len(firing) - 1 : old(j) = old(k) => j = k
    BY <1>1
  <2> HIDE DEF old
  <2>6. ASSUME NEW j \in 1 .. Len(firing) - 1, NEW k \in 1 .. Len(firing) - 1,
               firing'[j].alert = firing'[k].alert
        PROVE  j = k
    BY <1>1, <2>4, <2>5, <2>6
  <2>7. AnswerInv'
    BY <2>2, <2>3, <2>6 DEF AnswerInv
  <2> QED BY <1>3, <2>7 DEF AlertInv, Resolve, IsRanked
<1>4. ASSUME NEW a \in Alerts, Silence(a) PROVE AlertInv'
  <2>1. PICK i \in 1 .. Len(firing) :
           firing' = [firing EXCEPT ![i].state = IF @ = "active" THEN "suppressed" ELSE "active"]
    BY <1>1, <1>4 DEF Silence
  <2>2. /\ firing' \in Seq(Items) /\ DOMAIN firing' = 1 .. Len(firing)
        /\ \A j \in 1 .. Len(firing) : firing'[j].alert = firing[j].alert
    BY <1>1, <2>1 DEF Items
  <2>3. AnswerInv'
    BY <1>1, <2>2 DEF AnswerInv
  <2> QED BY <1>4, <2>3 DEF AlertInv, Silence, IsRanked
<1>5. CASE PollAnswered
  <2>1. firing' = firing /\ alerts' = RankAlerts(ParseAlerts(firing))
    BY <1>5 DEF PollAnswered
  <2>2. RankAlerts(ParseAlerts(firing)) \in Seq(Alerts) /\ IsRanked(RankAlerts(ParseAlerts(firing)))
    BY <1>1, ParseLemma, RankLemma
  <2>3. alerts' \in Seq(Alerts) /\ IsRanked(alerts')
    BY <2>1, <2>2
  <2>4. AnswerInv'
    BY <1>1, <2>1 DEF AnswerInv
  <2> QED BY <2>3, <2>4 DEF AlertInv, IsRanked
<1>6. CASE UNCHANGED alertVars
  BY <1>6 DEF AlertInv, AnswerInv, IsRanked, alertVars
<1> QED BY <1>2, <1>3, <1>4, <1>5, <1>6 DEF AlertNext

\* What the poll leaves on the list is in order (alerts.py:44), through any firing,
\* silencing and resolving between two polls.
LEMMA AlertsCorrect == AlertSpec => []AlertInv
BY InitAlerts, StepAlerts, PTL DEF AlertSpec

\* A page of two rows or more shows the head of a list that is not empty.
LEMMA HeadLemma ==
    ASSUME AlertInv, alerts # <<>>, AlertSlots > 1
    PROVE  /\ Len(RowsOnPage) \in 1 .. Len(alerts) /\ DOMAIN RowsOnPage = 1 .. Len(RowsOnPage)
           /\ \A k \in 1 .. Len(RowsOnPage) : RowsOnPage[k] = alerts[k]
<1>1. alerts \in Seq(Alerts) /\ Len(alerts) \in Nat \ {0} /\ AlertSlots \in Nat
  BY AlertSlotsAssumption DEF AlertInv
<1> DEFINE shown == IF Len(alerts) > AlertSlots THEN AlertSlots - 1 ELSE AlertSlots
           k     == IF Len(alerts) < shown THEN Len(alerts) ELSE shown
<1>2. k \in 1 .. Len(alerts)
  BY <1>1
<1>3. RowsOnPage = SubSeq(alerts, 1, k)
  BY DEF RowsOnPage, RowsShown
<1> HIDE DEF k
<1> QED BY <1>1, <1>2, <1>3

LEMMA TakeoverShown == AlertInv => TakeoverShowsItsAlert
<1> SUFFICES ASSUME AlertInv, HasCritical(alerts), AlertSlots > 1
             PROVE  /\ RowsOnPage # <<>> /\ Severity(RowsOnPage[1]) = "critical"
                    /\ \A i \in DOMAIN alerts :
                          Severity(alerts[i]) = "critical"
                            => /\ StartsAt[alerts[i]] <= StartsAt[RowsOnPage[1]]
                               /\ i > Len(RowsOnPage)
                                    => \A k \in DOMAIN RowsOnPage :
                                          Severity(RowsOnPage[k]) = "critical"
  BY DEF TakeoverShowsItsAlert
<1>1. /\ alerts \in Seq(Alerts) /\ Len(alerts) \in Nat /\ DOMAIN alerts = 1 .. Len(alerts)
      /\ \A i \in 1 .. Len(alerts) : alerts[i] \in Alerts
  BY DEF AlertInv
<1>2. PICK c \in 1 .. Len(alerts) : Severity(alerts[c]) = "critical"
  BY <1>1 DEF HasCritical
<1>3. /\ Len(RowsOnPage) \in 1 .. Len(alerts) /\ DOMAIN RowsOnPage = 1 .. Len(RowsOnPage)
      /\ \A k \in 1 .. Len(RowsOnPage) : RowsOnPage[k] = alerts[k]
  BY <1>1, <1>2, HeadLemma
<1>4. ASSUME NEW i \in 1 .. Len(alerts), NEW j \in 1 .. Len(alerts), i < j,
             Severity(alerts[j]) = "critical"
      PROVE  Severity(alerts[i]) = "critical" /\ StartsAt[alerts[j]] <= StartsAt[alerts[i]]
  <2>1. ~Precedes(alerts[j], alerts[i])
    BY <1>1, <1>4 DEF AlertInv, IsRanked
  <2>2. /\ Order(alerts[i]) \in {0, 1, 2, 99} /\ StartsAt[alerts[i]] \in Int
        /\ Order(alerts[j]) \in {0, 1, 2, 99} /\ StartsAt[alerts[j]] \in Int
    BY <1>1, PrecedesLemma
  <2>3. Order(alerts[j]) = 0
    BY <1>4 DEF Order
  <2>4. Order(alerts[i]) = 0 /\ ~(StartsAt[alerts[j]] > StartsAt[alerts[i]])
    BY <2>1, <2>2, <2>3 DEF Precedes
  <2>5. Severity(alerts[i]) = "critical"
    BY <2>4 DEF Order
  <2> QED BY <2>2, <2>4, <2>5
<1>5. 1 \in 1 .. Len(alerts) /\ RowsOnPage # <<>> /\ RowsOnPage[1] = alerts[1]
  BY <1>1, <1>3
<1>6. \A i \in 1 .. Len(alerts) : StartsAt[alerts[i]] \in Int
  BY <1>1, PrecedesLemma
<1>7. Severity(alerts[1]) = "critical"
  <2>1. c = 1 \/ 1 < c
    BY <1>1
  <2> QED BY <1>2, <1>4, <1>5, <2>1
<1>8. ASSUME NEW i \in 1 .. Len(alerts), Severity(alerts[i]) = "critical"
      PROVE  StartsAt[alerts[i]] <= StartsAt[alerts[1]]
  <2>1. CASE i = 1
    BY <1>5, <1>6, <2>1
  <2>2. CASE 1 < i
    BY <1>4, <1>5, <1>8, <2>2
  <2> QED BY <1>1, <2>1, <2>2
<1>9. ASSUME NEW i \in 1 .. Len(alerts), Severity(alerts[i]) = "critical",
             i > Len(RowsOnPage), NEW k \in 1 .. Len(RowsOnPage)
      PROVE  Severity(RowsOnPage[k]) = "critical"
  <2>1. k \in 1 .. Len(alerts) /\ k < i /\ RowsOnPage[k] = alerts[k]
    BY <1>1, <1>3, <1>9
  <2> QED BY <1>4, <1>9, <2>1
<1> QED BY <1>1, <1>3, <1>5, <1>7, <1>8, <1>9

\* For any alerts and any page with room for two rows: when a critical alert seizes the
\* screen, the page it switches to shows the latest critical one first, and hides none
\* in the note while it shows anything less (bridge.py:121-123, Alerts.qml).
THEOREM TakeoverOfTheLatest == AlertSpec => []TakeoverShowsItsAlert
BY AlertsCorrect, TakeoverShown, PTL

\* For any alerts, in any order of Alertmanager's answer: an answered poll lists each
\* alert that fires unsilenced exactly once, and no other (alerts.py:22-23).
THEOREM PollListsWhatFires == AlertSpec => ListIsWhatFires
<1>1. AlertInv /\ [AlertNext]_alertVars =>
        [PollAnswered =>
          /\ IsInjective(alerts')
          /\ \A a \in Alerts :
                a \in ToSet(alerts') <=> [alert |-> a, state |-> "active"] \in ToSet(firing)]_alertVars
  <2> SUFFICES ASSUME AlertInv, PollAnswered
               PROVE  /\ IsInjective(alerts')
                      /\ \A a \in Alerts :
                            a \in ToSet(alerts')
                              <=> [alert |-> a, state |-> "active"] \in ToSet(firing)
    OBVIOUS
  <2> DEFINE parsed == ParseAlerts(firing)
             ranked == RankAlerts(parsed)
  <2>1. /\ parsed \in Seq(Alerts) /\ IsInjective(parsed)
        /\ \A a \in Alerts :
              a \in ToSet(parsed) <=> [alert |-> a, state |-> "active"] \in ToSet(firing)
    BY ParseLemma DEF AlertInv
  <2>2. IsInjective(ranked) /\ ToSet(ranked) = ToSet(parsed)
    BY <2>1, RankLemma
  <2>3. alerts' = ranked
    BY DEF PollAnswered
  <2> QED BY <2>1, <2>2, <2>3, Zenon
<1> QED BY <1>1, AlertsCorrect, PTL DEF AlertSpec, ListIsWhatFires
=============================================================================
