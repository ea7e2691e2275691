----------------------------- MODULE Inventory -----------------------------
(***************************************************************************)
(* The cluster's nodes, namespaces and pods on the screen: the poll that   *)
(* joins the answers of two services (Collector._node_and_ns), the         *)
(* snapshot it swaps in, and the numbers that four pages make of it        *)
(* (qml/pages/Cluster.qml, Explore.qml, NodeDetail.qml, Pulse.qml).        *)
(*                                                                         *)
(* The cluster goes on while the thread waits for the next answer.         *)
(* A measured value is represented by the address it was measured at: what *)
(* matters is on whose row it ends up.  The four queries for nodes are     *)
(* joined alike, and stand as one.  Names are unique, so that a list is a  *)
(* function from names, and the API server's order a constant.             *)
(***************************************************************************)
EXTENDS Table, Sorting, Naturals, Sequences, FiniteSets, FiniteSetsExt, SequencesExt

CONSTANTS
    NodeOrder,     \* all node names, as the API server sorts them
    AddressOf,     \* the InternalIP of each; NoAddress if it has none
    NoAddress,
    Namespaces,    \* all namespaces there are, as a sequence in the names' order
    Pods,
    NamespaceOf,   \* of each pod
    PodStatuses,   \* the [phase, allReady] that pods take
    NoNode,        \* where a pod is that is not scheduled
    NoSample,      \* 0.0
    Slots,         \* rows of the node table (8 in Cluster.qml:867)
    MaxChanges     \* bounds the changes of the cluster

ASSUME InventoryAssumption == Slots \in Nat \ {0} /\ MaxChanges \in Nat
ASSUME OrderAssumption     == NodeOrder \in Seq(ToSet(NodeOrder))
ASSUME NamespaceAssumption == /\ Namespaces \in Seq(ToSet(Namespaces))
                              /\ NamespaceOf \in [Pods -> ToSet(Namespaces)]
ASSUME PodsAssumption      == IsFiniteSet(Pods)

VARIABLES
    nodes,     \* the cluster's nodes, with their states
    pods,      \* the cluster's pods, with their states
    changes,   \* how often the cluster has changed
    poll,      \* where the thread is, and what it holds in its local variables
    snap       \* Collector._snap

vars == <<nodes, pods, changes, poll, snap>>

Nodes      == ToSet(NodeOrder)
Addresses  == {AddressOf[n] : n \in Nodes} \ {NoAddress}
NodeStates == [ready : BOOLEAN, cordoned : BOOLEAN]
PodStates  == [status : PodStatuses, node : Nodes \cup {NoNode}]
None       == [x \in {} |-> x]

ListingsOf(names, states) == UNION {[some -> states] : some \in SUBSET names}

Position(n) == CHOOSE i \in DOMAIN NodeOrder : NodeOrder[i] = n

-----------------------------------------------------------------------------
(* From the answers to the snapshot *)

\* PodInfo.healthy: a completed job is not a fault.
Healthy(status) ==
    \/ status.phase = "Succeeded"
    \/ status.phase = "Running" /\ status.allReady

\* build_ip_map: the last node with an address wins.
IpMap(names) ==
    [a \in {AddressOf[n] : n \in names} \ {NoAddress} |->
        CHOOSE n \in names :
            /\ AddressOf[n] = a
            /\ \A other \in names : AddressOf[other] = a => Position(other) <= Position(n)]

\* Slip: the samples are taken to be in the nodes' order.
SampleInListOrder(names, samples, n) ==
    LET list  == SetToSortSeq(samples, <)
        place == Cardinality({m \in names : Position(m) <= Position(n)})
    IN  IF place \in DOMAIN list THEN list[place] ELSE NoSample

\* by_name: samples of unknown addresses are dropped.
SampleFor(names, samples, n) ==
    LET own == {a \in samples : a \in DOMAIN IpMap(names) /\ IpMap(names)[a] = n}
    IN  IF own = {} THEN NoSample ELSE CHOOSE a \in own : TRUE

PodsOn(podList, n) == {p \in DOMAIN podList : podList[p].node = n}

MergeNodeStats(nodeList, samples, podList) ==
    [n \in DOMAIN nodeList |->
        [state |-> nodeList[n],
         cpu   |-> SampleFor(DOMAIN nodeList, samples, n),
         pods  |-> Cardinality(PodsOn(podList, n))]]

Unhealthy(podList) == {p \in DOMAIN podList : ~Healthy(podList[p].status)}

\* by_ns: the namespaces are those of the pods.  Memory is left out: no page sorts
\* by it.
NamespaceStats(podList) ==
    [ns \in {NamespaceOf[p] : p \in DOMAIN podList} |->
        [pods      |-> Cardinality({p \in DOMAIN podList : NamespaceOf[p] = ns}),
         unhealthy |-> Cardinality({p \in Unhealthy(podList) : NamespaceOf[p] = ns})]]

-----------------------------------------------------------------------------
(* The poll *)

Idle == [at |-> "list_nodes", nodes |-> None, pods |-> None, samples |-> {}]

EmptySnapshot == [nodes |-> None, namespaces |-> None, pods |-> None]

Init ==
    /\ nodes \in ListingsOf(Nodes, {[ready |-> TRUE, cordoned |-> FALSE]})
    /\ pods = None
    /\ changes = 0
    /\ poll = Idle
    /\ snap = EmptySnapshot

ListNodes ==
    /\ poll.at = "list_nodes"
    /\ poll' = [poll EXCEPT !.at = "list_pods", !.nodes = nodes]
    /\ UNCHANGED <<nodes, pods, changes, snap>>

ListPods ==
    /\ poll.at = "list_pods"
    /\ poll' = [poll EXCEPT !.at = "query", !.pods = pods]
    /\ UNCHANGED <<nodes, pods, changes, snap>>

\* Any node exporters may be missing from the answer.
Query ==
    /\ poll.at = "query"
    /\ \E samples \in SUBSET Addresses :
          poll' = [poll EXCEPT !.at = "update", !.samples = samples]
    /\ UNCHANGED <<nodes, pods, changes, snap>>

\* Slip: the pods are left for another update.
PublishStatsOnly ==
    /\ poll.at = "update"
    /\ snap' = [snap EXCEPT !.nodes = MergeNodeStats(poll.nodes, poll.samples, poll.pods),
                            !.namespaces = NamespaceStats(poll.pods)]
    /\ poll' = Idle
    /\ UNCHANGED <<nodes, pods, changes>>

\* All three in one update.
Publish ==
    /\ poll.at = "update"
    /\ snap' = [nodes      |-> MergeNodeStats(poll.nodes, poll.samples, poll.pods),
                namespaces |-> NamespaceStats(poll.pods),
                pods       |-> poll.pods]
    /\ poll' = Idle
    /\ UNCHANGED <<nodes, pods, changes>>

\* A call fails: its exception ends the poll, and nothing of it is published.
PollFails ==
    /\ poll.at # "update"
    /\ poll' = Idle
    /\ UNCHANGED <<nodes, pods, changes, snap>>

-----------------------------------------------------------------------------
(* The cluster *)

NodesChange ==
    /\ changes < MaxChanges /\ changes' = changes + 1
    /\ \E n \in Nodes :
          \/ \E state \in NodeStates :
                nodes' = [m \in DOMAIN nodes \cup {n} |-> IF m = n THEN state ELSE nodes[m]]
          \/ nodes' = [m \in DOMAIN nodes \ {n} |-> nodes[m]]
    /\ UNCHANGED <<pods, poll, snap>>

PodsChange ==
    /\ changes < MaxChanges /\ changes' = changes + 1
    /\ \E p \in Pods :
          \/ \E state \in [status : PodStatuses, node : DOMAIN nodes \cup {NoNode}] :
                pods' = [q \in DOMAIN pods \cup {p} |-> IF q = p THEN state ELSE pods[q]]
          \/ pods' = [q \in DOMAIN pods \ {p} |-> pods[q]]
    /\ UNCHANGED <<nodes, poll, snap>>

PollStep == ListNodes \/ ListPods \/ Query \/ Publish

Next == PollStep \/ PollFails \/ NodesChange \/ PodsChange

\* Every call succeeds again and again, whatever else fails.
Fairness == WF_vars(ListNodes) /\ SF_vars(ListPods) /\ SF_vars(Query) /\ SF_vars(Publish)

Spec == Init /\ [][Next]_vars

FairSpec == Spec /\ Fairness

-----------------------------------------------------------------------------
(* The pages *)

\* Cluster.qml's node table, as far as it is visible, and its note.
NodeList  == SortedBy(DOMAIN snap.nodes, LAMBDA m, n : Position(m) < Position(n))
NodeTable == RowsShown(NodeList, Slots)
MoreNodes == More(NodeList, Slots)

\* The state in its rows and on NodeDetail.qml.
NodeState(n) ==
    IF n \notin DOMAIN snap.nodes THEN "unknown"
    ELSE IF ~snap.nodes[n].state.ready THEN "notready"
    ELSE IF snap.nodes[n].state.cordoned THEN "cordon" ELSE "ready"

\* Its "Nodes ready" card.
ReadyCount    == Cardinality({n \in DOMAIN snap.nodes : snap.nodes[n].state.ready})
NotReadyCount == Cardinality(DOMAIN snap.nodes) - ReadyCount

\* NodeDetail.qml: the card, and the rows below it.
PodsCard(n) == IF n \in DOMAIN snap.nodes THEN snap.nodes[n].pods ELSE 0
PodRows(n)  == PodsOn(snap.pods, n)

\* The bridge's totals, on the cards of Cluster.qml and Pulse.qml.
UnhealthyPods == Cardinality(Unhealthy(snap.pods))

NamePlace(ns) == SelectInSeq(Namespaces, LAMBDA other : other = ns)

\* Slip: by name only.
ByNameOnly(a, b) == NamePlace(a) < NamePlace(b)

HasProblems(ns) == snap.namespaces[ns].unhealthy > 0

\* Explore.qml: problems first, then by name.
Above(a, b) ==
    \/ HasProblems(a) /\ ~HasProblems(b)
    \/ HasProblems(a) = HasProblems(b) /\ ByNameOnly(a, b)

ExploreRows == SortedBy(DOMAIN snap.namespaces, Above)

-----------------------------------------------------------------------------

\* The pages never contradict each other, whatever happens between the calls of a
\* poll: a node's card counts the rows below it, and the namespaces of Explore add up
\* to the pods there are, and their problems to the failing pods of Cluster and Pulse;
\* the ready card counts the node table, the rows under its note included
\* (collector.py:115, bridge.py:239-240, Cluster.qml:72-79).
PagesAgree ==
    /\ \A n \in DOMAIN snap.nodes : PodsCard(n) = Cardinality(PodRows(n))
    /\ SumFunction([ns \in DOMAIN snap.namespaces |-> snap.namespaces[ns].pods])
          = Cardinality(DOMAIN snap.pods)
    /\ SumFunction([ns \in DOMAIN snap.namespaces |-> snap.namespaces[ns].unhealthy])
          = UnhealthyPods
    /\ NotReadyCount = Cardinality({n \in Nodes : NodeState(n) = "notready"})
    /\ Len(NodeTable) + MoreNodes = ReadyCount + NotReadyCount

\* No node's row shows what was measured at another address, and where nodes share an
\* address at most one of them shows it (model.py:71-80).
LoadIsOfTheNode ==
    \A n \in DOMAIN snap.nodes :
        snap.nodes[n].cpu # NoSample =>
            /\ snap.nodes[n].cpu = AddressOf[n]
            /\ \A m \in DOMAIN snap.nodes \ {n} : snap.nodes[m].cpu # snap.nodes[n].cpu

\* "problems first" (Explore.qml:5): no namespace without a problem stands above one
\* with a problem, and every namespace of the snapshot has exactly one row.
ProblemsComeFirst ==
    /\ IsInjective(ExploreRows)
    /\ ToSet(ExploreRows) = DOMAIN snap.namespaces
    /\ \A i, j \in DOMAIN ExploreRows :
          i < j /\ HasProblems(ExploreRows[j]) => HasProblems(ExploreRows[i])

\* Once the cluster rests, the screen shows it as it is, whichever calls fail on the
\* way and however the last change fell between the calls of a poll.
SnapshotCatchesUp ==
    <>[](/\ snap.pods = pods
         /\ [n \in DOMAIN snap.nodes |-> snap.nodes[n].state] = nodes)
=============================================================================
