----------------------------- MODULE PodsProofs -----------------------------
(***************************************************************************)
(* Proofs about Pods.tla, for any number of namespaces and of fetches that *)
(* run at the same time.                                                   *)
(***************************************************************************)
EXTENDS Pods, TLAPS

Calling == [state : {"calling"}, ns : Namespaces]
Done    == [state : {"done"}, ns : Namespaces, list : Lists, failed : BOOLEAN]

\* A thread's state tells what its record holds.
LEMMA JobLemma ==
    ASSUME NEW job \in Jobs
    PROVE  /\ job.state = "calling" => job \in Calling
           /\ job.state = "done" => job \in Done
           /\ job # Idle => job.state \in {"calling", "done"} /\ job.ns \in Namespaces
<1>1. job = Idle \/ job \in Calling \/ job \in Done
  BY DEF Jobs, Calling, Done
<1>2. CASE job = Idle
  BY <1>2 DEF Idle
<1>3. CASE job \in Calling
  BY <1>3 DEF Calling
<1>4. CASE job \in Done
  BY <1>4 DEF Done
<1>5. QED
  BY <1>1, <1>2, <1>3, <1>4

-----------------------------------------------------------------------------
(* Types *)

LEMMA InitType == Init => TypeOK
<1> SUFFICES ASSUME Init PROVE TypeOK
  OBVIOUS
<1>1. Idle \in Jobs
  BY DEF Jobs
<1>2. thread \in [Threads -> Jobs]
  BY <1>1 DEF Init
<1>3. queue \in Seq(Signals) /\ queue = <<>>
  BY DEF Init
<1>4. QED
  BY <1>2, <1>3 DEF Init, TypeOK

LEMMA OpenType ==
    ASSUME TypeOK, NEW ns \in Namespaces, OpenNamespace(ns)
    PROVE  TypeOK'
<1>1. page' \in Pages
  BY DEF OpenNamespace, Pages, Lists
<1>2. thread' \in [Threads -> Jobs]
  BY DEF OpenNamespace, TypeOK, Jobs
<1>3. QED
  BY <1>1, <1>2, PageAssumption DEF OpenNamespace, TypeOK

LEMMA DeliverType ==
    ASSUME TypeOK, Deliver
    PROVE  TypeOK'
<1>1. page \in Pages /\ queue \in Seq(Signals) /\ queue # <<>>
  BY DEF TypeOK, Deliver
<1>2. Head(queue) \in Signals /\ Tail(queue) \in Seq(Signals)
  BY <1>1
<1>3. page' \in Pages
  BY <1>1, <1>2 DEF Deliver, Pages, Signals
<1>4. QED
  BY <1>2, <1>3, PageAssumption DEF Deliver, TypeOK

LEMMA FetchType ==
    ASSUME TypeOK, NEW t \in Threads, Fetch(t)
    PROVE  TypeOK'
<1> USE DEF TypeOK
<1>1. thread[t] \in Jobs
  OBVIOUS
<1>2. CASE Answered(t)
  <2>1. thread[t].ns \in Namespaces
    BY <1>1, <1>2, JobLemma DEF Answered, Calling
  <2>2. PICK list \in Lists :
           thread' = [thread EXCEPT ![t] = [state |-> "done", ns |-> thread[t].ns,
                                            list |-> list, failed |-> FALSE]]
    BY <1>2 DEF Answered
  <2>3. [state |-> "done", ns |-> thread[t].ns, list |-> list, failed |-> FALSE] \in Jobs
    BY <2>1 DEF Jobs
  <2>4. thread' \in [Threads -> Jobs]
    BY <2>2, <2>3
  <2>5. QED
    BY <1>2, <2>4 DEF Answered
<1>3. CASE Failed(t)
  <2>1. thread[t].ns \in Namespaces
    BY <1>1, <1>3, JobLemma DEF Failed, Calling
  <2>2. [state |-> "done", ns |-> thread[t].ns, list |-> "empty", failed |-> TRUE] \in Jobs
    BY <2>1 DEF Jobs, Lists
  <2>3. thread' \in [Threads -> Jobs]
    BY <1>3, <2>2 DEF Failed
  <2>4. QED
    BY <1>3, <2>3 DEF Failed
<1>4. CASE EmitPodsFetched(t)
  <2>1. thread[t] \in Done
    BY <1>1, <1>4, JobLemma DEF EmitPodsFetched
  <2>2. thread' \in [Threads -> Jobs]
    BY <1>4 DEF EmitPodsFetched, Jobs
  <2>3. [ns |-> thread[t].ns, list |-> thread[t].list, failed |-> thread[t].failed] \in Signals
    BY <2>1 DEF Done, Signals
  <2>4. queue' \in Seq(Signals) /\ (page = NoPage => queue' = <<>>)
    BY <1>4, <2>3 DEF EmitPodsFetched
  <2>5. QED
    BY <1>4, <2>2, <2>4 DEF EmitPodsFetched
<1>5. QED
  BY <1>2, <1>3, <1>4 DEF Fetch

\* Every step keeps the types.
LEMMA NextType == TypeOK /\ [Next]_vars => TypeOK'
<1> SUFFICES ASSUME TypeOK, [Next]_vars PROVE TypeOK'
  OBVIOUS
<1>1. CASE ClosePage
  BY <1>1 DEF ClosePage, TypeOK
<1>2. CASE \E ns \in Namespaces : OpenNamespace(ns)
  BY <1>2, OpenType
<1>3. CASE Deliver
  BY <1>3, DeliverType
<1>4. CASE KubePollMarked
  BY <1>4 DEF KubePollMarked, TypeOK
<1>5. CASE \E t \in Threads : Fetch(t)
  BY <1>5, FetchType
<1>6. CASE UNCHANGED vars
  BY <1>6 DEF vars, TypeOK
<1>7. QED
  BY <1>1, <1>2, <1>3, <1>4, <1>5, <1>6 DEF Next, User

\* Every variable stays in its domain.
THEOREM TypeCorrect == Spec => []TypeOK
BY InitType, NextType, PTL DEF Spec

-----------------------------------------------------------------------------
(* The list *)

\* However many answers to other pages are under way, the list of an open page is
\* one of its own namespace.
THEOREM ListsMatch == Spec => []ListIsOfThisNamespace
<1>1. Init => ListIsOfThisNamespace
  BY DEF Init, ListIsOfThisNamespace
<1>2. TypeOK /\ ListIsOfThisNamespace /\ [Next]_vars => ListIsOfThisNamespace'
  <2> SUFFICES ASSUME TypeOK, ListIsOfThisNamespace, [Next]_vars
               PROVE  ListIsOfThisNamespace'
    OBVIOUS
  <2> USE DEF ListIsOfThisNamespace
  <2>1. CASE ClosePage
    BY <2>1 DEF ClosePage
  <2>2. CASE \E ns \in Namespaces : OpenNamespace(ns)
    BY <2>2 DEF OpenNamespace
  <2>3. CASE Deliver
    <3>1. page \in Pages
      BY <2>3 DEF Deliver, TypeOK
    <3>2. CASE Head(queue).ns = page.ns
      <4>1. page'.from = Head(queue).ns /\ page'.ns = page.ns
        BY <2>3, <3>1, <3>2 DEF Deliver, Pages
      <4>2. QED
        BY <3>2, <4>1
    <3>3. CASE Head(queue).ns # page.ns
      BY <2>3, <3>3 DEF Deliver
    <3>4. QED
      BY <3>2, <3>3
  <2>4. CASE KubePollMarked \/ UNCHANGED vars
    BY <2>4 DEF KubePollMarked, vars
  <2>5. CASE \E t \in Threads : Fetch(t)
    BY <2>5 DEF Fetch, Answered, Failed, EmitPodsFetched
  <2>6. QED
    BY <2>1, <2>2, <2>3, <2>4, <2>5 DEF Next, User
<1>3. QED
  BY <1>1, <1>2, TypeCorrect, PTL DEF Spec

-----------------------------------------------------------------------------
(* The answer *)

\* What a loading page waits for: its fetch, or its signal.
Awaits(ns) ==
    \/ \E t \in Threads : thread[t] # Idle /\ thread[t].ns = ns
    \/ \E i \in DOMAIN queue : queue[i].ns = ns

\* A delivered signal that was for another namespace is not the one waited for.
LEMMA DeliverKeepsOthers ==
    ASSUME TypeOK, Deliver, NEW ns \in Namespaces, Awaits(ns), Head(queue).ns # ns
    PROVE  Awaits(ns)'
<1>1. queue \in Seq(Signals) /\ queue # <<>> /\ queue' = Tail(queue) /\ thread' = thread
  BY DEF TypeOK, Deliver
<1>2. CASE \E t \in Threads : thread[t] # Idle /\ thread[t].ns = ns
  BY <1>1, <1>2 DEF Awaits
<1>3. CASE \E i \in DOMAIN queue : queue[i].ns = ns
  <2>1. PICK i \in DOMAIN queue : queue[i].ns = ns
    BY <1>3
  <2>2. i # 1 /\ i \in 1 .. Len(queue)
    BY <1>1, <2>1
  <2>3. i - 1 \in DOMAIN Tail(queue) /\ Tail(queue)[i - 1] = queue[i]
    BY <1>1, <2>2
  <2>4. QED
    BY <1>1, <2>1, <2>3 DEF Awaits
<1>4. QED
  BY <1>2, <1>3 DEF Awaits

\* A fetching thread's step passes the answer on as long as a page is open.
LEMMA FetchKeepsAnswers ==
    ASSUME TypeOK, NEW t \in Threads, Fetch(t), page # NoPage,
           NEW ns \in Namespaces, Awaits(ns)
    PROVE  Awaits(ns)'
<1>1. thread \in [Threads -> Jobs] /\ queue \in Seq(Signals) /\ thread[t] \in Jobs
  BY DEF TypeOK
<1>2. CASE Answered(t) \/ Failed(t)
  <2>1. queue' = queue /\ thread' \in [Threads -> Jobs] /\ \A u \in Threads \ {t} : thread'[u] = thread[u]
    BY <1>1, <1>2, FetchType DEF Answered, Failed, TypeOK
  <2>2. thread'[t].ns = thread[t].ns /\ thread'[t].state = "done"
    BY <1>1, <1>2 DEF Answered, Failed
  <2>3. thread'[t] # Idle
    BY <2>2 DEF Idle
  <2>4. QED
    BY <2>1, <2>2, <2>3 DEF Awaits
<1>3. CASE EmitPodsFetched(t)
  <2> DEFINE signal == [ns |-> thread[t].ns, list |-> thread[t].list, failed |-> thread[t].failed]
  <2>1. queue' = Append(queue, signal) /\ \A u \in Threads \ {t} : thread'[u] = thread[u]
    BY <1>1, <1>3 DEF EmitPodsFetched
  <2>2. /\ signal.ns = thread[t].ns
        /\ \A i \in 1 .. Len(queue) : queue'[i] = queue[i]
        /\ queue'[Len(queue) + 1] = signal
        /\ DOMAIN queue' = 1 .. Len(queue) + 1
    <3>1. signal \in Signals
      BY <1>1, <1>3, JobLemma DEF EmitPodsFetched, Done, Signals
    <3>2. signal.ns = thread[t].ns
      OBVIOUS
    <3> HIDE DEF signal
    <3>3. QED
      BY <1>1, <2>1, <3>1, <3>2
  <2> HIDE DEF signal
  <2>3. CASE \E u \in Threads \ {t} : thread[u] # Idle /\ thread[u].ns = ns
    BY <2>1, <2>3 DEF Awaits
  <2>4. CASE thread[t].ns = ns
    <3>1. Len(queue) + 1 \in DOMAIN queue'
      BY <1>1, <2>2
    <3>2. QED
      BY <2>2, <2>4, <3>1 DEF Awaits
  <2>5. CASE \E i \in DOMAIN queue : queue[i].ns = ns
    <3>1. PICK i \in 1 .. Len(queue) : queue[i].ns = ns
      BY <1>1, <2>5
    <3>2. i \in DOMAIN queue' /\ queue'[i] = queue[i]
      BY <1>1, <2>2, <3>1
    <3>3. QED
      BY <3>1, <3>2 DEF Awaits
  <2>6. QED
    BY <2>3, <2>4, <2>5 DEF Awaits
<1>4. QED
  BY <1>2, <1>3 DEF Fetch

\* No page waits for an answer that is not coming.
THEOREM AnswersCome == Spec => []PageHearsItsFetch
<1> DEFINE Hears == page # NoPage /\ ~page.loaded => Awaits(page.ns)
<1>1. Init => Hears
  BY DEF Init
<1>2. TypeOK /\ Hears /\ [Next]_vars => Hears'
  <2> SUFFICES ASSUME TypeOK, Hears, [Next]_vars, page' # NoPage, ~page'.loaded
               PROVE  Awaits(page.ns)'
    OBVIOUS
  <2>1. CASE ClosePage
    BY <2>1 DEF ClosePage
  <2>2. CASE \E ns \in Namespaces : OpenNamespace(ns)
    <3>1. PICK ns \in Namespaces : OpenNamespace(ns)
      BY <2>2
    <3>2. PICK t \in Threads :
             /\ page'.ns = ns
             /\ thread' = [thread EXCEPT ![t] = [state |-> "calling", ns |-> ns]]
      BY <3>1 DEF OpenNamespace
    <3>3. thread'[t].ns = ns /\ thread'[t].state = "calling"
      BY <3>2 DEF TypeOK
    <3>4. QED
      BY <3>2, <3>3 DEF Awaits, Idle
  <2>3. CASE Deliver
    <3>1. page \in Pages /\ page # NoPage
      BY <2>3, PageAssumption DEF Deliver, TypeOK
    <3>2. Head(queue).ns # page.ns /\ page' = page
      BY <2>3, <3>1 DEF Deliver, Pages
    <3>3. Awaits(page.ns) /\ page.ns \in Namespaces
      BY <3>1, <3>2 DEF Pages
    <3>4. QED
      BY <2>3, <3>2, <3>3, DeliverKeepsOthers DEF Awaits
  <2>4. CASE KubePollMarked \/ UNCHANGED vars
    BY <2>4 DEF KubePollMarked, vars, Awaits
  <2>5. CASE \E t \in Threads : Fetch(t)
    <3>1. PICK t \in Threads : Fetch(t)
      BY <2>5
    <3>2. page' = page /\ page # NoPage
      BY <3>1 DEF Fetch, Answered, Failed, EmitPodsFetched
    <3>3. Awaits(page.ns) /\ page.ns \in Namespaces
      BY <3>2 DEF TypeOK, Pages
    <3>4. QED
      BY <3>1, <3>2, <3>3, FetchKeepsAnswers DEF Awaits
  <2>6. QED
    BY <2>1, <2>2, <2>3, <2>4, <2>5 DEF Next, User
<1>3. Hears => PageHearsItsFetch
  BY DEF Awaits, PageHearsItsFetch, ShowsLoading, Busy
<1>4. QED
  BY <1>1, <1>2, <1>3, TypeCorrect, PTL DEF Spec
=============================================================================
