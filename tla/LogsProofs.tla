----------------------------- MODULE LogsProofs -----------------------------
(***************************************************************************)
(* Proofs about Logs.tla, for any number of containers and of fetches that *)
(* run at the same time, and any ring.                                     *)
(***************************************************************************)
EXTENDS Logs, FiniteSetTheorems, TLAPS

Calling == [state : {"calling"}, container : Containers]
Done    == [state : {"done"}, container : Containers, answered : BOOLEAN]

\* A thread's state tells what its record holds.
LEMMA JobLemma ==
    ASSUME NEW job \in Jobs
    PROVE  /\ job.state = "calling" => job \in Calling
           /\ job.state = "done" => job \in Done
           /\ job # Idle => job.state \in {"calling", "done"} /\ job.container \in Containers
<1>1. job = Idle \/ job \in Calling \/ job \in Done
  BY DEF Jobs, Calling, Done
<1>2. CASE job = Idle
  BY <1>2 DEF Idle
<1>3. CASE job \in Calling
  BY <1>3 DEF Calling
<1>4. CASE job \in Done
  BY <1>4 DEF Done
<1>5. QED
  BY <1>1, <1>2, <1>3, <1>4

\* The ring takes a line: it is the last one, and those that stay move by at most
\* one place.
LEMMA ExtendLemma ==
    ASSUME NEW buf \in Seq(Containers), Len(buf) <= RingSize, NEW c \in Containers
    PROVE  LET new == Extend(buf, <<c>>, RingSize)
           IN  /\ new \in Seq(Containers) /\ Len(new) \in 1 .. RingSize
               /\ new[Len(new)] = c
               /\ \A i \in 1 .. Len(buf) :
                     Len(buf) - i < RingSize - 1 =>
                        /\ i + Len(new) - Len(buf) - 1 \in 1 .. Len(new)
                        /\ new[i + Len(new) - Len(buf) - 1] = buf[i]
<1> DEFINE all == buf \o <<c>>
           new == Extend(buf, <<c>>, RingSize)
<1>1. /\ all \in Seq(Containers) /\ Len(all) = Len(buf) + 1
      /\ all[Len(buf) + 1] = c
      /\ \A i \in 1 .. Len(buf) : all[i] = buf[i]
  OBVIOUS
<1>2. new = IF Len(all) <= RingSize THEN all
            ELSE SubSeq(all, Len(all) - RingSize + 1, Len(all))
  BY DEF Extend, Latest
<1> DEFINE Kept == /\ new \in Seq(Containers) /\ Len(new) \in 1 .. RingSize
                   /\ new[Len(new)] = c
                   /\ \A i \in 1 .. Len(buf) :
                         Len(buf) - i < RingSize - 1 =>
                            /\ i + Len(new) - Len(buf) - 1 \in 1 .. Len(new)
                            /\ new[i + Len(new) - Len(buf) - 1] = buf[i]
<1> HIDE DEF all, new
<1>3. ASSUME Len(all) <= RingSize
      PROVE  Kept
  BY <1>1, <1>2, <1>3, RingAssumption
<1>4. ASSUME Len(all) > RingSize
      PROVE  Kept
  <2>1. Len(buf) = RingSize /\ Len(all) = RingSize + 1
    BY <1>1, <1>4, RingAssumption
  <2>2. new = SubSeq(all, 2, RingSize + 1)
    BY <1>2, <2>1, RingAssumption
  <2>3. /\ new \in Seq(Containers) /\ Len(new) = RingSize
        /\ \A i \in 1 .. RingSize : new[i] = all[i + 1]
    BY <1>1, <2>1, <2>2, RingAssumption
  <2>4. new[Len(new)] = c
    BY <1>1, <2>1, <2>3, RingAssumption
  <2>5. ASSUME NEW i \in 1 .. Len(buf), Len(buf) - i < RingSize - 1
        PROVE  i + Len(new) - Len(buf) - 1 \in 1 .. Len(new) /\ new[i + Len(new) - Len(buf) - 1] = buf[i]
    <3>1. i - 1 \in 1 .. RingSize /\ i + Len(new) - Len(buf) - 1 = i - 1
      BY <2>1, <2>3, <2>5, RingAssumption
    <3>2. new[i - 1] = all[i]
      BY <2>3, <3>1
    <3>3. QED
      BY <1>1, <2>3, <3>1, <3>2
  <2>6. QED
    BY <2>3, <2>4, <2>5, RingAssumption
<1>5. Kept
  BY <1>1, <1>3, <1>4, RingAssumption
<1>6. QED
  BY <1>5 DEF new

-----------------------------------------------------------------------------
(* Types *)

LEMMA InitType == Init => TypeOK
<1> SUFFICES ASSUME Init PROVE TypeOK
  OBVIOUS
<1>1. Idle \in Jobs
  BY DEF Jobs
<1>2. thread \in [Threads -> Jobs]
  BY <1>1 DEF Init
<1>3. queue \in Seq(Signals) /\ stream \in Seq(Containers) /\ Len(stream) = 0 /\ queue = <<>>
  BY DEF Init
<1>4. QED
  BY <1>2, <1>3, RingAssumption DEF Init, TypeOK

LEMMA TapType ==
    ASSUME TypeOK, NEW c \in Containers, TapContainer(c)
    PROVE  TypeOK'
<1>1. PICK t \in Threads :
         /\ page' = [container |-> c, fetch |-> t, connected |-> FALSE, loaded |-> FALSE,
                     lines |-> <<>>, answered |-> FALSE]
         /\ thread' = [thread EXCEPT ![t] = [state |-> "calling", container |-> c]]
  BY DEF TapContainer
<1>2. <<>> \in Seq(Containers)
  OBVIOUS
<1>3. page' \in Pages
  BY <1>1, <1>2 DEF Pages
<1>4. [state |-> "calling", container |-> c] \in Jobs
  BY DEF Jobs
<1>5. thread' \in [Threads -> Jobs]
  BY <1>1, <1>4 DEF TypeOK
<1>6. queue = <<>>
  BY DEF TapContainer, TypeOK
<1>7. QED
  BY <1>3, <1>5, <1>6 DEF TapContainer, TypeOK

LEMMA ConnectType ==
    ASSUME TypeOK, Connect
    PROVE  TypeOK'
<1>1. page \in Pages /\ stream \in Seq(Containers)
  BY DEF TypeOK, Connect
<1>2. page' \in Pages /\ page'.connected
  BY <1>1 DEF Connect, Pages
<1>3. QED
  BY <1>2, PageAssumption DEF Connect, TypeOK

LEMMA DeliverType ==
    ASSUME TypeOK, Deliver
    PROVE  TypeOK'
<1>1. page \in Pages /\ page.connected /\ queue \in Seq(Signals) /\ queue # <<>>
  BY DEF TypeOK, Deliver
<1>2. Head(queue) \in Signals /\ Tail(queue) \in Seq(Signals)
  BY <1>1
<1>3. Brings(Head(queue)) \in BOOLEAN
  BY <1>2 DEF Brings, Signals
<1>4. stream \in Seq(Containers)
  BY DEF TypeOK
<1>5. page' \in Pages /\ page'.connected
  <2>1. CASE Head(queue).container = page.container
    <3>1. page' = [page EXCEPT !.loaded = TRUE, !.lines = stream,
                               !.answered = page.answered \/ Brings(Head(queue))]
      BY <2>1 DEF Deliver
    <3>2. (page.answered \/ Brings(Head(queue))) \in BOOLEAN
      OBVIOUS
    <3>3. QED
      BY <1>1, <1>4, <3>1, <3>2 DEF Pages
  <2>2. CASE Head(queue).container # page.container
    BY <1>1, <2>2 DEF Deliver
  <2>3. QED
    BY <2>1, <2>2
<1>6. QED
  BY <1>2, <1>5, PageAssumption DEF Deliver, TypeOK

LEMMA FetchType ==
    ASSUME TypeOK, NEW t \in Threads, Fetch(t)
    PROVE  TypeOK'
<1> USE DEF TypeOK
<1>1. thread[t] \in Jobs
  OBVIOUS
<1>2. CASE thread[t] # Idle /\ \E lines \in {<<>>, <<thread[t].container>>} : Answered(t, lines)
  <2>1. PICK lines \in {<<>>, <<thread[t].container>>} : Answered(t, lines)
    BY <1>2
  <2>2. thread[t].container \in Containers
    BY <1>1, <1>2, JobLemma
  <2>3. thread' = [thread EXCEPT ![t] = [state |-> "done", container |-> thread[t].container,
                                         answered |-> lines # <<>>]]
    BY <2>1 DEF Answered
  <2>4. [state |-> "done", container |-> thread[t].container, answered |-> lines # <<>>] \in Jobs
    BY <2>2 DEF Jobs
  <2>5. thread' \in [Threads -> Jobs]
    BY <2>3, <2>4
  <2>6. stream' \in Seq(Containers) /\ Len(stream') <= RingSize
    <3>1. CASE lines = <<>>
      <4>1. stream \o <<>> = stream
        OBVIOUS
      <4>2. QED
        BY <2>1, <3>1, <4>1 DEF Answered, Extend, Latest
    <3>2. CASE lines = <<thread[t].container>>
      BY <2>1, <2>2, <3>2, ExtendLemma, RingAssumption DEF Answered
    <3>3. QED
      BY <3>1, <3>2
  <2>7. QED
    BY <2>1, <2>5, <2>6 DEF Answered
<1>3. CASE Failed(t)
  <2>1. thread[t].container \in Containers
    BY <1>1, <1>3, JobLemma DEF Failed, Calling
  <2>2. [state |-> "done", container |-> thread[t].container, answered |-> FALSE] \in Jobs
    BY <2>1 DEF Jobs
  <2>3. thread' \in [Threads -> Jobs]
    BY <1>3, <2>2 DEF Failed
  <2>4. QED
    BY <1>3, <2>3 DEF Failed
<1>4. CASE EmitLogsFetched(t)
  <2>1. thread[t] \in Done
    BY <1>1, <1>4, JobLemma DEF EmitLogsFetched
  <2>2. thread' \in [Threads -> Jobs]
    BY <1>4 DEF EmitLogsFetched, Jobs
  <2>3. [container |-> thread[t].container, by |-> t, answered |-> thread[t].answered] \in Signals
    BY <2>1 DEF Done, Signals
  <2>4. /\ queue' \in Seq(Signals)
        /\ queue' # <<>> => page # NoPage /\ page.connected
    BY <1>4, <2>3 DEF EmitLogsFetched
  <2>5. QED
    BY <1>4, <2>2, <2>4 DEF EmitLogsFetched
<1>5. QED
  BY <1>2, <1>3, <1>4 DEF Fetch

\* Every step keeps the types.
LEMMA NextType == TypeOK /\ [Next]_vars => TypeOK'
<1> SUFFICES ASSUME TypeOK, [Next]_vars PROVE TypeOK'
  OBVIOUS
<1>1. CASE ClosePage
  <2>1. queue' = <<>> /\ queue' \in Seq(Signals)
    BY <1>1 DEF ClosePage
  <2>2. QED
    BY <1>1, <2>1 DEF ClosePage, TypeOK
<1>2. CASE \E c \in Containers : TapContainer(c)
  BY <1>2, TapType
<1>3. CASE Connect
  BY <1>3, ConnectType
<1>4. CASE Deliver
  BY <1>4, DeliverType
<1>5. CASE \E t \in Threads : Fetch(t)
  BY <1>5, FetchType
<1>6. CASE UNCHANGED vars
  BY <1>6 DEF vars, TypeOK
<1>7. QED
  BY <1>1, <1>2, <1>3, <1>4, <1>5, <1>6 DEF Next, User

\* Every variable stays in its domain, and the ring in its limit.
THEOREM TypeCorrect == Spec => []TypeOK
BY InitType, NextType, PTL DEF Spec

-----------------------------------------------------------------------------
(* The page's own lines *)

\* The fetches that may have appended something since the page was opened: no other
\* can start before it is closed.
Later == {u \in Threads : u # page.fetch /\ thread[u].state # "calling"}

\* The page's own fetch has appended lines that it is told of, or will be.
Told ==
    \/ page.answered
    \/ thread[page.fetch].state = "done" /\ thread[page.fetch].answered
    \/ \E i \in DOMAIN queue : queue[i].by = page.fetch /\ queue[i].answered

\* They are in the ring, behind at most one batch of each later fetch.
Kept ==
    \E i \in 1 .. Len(stream) :
        stream[i] = page.container /\ Len(stream) - i <= Cardinality(Later)

OwnInv ==
    page # NoPage =>
        /\ thread[page.fetch] # Idle => thread[page.fetch].container = page.container
        /\ \A i \in DOMAIN queue :
              queue[i].by = page.fetch => queue[i].container = page.container
        /\ Told => Kept
        /\ page.answered => page.loaded /\ Contains(page.lines, page.container)

\* A set of threads is finite, and smaller than all of them if one is missing.
LEMMA SubsetLemma ==
    /\ Cardinality(Threads) \in Nat
    /\ \A S \in SUBSET Threads : IsFiniteSet(S) /\ Cardinality(S) \in Nat
    /\ \A t \in Threads : \A S \in SUBSET (Threads \ {t}) : Cardinality(S) < Cardinality(Threads)
<1>1. \A S \in SUBSET Threads : IsFiniteSet(S) /\ Cardinality(S) \in Nat
  BY ThreadAssumption, FS_Subset, FS_CardinalityType
<1>2. Cardinality(Threads) \in Nat
  BY <1>1
<1>3. ASSUME NEW t \in Threads, NEW S \in SUBSET (Threads \ {t})
      PROVE  Cardinality(S) < Cardinality(Threads)
  <2>1. IsFiniteSet(Threads \ {t}) /\ Cardinality(Threads \ {t}) = Cardinality(Threads) - 1
    BY ThreadAssumption, FS_RemoveElement
  <2>2. Cardinality(S) <= Cardinality(Threads \ {t})
    BY <2>1, FS_Subset
  <2>3. Cardinality(S) \in Nat
    BY <1>1
  <2>4. QED
    BY <1>2, <2>1, <2>2, <2>3
<1>4. QED
  BY <1>1, <1>2, <1>3

\* A tap finds no signal under way, and the fetch it starts has told nothing.
LEMMA TapOwn ==
    ASSUME TypeOK, NEW c \in Containers, TapContainer(c)
    PROVE  OwnInv'
<1>1. PICK t \in Threads :
         /\ page' = [container |-> c, fetch |-> t, connected |-> FALSE, loaded |-> FALSE,
                     lines |-> <<>>, answered |-> FALSE]
         /\ thread' = [thread EXCEPT ![t] = [state |-> "calling", container |-> c]]
  BY DEF TapContainer
<1>2. thread'[t] = [state |-> "calling", container |-> c]
  BY <1>1 DEF TypeOK
<1>3. page'.fetch = t /\ page'.container = c /\ ~page'.answered
  BY <1>1
<1>4. queue' = <<>>
  BY DEF TapContainer, TypeOK
<1>5. DOMAIN queue' = {}
  BY <1>4
<1>6. ~Told'
  BY <1>2, <1>3, <1>5 DEF Told
<1>7. QED
  BY <1>2, <1>3, <1>5, <1>6 DEF OwnInv

\* The page reads the stream: what is kept in it is read.
LEMMA ConnectOwn ==
    ASSUME TypeOK, OwnInv, Connect
    PROVE  OwnInv'
<1>1. page \in Pages /\ page # NoPage /\ UNCHANGED <<thread, stream, queue>>
  BY DEF TypeOK, Connect
<1>2. /\ page'.fetch = page.fetch /\ page'.container = page.container
      /\ page'.answered = page.answered /\ page'.loaded = page.loaded
      /\ page'.lines = stream
  BY <1>1 DEF Connect, Pages
<1>3. Later' = Later /\ (Told' <=> Told) /\ (Kept' <=> Kept)
  BY <1>1, <1>2 DEF Later, Told, Kept
<1>4. stream \in Seq(Containers)
  BY DEF TypeOK
<1>5. Kept => Contains(stream, page.container)
  BY <1>4 DEF Kept, Contains
<1>6. page.answered => Told
  BY DEF Told
<1>7. QED
  BY <1>1, <1>2, <1>3, <1>5, <1>6 DEF OwnInv

\* A signal of the own fetch is taken for the page's, and its lines are read.
LEMMA DeliverOwn ==
    ASSUME TypeOK, OwnInv, Deliver
    PROVE  OwnInv'
<1>1. /\ page \in Pages /\ page # NoPage /\ UNCHANGED <<thread, stream>>
      /\ queue \in Seq(Signals) /\ queue # <<>> /\ queue' = Tail(queue)
  BY PageAssumption DEF TypeOK, Deliver
<1>2. /\ 1 \in DOMAIN queue /\ Head(queue) = queue[1] /\ Head(queue) \in Signals
      /\ \A i \in DOMAIN queue' : i + 1 \in DOMAIN queue /\ queue'[i] = queue[i + 1]
  BY <1>1
<1>3. Brings(Head(queue)) => Told /\ Head(queue).container = page.container
  BY <1>1, <1>2 DEF Brings, Told, OwnInv
<1>4. stream \in Seq(Containers)
  BY DEF TypeOK
<1>5. Kept => Contains(stream, page.container)
  BY <1>4 DEF Kept, Contains
<1>6. page.answered => Told
  BY DEF Told
<1>7. CASE Head(queue).container = page.container
  <2>1. page' = [page EXCEPT !.loaded = TRUE, !.lines = stream,
                             !.answered = page.answered \/ Brings(Head(queue))]
    BY <1>7 DEF Deliver
  <2>2. /\ page'.fetch = page.fetch /\ page'.container = page.container
        /\ page'.loaded /\ page'.lines = stream
        /\ page'.answered <=> page.answered \/ Brings(Head(queue))
    BY <1>1, <2>1 DEF Pages
  <2>3. Later' = Later /\ (Kept' <=> Kept)
    BY <1>1, <2>2 DEF Later, Kept
  <2>4. Told' => Told
    BY <1>1, <1>2, <1>3, <2>2 DEF Told
  <2>5. page'.answered => Kept
    BY <1>1, <1>3, <1>6, <2>2 DEF OwnInv
  <2>6. QED
    BY <1>1, <1>2, <1>5, <2>2, <2>3, <2>4, <2>5 DEF OwnInv
<1>8. CASE Head(queue).container # page.container
  <2>1. page' = page
    BY <1>8 DEF Deliver
  <2>2. Later' = Later /\ (Kept' <=> Kept)
    BY <1>1, <2>1 DEF Later, Kept
  <2>3. Told' => Told
    BY <1>1, <1>2, <2>1 DEF Told
  <2>4. QED
    BY <1>1, <1>2, <2>1, <2>2, <2>3 DEF OwnInv
<1>9. QED
  BY <1>7, <1>8

\* The page's own fetch appends its line at the very end.
LEMMA OwnAnswer ==
    ASSUME TypeOK, OwnInv, page # NoPage, thread[page.fetch] # Idle,
           Answered(page.fetch, <<thread[page.fetch].container>>)
    PROVE  Kept'
<1>1. page.fetch \in Threads /\ page' = page
  BY DEF TypeOK, Pages, Answered
<1>2. thread[page.fetch].container = page.container /\ page.container \in Containers
  BY DEF OwnInv, TypeOK, Pages
<1>3. stream' = Extend(stream, <<page.container>>, RingSize)
  BY <1>2 DEF Answered
<1>4. stream \in Seq(Containers) /\ Len(stream) <= RingSize
  BY DEF TypeOK
<1>5. Len(stream') \in 1 .. RingSize /\ stream'[Len(stream')] = page.container
  BY <1>2, <1>3, <1>4, ExtendLemma
<1>6. Cardinality(Later') \in Nat
  BY SubsetLemma DEF Later
<1>7. QED
  BY <1>1, <1>5, <1>6, RingAssumption DEF Kept

\* Another fetch pushes the page's own line back by one place at most, and is a
\* later one from then on.
LEMMA OtherAnswer ==
    ASSUME TypeOK, Kept, page # NoPage, Cardinality(Threads) <= RingSize,
           NEW t \in Threads \ {page.fetch}, thread[t] # Idle,
           Answered(t, <<thread[t].container>>)
    PROVE  Kept'
<1>1. page' = page /\ thread[t] \in Jobs /\ thread[t].container \in Containers
  BY JobLemma DEF TypeOK, Answered
<1>2. stream \in Seq(Containers) /\ Len(stream) <= RingSize
  BY DEF TypeOK
<1>3. stream' = Extend(stream, <<thread[t].container>>, RingSize)
  BY DEF Answered
<1>4. PICK i \in 1 .. Len(stream) :
         stream[i] = page.container /\ Len(stream) - i <= Cardinality(Later)
  BY DEF Kept
<1>5. t \notin Later /\ Later' = Later \cup {t}
  <2>1. thread'[t].state = "done" /\ \A u \in Threads \ {t} : thread'[u] = thread[u]
    BY DEF TypeOK, Answered
  <2>2. QED
    BY <1>1, <2>1 DEF Later, Answered
<1>6. IsFiniteSet(Later) /\ Cardinality(Later) \in Nat
  BY SubsetLemma DEF Later
<1>7. Cardinality(Later') = Cardinality(Later) + 1
  BY <1>5, <1>6, FS_AddElement
<1>8. Cardinality(Later') < Cardinality(Threads) /\ Cardinality(Threads) \in Nat
  <2>1. Later' \subseteq Threads \ {page.fetch}
    BY <1>1 DEF Later
  <2>2. page.fetch \in Threads
    BY DEF TypeOK, Pages
  <2>3. QED
    BY <2>1, <2>2, SubsetLemma
<1>9. Len(stream) - i < RingSize - 1
  BY <1>2, <1>4, <1>6, <1>7, <1>8, RingAssumption
<1> DEFINE j == i + Len(stream') - Len(stream) - 1
<1>10. /\ j \in 1 .. Len(stream') /\ stream'[j] = stream[i] /\ Len(stream') \in Nat
  BY <1>1, <1>2, <1>3, <1>9, ExtendLemma
<1>11. Len(stream') - j <= Cardinality(Later')
  BY <1>2, <1>4, <1>6, <1>7, <1>10
<1>12. QED
  BY <1>1, <1>4, <1>10, <1>11 DEF Kept

\* A fetching thread's step keeps what the page is told of in the ring.
LEMMA FetchOwn ==
    ASSUME TypeOK, OwnInv, Cardinality(Threads) <= RingSize,
           NEW t \in Threads, Fetch(t)
    PROVE  OwnInv'
<1> SUFFICES ASSUME page' # NoPage PROVE OwnInv'
  BY DEF OwnInv
<1>0. page' = page /\ page # NoPage /\ page \in Pages /\ page.fetch \in Threads
  BY DEF Fetch, Answered, Failed, EmitLogsFetched, TypeOK, Pages
<1>1. thread[t] \in Jobs /\ thread \in [Threads -> Jobs] /\ queue \in Seq(Signals)
  BY DEF TypeOK
<1>2. CASE thread[t] # Idle /\ \E lines \in {<<>>, <<thread[t].container>>} : Answered(t, lines)
  <2>1. PICK lines \in {<<>>, <<thread[t].container>>} : Answered(t, lines)
    BY <1>2
  <2>2. /\ thread'[t].container = thread[t].container /\ thread'[t].state = "done"
        /\ thread'[t].answered <=> lines # <<>>
        /\ \A u \in Threads \ {t} : thread'[u] = thread[u]
        /\ queue' = queue
    BY <1>1, <2>1 DEF Answered
  <2>3. CASE t = page.fetch /\ lines # <<>>
    <3>1. Kept'
      BY <1>0, <1>2, <2>1, <2>3, OwnAnswer
    <3>2. QED
      BY <1>0, <1>2, <2>2, <2>3, <3>1 DEF OwnInv
  <2>4. CASE t # page.fetch \/ lines = <<>>
    <3>1. Told' => Told
      BY <1>0, <2>2, <2>4 DEF Told
    <3>2. Kept => Kept'
      <4>1. CASE lines = <<>>
        <5>1. stream \o <<>> = stream /\ Len(stream) <= RingSize
          BY DEF TypeOK
        <5>2. stream' = stream
          BY <2>1, <4>1, <5>1 DEF Answered, Extend, Latest
        <5>3. Later \subseteq Later' /\ Later' \subseteq Threads
          BY <1>0, <2>2 DEF Later
        <5>4. /\ Cardinality(Later) <= Cardinality(Later')
              /\ Cardinality(Later) \in Nat /\ Cardinality(Later') \in Nat
          BY <5>3, SubsetLemma, FS_Subset
        <5>5. Len(stream) \in Nat
          BY DEF TypeOK
        <5>6. QED
          BY <1>0, <5>2, <5>4, <5>5 DEF Kept
      <4>2. CASE lines # <<>>
        BY <1>0, <1>2, <2>1, <2>4, <4>2, OtherAnswer
      <4>3. QED
        BY <4>1, <4>2
    <3>3. thread'[page.fetch] # Idle => thread'[page.fetch].container = page.container
      BY <1>0, <1>2, <2>2 DEF OwnInv
    <3>4. QED
      BY <1>0, <2>2, <3>1, <3>2, <3>3 DEF OwnInv
  <2>5. QED
    BY <2>3, <2>4
<1>3. CASE Failed(t)
  <2>1. /\ thread'[t].container = thread[t].container /\ thread'[t].state = "done"
        /\ ~thread'[t].answered
        /\ \A u \in Threads \ {t} : thread'[u] = thread[u]
        /\ queue' = queue /\ stream' = stream
    BY <1>1, <1>3 DEF Failed
  <2>2. thread[t] # Idle
    BY <1>3 DEF Failed, Idle
  <2>3. Told' => Told
    BY <1>0, <2>1 DEF Told
  <2>4. Kept => Kept'
    <3>1. Later \subseteq Later' /\ Later' \subseteq Threads
      BY <1>0, <2>1 DEF Later
    <3>2. /\ Cardinality(Later) <= Cardinality(Later')
          /\ Cardinality(Later) \in Nat /\ Cardinality(Later') \in Nat
      BY <3>1, SubsetLemma, FS_Subset
    <3>3. Len(stream) \in Nat
      BY DEF TypeOK
    <3>4. QED
      BY <1>0, <2>1, <3>2, <3>3 DEF Kept
  <2>5. QED
    BY <1>0, <2>1, <2>2, <2>3, <2>4 DEF OwnInv
<1>4. CASE EmitLogsFetched(t)
  <2> DEFINE signal == [container |-> thread[t].container, by |-> t,
                        answered  |-> thread[t].answered]
  <2>1. /\ thread'[t] = Idle /\ stream' = stream
        /\ \A u \in Threads \ {t} : thread'[u] = thread[u]
    BY <1>1, <1>4 DEF EmitLogsFetched
  <2>2. thread[t].state = "done" /\ thread[t] # Idle
    BY <1>4 DEF EmitLogsFetched, Idle
  <2>3. Later' = Later
    BY <1>0, <2>1, <2>2 DEF Later, Idle
  <2>4. Kept' <=> Kept
    BY <1>0, <2>1, <2>3 DEF Kept
  <2>5. \A i \in DOMAIN queue' : (i \in DOMAIN queue /\ queue'[i] = queue[i]) \/ queue'[i] = signal
    BY <1>1, <1>4 DEF EmitLogsFetched
  <2>6. signal.by = t /\ signal.container = thread[t].container /\ signal.answered = thread[t].answered
    OBVIOUS
  <2> HIDE DEF signal
  <2>7. Told' => Told
    <3>1. thread'[t].state # "done"
      BY <2>1 DEF Idle
    <3>2. QED
      BY <1>0, <2>1, <2>2, <2>5, <2>6, <3>1 DEF Told
  <2>8. \A i \in DOMAIN queue' : queue'[i].by = page.fetch => queue'[i].container = page.container
    BY <1>0, <2>2, <2>5, <2>6 DEF OwnInv
  <2>9. thread'[page.fetch] # Idle => thread'[page.fetch].container = page.container
    BY <1>0, <2>1 DEF OwnInv
  <2>10. QED
    BY <1>0, <2>4, <2>7, <2>8, <2>9 DEF OwnInv
<1>5. QED
  BY <1>2, <1>3, <1>4 DEF Fetch

\* A page whose own fetch has signalled lines shows them.
THEOREM OwnLines == Spec => []OwnLinesAreShown
<1>1. CASE Cardinality(Threads) <= RingSize
  <2>1. Init => OwnInv
    BY DEF Init, OwnInv
  <2>2. TypeOK /\ OwnInv /\ [Next]_vars => OwnInv'
    <3> SUFFICES ASSUME TypeOK, OwnInv, [Next]_vars PROVE OwnInv'
      OBVIOUS
    <3>1. CASE ClosePage
      BY <3>1 DEF ClosePage, OwnInv
    <3>2. CASE \E c \in Containers : TapContainer(c)
      BY <3>2, TapOwn
    <3>3. CASE Connect
      BY <3>3, ConnectOwn
    <3>4. CASE Deliver
      BY <3>4, DeliverOwn
    <3>5. CASE \E t \in Threads : Fetch(t)
      BY <1>1, <3>5, FetchOwn
    <3>6. CASE UNCHANGED vars
      BY <3>6 DEF vars, OwnInv, Told, Kept, Later
    <3>7. QED
      BY <3>1, <3>2, <3>3, <3>4, <3>5, <3>6 DEF Next, User
  <2>3. OwnInv => OwnLinesAreShown
    BY DEF OwnInv, OwnLinesAreShown
  <2>4. QED
    BY <2>1, <2>2, <2>3, TypeCorrect, PTL DEF Spec
<1>2. CASE ~(Cardinality(Threads) <= RingSize)
  <2>1. OwnLinesAreShown
    BY <1>2 DEF OwnLinesAreShown
  <2>2. QED
    BY <2>1, PTL
<1>3. QED
  BY <1>1, <1>2
=============================================================================
