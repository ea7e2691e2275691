-------------------------------- MODULE Logs --------------------------------
(***************************************************************************)
(* The logs of a container: the row that asks for them (PodDetail.qml),    *)
(* the page that waits (Logs.qml), the thread that every call of           *)
(* bridge.fetchLogs starts, and the one log stream of the bridge that all  *)
(* of them share (qt/bridge.py, logstream.py).                             *)
(*                                                                         *)
(* As in Pods.tla, logsFetched is queued for the GUI thread and only for   *)
(* the page that is connected when it is emitted.  Here the fetch starts   *)
(* BEFORE the page exists, and the signal carries no lines: the page reads *)
(* the stream.                                                             *)
(*                                                                         *)
(* One fetch brings log_tail_lines lines at most, all of one container;    *)
(* they enter and leave the ring together here, as one element.            *)
(***************************************************************************)
EXTENDS Ring, FiniteSets

CONSTANTS
    Containers,
    Threads,    \* bound: fetches that run at the same time
    RingSize,   \* log_ring_size / log_tail_lines (2000 / 200, config.py:38-39)
    NoPage      \* the screen shows something else

\* `fetch` and `answered` are a record of which thread is the page's own, and of
\* whether that one has signalled lines; the signal itself does not say.
Pages == [container : Containers,
          fetch     : Threads,
          connected : BOOLEAN,
          loaded    : BOOLEAN,
          lines     : Seq(Containers),
          answered  : BOOLEAN]

Signals == [container : Containers, by : Threads, answered : BOOLEAN]

Idle == [state |-> "idle"]
Jobs == {Idle} \cup [state : {"calling"}, container : Containers]
              \cup [state : {"done"}, container : Containers, answered : BOOLEAN]

ASSUME RingAssumption  == RingSize \in Nat \ {0}
ASSUME PageAssumption  == NoPage \notin Pages
ASSUME ThreadAssumption == IsFiniteSet(Threads)

VARIABLES
    page,     \* the Logs page, if it is open or coming up
    thread,   \* the fetching threads
    stream,   \* _log_stream: whose lines it holds, oldest first
    queue     \* the logsFetched signals on their way to the page

vars == <<page, thread, stream, queue>>

Init ==
    /\ page = NoPage
    /\ thread = [t \in Threads |-> Idle]
    /\ stream = <<>>
    /\ queue = <<>>

-----------------------------------------------------------------------------
(* The GUI thread.  The threads may run between any two of these.  The user  *)
(* can do nothing before the page is complete.                               *)

\* A tap on a container's row: fetchLogs, then pushView, which makes the page.
TapContainer(c) ==
    /\ page = NoPage
    /\ \E t \in Threads :
          /\ thread[t] = Idle
          /\ page' = [container |-> c, fetch |-> t, connected |-> FALSE, loaded |-> FALSE,
                      lines |-> <<>>, answered |-> FALSE]
          /\ thread' = [thread EXCEPT ![t] = [state |-> "calling", container |-> c]]
    /\ UNCHANGED <<stream, queue>>

\* Component.onCompleted: read the stream, connect.  What is read is not shown
\* before the page is loaded, and read again then.
Connect ==
    /\ page # NoPage /\ ~page.connected
    /\ page' = [page EXCEPT !.lines = stream, !.connected = TRUE]
    /\ UNCHANGED <<thread, stream, queue>>

ClosePage ==
    /\ page # NoPage /\ page.connected
    /\ page' = NoPage /\ queue' = <<>>
    /\ UNCHANGED <<thread, stream>>

\* The page's own fetch brought lines.
Brings(signal) == signal.answered /\ signal.by = page.fetch

\* Slip: the page is loaded and shows what it read at first.
DeliverWithoutRefresh ==
    /\ queue # <<>>
    /\ page' = IF Head(queue).container = page.container
               THEN [page EXCEPT !.loaded = TRUE, !.answered = @ \/ Brings(Head(queue))]
               ELSE page
    /\ queue' = Tail(queue)
    /\ UNCHANGED <<thread, stream>>

\* onLogsFetched: a signal for another container is not for this page.
Deliver ==
    /\ queue # <<>>
    /\ page' = IF Head(queue).container = page.container
               THEN [page EXCEPT !.loaded = TRUE, !.lines = stream,
                                 !.answered = @ \/ Brings(Head(queue))]
               ELSE page
    /\ queue' = Tail(queue)
    /\ UNCHANGED <<thread, stream>>

-----------------------------------------------------------------------------
(* A fetching thread *)

\* The API answers, and append_lines puts what it says into the ring: lines, or
\* none if the container wrote none.
Answered(t, lines) ==
    /\ thread[t].state = "calling"
    /\ stream' = Extend(stream, lines, RingSize)
    /\ thread' = [thread EXCEPT ![t] = [state |-> "done", container |-> @.container,
                                        answered |-> lines # <<>>]]
    /\ UNCHANGED <<page, queue>>

\* Slip: a failure ends the thread.
FailedSilently(t) ==
    /\ thread[t].state = "calling"
    /\ thread' = [thread EXCEPT ![t] = Idle]
    /\ UNCHANGED <<page, stream, queue>>

Failed(t) ==
    /\ thread[t].state = "calling"
    /\ thread' = [thread EXCEPT ![t] = [state |-> "done", container |-> @.container,
                                        answered |-> FALSE]]
    /\ UNCHANGED <<page, stream, queue>>

EmitLogsFetched(t) ==
    /\ thread[t].state = "done"
    /\ thread' = [thread EXCEPT ![t] = Idle]
    /\ queue' = IF page # NoPage /\ page.connected
                THEN Append(queue, [container |-> thread[t].container, by |-> t,
                                    answered  |-> thread[t].answered])
                ELSE queue
    /\ UNCHANGED <<page, stream>>

Fetch(t) ==
    \/ thread[t] # Idle /\ \E lines \in {<<>>, <<thread[t].container>>} : Answered(t, lines)
    \/ Failed(t)
    \/ EmitLogsFetched(t)

User == ClosePage \/ \E c \in Containers : TapContainer(c)

Next == User \/ Connect \/ Deliver \/ \E t \in Threads : Fetch(t)

\* Every call ends within its timeout, every thread gets its turn, and the event
\* loop delivers.
Fairness == WF_vars(Connect) /\ WF_vars(Deliver) /\ \A t \in Threads : WF_vars(Fetch(t))

Spec == Init /\ [][Next]_vars /\ Fairness

-----------------------------------------------------------------------------

Contains(lines, c) == \E i \in DOMAIN lines : lines[i] = c

Busy == {t \in Threads : thread[t] # Idle}

\* The page's own fetch runs, or its signal is under way.
Pending ==
    \/ \E t \in Busy : thread[t].container = page.container
    \/ \E i \in DOMAIN queue : queue[i].container = page.container

\* Every variable stays in its domain, and only a connected page has signals under
\* way.
TypeOK ==
    /\ page \in Pages \cup {NoPage}
    /\ thread \in [Threads -> Jobs]
    /\ stream \in Seq(Containers) /\ Len(stream) <= RingSize
    /\ queue \in Seq(Signals)
    /\ queue # <<>> => page # NoPage /\ page.connected

\* A page whose own fetch has signalled lines shows them, whatever else is appended
\* between the append, the signal and its delivery, if the ring holds what all the
\* fetches under way can bring (bridge.py:321-324, Logs.qml:91-101).
OwnLinesAreShown ==
    page # NoPage /\ page.answered /\ Cardinality(Threads) <= RingSize
        => page.loaded /\ Contains(page.lines, page.container)

\* A page that is connected while its fetch is pending does not load for ever.
HeardFetchesLoad ==
    page # NoPage /\ page.connected /\ Pending ~> (page = NoPage \/ page.loaded)
=============================================================================
