-------------------------------- MODULE Pods --------------------------------
(***************************************************************************)
(* The pod list of a namespace: the page that asks for it and waits        *)
(* (qml/pages/NamespaceDetail.qml) and the thread that every call of       *)
(* bridge.fetchPods starts (qt/bridge.py).                                 *)
(*                                                                         *)
(* podsFetched is emitted in the fetching thread, so Qt queues it for the  *)
(* GUI thread, and only for the pages that are connected then.  A page     *)
(* that is gone by the time of delivery no longer reacts.  Answers of      *)
(* earlier pages may come late, in any order, and meet a page of another   *)
(* namespace.  _pods_cache is left out: nothing reads it.                  *)
(***************************************************************************)
EXTENDS Naturals, Sequences

CONSTANTS
    Namespaces,
    Threads,     \* bound: fetches that run at the same time
    NoPage       \* the screen shows something else

VARIABLES
    page,        \* the NamespaceDetail page, if it is open
    thread,      \* the fetching threads
    queue,       \* the podsFetched signals on their way to the page
    kubeError    \* bridge.errors["kube"] as QML sees it

vars == <<page, thread, queue, kubeError>>

\* What a list holds.  The except branch of _fetch_pods_thread answers with an
\* empty list as well; `failed` is what the page is not told.
Lists   == {"pods", "empty"}
Signals == [ns : Namespaces, list : Lists, failed : BOOLEAN]
Pages   == [ns : Namespaces, loaded : BOOLEAN, list : Lists,
            from : Namespaces, failed : BOOLEAN]
Idle    == [state |-> "idle"]
Jobs    == {Idle} \cup [state : {"calling"}, ns : Namespaces]
                 \cup [state : {"done"}, ns : Namespaces, list : Lists, failed : BOOLEAN]

ASSUME PageAssumption == NoPage \notin Pages

Init ==
    /\ page = NoPage
    /\ thread = [t \in Threads |-> Idle]
    /\ queue = <<>>
    /\ kubeError = FALSE

-----------------------------------------------------------------------------
(* The GUI thread *)

\* The page comes up, connects to podsFetched and then calls fetchPods.
OpenNamespace(ns) ==
    /\ page = NoPage
    /\ page' = [ns |-> ns, loaded |-> FALSE, list |-> "empty", from |-> ns, failed |-> FALSE]
    /\ \E t \in Threads :
          /\ thread[t] = Idle
          /\ thread' = [thread EXCEPT ![t] = [state |-> "calling", ns |-> ns]]
    /\ UNCHANGED <<queue, kubeError>>

\* Slip: the page's connection outlives it.
ClosePageConnected ==
    /\ page # NoPage
    /\ page' = NoPage
    /\ UNCHANGED <<thread, queue, kubeError>>

\* Back, a row, a dot, the idle reset or a takeover: the page is destroyed.
ClosePage ==
    /\ page # NoPage
    /\ page' = NoPage /\ queue' = <<>>
    /\ UNCHANGED <<thread, kubeError>>

\* Slip: the page takes any answer for its own.
DeliverAnything ==
    /\ queue # <<>>
    /\ page' = [page EXCEPT !.loaded = TRUE, !.list = Head(queue).list,
                            !.from = Head(queue).ns, !.failed = Head(queue).failed]
    /\ queue' = Tail(queue)
    /\ UNCHANGED <<thread, kubeError>>

\* onPodsFetched: an answer for another namespace is not for this page.
Deliver ==
    /\ queue # <<>>
    /\ page' = IF Head(queue).ns = page.ns
               THEN [page EXCEPT !.loaded = TRUE, !.list = Head(queue).list,
                                 !.from = Head(queue).ns, !.failed = Head(queue).failed]
               ELSE page
    /\ queue' = Tail(queue)
    /\ UNCHANGED <<thread, kubeError>>

\* The collector's event poll starts or ceases to fail.
KubePollMarked ==
    /\ kubeError' \in BOOLEAN
    /\ UNCHANGED <<page, thread, queue>>

-----------------------------------------------------------------------------
(* A fetching thread *)

\* The list is what the API holds at this moment.
Answered(t) ==
    /\ thread[t].state = "calling"
    /\ \E list \in Lists :
          thread' = [thread EXCEPT ![t] = [state |-> "done", ns |-> thread[t].ns,
                                           list |-> list, failed |-> FALSE]]
    /\ UNCHANGED <<page, queue, kubeError>>

\* Slip: a failure ends the thread.
FailedSilently(t) ==
    /\ thread[t].state = "calling"
    /\ thread' = [thread EXCEPT ![t] = Idle]
    /\ UNCHANGED <<page, queue, kubeError>>

Failed(t) ==
    /\ thread[t].state = "calling"
    /\ thread' = [thread EXCEPT ![t] = [state |-> "done", ns |-> thread[t].ns,
                                        list |-> "empty", failed |-> TRUE]]
    /\ UNCHANGED <<page, queue, kubeError>>

EmitPodsFetched(t) ==
    /\ thread[t].state = "done"
    /\ thread' = [thread EXCEPT ![t] = Idle]
    /\ queue' = IF page = NoPage THEN queue
                ELSE Append(queue, [ns |-> thread[t].ns, list |-> thread[t].list,
                                    failed |-> thread[t].failed])
    /\ UNCHANGED <<page, kubeError>>

Fetch(t) == Answered(t) \/ Failed(t) \/ EmitPodsFetched(t)

User == ClosePage \/ \E ns \in Namespaces : OpenNamespace(ns)

Next == User \/ Deliver \/ KubePollMarked \/ \E t \in Threads : Fetch(t)

\* Every call ends within its timeout, every thread gets its turn, and the event
\* loop delivers.
Fairness == WF_vars(Deliver) /\ \A t \in Threads : WF_vars(Fetch(t))

Spec == Init /\ [][Next]_vars /\ Fairness

-----------------------------------------------------------------------------
(* What the page shows: one of four *)

ShowsLoading == ~page.loaded
ShowsError   == page.loaded /\ page.list = "empty" /\ kubeError
ShowsNoPods  == page.loaded /\ page.list = "empty" /\ ~kubeError

-----------------------------------------------------------------------------

Busy == {t \in Threads : thread[t] # Idle}

\* Every variable stays in its domain, and without a page no signal is under way.
TypeOK ==
    /\ page \in Pages \cup {NoPage}
    /\ thread \in [Threads -> Jobs]
    /\ queue \in Seq(Signals)
    /\ page = NoPage => queue = <<>>
    /\ kubeError \in BOOLEAN

\* The pods on the page are those of the page's namespace, however late and in
\* whatever order the answers to earlier pages come in (NamespaceDetail.qml:64-69).
ListIsOfThisNamespace == page # NoPage /\ page.loaded => page.from = page.ns

\* A page that is loading has an answer coming: its own fetch runs, or its signal
\* is under way (it connects before it fetches, NamespaceDetail.qml:71-74).
PageHearsItsFetch ==
    page # NoPage /\ ShowsLoading
        => \/ \E t \in Busy : thread[t].ns = page.ns
           \/ \E i \in DOMAIN queue : queue[i].ns = page.ns

\* No page says "loading" for ever.
EveryPageLoads == page # NoPage /\ ShowsLoading ~> (page = NoPage \/ ~ShowsLoading)

\* "An empty namespace and a FAILED fetch must never look the same"
\* (NamespaceDetail.qml:12-13).  They do: the page looks at the error of the
\* collector's event poll, which says nothing of this fetch.
FailureLooksDifferent == page # NoPage /\ ShowsNoPods => ~page.failed
=============================================================================
