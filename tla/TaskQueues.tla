----------------------------- MODULE TaskQueues -----------------------------
(***************************************************************************)
(* What util/workqueue.c promises its callers, without the linked lists:   *)
(* every queue is a sequence of tasks, a task waits in at most one queue,  *)
(* and the tasks contending for a nested queue's resource hold it one at a *)
(* time in the order they asked for it.                                    *)
(***************************************************************************)
EXTENDS Naturals, Sequences, Functions

CONSTANTS
    Task,   \* tasks, each with a node to be queued by
    Queue,  \* the main work queue and the nested ones
    Main,   \* the main work queue
    NULL

VARIABLES
    queues,     \* the tasks waiting in each queue, head first
    current     \* the task holding each nested queue's resource, or NULL

vars == <<queues, current>>

Nested == Queue \ {Main}

Queued(qs, t) == \E q \in Queue : t \in Range(qs[q])

\* Appends t to queue q unless there is no t or it waits somewhere already.
Enqueued(qs, q, t) ==
    IF t = NULL \/ Queued(qs, t) THEN qs ELSE [qs EXCEPT ![q] = Append(@, t)]

Init ==
    /\ queues = [q \in Queue |-> << >>]
    /\ current = [n \in Nested |-> NULL]

Enqueue(t) ==
    /\ queues' = Enqueued(queues, Main, t)
    /\ UNCHANGED current

\* The main loop takes the task at the head.
Dequeue ==
    /\ queues[Main] # << >>
    /\ queues' = [queues EXCEPT ![Main] = Tail(@)]
    /\ UNCHANGED current

\* The resource is free: t gets it and is scheduled.
Grant(n, t) ==
    /\ current[n] = NULL
    /\ current' = [current EXCEPT ![n] = t]
    /\ queues' = Enqueued(queues, Main, t)

\* The resource is taken: t waits its turn.
Wait(n, t) ==
    /\ current[n] # NULL
    /\ queues' = Enqueued(queues, n, t)
    /\ UNCHANGED current

\* The resource passes to the task that has waited longest.
PassOn(n) ==
    /\ queues[n] # << >>
    /\ queues' = [queues EXCEPT ![n] = Tail(@), ![Main] = Append(@, Head(queues[n]))]
    /\ current' = [current EXCEPT ![n] = Head(queues[n])]

\* Nobody waits: the resource becomes free.
Release(n) ==
    /\ queues[n] = << >>
    /\ current' = [current EXCEPT ![n] = NULL]
    /\ UNCHANGED queues

Next ==
    \/ \E t \in Task \cup {NULL} : Enqueue(t)
    \/ Dequeue
    \/ \E n \in Nested, t \in Task \cup {NULL} : Grant(n, t) \/ Wait(n, t)
    \/ \E n \in Nested : PassOn(n) \/ Release(n)

Spec == Init /\ [][Next]_vars
=============================================================================
