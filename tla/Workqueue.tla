----------------------------- MODULE Workqueue -----------------------------
(***************************************************************************)
(* util/workqueue.c and include/workqueue.h: the main work queue and the   *)
(* nested work queues, at the granularity their callers see.  Each         *)
(* function runs with interrupts disabled, so it is one action here;       *)
(* WorkqueueIrq opens the functions up.                                    *)
(*                                                                         *)
(* A task is the node embedded in it, a nested work queue n is the list    *)
(* n->wq.task_list.                                                        *)
(***************************************************************************)
EXTENDS SList

CONSTANT main_workqueue

ASSUME WorkqueueAssumption == main_workqueue \in List

Task == Node
Nested == List \ {main_workqueue}

VARIABLES
    heap,       \* the task lists
    current     \* nwq->current of every nested work queue

vars == <<heap, current>>

-----------------------------------------------------------------------------
(* The functions, on a heap.                                               *)

\* A task is queued when its next pointer leads anywhere, not by list membership.
workqueue_task_is_queued(h, t) == h.next[t] # NULL

workqueue_add_task(h, q, t) ==
    IF t = NULL THEN h
    ELSE IF workqueue_task_is_queued(h, t) THEN h
    ELSE slist_insert_tail(h, q, t)

\* Variant: the list is not tested for being empty.
workqueue_popped_Untested(h, q) == slist_peek_head_node(h, q)

\* The task workqueue_pop_task returns ...
workqueue_popped(h, q) ==
    IF slist_is_empty(h, q) THEN NULL ELSE slist_peek_head_node(h, q)

\* ... and the lists it leaves: the popped task is marked as not queued.
workqueue_pop_task(h, q) ==
    IF slist_is_empty(h, q) THEN h
    ELSE SetNext(slist_pop_head_node(h, q), slist_peek_head_node(h, q), NULL)

-----------------------------------------------------------------------------
(* The operations of the system's contexts: tasks, softirq handlers and    *)
(* interrupt handlers.                                                     *)

Init ==
    /\ heap = [next |-> [a \in Addr |-> IF a \in List THEN a ELSE NULL],
               last |-> [l \in List |-> l]]
    /\ current = [n \in Nested |-> NULL]

AddTask(t) ==
    /\ heap' = workqueue_add_task(heap, main_workqueue, t)
    /\ UNCHANGED current

\* The main loop found a task.
PopTask ==
    /\ ~ slist_is_empty(heap, main_workqueue)
    /\ heap' = workqueue_pop_task(heap, main_workqueue)
    /\ UNCHANGED current

\* Variant: the task waits without a look at current.
NestedAddTaskWait_Always(n, t) ==
    /\ heap' = workqueue_add_task(heap, n, t)
    /\ UNCHANGED current

\* nested_workqueue_add_task on a queue whose resource is taken ...
NestedAddTaskWait(n, t) ==
    /\ current[n] # NULL
    /\ heap' = workqueue_add_task(heap, n, t)
    /\ UNCHANGED current

\* ... or free.  t becomes current even when the main queue refuses it.
NestedAddTaskNow(n, t) ==
    /\ current[n] = NULL
    /\ current' = [current EXCEPT ![n] = t]
    /\ heap' = workqueue_add_task(heap, main_workqueue, t)

\* Variant: current stays the task that has finished.
NestedNextTask_KeepsCurrent(n) ==
    /\ heap' = workqueue_add_task(workqueue_pop_task(heap, n), main_workqueue,
                                  workqueue_popped(heap, n))
    /\ UNCHANGED current

NestedNextTask(n) ==
    LET task == workqueue_popped(heap, n)
    IN  /\ heap' = workqueue_add_task(workqueue_pop_task(heap, n), main_workqueue, task)
        /\ current' = [current EXCEPT ![n] = task]

Next ==
    \/ \E t \in Task \cup {NULL} : AddTask(t)
    \/ PopTask
    \/ \E n \in Nested, t \in Task \cup {NULL} :
            NestedAddTaskWait(n, t) \/ NestedAddTaskNow(n, t)
    \/ \E n \in Nested : NestedNextTask(n)

Spec == Init /\ [][Next]_vars

-----------------------------------------------------------------------------
(* Properties.                                                             *)

TypeOK ==
    /\ heap \in Heap
    /\ current \in [Nested -> Task \cup {NULL}]

\* The tasks of every queue, in order.
Contents == [l \in List |-> Items(heap, l)]

\* Every queue's links form a chain that ends at its own sentinel and at `last`,
\* and no task sits in two queues: the list code never ties lists together.
QueuesHold == \E q \in [List -> NodeSeqs] : Holds(heap, q)

\* In heap h, whose lists hold qs, the tasks with a next pointer are those in a list.
Linked(h, qs) ==
    \A t \in Task : workqueue_task_is_queued(h, t)
                        <=> \E l \in List : t \in Range(qs[l])

\* The next pointer that workqueue_add_task tests tells the truth: it is set
\* exactly while the task is in some queue, so no task is refused for ever and
\* none is linked twice.
QueuedIffListed == Linked(heap, Contents)

\* A nested queue with waiters has a current task, whose release will serve
\* them: nobody waits for a resource that nobody holds.
NoStrandedWaiter ==
    \A n \in Nested : current[n] = NULL => slist_is_empty(heap, n)

TQ == INSTANCE TaskQueues WITH
          Queue <- List, Main <- main_workqueue, queues <- Contents

\* The pointer operations are those of first-in-first-out queues of tasks.
ImplementsTaskQueues == TQ!Spec
=============================================================================
