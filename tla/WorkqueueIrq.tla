---------------------------- MODULE WorkqueueIrq ----------------------------
(***************************************************************************)
(* The functions of util/workqueue.c store by store.  One context, the     *)
(* main loop and what it calls, executes them a step at a time; interrupt  *)
(* handlers call the same functions between any two steps at which         *)
(* interrupts are enabled.  The module shows that cpu_irq_save and         *)
(* cpu_irq_restore make every call the single action of Workqueue.         *)
(***************************************************************************)
EXTENDS SList

CONSTANT main_workqueue

ASSUME WorkqueueIrqAssumption == main_workqueue \in List

VARIABLES
    heap, current,  \* see Workqueue
    irq,            \* interrupts are enabled
    pc,             \* next step of the call in progress, or "idle"
    iflags,         \* the nested cpu_irq_save cookies, innermost first
    queue, task,    \* arguments of the call; task also holds the popped task
    nwq,            \* the nested queue of the call
    ret,            \* where workqueue_add_task or workqueue_pop_task returns to
    public          \* heap and current at the end of the last call (history)

shared == <<heap, current>>
frame == <<queue, task, nwq, ret>>
vars == <<heap, current, irq, pc, iflags, queue, task, nwq, ret, public>>

Atomic == INSTANCE Workqueue
Public == INSTANCE Workqueue WITH heap <- public[1], current <- public[2]

Task == Node
Nested == List \ {main_workqueue}

Init ==
    /\ Atomic!Init
    /\ irq \in BOOLEAN
    /\ pc = "idle"
    /\ iflags = << >>
    /\ queue = main_workqueue /\ task = NULL /\ nwq = main_workqueue /\ ret = "idle"
    /\ public = shared

Goto(step) == pc' = step /\ UNCHANGED public

\* The call ends here: what it did becomes visible.
Return == pc' = "idle" /\ public' = shared'

\* Variant: interrupts are not disabled.
cpu_irq_save_Enabled == iflags' = <<irq>> \o iflags /\ UNCHANGED irq

cpu_irq_save == iflags' = <<irq>> \o iflags /\ irq' = FALSE

\* Variant: interrupts are enabled, whatever they were.
cpu_irq_restore_Enables == irq' = TRUE /\ iflags' = Tail(iflags)

cpu_irq_restore == irq' = Head(iflags) /\ iflags' = Tail(iflags)

-----------------------------------------------------------------------------
(* Calls.  The arguments of a function are set when it is entered.         *)

CallAdd(q, t, r) == queue' = q /\ task' = t /\ ret' = r

AddTask(t) ==
    /\ pc = "idle"
    /\ CallAdd(main_workqueue, t, "idle")
    /\ UNCHANGED <<shared, irq, iflags, nwq>>
    /\ IF t = NULL THEN Return ELSE Goto("add_save")

NestedAddTask(n, t) ==
    /\ pc = "idle"
    /\ Goto("nadd_save")
    /\ nwq' = n /\ task' = t
    /\ UNCHANGED <<shared, irq, iflags, queue, ret>>

NestedNextTask(n) ==
    /\ pc = "idle"
    /\ Goto("next_save")
    /\ nwq' = n
    /\ UNCHANGED <<shared, irq, iflags, queue, task, ret>>

\* The main loop has disabled interrupts before it pops, and enables them after.
PopTask ==
    /\ pc = "idle"
    /\ ~ irq
    /\ ~ slist_is_empty(heap, main_workqueue)
    /\ Goto("pop_head")
    /\ queue' = main_workqueue /\ ret' = "idle"
    /\ UNCHANGED <<shared, irq, iflags, task, nwq>>

-----------------------------------------------------------------------------
(* workqueue_add_task                                                      *)

AddSave ==
    /\ pc = "add_save"
    /\ cpu_irq_save
    /\ Goto("add_test")
    /\ UNCHANGED <<shared, frame>>

AddTest ==
    /\ pc = "add_test"
    /\ Goto(IF Atomic!workqueue_task_is_queued(heap, task)
            THEN "add_restore" ELSE "insert_node")
    /\ UNCHANGED <<shared, irq, iflags, frame>>

InsertNode ==
    /\ pc = "insert_node"
    /\ heap' = SetNext(heap, task, queue)
    /\ Goto("insert_link")
    /\ UNCHANGED <<current, irq, iflags, frame>>

InsertLink ==
    /\ pc = "insert_link"
    /\ heap' = SetNext(heap, heap.last[queue], task)
    /\ Goto("insert_last")
    /\ UNCHANGED <<current, irq, iflags, frame>>

SetLast(h, l, a) == [next |-> h.next, last |-> [h.last EXCEPT ![l] = a]]

InsertLast ==
    /\ pc = "insert_last"
    /\ heap' = SetLast(heap, queue, task)
    /\ Goto("add_restore")
    /\ UNCHANGED <<current, irq, iflags, frame>>

AddRestore ==
    /\ pc = "add_restore"
    /\ cpu_irq_restore
    /\ UNCHANGED <<shared, frame>>
    /\ IF ret = "idle" THEN Return ELSE Goto(ret)

-----------------------------------------------------------------------------
(* nested_workqueue_add_task                                               *)

NestedAddSave ==
    /\ pc = "nadd_save"
    /\ cpu_irq_save
    /\ Goto("nadd_test")
    /\ UNCHANGED <<shared, frame>>

NestedAddTest ==
    /\ pc = "nadd_test"
    /\ IF current[nwq] # NULL
       THEN /\ Goto("add_save")
            /\ CallAdd(nwq, task, "nadd_restore")
       ELSE Goto("nadd_current") /\ UNCHANGED <<queue, task, ret>>
    /\ UNCHANGED <<shared, irq, iflags, nwq>>

NestedAddCurrent ==
    /\ pc = "nadd_current"
    /\ current' = [current EXCEPT ![nwq] = task]
    /\ Goto("add_save")
    /\ CallAdd(main_workqueue, task, "nadd_restore")
    /\ UNCHANGED <<heap, irq, iflags, nwq>>

NestedAddRestore ==
    /\ pc = "nadd_restore"
    /\ cpu_irq_restore
    /\ UNCHANGED <<shared, frame>>
    /\ Return

-----------------------------------------------------------------------------
(* nested_workqueue_next_task and workqueue_pop_task                       *)

NextSave ==
    /\ pc = "next_save"
    /\ cpu_irq_save
    /\ IF slist_is_empty(heap, nwq)
       THEN /\ Goto("next_current")
            /\ task' = NULL
            /\ UNCHANGED <<queue, ret>>
       ELSE /\ Goto("pop_head")
            /\ queue' = nwq /\ ret' = "next_add"
            /\ UNCHANGED task
    /\ UNCHANGED <<shared, nwq>>

PopHead ==
    /\ pc = "pop_head"
    /\ task' = heap.next[queue]
    /\ heap' = SetNext(heap, queue, heap.next[heap.next[queue]])
    /\ Goto("pop_last")
    /\ UNCHANGED <<current, irq, iflags, queue, nwq, ret>>

PopLast ==
    /\ pc = "pop_last"
    /\ heap' = IF heap.last[queue] = task THEN SetLast(heap, queue, queue) ELSE heap
    /\ Goto("pop_clear")
    /\ UNCHANGED <<current, irq, iflags, frame>>

PopClear ==
    /\ pc = "pop_clear"
    /\ heap' = SetNext(heap, task, NULL)
    /\ UNCHANGED <<current, irq, iflags, nwq>>
    /\ IF ret = "idle"
       THEN Return /\ UNCHANGED <<queue, task, ret>>
       ELSE Goto("add_save") /\ CallAdd(main_workqueue, task, "next_current")

NextCurrent ==
    /\ pc = "next_current"
    /\ current' = [current EXCEPT ![nwq] = task]
    /\ Goto("next_restore")
    /\ UNCHANGED <<heap, irq, iflags, frame>>

NextRestore ==
    /\ pc = "next_restore"
    /\ cpu_irq_restore
    /\ UNCHANGED <<shared, frame>>
    /\ Return

-----------------------------------------------------------------------------

\* cpu_irq_disable and cpu_irq_enable, by the code that makes the calls.
SetIrq ==
    /\ pc = "idle"
    /\ irq' = ~ irq
    /\ UNCHANGED <<shared, pc, iflags, frame, public>>

\* An interrupt handler makes one of the same calls and returns; interrupts are
\* disabled while it runs.
Interrupt ==
    /\ irq
    /\ \/ \E t \in Task : Atomic!AddTask(t)
       \/ \E n \in Nested, t \in Task :
              Atomic!NestedAddTaskWait(n, t) \/ Atomic!NestedAddTaskNow(n, t)
       \/ \E n \in Nested : Atomic!NestedNextTask(n)
    /\ public' = shared'
    /\ UNCHANGED <<irq, pc, iflags, frame>>

Step ==
    \/ AddSave \/ AddTest \/ InsertNode \/ InsertLink \/ InsertLast \/ AddRestore
    \/ NestedAddSave \/ NestedAddTest \/ NestedAddCurrent \/ NestedAddRestore
    \/ NextSave \/ PopHead \/ PopLast \/ PopClear \/ NextCurrent \/ NextRestore

Next ==
    \/ \E t \in Task \cup {NULL} : AddTask(t)
    \/ \E n \in Nested, t \in Task : NestedAddTask(n, t)
    \/ \E n \in Nested : NestedNextTask(n)
    \/ PopTask
    \/ Step
    \/ SetIrq
    \/ Interrupt

Spec == Init /\ [][Next]_vars

-----------------------------------------------------------------------------
(* Properties.                                                             *)

\* No interrupt handler can see a call's work half done: not the list between two
\* stores, nor the queues when nested_workqueue_next_task has queued the next task
\* and not made it current, after workqueue_add_task restored its own flags.
HalfwayMasked == shared # public => ~ irq

\* Every call and every interrupt handler's call takes effect at one moment, as the
\* actions of Workqueue do.
ImplementsWorkqueue == Public!Spec
=============================================================================
