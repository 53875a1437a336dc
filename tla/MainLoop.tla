------------------------------ MODULE MainLoop ------------------------------
(***************************************************************************)
(* The main loop of include/mainloop.h with the softirqs of                *)
(* include/softirq.h and arch/avr8: one thread of control that polls       *)
(* softirqs, runs the next task of the main work queue or goes to sleep,   *)
(* and interrupt handlers that add tasks and raise softirqs whenever       *)
(* interrupts are enabled.                                                 *)
(*                                                                         *)
(* On AVR8 cpu_enter_sleep only enables interrupts; on UC3 it enables them *)
(* and sleeps until the next interrupt, in one instruction, and there are  *)
(* no softirqs; the CPU is chosen with the initial state.  The bitmap of   *)
(* pending softirqs is the set of its one bits.                            *)
(***************************************************************************)
EXTENDS Naturals, FiniteSets, FiniteSetsExt, Functions

CONSTANTS
    Node, List, NULL, main_workqueue,   \* see Workqueue
    SoftirqId                           \* enum softirq_id

\* The work queues' assumptions; the softirqs fit into one bit_word_t on AVR8.
ASSUME MainLoopAssumption ==
    /\ IsFiniteSet(Node)
    /\ Node \cap List = {}
    /\ NULL \notin Node \cup List
    /\ main_workqueue \in List
    /\ SoftirqId \subseteq 0 .. 7

VARIABLES
    cpu,                    \* the CPU the program is built for
    heap, current,          \* see Workqueue
    irq,                    \* interrupts are enabled
    softirq_priv_status,    \* the softirqs raised and not yet handled
    pc,                     \* where the main loop is
    running,                \* the task whose worker runs, or NULL
    handling                \* the softirq whose handler runs, or NULL

WQ == INSTANCE Workqueue

loopVars == <<cpu, irq, pc, running, handling>>
vars == <<heap, current, softirq_priv_status, loopVars>>

-----------------------------------------------------------------------------

Init ==
    /\ cpu \in {"avr8", "uc3"}
    /\ WQ!Init
    /\ irq \in BOOLEAN
    /\ softirq_priv_status = {}
    /\ pc = "top"
    /\ running = NULL
    /\ handling = NULL

\* Variant: interrupts stay as they are.
DisableIrq_Forgotten ==
    /\ pc = "top"
    /\ pc' = "poll"
    /\ UNCHANGED <<cpu, heap, current, softirq_priv_status, irq, running, handling>>

\* cpu_irq_disable() at the top of the loop.
DisableIrq ==
    /\ pc = "top"
    /\ irq' = FALSE
    /\ pc' = "poll"
    /\ UNCHANGED <<cpu, heap, current, softirq_priv_status, running, handling>>

\* Bits in a bit_word_t on AVR8.
WordBits == 8

\* The first one bit of a bitmap, numbered from the start of the word it is in
\* (include/bitops.h).
bit_array_find_first_one_bit(bitmap) == Min(bitmap) % WordBits

\* Variant: all the pending ids are cleared when one is handled.
PollHandle_ClearsAll ==
    /\ pc = "poll"
    /\ softirq_priv_status # {}
    /\ handling' = bit_array_find_first_one_bit(softirq_priv_status)
    /\ softirq_priv_status' = {}
    /\ irq' = TRUE
    /\ pc' = "handler"
    /\ UNCHANGED <<cpu, heap, current, running>>

\* softirq_poll finds the lowest pending id and calls its handler ...
PollHandle ==
    /\ pc = "poll"
    /\ softirq_priv_status # {}
    /\ LET id == bit_array_find_first_one_bit(softirq_priv_status)
       IN  /\ softirq_priv_status' = softirq_priv_status \ {id}
           /\ handling' = id
    /\ irq' = TRUE
    /\ pc' = "handler"
    /\ UNCHANGED <<cpu, heap, current, running>>

\* Variant: one softirq is handled per turn of the main loop.
HandlerReturns_PollsOnce ==
    /\ pc = "handler"
    /\ irq' = FALSE
    /\ pc' = "pop"
    /\ handling' = NULL
    /\ UNCHANGED <<cpu, heap, current, softirq_priv_status, running>>

\* ... disables interrupts when it is back ...
HandlerReturns ==
    /\ pc = "handler"
    /\ irq' = FALSE
    /\ pc' = "poll"
    /\ handling' = NULL
    /\ UNCHANGED <<cpu, heap, current, softirq_priv_status, running>>

\* ... and returns when it finds none.
PollNone ==
    /\ pc = "poll"
    /\ softirq_priv_status = {}
    /\ pc' = "pop"
    /\ UNCHANGED <<cpu, heap, current, softirq_priv_status, irq, running, handling>>

\* workqueue_pop_task found a task: enable interrupts and run it.
RunTask ==
    /\ pc = "pop"
    /\ WQ!PopTask
    /\ running' = WQ!workqueue_popped(heap, main_workqueue)
    /\ irq' = TRUE
    /\ pc' = "worker"
    /\ UNCHANGED <<cpu, softirq_priv_status, handling>>

WorkerReturns ==
    /\ pc = "worker"
    /\ pc' = "top"
    /\ running' = NULL
    /\ UNCHANGED <<cpu, heap, current, softirq_priv_status, irq, handling>>

\* workqueue_pop_task found none ...
PopNone ==
    /\ pc = "pop"
    /\ WQ!slist_is_empty(heap, main_workqueue)
    /\ pc' = "idle"
    /\ UNCHANGED <<cpu, heap, current, softirq_priv_status, irq, running, handling>>

\* ... so the loop calls cpu_enter_sleep.
EnterSleep ==
    /\ pc = "idle"
    /\ irq' = TRUE
    /\ pc' = IF cpu = "uc3" THEN "asleep" ELSE "top"
    /\ UNCHANGED <<cpu, heap, current, softirq_priv_status, running, handling>>

LoopStep ==
    \/ DisableIrq \/ PollHandle \/ HandlerReturns \/ PollNone
    \/ RunTask \/ WorkerReturns \/ PopNone \/ EnterSleep

-----------------------------------------------------------------------------
(* The code that runs on top of the loop.                                  *)

QueueCall ==
    /\ \/ \E t \in Node \cup {NULL} : WQ!AddTask(t)
       \/ \E n \in List \ {main_workqueue}, t \in Node :
              WQ!NestedAddTaskWait(n, t) \/ WQ!NestedAddTaskNow(n, t)
       \/ \E n \in List \ {main_workqueue} : WQ!NestedNextTask(n)
    /\ UNCHANGED softirq_priv_status

softirq_raise(id) ==
    /\ cpu = "avr8"
    /\ softirq_priv_status' = softirq_priv_status \cup {id}
    /\ UNCHANGED <<heap, current>>

Call == QueueCall \/ \E id \in SoftirqId : softirq_raise(id)

\* The worker or softirq handler that runs calls the queues, whether it has
\* disabled interrupts or not ...
WorkerCalls ==
    /\ pc \in {"worker", "handler"}
    /\ Call
    /\ UNCHANGED loopVars

\* ... and may return with either setting.
WorkerSetsIrq ==
    /\ pc \in {"worker", "handler"}
    /\ irq' = ~ irq
    /\ UNCHANGED <<cpu, heap, current, softirq_priv_status, pc, running, handling>>

\* An interrupt handler runs from start to end, and ends a sleep.
Interrupt ==
    /\ irq
    /\ Call
    /\ pc' = IF pc = "asleep" THEN "top" ELSE pc
    /\ UNCHANGED <<cpu, irq, running, handling>>

Next == LoopStep \/ WorkerCalls \/ WorkerSetsIrq \/ Interrupt

\* The CPU executes; workers and handlers return.  Nothing forces an interrupt.
Fairness == WF_vars(LoopStep)

Spec == Init /\ [][Next]_vars /\ Fairness

-----------------------------------------------------------------------------
(* Properties.                                                             *)

\* The queues stay typed, and the loop is in one place.
TypeOK ==
    /\ WQ!TypeOK
    /\ cpu \in {"avr8", "uc3"}
    /\ irq \in BOOLEAN
    /\ softirq_priv_status \subseteq SoftirqId
    /\ pc \in {"top", "poll", "handler", "pop", "worker", "idle", "asleep"}
    /\ running \in Node \cup {NULL}
    /\ handling \in SoftirqId \cup {NULL}

\* softirq_poll and workqueue_pop_task assert that interrupts are disabled: no
\* interrupt handler changes the queue or the softirqs between the test that
\* finds them empty and the sleep, whatever the last worker left irq at.
IrqsOffWhileLooking == pc \in {"poll", "pop", "idle"} => ~ irq

\* The CPU never sleeps on work: an interrupt that adds a task or raises a
\* softirq at the last moment still prevents or ends the sleep.
NoLostWakeup ==
    pc \in {"idle", "asleep"} =>
        /\ WQ!slist_is_empty(heap, main_workqueue)
        /\ softirq_priv_status = {}

\* Softirqs come before tasks: no worker starts while a softirq is pending
\* (softirq.h:52-55).
SoftirqsFirst == [][pc' = "worker" /\ pc # "worker" => softirq_priv_status = {}]_vars

\* A task is out of the queue, and can be added again, from the moment its worker
\* starts (workqueue.c:55-57).
RunningTaskIsFree ==
    [][pc' = "worker" /\ pc # "worker" =>
           ~ WQ!workqueue_task_is_queued(heap', running')]_vars

\* A queued task runs in the end, unless softirqs keep softirq_poll from ever
\* returning: neither interrupts nor tasks that queue others or themselves starve it.
QueuedTaskRuns ==
    []<>(pc = "pop" \/ pc = "asleep") =>
        \A t \in Node : t \in Range(WQ!Contents[main_workqueue]) ~> running = t

\* A raised softirq is handled in the end, unless softirqs of higher priority are
\* pending at every poll; the first one always is.
RaisedSoftirqIsHandled ==
    \A id \in SoftirqId :
        \/ \A i \in SoftirqId : id <= i
        \/ []<>(pc = "poll" /\ \A i \in softirq_priv_status : i >= id)
        => (id \in softirq_priv_status ~> handling = id)
=============================================================================
