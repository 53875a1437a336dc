------------------------- MODULE WorkqueueIrqProofs -------------------------
(***************************************************************************)
(* Every call of the work queue functions is atomic among interrupt        *)
(* handlers, for any number of tasks and queues: the functions store by    *)
(* store, as WorkqueueIrq has them, implement the actions of Workqueue.    *)
(***************************************************************************)
EXTENDS WorkqueueIrq, TLAPS, SequenceTheorems

\* The queues as the last call left them.
lists == public[1]
holders == public[2]

Adding == {"add_test", "insert_node", "insert_link", "insert_last", "add_restore"}
Popping == {"pop_head", "pop_last", "pop_clear"}

\* Outside of every section with interrupts disabled.
Outside ==
    \/ pc \in {"idle", "nadd_save", "next_save"}
    \/ pc = "add_save" /\ ret = "idle"

(***************************************************************************)
(* The sections nest: inside one the flag is off, workqueue_add_task saves *)
(* a second time when a nested work queue calls it, and restores "off".    *)
(***************************************************************************)
Unsaved == Outside \/ (pc \in Popping /\ ret = "idle")
Twice == pc \in Adding /\ ret # "idle"

Sections ==
    /\ irq \in BOOLEAN
    /\ ~ Outside => irq = FALSE
    /\ Unsaved => iflags = << >>
    /\ ~ Unsaved /\ ~ Twice => \E b \in BOOLEAN : iflags = <<b>>
    /\ Twice => \E b \in BOOLEAN : iflags = <<FALSE, b>>

(***************************************************************************)
(* The calls in progress: who has called workqueue_add_task and with what  *)
(* task, and who pops.                                                     *)
(***************************************************************************)
\* The lists when the head of queue n has been popped.
Popped(n) == SetNext(slist_pop_head_node(lists, n), lists.next[n], NULL)

Base == IF ret = "next_current" THEN Popped(nwq) ELSE lists

AddContext ==
    /\ task \in Task
    /\ \/ ret = "idle" /\ queue = main_workqueue /\ current = holders
       \/ /\ ret = "nadd_restore" /\ nwq \in Nested
          /\ holders[nwq] # NULL /\ queue = nwq /\ current = holders
       \/ /\ ret = "nadd_restore" /\ nwq \in Nested
          /\ holders[nwq] = NULL /\ queue = main_workqueue
          /\ current = [holders EXCEPT ![nwq] = task]
       \/ /\ ret = "next_current" /\ nwq \in Nested
          /\ queue = main_workqueue /\ current = holders
          /\ lists.next[nwq] # nwq /\ task = lists.next[nwq]

PopContext ==
    /\ current = holders
    /\ lists.next[queue] # queue /\ lists.next[queue] \in Task
    /\ \/ ret = "idle" /\ queue = main_workqueue
       \/ ret = "next_add" /\ nwq \in Nested /\ queue = nwq

\* The lists that nested_workqueue_next_task leaves.
PassedOn == Atomic!workqueue_add_task(Atomic!workqueue_pop_task(lists, nwq),
                                      main_workqueue, Atomic!workqueue_popped(lists, nwq))

(***************************************************************************)
(* What each place in the functions has changed so far.                    *)
(***************************************************************************)
AddProgress ==
    /\ pc \in Adding \cup {"add_save"} => AddContext
    /\ pc \in {"add_save", "add_test", "insert_node"} => heap = Base
    /\ pc \in {"insert_node", "insert_link", "insert_last"} => Base.next[task] = NULL
    /\ pc = "insert_link" => heap = SetNext(Base, task, queue)
    /\ pc = "insert_last" =>
          heap = SetNext(SetNext(Base, task, queue), Base.last[queue], task)
    /\ pc = "add_restore" => heap = Atomic!workqueue_add_task(Base, queue, task)

NestedAddProgress ==
    /\ pc \in {"nadd_save", "nadd_test", "nadd_current"} => nwq \in Nested /\ task \in Task
    /\ pc \in {"nadd_test", "nadd_current"} => shared = public
    /\ pc = "nadd_current" => holders[nwq] = NULL
    /\ pc = "nadd_restore" =>
          /\ AddContext /\ ret = "nadd_restore"
          /\ heap = Atomic!workqueue_add_task(lists, queue, task)

PopProgress ==
    /\ pc \in Popping => PopContext
    /\ pc = "pop_head" => heap = lists
    /\ pc \in {"pop_last", "pop_clear"} => task = lists.next[queue]
    /\ pc = "pop_last" => heap = SetNext(lists, queue, lists.next[lists.next[queue]])
    /\ pc = "pop_clear" => heap = slist_pop_head_node(lists, queue)

NextProgress ==
    /\ pc \in {"next_save", "next_current", "next_restore"} => nwq \in Nested
    /\ pc \in {"next_current", "next_restore"} =>
          task = Atomic!workqueue_popped(lists, nwq) /\ heap = PassedOn
    /\ pc = "next_current" => current = holders
    /\ pc = "next_restore" => current = [holders EXCEPT ![nwq] = task]

\* Nothing is half done outside of the sections.
Settled == Outside => shared = public

IInv ==
    /\ Sections
    /\ Settled
    /\ AddProgress /\ NestedAddProgress /\ PopProgress /\ NextProgress

(***************************************************************************)
(* Cookies are pushed and popped.                                          *)
(***************************************************************************)
LEMMA Cookies ==
    ASSUME NEW b, NEW c
    PROVE  /\ <<b>> \o << >> = <<b>> /\ <<c>> \o <<b>> = <<c, b>>
           /\ Head(<<b>>) = b /\ Tail(<<b>>) = << >>
           /\ Head(<<c, b>>) = c /\ Tail(<<c, b>>) = <<b>>
<1>1. <<b>> \o << >> = <<b>>
  OBVIOUS
<1>2. <<c>> \o <<b>> = <<c, b>>
  <2> DEFINE s == <<c>> \o <<b>>
  <2>1. s \in Seq({b, c}) /\ Len(s) = 2 /\ s[1] = c /\ s[2] = b
    OBVIOUS
  <2>2. <<c, b>> \in Seq({b, c}) /\ Len(<<c, b>>) = 2
    OBVIOUS
  <2>3. \A i \in 1 .. Len(s) : s[i] = <<c, b>>[i]
    <3>1. \A i \in 1 .. 2 : i = 1 \/ i = 2
      OBVIOUS
    <3>2. QED
      BY <2>1, <3>1
  <2>4. QED
    BY <2>1, <2>2, <2>3, SeqEqual
<1>3. Head(<<b>>) = b /\ Head(<<c, b>>) = c
  OBVIOUS
<1>4. Tail(<<b>>) = << >>
  OBVIOUS
<1>5. Tail(<<c, b>>) = <<b>>
  OBVIOUS
<1>6. QED
  BY <1>1, <1>2, <1>3, <1>4, <1>5

-----------------------------------------------------------------------------
(***************************************************************************)
(* The sections: one case per kind of step.                                *)
(***************************************************************************)
LEMMA NextSections ==
    ASSUME Sections, AddProgress, PopProgress, NestedAddProgress, [Next]_vars
    PROVE  Sections'
<1> USE DEF Sections, Outside, Unsaved, Twice, Adding, Popping
<1>a. \A b, c \in BOOLEAN :
          /\ <<b>> \o << >> = <<b>> /\ <<c>> \o <<b>> = <<c, b>>
          /\ Head(<<b>>) = b /\ Tail(<<b>>) = << >>
          /\ Head(<<c, b>>) = c /\ Tail(<<c, b>>) = <<b>>
  BY Cookies
<1>1. CASE AddSave
  BY <1>1, <1>a DEF AddSave, cpu_irq_save, Goto, frame
<1>2. CASE AddRestore
  BY <1>2, <1>a DEF AddRestore, cpu_irq_restore, Goto, Return, frame, AddProgress, AddContext
<1>3. CASE NestedAddSave
  BY <1>3, <1>a DEF NestedAddSave, cpu_irq_save, Goto, frame
<1>4. CASE NestedAddRestore \/ NextRestore
  BY <1>4, <1>a DEF NestedAddRestore, NextRestore, cpu_irq_restore, Return, frame
<1>5. CASE NextSave
  BY <1>5, <1>a DEF NextSave, cpu_irq_save, Goto
<1>6. CASE AddTest \/ InsertNode \/ InsertLink \/ InsertLast
  BY <1>6 DEF AddTest, InsertNode, InsertLink, InsertLast, Goto, frame
<1>7. CASE NestedAddTest \/ NestedAddCurrent
  BY <1>7 DEF NestedAddTest, NestedAddCurrent, Goto, CallAdd
<1>8. CASE PopHead \/ PopLast \/ PopClear \/ NextCurrent
  BY <1>8 DEF PopHead, PopLast, PopClear, NextCurrent, Goto, Return, CallAdd, frame,
              PopProgress, PopContext
<1>9. CASE \/ \E t \in Task \cup {NULL} : AddTask(t)
           \/ \E n \in Nested, t \in Task : NestedAddTask(n, t)
           \/ \E n \in Nested : NestedNextTask(n)
           \/ PopTask
  BY <1>9 DEF AddTask, NestedAddTask, NestedNextTask, PopTask, Goto, Return, CallAdd
<1>10. CASE SetIrq \/ Interrupt \/ UNCHANGED vars
  BY <1>10 DEF SetIrq, Interrupt, frame, vars
<1>11. QED
  BY <1>1, <1>2, <1>3, <1>4, <1>5, <1>6, <1>7, <1>8, <1>9, <1>10 DEF Next, Step

-----------------------------------------------------------------------------
(***************************************************************************)
(* Between calls the queues are those of Workqueue: the head of a queue    *)
(* that is not empty is a task.                                            *)
(***************************************************************************)
WP == INSTANCE WorkqueueProofs WITH heap <- public[1], current <- public[2]

LEMMA QueueAssumptions ==
    /\ WP!IsFiniteSet(Node)
    /\ Node \cap List = {}
    /\ NULL \notin Node \cup List
    /\ main_workqueue \in List
<1>1. WP!IsFiniteSet(Node)
  BY SListAssumption DEF IsFiniteSet, WP!IsFiniteSet
<1>2. QED
  BY <1>1, SListAssumption, WorkqueueIrqAssumption

HeadsAreTasks ==
    \A l \in List : lists.next[l] # l => lists.next[l] \in Node

LEMMA InvHeads == WP!Inv => HeadsAreTasks
<1> SUFFICES ASSUME WP!Inv, NEW l \in List, lists.next[l] # l
             PROVE  lists.next[l] \in Node
  BY DEF HeadsAreTasks
<1>1. lists \in WP!Heap /\ WP!Holds(lists, WP!Contents)
  BY DEF WP!Inv, WP!TypeOK, lists
<1>2. ~ WP!slist_is_empty(lists, l)
  BY DEF WP!slist_is_empty
<1>3. QED
  BY <1>1, <1>2, WP!HoldsEnds, QueueAssumptions

-----------------------------------------------------------------------------
LEMMA NextSettled ==
    ASSUME IInv, [Next]_vars
    PROVE  Settled'
<1> USE DEF Settled, Outside, Adding, IInv, shared
<1>1. CASE AddRestore
  BY <1>1 DEF AddRestore, Goto, Return, frame, AddProgress, AddContext
<1>2. CASE Step /\ ~ AddRestore
  BY <1>2
  DEF Step, AddSave, AddTest, InsertNode, InsertLink, InsertLast,
      NestedAddSave, NestedAddTest, NestedAddCurrent, NestedAddRestore,
      NextSave, PopHead, PopLast, PopClear, NextCurrent, NextRestore,
      Goto, Return, CallAdd, frame
<1>3. CASE \/ \E t \in Task \cup {NULL} : AddTask(t)
           \/ \E n \in Nested, t \in Task : NestedAddTask(n, t)
           \/ \E n \in Nested : NestedNextTask(n)
           \/ PopTask
  BY <1>3 DEF AddTask, NestedAddTask, NestedNextTask, PopTask, Goto, Return, CallAdd
<1>4. CASE SetIrq \/ Interrupt \/ UNCHANGED vars
  BY <1>4 DEF SetIrq, Interrupt, frame, vars
<1>5. QED
  BY <1>1, <1>2, <1>3, <1>4 DEF Next

LEMMA NextAddProgress ==
    ASSUME IInv, HeadsAreTasks, [Next]_vars
    PROVE  AddProgress'
<1> USE DEF AddProgress, AddContext, Adding, Base, lists, holders, Popped
<1>1. CASE \E t \in Task \cup {NULL} : AddTask(t)
  BY <1>1 DEF AddTask, Goto, Return, CallAdd, IInv, Settled, Outside, shared
<1>2. CASE AddSave
  BY <1>2 DEF AddSave, Goto, frame, shared, IInv
<1>3. CASE AddTest
  BY <1>3 DEF AddTest, Goto, frame, shared, IInv, Atomic!workqueue_task_is_queued,
              Atomic!workqueue_add_task
<1>4. CASE InsertNode
  BY <1>4 DEF InsertNode, Goto, frame, IInv
<1>5. CASE InsertLink
  BY <1>5 DEF InsertLink, Goto, frame, IInv, SetNext
<1>6. CASE InsertLast
  BY <1>6, SListAssumption DEF InsertLast, Goto, frame, IInv, SetNext, SetLast,
     Atomic!workqueue_task_is_queued, Atomic!workqueue_add_task, Atomic!slist_insert_tail, Task
<1>7. CASE AddRestore
  BY <1>7 DEF AddRestore, Goto, Return, frame, IInv
<1>8. CASE NestedAddTest \/ NestedAddCurrent
  BY <1>8 DEF NestedAddTest, NestedAddCurrent, Goto, CallAdd, IInv, NestedAddProgress, shared
<1>9. CASE PopClear
  BY <1>9 DEF PopClear, Goto, Return, CallAdd, IInv, PopProgress, PopContext, Popping
<1>10. CASE \/ NestedAddSave \/ NestedAddRestore \/ NextSave \/ PopHead \/ PopLast
            \/ NextCurrent \/ NextRestore
  BY <1>10 DEF NestedAddSave, NestedAddRestore, NextSave, PopHead, PopLast, NextCurrent,
               NextRestore, Goto, Return
<1>11. CASE \/ \E n \in Nested, t \in Task : NestedAddTask(n, t)
            \/ \E n \in Nested : NestedNextTask(n)
            \/ PopTask
  BY <1>11 DEF NestedAddTask, NestedNextTask, PopTask, Goto
<1>12. CASE SetIrq
  BY <1>12 DEF SetIrq
<1>13. CASE Interrupt
  BY <1>13 DEF Interrupt, frame, IInv, Sections, Outside, shared
<1>14. CASE UNCHANGED vars
  BY <1>14 DEF vars, IInv
<1>15. QED
  BY <1>1, <1>2, <1>3, <1>4, <1>5, <1>6, <1>7, <1>8, <1>9, <1>10, <1>11, <1>12, <1>13, <1>14
  DEF Next, Step

LEMMA NextNestedAddProgress ==
    ASSUME IInv, [Next]_vars
    PROVE  NestedAddProgress'
<1> USE DEF NestedAddProgress, lists, holders, AddContext
<1>1. CASE \E n \in Nested, t \in Task : NestedAddTask(n, t)
  BY <1>1 DEF NestedAddTask, Goto
<1>2. CASE NestedAddSave
  BY <1>2 DEF NestedAddSave, Goto, frame, shared, IInv, Settled, Outside
<1>3. CASE NestedAddTest \/ NestedAddCurrent
  BY <1>3 DEF NestedAddTest, NestedAddCurrent, Goto, CallAdd, IInv, shared
<1>4. CASE AddRestore
  BY <1>4 DEF AddRestore, Goto, Return, frame, shared, IInv, AddProgress, Adding, Base
<1>5. CASE NestedAddRestore \/ NextRestore \/ PopClear
  BY <1>5 DEF NestedAddRestore, NextRestore, PopClear, Goto, Return
<1>6. CASE \/ AddSave \/ AddTest \/ InsertNode \/ InsertLink \/ InsertLast
           \/ NextSave \/ PopHead \/ PopLast \/ NextCurrent
  BY <1>6 DEF AddSave, AddTest, InsertNode, InsertLink, InsertLast,
              NextSave, PopHead, PopLast, NextCurrent, Goto
<1>7. CASE \/ \E t \in Task \cup {NULL} : AddTask(t)
           \/ \E n \in Nested : NestedNextTask(n)
           \/ PopTask
  BY <1>7 DEF AddTask, NestedNextTask, PopTask, Goto, Return
<1>8. CASE SetIrq
  BY <1>8 DEF SetIrq
<1>9. CASE Interrupt
  BY <1>9 DEF Interrupt, frame, IInv, Sections, Outside
<1>10. CASE UNCHANGED vars
  BY <1>10 DEF vars, IInv, shared
<1>11. QED
  BY <1>1, <1>2, <1>3, <1>4, <1>5, <1>6, <1>7, <1>8, <1>9, <1>10 DEF Next, Step

LEMMA NextPopProgress ==
    ASSUME IInv, HeadsAreTasks, [Next]_vars
    PROVE  PopProgress'
<1> USE DEF PopProgress, PopContext, Popping, lists, holders
<1>1. CASE PopTask
  BY <1>1, WorkqueueIrqAssumption
  DEF PopTask, Goto, IInv, Settled, Outside, shared, HeadsAreTasks, slist_is_empty, Task
<1>2. CASE NextSave
  BY <1>2
  DEF NextSave, Goto, IInv, Settled, Outside, shared, HeadsAreTasks, slist_is_empty, Task,
      NextProgress, Nested
<1>3. CASE PopHead
  BY <1>3 DEF PopHead, Goto, IInv
<1>4. CASE PopLast
  <2>1. PopContext /\ pc' = "pop_clear" /\ public' = public /\ task = lists.next[queue]
    BY <1>4 DEF PopLast, Goto, IInv
  <2>2. task' = task /\ queue' = queue /\ current' = current /\ ret' = ret /\ nwq' = nwq
    BY <1>4 DEF PopLast, frame
  <2>3. heap' = slist_pop_head_node(lists, queue)
    BY <1>4 DEF PopLast, IInv, SetNext, SetLast, slist_pop_head_node
  <2>4. QED
    BY <2>1, <2>2, <2>3
<1>5. CASE PopClear
  BY <1>5 DEF PopClear, Goto, Return
<1>6. CASE AddRestore
  BY <1>6 DEF AddRestore, Goto, Return, IInv, AddProgress, AddContext, Adding
<1>7. CASE \/ AddSave \/ AddTest \/ InsertNode \/ InsertLink \/ InsertLast
           \/ NestedAddSave \/ NestedAddTest \/ NestedAddCurrent \/ NestedAddRestore
           \/ NextCurrent \/ NextRestore
  BY <1>7 DEF AddSave, AddTest, InsertNode, InsertLink, InsertLast,
              NestedAddSave, NestedAddTest, NestedAddCurrent, NestedAddRestore,
              NextCurrent, NextRestore, Goto, Return
<1>8. CASE \/ \E t \in Task \cup {NULL} : AddTask(t)
           \/ \E n \in Nested, t \in Task : NestedAddTask(n, t)
           \/ \E n \in Nested : NestedNextTask(n)
  BY <1>8 DEF AddTask, NestedAddTask, NestedNextTask, Goto, Return
<1>9. CASE SetIrq
  BY <1>9 DEF SetIrq
<1>10. CASE Interrupt
  BY <1>10 DEF Interrupt, frame, IInv, Sections, Outside
<1>11. CASE UNCHANGED vars
  BY <1>11 DEF vars, IInv
<1>12. QED
  BY <1>1, <1>2, <1>3, <1>4, <1>5, <1>6, <1>7, <1>8, <1>9, <1>10, <1>11 DEF Next, Step

LEMMA NextNextProgress ==
    ASSUME IInv, HeadsAreTasks, [Next]_vars
    PROVE  NextProgress'
<1> USE DEF NextProgress, lists, holders
<1>1. CASE \E n \in Nested : NestedNextTask(n)
  BY <1>1 DEF NestedNextTask, Goto
<1>2. CASE NextSave
  BY <1>2, SListAssumption
  DEF NextSave, Goto, IInv, Settled, Outside, shared, slist_is_empty, PassedOn,
      Atomic!workqueue_add_task, Atomic!workqueue_pop_task, Atomic!workqueue_popped,
      Atomic!slist_is_empty
<1>3. CASE AddRestore
  <2>1. CASE ret = "next_current"
    <3>1. /\ nwq \in Nested /\ current = holders /\ queue = main_workqueue
          /\ lists.next[nwq] # nwq /\ task = lists.next[nwq]
          /\ heap = Atomic!workqueue_add_task(Popped(nwq), queue, task)
      BY <1>3, <2>1 DEF AddRestore, IInv, AddProgress, AddContext, Adding, Base
    <3>2. Atomic!workqueue_popped(lists, nwq) = task
      BY <3>1 DEF Atomic!workqueue_popped, Atomic!slist_is_empty, Atomic!slist_peek_head_node
    <3>3. Atomic!workqueue_pop_task(lists, nwq) = Popped(nwq)
      BY <3>1 DEF Atomic!workqueue_pop_task, Atomic!slist_is_empty, Atomic!slist_peek_head_node,
                  Atomic!slist_pop_head_node, slist_pop_head_node, Atomic!SetNext, SetNext, Popped
    <3>4. /\ pc' = "next_current" /\ public' = public /\ heap' = heap /\ current' = current
          /\ task' = task /\ nwq' = nwq
      BY <1>3, <2>1 DEF AddRestore, Goto, shared, frame
    <3>5. QED
      BY <3>1, <3>2, <3>3, <3>4 DEF PassedOn
  <2>2. CASE ret # "next_current"
    BY <1>3, <2>2 DEF AddRestore, Goto, Return, IInv, AddProgress, AddContext, Adding
  <2>3. QED
    BY <2>1, <2>2
<1>4. CASE NextCurrent
  BY <1>4 DEF NextCurrent, Goto, frame, IInv, PassedOn
<1>5. CASE NestedAddRestore \/ NextRestore \/ PopClear
  BY <1>5 DEF NestedAddRestore, NextRestore, PopClear, Goto, Return, CallAdd
<1>6. CASE \/ AddSave \/ AddTest \/ InsertNode \/ InsertLink \/ InsertLast
           \/ NestedAddSave \/ NestedAddTest \/ NestedAddCurrent \/ PopHead \/ PopLast
  BY <1>6 DEF AddSave, AddTest, InsertNode, InsertLink, InsertLast,
              NestedAddSave, NestedAddTest, NestedAddCurrent, PopHead, PopLast, Goto
<1>7. CASE \/ \E t \in Task \cup {NULL} : AddTask(t)
           \/ \E n \in Nested, t \in Task : NestedAddTask(n, t)
           \/ PopTask
  BY <1>7 DEF AddTask, NestedAddTask, PopTask, Goto, Return
<1>8. CASE SetIrq
  BY <1>8 DEF SetIrq, IInv
<1>9. CASE Interrupt
  BY <1>9 DEF Interrupt, frame, IInv, Sections, Outside
<1>10. CASE UNCHANGED vars
  BY <1>10 DEF vars, IInv, PassedOn
<1>11. QED
  BY <1>1, <1>2, <1>3, <1>4, <1>5, <1>6, <1>7, <1>8, <1>9, <1>10 DEF Next, Step

-----------------------------------------------------------------------------
(***************************************************************************)
(* The three instances of Workqueue mean the same functions.               *)
(***************************************************************************)
LEMMA SameAdd ==
    ASSUME NEW h, NEW q, NEW t
    PROVE  /\ Atomic!workqueue_add_task(h, q, t) = Public!workqueue_add_task(h, q, t)
           /\ WP!workqueue_add_task(h, q, t) = Public!workqueue_add_task(h, q, t)
BY DEF Atomic!workqueue_add_task, Public!workqueue_add_task, WP!workqueue_add_task,
       Atomic!workqueue_task_is_queued, Public!workqueue_task_is_queued,
       WP!workqueue_task_is_queued,
       Atomic!slist_insert_tail, Public!slist_insert_tail, WP!slist_insert_tail

LEMMA SamePop ==
    ASSUME NEW h, NEW q
    PROVE  /\ Atomic!workqueue_pop_task(h, q) = Public!workqueue_pop_task(h, q)
           /\ WP!workqueue_pop_task(h, q) = Public!workqueue_pop_task(h, q)
           /\ Atomic!workqueue_popped(h, q) = Public!workqueue_popped(h, q)
           /\ WP!workqueue_popped(h, q) = Public!workqueue_popped(h, q)
           /\ WP!slist_is_empty(h, q) <=> Public!slist_is_empty(h, q)
BY DEF Atomic!workqueue_pop_task, Public!workqueue_pop_task, WP!workqueue_pop_task,
       Atomic!workqueue_popped, Public!workqueue_popped, WP!workqueue_popped,
       Atomic!slist_is_empty, Public!slist_is_empty, WP!slist_is_empty,
       Atomic!slist_peek_head_node, Public!slist_peek_head_node, WP!slist_peek_head_node,
       Atomic!slist_pop_head_node, Public!slist_pop_head_node, WP!slist_pop_head_node,
       Atomic!SetNext, Public!SetNext, WP!SetNext

LEMMA PublicStepIsQueueStep == [Public!Next]_Public!vars => [WP!Next]_WP!vars
<1> SUFFICES ASSUME Public!Next PROVE WP!Next
  BY DEF Public!vars, WP!vars
<1> USE DEF WP!Next, WP!Task, WP!Nested
<1>1. CASE \E t \in Public!Task \cup {NULL} : Public!AddTask(t)
  BY <1>1, SameAdd DEF Public!Task, Public!AddTask, WP!AddTask
<1>2. CASE Public!PopTask
  BY <1>2, SamePop DEF Public!PopTask, WP!PopTask
<1>3. CASE \E n \in Public!Nested, t \in Public!Task \cup {NULL} :
               Public!NestedAddTaskWait(n, t) \/ Public!NestedAddTaskNow(n, t)
  BY <1>3, SameAdd
  DEF Public!Task, Public!Nested, Public!NestedAddTaskWait, WP!NestedAddTaskWait,
      Public!NestedAddTaskNow, WP!NestedAddTaskNow
<1>4. CASE \E n \in Public!Nested : Public!NestedNextTask(n)
  BY <1>4, SameAdd, SamePop DEF Public!Nested, Public!NestedNextTask, WP!NestedNextTask
<1>5. QED
  BY <1>1, <1>2, <1>3, <1>4 DEF Public!Next

-----------------------------------------------------------------------------
(***************************************************************************)
(* A step is one call of Workqueue, where a call returns or an interrupt   *)
(* handler has made it, or it is not seen.                                 *)
(***************************************************************************)
LEMMA StepIsPublicStep ==
    ASSUME IInv, [Next]_vars
    PROVE  [Public!Next]_Public!vars
<1> USE DEF Public!vars, lists, holders
<1>1. CASE AddRestore /\ ret = "idle"
  <2>1. Public!AddTask(task)
    BY <1>1, SameAdd
    DEF AddRestore, Return, frame, shared, IInv, AddProgress, AddContext, Adding, Base,
        Public!AddTask
  <2>2. task \in Public!Task
    BY <1>1 DEF AddRestore, IInv, AddProgress, AddContext, Adding, Task, Public!Task
  <2>3. QED
    BY <2>1, <2>2 DEF Public!Next
<1>2. CASE NestedAddRestore
  <2>1. Public!NestedAddTaskWait(nwq, task) \/ Public!NestedAddTaskNow(nwq, task)
    BY <1>2, SameAdd
    DEF NestedAddRestore, Return, frame, shared, IInv, NestedAddProgress, AddContext,
        Public!NestedAddTaskWait, Public!NestedAddTaskNow
  <2>2. nwq \in Public!Nested /\ task \in Public!Task
    BY <1>2 DEF NestedAddRestore, IInv, NestedAddProgress, AddContext, Task, Public!Task,
                Nested, Public!Nested
  <2>3. QED
    BY <2>1, <2>2 DEF Public!Next
<1>3. CASE PopClear /\ ret = "idle"
  <2>1. /\ lists.next[main_workqueue] # main_workqueue
        /\ heap' = SetNext(slist_pop_head_node(lists, main_workqueue),
                           lists.next[main_workqueue], NULL)
        /\ current' = holders /\ public' = <<heap', current'>>
    BY <1>3 DEF PopClear, Return, shared, IInv, PopProgress, PopContext, Popping
  <2>2. Public!PopTask
    BY <2>1 DEF Public!PopTask, Public!workqueue_pop_task, Public!slist_is_empty,
                Public!slist_peek_head_node, Public!slist_pop_head_node, slist_pop_head_node,
                Public!SetNext, SetNext
  <2>3. QED
    BY <2>2 DEF Public!Next
<1>4. CASE NextRestore
  <2>1. Public!NestedNextTask(nwq)
    BY <1>4, SameAdd, SamePop
    DEF NextRestore, Return, frame, shared, IInv, NextProgress, PassedOn,
        Public!NestedNextTask
  <2>2. nwq \in Public!Nested
    BY <1>4 DEF NextRestore, IInv, NextProgress, Nested, Public!Nested
  <2>3. QED
    BY <2>1, <2>2 DEF Public!Next
<1>5. CASE Interrupt
  <2>1. heap = public[1] /\ current = public[2]
    BY <1>5 DEF Interrupt, IInv, Sections, Settled, shared
  <2>2. public'[1] = heap' /\ public'[2] = current'
    BY <1>5 DEF Interrupt, shared
  <2>3. CASE \E t \in Task : Atomic!AddTask(t)
    BY <2>1, <2>2, <2>3, SameAdd DEF Atomic!AddTask, Public!AddTask, Public!Next, Task, Public!Task
  <2>4. CASE \E n \in Nested, t \in Task :
                 Atomic!NestedAddTaskWait(n, t) \/ Atomic!NestedAddTaskNow(n, t)
    BY <2>1, <2>2, <2>4, SameAdd
    DEF Atomic!NestedAddTaskWait, Public!NestedAddTaskWait, Atomic!NestedAddTaskNow,
        Public!NestedAddTaskNow, Public!Next, Task, Public!Task, Nested, Public!Nested
  <2>5. CASE \E n \in Nested : Atomic!NestedNextTask(n)
    BY <2>1, <2>2, <2>5, SameAdd, SamePop
    DEF Atomic!NestedNextTask, Public!NestedNextTask, Public!Next, Nested, Public!Nested
  <2>6. QED
    BY <1>5, <2>3, <2>4, <2>5 DEF Interrupt
<1>6. CASE \E t \in Task \cup {NULL} : AddTask(t)
  BY <1>6 DEF AddTask, Goto, Return, shared, IInv, Settled, Outside
<1>7. CASE ~ AddRestore /\ ~ PopClear /\ ~ NestedAddRestore /\ ~ NextRestore /\ Step
  BY <1>7
  DEF Step, AddSave, AddTest, InsertNode, InsertLink, InsertLast, NestedAddSave,
      NestedAddTest, NestedAddCurrent, NextSave, PopHead, PopLast, NextCurrent, Goto
<1>8. CASE (AddRestore \/ PopClear) /\ ret # "idle"
  BY <1>8 DEF AddRestore, PopClear, Goto
<1>9. CASE \/ \E n \in Nested, t \in Task : NestedAddTask(n, t)
           \/ \E n \in Nested : NestedNextTask(n)
           \/ PopTask \/ SetIrq \/ UNCHANGED vars
  BY <1>9 DEF NestedAddTask, NestedNextTask, PopTask, SetIrq, vars, Goto
<1>10. QED
  BY <1>1, <1>2, <1>3, <1>4, <1>5, <1>6, <1>7, <1>8, <1>9 DEF Next, Step

-----------------------------------------------------------------------------
(***************************************************************************)
(* The invariant, together with that of the queues between calls.          *)
(***************************************************************************)
LEMMA InitAll == Init => IInv /\ WP!Inv /\ Public!Init
<1> SUFFICES ASSUME Init PROVE IInv /\ WP!Inv /\ Public!Init
  OBVIOUS
<1>1. public[1] = heap /\ public[2] = current
  BY DEF Init, shared
<1>2. Public!Init
  BY <1>1 DEF Init, Atomic!Init, Public!Init, Atomic!Addr, Public!Addr, Atomic!Nested,
              Public!Nested
<1>3. WP!Init
  BY <1>2 DEF WP!Init, Public!Init, WP!Addr, Public!Addr, WP!Nested, Public!Nested
<1>4. WP!Inv
  BY <1>3, WP!InitInv, QueueAssumptions
<1>5. IInv
  BY DEF Init, IInv, Sections, Outside, Unsaved, Twice, Settled, Adding, Popping,
         AddProgress, NestedAddProgress, PopProgress, NextProgress
<1>6. QED
  BY <1>2, <1>4, <1>5

LEMMA NextAll == IInv /\ WP!Inv /\ [Next]_vars => IInv' /\ WP!Inv'
<1> SUFFICES ASSUME IInv, WP!Inv, [Next]_vars PROVE IInv' /\ WP!Inv'
  OBVIOUS
<1>1. HeadsAreTasks
  BY InvHeads
<1>2. Sections' /\ Settled'
  BY NextSections, NextSettled DEF IInv
<1>3. AddProgress' /\ NestedAddProgress' /\ PopProgress' /\ NextProgress'
  BY <1>1, NextAddProgress, NextNestedAddProgress, NextPopProgress, NextNextProgress
<1>4. WP!Inv'
  BY StepIsPublicStep, PublicStepIsQueueStep, WP!NextStep, QueueAssumptions
<1>5. QED
  BY <1>2, <1>3, <1>4 DEF IInv

(***************************************************************************)
(* No interrupt handler finds a task list between two stores, or a nested  *)
(* work queue between its two functions: cpu_irq_restore of                *)
(* workqueue_add_task does not enable interrupts for its caller.           *)
(***************************************************************************)
THEOREM HalfwayIsMasked == Spec => []HalfwayMasked
<1>1. IInv => HalfwayMasked
  BY DEF IInv, Sections, Settled, HalfwayMasked
<1>2. QED
  BY <1>1, InitAll, NextAll, PTL DEF Spec

(***************************************************************************)
(* Whatever interrupts it, every call of workqueue_add_task,               *)
(* workqueue_pop_task, nested_workqueue_add_task and                       *)
(* nested_workqueue_next_task is one step of Workqueue.                    *)
(***************************************************************************)
THEOREM CallsAreAtomic == Spec => ImplementsWorkqueue
<1>1. IInv /\ [Next]_vars => [Public!Next]_Public!vars
  BY StepIsPublicStep
<1>2. QED
  BY <1>1, InitAll, NextAll, PTL DEF Spec, ImplementsWorkqueue, Public!Spec

(***************************************************************************)
(* So the queues that interrupt handlers and the main loop share are, from *)
(* call to call, first-in-first-out queues whose waiters have a holder.    *)
(***************************************************************************)
THEOREM SharedQueuesAreFifo == Spec => WP!ImplementsTaskQueues
<1>1. Init => WP!Init
  <2> SUFFICES ASSUME Init PROVE WP!Init
    OBVIOUS
  <2>1. public[1] = heap /\ public[2] = current
    BY DEF Init, shared
  <2>2. QED
    BY <2>1 DEF Init, Atomic!Init, WP!Init, Atomic!Addr, WP!Addr, Atomic!Nested, WP!Nested
<1>2. IInv /\ [Next]_vars => [WP!Next]_WP!vars
  BY StepIsPublicStep, PublicStepIsQueueStep
<1>3. WP!Spec => WP!ImplementsTaskQueues
  BY WP!Refinement, QueueAssumptions
<1>4. QED
  BY <1>1, <1>2, <1>3, InitAll, NextAll, PTL DEF Spec, WP!Spec
=============================================================================
