----------------------------- MODULE GuiProofs -----------------------------
(***************************************************************************)
(* The safety properties of the main loop, for any number of tasks, queues *)
(* and softirqs, and those of the windows whose task it runs: the tree of  *)
(* windows, the pointer and the frame of the application, for any widgets, *)
(* any stacking of them and any length of the event queue.                 *)
(***************************************************************************)
EXTENDS MainLoop, Widgets, SequenceTheorems, FiniteSetTheorems, FunctionTheorems,
        WellFoundedInduction, TLAPS

-----------------------------------------------------------------------------
(* The main loop.                                                          *)

(***************************************************************************)
(* Once softirq_poll has found nothing, nothing is pending until the loop  *)
(* enables interrupts again; the same holds for the queue once it has been *)
(* found empty.  Both need interrupts to be disabled all the while.        *)
(***************************************************************************)
NothingMissed ==
    /\ IrqsOffWhileLooking
    /\ pc = "pop" => softirq_priv_status = {}
    /\ NoLostWakeup

(***************************************************************************)
(* NothingMissed is inductive.                                             *)
(***************************************************************************)
LEMMA InitNothingMissed == Init => NothingMissed
BY DEF Init, NothingMissed, IrqsOffWhileLooking, NoLostWakeup

(***************************************************************************)
(* One case per action; those that enable interrupts leave the places where *)
(* something has been found empty.                                         *)
(***************************************************************************)
LEMMA NextNothingMissed ==
    ASSUME NothingMissed, [Next]_vars
    PROVE  NothingMissed'
<1> USE DEF NothingMissed, IrqsOffWhileLooking, NoLostWakeup
<1>1. CASE DisableIrq
  BY <1>1 DEF DisableIrq
<1>2. CASE PollHandle
  BY <1>2 DEF PollHandle
<1>3. CASE HandlerReturns
  BY <1>3 DEF HandlerReturns
<1>4. CASE PollNone
  BY <1>4 DEF PollNone
<1>5. CASE RunTask
  BY <1>5 DEF RunTask
<1>6. CASE WorkerReturns
  BY <1>6 DEF WorkerReturns
<1>7. CASE PopNone
  BY <1>7 DEF PopNone, WQ!slist_is_empty
<1>8. CASE EnterSleep
  BY <1>8 DEF EnterSleep, WQ!slist_is_empty
<1>9. CASE WorkerCalls
  BY <1>9 DEF WorkerCalls, loopVars
<1>10. CASE WorkerSetsIrq
  BY <1>10 DEF WorkerSetsIrq
<1>11. CASE Interrupt
  BY <1>11 DEF Interrupt
<1>12. CASE UNCHANGED vars
  BY <1>12 DEF vars, loopVars, WQ!slist_is_empty
<1>13. QED
  BY <1>1, <1>2, <1>3, <1>4, <1>5, <1>6, <1>7, <1>8, <1>9, <1>10, <1>11, <1>12
  DEF Next, LoopStep

(***************************************************************************)
(* softirq_poll, workqueue_pop_task and cpu_enter_sleep are called with    *)
(* interrupts disabled, whatever workers and handlers leave them at.       *)
(***************************************************************************)
THEOREM LooksWithIrqsOff == Spec => []IrqsOffWhileLooking
<1>1. NothingMissed => IrqsOffWhileLooking
  BY DEF NothingMissed
<1>2. QED
  BY <1>1, InitNothingMissed, NextNothingMissed, PTL DEF Spec

(***************************************************************************)
(* The main loop never sleeps while a task is queued or a softirq pending. *)
(***************************************************************************)
THEOREM SleepsOnlyWhenIdle == Spec => []NoLostWakeup
<1>1. NothingMissed => NoLostWakeup
  BY DEF NothingMissed
<1>2. QED
  BY <1>1, InitNothingMissed, NextNothingMissed, PTL DEF Spec

(***************************************************************************)
(* No worker starts while a softirq is pending: only RunTask starts one,   *)
(* where softirq_poll has just returned and interrupts are still disabled. *)
(***************************************************************************)
THEOREM SoftirqsComeFirst == Spec => SoftirqsFirst
<1>1. ASSUME NothingMissed, [Next]_vars, pc' = "worker", pc # "worker"
      PROVE  softirq_priv_status = {}
  <2>1. CASE RunTask
    BY <1>1, <2>1 DEF RunTask, NothingMissed
  <2>2. CASE ~ RunTask
    BY <1>1, <2>2
    DEF Next, LoopStep, DisableIrq, PollHandle, HandlerReturns, PollNone, WorkerReturns,
        PopNone, EnterSleep, WorkerCalls, WorkerSetsIrq, Interrupt, vars, loopVars
  <2>3. QED
    BY <2>1, <2>2
<1>2. NothingMissed /\ [Next]_vars
          => [pc' = "worker" /\ pc # "worker" => softirq_priv_status = {}]_vars
  BY <1>1
<1>3. QED
  BY <1>2, InitNothingMissed, NextNothingMissed, PTL DEF Spec, SoftirqsFirst

(***************************************************************************)
(* What the main loop and the code on top of it do to the queues is what   *)
(* Workqueue lets its callers do.                                          *)
(***************************************************************************)
WP == INSTANCE WorkqueueProofs

(***************************************************************************)
(* The assumptions under which WorkqueueProofs was proved.                 *)
(***************************************************************************)
LEMMA QueueAssumptions ==
    /\ WP!IsFiniteSet(Node)
    /\ Node \cap List = {}
    /\ NULL \notin Node \cup List
    /\ main_workqueue \in List
<1>1. WP!IsFiniteSet(Node)
  BY MainLoopAssumption DEF IsFiniteSet, WP!IsFiniteSet
<1>2. QED
  BY <1>1, MainLoopAssumption

(***************************************************************************)
(* MainLoop's instance of the queue functions and the proofs' are the same. *)
(***************************************************************************)
LEMMA SameHeapOperators ==
    ASSUME NEW h, NEW q \in List, NEW t
    PROVE  /\ WQ!workqueue_add_task(h, q, t) = WP!workqueue_add_task(h, q, t)
           /\ WQ!workqueue_pop_task(h, q) = WP!workqueue_pop_task(h, q)
           /\ WQ!workqueue_popped(h, q) = WP!workqueue_popped(h, q)
           /\ WQ!slist_is_empty(h, q) <=> WP!slist_is_empty(h, q)
<1>1. WQ!slist_is_empty(h, q) <=> WP!slist_is_empty(h, q)
  BY DEF WQ!slist_is_empty, WP!slist_is_empty
<1>2. WQ!workqueue_add_task(h, q, t) = WP!workqueue_add_task(h, q, t)
  BY DEF WQ!workqueue_add_task, WP!workqueue_add_task,
         WQ!workqueue_task_is_queued, WP!workqueue_task_is_queued,
         WQ!slist_insert_tail, WP!slist_insert_tail
<1>3. WQ!workqueue_pop_task(h, q) = WP!workqueue_pop_task(h, q)
  BY <1>1
  DEF WQ!workqueue_pop_task, WP!workqueue_pop_task, WQ!SetNext, WP!SetNext,
      WQ!slist_pop_head_node, WP!slist_pop_head_node,
      WQ!slist_peek_head_node, WP!slist_peek_head_node
<1>4. WQ!workqueue_popped(h, q) = WP!workqueue_popped(h, q)
  BY <1>1
  DEF WQ!workqueue_popped, WP!workqueue_popped,
      WQ!slist_peek_head_node, WP!slist_peek_head_node
<1>5. QED
  BY <1>1, <1>2, <1>3, <1>4

(***************************************************************************)
(* Every step of the main loop is one of the queues or leaves them alone.  *)
(***************************************************************************)
LEMMA StepOfQueues == [Next]_vars => [WP!Next]_WP!vars
<1> SUFFICES ASSUME [Next]_vars PROVE WP!Next \/ UNCHANGED <<heap, current>>
  BY DEF WP!vars
<1>0. main_workqueue \in List
  BY MainLoopAssumption
<1>1. CASE RunTask
  <2>1. WP!PopTask
    BY <1>0, <1>1, SameHeapOperators DEF RunTask, WQ!PopTask, WP!PopTask
  <2>2. QED
    BY <2>1 DEF WP!Next
<1>2. CASE QueueCall
  <2>1. CASE \E t \in Node \cup {NULL} : WQ!AddTask(t)
    <3>1. PICK t \in Node \cup {NULL} : WQ!AddTask(t)
      BY <2>1
    <3>2. WP!AddTask(t)
      BY <1>0, <3>1, SameHeapOperators DEF WQ!AddTask, WP!AddTask
    <3>3. QED
      BY <3>1, <3>2 DEF WP!Next, WP!Task
  <2>2. CASE \E n \in List \ {main_workqueue}, t \in Node :
                 WQ!NestedAddTaskWait(n, t) \/ WQ!NestedAddTaskNow(n, t)
    <3>1. PICK n \in List \ {main_workqueue}, t \in Node :
                 WQ!NestedAddTaskWait(n, t) \/ WQ!NestedAddTaskNow(n, t)
      BY <2>2
    <3>2. WP!NestedAddTaskWait(n, t) \/ WP!NestedAddTaskNow(n, t)
      BY <1>0, <3>1, SameHeapOperators
      DEF WQ!NestedAddTaskWait, WP!NestedAddTaskWait,
          WQ!NestedAddTaskNow, WP!NestedAddTaskNow
    <3>3. QED
      BY <3>1, <3>2 DEF WP!Next, WP!Task, WP!Nested
  <2>3. CASE \E n \in List \ {main_workqueue} : WQ!NestedNextTask(n)
    <3>1. PICK n \in List \ {main_workqueue} : WQ!NestedNextTask(n)
      BY <2>3
    <3>2. /\ WQ!workqueue_popped(heap, n) = WP!workqueue_popped(heap, n)
          /\ WQ!workqueue_pop_task(heap, n) = WP!workqueue_pop_task(heap, n)
          /\ \A h, t : WQ!workqueue_add_task(h, main_workqueue, t)
                        = WP!workqueue_add_task(h, main_workqueue, t)
      BY <1>0, SameHeapOperators
    <3>3. WP!NestedNextTask(n)
      BY <3>1, <3>2 DEF WQ!NestedNextTask, WP!NestedNextTask
    <3>4. QED
      BY <3>1, <3>3 DEF WP!Next, WP!Nested
  <2>4. QED
    BY <1>2, <2>1, <2>2, <2>3 DEF QueueCall
<1>3. CASE ~ RunTask /\ ~ QueueCall
  BY <1>3
  DEF Next, LoopStep, DisableIrq, PollHandle, HandlerReturns, PollNone, WorkerReturns,
      PopNone, EnterSleep, WorkerCalls, WorkerSetsIrq, Interrupt, Call, softirq_raise,
      vars, loopVars
<1>4. QED
  BY <1>1, <1>2, <1>3

(***************************************************************************)
(* The queues keep their invariant under the main loop.                    *)
(***************************************************************************)
LEMMA QueueInvariance == Spec => []WP!Inv
<1>1. Init => WP!Init
  BY DEF Init, WQ!Init, WP!Init, WQ!Addr, WP!Addr, WQ!Nested, WP!Nested
<1>2. Init => WP!Inv
  BY <1>1, WP!InitInv, QueueAssumptions
<1>3. WP!Inv /\ [Next]_vars => WP!Inv'
  BY StepOfQueues, WP!NextStep, QueueAssumptions
<1>4. QED
  BY <1>2, <1>3, PTL DEF Spec

(***************************************************************************)
(* RunTask runs the head of the queue, which is a task.                    *)
(***************************************************************************)
LEMMA StartedTask ==
    ASSUME WP!Inv, RunTask
    PROVE  /\ running' = heap.next[main_workqueue]
           /\ running' \in Node
           /\ heap \in WP!Heap
           /\ heap' = WP!SetNext(WP!slist_pop_head_node(heap, main_workqueue),
                                running', NULL)
<1>0. main_workqueue \in List
  BY MainLoopAssumption
<1>1. heap \in WP!Heap /\ WP!Holds(heap, WP!Contents)
  BY DEF WP!Inv, WP!TypeOK
<1>2. ~ WP!slist_is_empty(heap, main_workqueue)
  BY <1>0, SameHeapOperators DEF RunTask, WQ!PopTask
<1>3. heap.next[main_workqueue] \in Node
  BY <1>0, <1>1, <1>2, WP!HoldsEnds, QueueAssumptions
<1>4. /\ running' = heap.next[main_workqueue]
      /\ heap' = WP!SetNext(WP!slist_pop_head_node(heap, main_workqueue),
                           heap.next[main_workqueue], NULL)
  BY <1>0, <1>2, SameHeapOperators
  DEF RunTask, WQ!PopTask, WP!workqueue_popped, WP!workqueue_pop_task,
      WP!slist_peek_head_node
<1>5. QED
  BY <1>1, <1>3, <1>4

(***************************************************************************)
(* A set of softirqs has a lowest one, which softirq_poll finds.           *)
(***************************************************************************)
LEMMA LowestSoftirq ==
    ASSUME NEW S \in SUBSET SoftirqId, S # {}
    PROVE  bit_array_find_first_one_bit(S) \in S
<1>1. \A x \in S : x \in 0 .. 7
  BY MainLoopAssumption
<1>2. \E x \in S : \A y \in S : x <= y
  <2>1. CASE 0 \in S
    BY <1>1, <2>1
  <2>2. CASE 1 \in S /\ S \cap {0} = {}
    BY <1>1, <2>2
  <2>3. CASE 2 \in S /\ S \cap 0 .. 1 = {}
    BY <1>1, <2>3
  <2>4. CASE 3 \in S /\ S \cap 0 .. 2 = {}
    BY <1>1, <2>4
  <2>5. CASE S \cap 0 .. 3 = {}
    <3>1. CASE 4 \in S
      BY <1>1, <2>5, <3>1
    <3>2. CASE 5 \in S /\ 4 \notin S
      BY <1>1, <2>5, <3>2
    <3>3. CASE 6 \in S /\ 4 \notin S /\ 5 \notin S
      BY <1>1, <2>5, <3>3
    <3>4. CASE 4 \notin S /\ 5 \notin S /\ 6 \notin S
      BY <1>1, <2>5, <3>4
    <3>5. QED
      BY <3>1, <3>2, <3>3, <3>4
  <2>6. QED
    BY <2>1, <2>2, <2>3, <2>4, <2>5
<1>3. Min(S) \in S
  BY <1>2 DEF Min
<1>4. Min(S) % 8 = Min(S)
  BY <1>1, <1>3
<1>5. QED
  BY <1>3, <1>4 DEF bit_array_find_first_one_bit, WordBits

(***************************************************************************)
(* The queues, the flag and the place in the loop keep their types: the    *)
(* worker that runs is a task, the handler that runs belongs to a softirq. *)
(***************************************************************************)
THEOREM LoopTypeCorrect == Spec => []TypeOK
<1>1. ASSUME WP!Inv
      PROVE  WQ!TypeOK
  BY <1>1
  DEF WP!Inv, WP!TypeOK, WQ!TypeOK, WP!Heap, WQ!Heap, WP!Addr, WQ!Addr,
      WP!Nested, WQ!Nested, WP!Task, WQ!Task
<1>2. ASSUME Init, WP!Inv
      PROVE  TypeOK
  BY <1>1, <1>2 DEF Init, TypeOK
<1>3. ASSUME TypeOK, WP!Inv, WP!Inv', [Next]_vars
      PROVE  TypeOK'
  <2>1. WQ!TypeOK'
    BY <1>1, <1>3
    DEF WP!Inv, WP!TypeOK, WQ!TypeOK, WP!Heap, WQ!Heap, WP!Addr, WQ!Addr,
        WP!Nested, WQ!Nested, WP!Task, WQ!Task
  <2>2. CASE PollHandle
    <3>1. bit_array_find_first_one_bit(softirq_priv_status) \in softirq_priv_status
      BY <1>3, <2>2, LowestSoftirq DEF PollHandle, TypeOK
    <3>2. QED
      BY <1>3, <2>1, <2>2, <3>1 DEF PollHandle, TypeOK
  <2>3. CASE RunTask
    BY <1>3, <2>1, <2>3, StartedTask DEF RunTask, TypeOK
  <2>4. CASE ~ PollHandle /\ ~ RunTask
    BY <1>3, <2>1, <2>4
    DEF TypeOK, Next, LoopStep, DisableIrq, HandlerReturns, PollNone, WorkerReturns,
        PopNone, EnterSleep, WorkerCalls, WorkerSetsIrq, Interrupt, Call, QueueCall,
        softirq_raise, vars, loopVars
  <2>5. QED
    BY <2>2, <2>3, <2>4
<1>4. TypeOK /\ WP!Inv /\ WP!Inv' /\ [Next]_vars => TypeOK'
  BY <1>3
<1>5. Init /\ WP!Inv => TypeOK
  BY <1>2
<1>6. QED
  BY <1>4, <1>5, QueueInvariance, PTL DEF Spec

(***************************************************************************)
(* The task that starts is no longer queued: its worker, and everything    *)
(* that interrupts it, can add it again.                                   *)
(***************************************************************************)
THEOREM StartedTaskIsFree == Spec => RunningTaskIsFree
<1>1. ASSUME WP!Inv, [Next]_vars, pc' = "worker", pc # "worker"
      PROVE  ~ WQ!workqueue_task_is_queued(heap', running')
  <2>1. RunTask
    BY <1>1
    DEF Next, LoopStep, DisableIrq, PollHandle, HandlerReturns, PollNone, WorkerReturns,
        PopNone, EnterSleep, WorkerCalls, WorkerSetsIrq, Interrupt, vars, loopVars
  <2>2. heap'.next[running'] = NULL
    BY <1>1, <2>1, StartedTask
    DEF WP!SetNext, WP!slist_pop_head_node, WP!Heap, WP!Addr
  <2>3. QED
    BY <2>2 DEF WQ!workqueue_task_is_queued
<1>2. WP!Inv /\ [Next]_vars
          => [pc' = "worker" /\ pc # "worker"
                  => ~ WQ!workqueue_task_is_queued(heap', running')]_vars
  BY <1>1
<1>3. QED
  BY <1>2, QueueInvariance, PTL DEF Spec, RunningTaskIsFree

-----------------------------------------------------------------------------
(* The widgets.                                                            *)
(*                                                                         *)
(* A tree of windows is a tree: every window knows its parent and is in    *)
(* its ring, once.                                                         *)

FrameParts == {Container, Contents, Resize} \cup Widget
AllWindows == {Root, Window} \cup FrameParts

IsLook(l) == l = [pressed |-> l.pressed, value |-> l.value] /\ l.pressed \in BOOLEAN

IsWindow(r) ==
    /\ r = [area |-> r.area, look |-> r.look, redrawParent |-> r.redrawParent,
            raiseOnPress |-> r.raiseOnPress, mapped |-> r.mapped, parent |-> r.parent,
            children |-> r.children]
    /\ r.area \in AreaType /\ IsLook(r.look)
    /\ r.children \in Seq(AllWindows)

\* What a window may lie in.
MayLieIn(w) ==
    CASE w = Root -> {Nothing}
      [] w = Container -> {Root}
      [] w \in {Contents, Resize} -> {Container}
      [] w \in Widget -> {Contents}
      [] w = Window -> {Root, Contents}

ChildrenOf(t, w) == {c \in DOMAIN t \ {Root} : t[c].parent = w}

Once(s) == \A i, j \in DOMAIN s : s[i] = s[j] => i = j

IsTree(t) == t = [w \in DOMAIN t |-> t[w]] /\ \A w \in DOMAIN t : IsWindow(t[w])

Shape(t) ==
    /\ IsTree(t) /\ Root \in DOMAIN t /\ DOMAIN t \subseteq AllWindows
    /\ \A w \in DOMAIN t :
        /\ t[w].parent \in MayLieIn(w) /\ (w # Root => t[w].parent \in DOMAIN t)
        /\ ToSet(t[w].children) = ChildrenOf(t, w) /\ Once(t[w].children)

\* All of the frame exists, or nothing of it.
FrameWhole(t) == FrameParts \subseteq DOMAIN t \/ FrameParts \cap DOMAIN t = {}

AreasFit(t) ==
    /\ \A w \in Widget \cap DOMAIN t : t[w].area = PlaceOf[w]
    /\ Container \in DOMAIN t =>
        /\ t[Contents].area.pos = Frames(Border)
        /\ t[Container].area.size = Plus(t[Contents].area.size, Frames(2 * Border))
        /\ t[Resize].area.pos = Minus(t[Container].area.size, HandleSize)
        /\ t[Resize].area.size = HandleSize
        /\ t[Contents].area.size = Most(t[Contents].area.size, MinSize)

\* A record with the fields of a gui.
IsGui(g) ==
    g = [tree |-> g.tree, screen |-> g.screen, grabber |-> g.grabber, frame |-> g.frame,
         origin |-> g.origin, saved |-> g.saved, last |-> g.last, sent |-> g.sent,
         rootPos |-> g.rootPos]

FrameStates == {"normal", "awaiting move", "awaiting resize", "moving", "resizing"}

\* What holds the pointer.
PressedParts(t) == {w \in DOMAIN t : t[w].look.pressed}
DraggedParts(g) ==
    {w \in DOMAIN g.tree \cap {Container, Resize} : g.frame \in {Awaiting(w), Dragging(w)}}

GuiShape(g) ==
    /\ IsGui(g) /\ Shape(g.tree) /\ FrameWhole(g.tree) /\ AreasFit(g.tree)
    /\ g.frame \in FrameStates /\ g.origin \in Vector
    /\ PressedParts(g.tree) \subseteq Widget

GuiInv(g) ==
    /\ GuiShape(g)
    /\ PressedParts(g.tree) \cup DraggedParts(g) = {g.grabber} \ {Nothing}

-----------------------------------------------------------------------------
(* The queue of events.                                                    *)

PointerType == [type : {"pointer"}, act : {"press", "move", "release"}, pos : Vector]
CommandType == [type : {"command"}, sender : Widget]

QueueType ==
    /\ ring \in Seq(PointerType \cup CommandType) /\ call \in Seq(Widget)
    /\ job \in Jobs /\ kind \in KindsOf
    /\ stylus \in Vector \cup {Nothing}
    /\ job # "idle" => ring # <<>>
    /\ IF job \in {"add task", "push"} THEN Len(call) = 1 ELSE call = <<>>

\* The commands that have not been dealt with, in the queue ...
Pending == {i \in DOMAIN ring : ring[i] \in CommandType /\ (i = 1 => job \in {"idle", "handle"})}

\* ... and on their way to it, come from widgets that exist.
CommandsLive ==
    /\ \A i \in Pending : ring[i].sender \in Live
    /\ call # <<>> => call[1] \in Live

\* The gui is whole at any time, and consistent with the pointer and the queue as
\* long as what the program does is defined.
UiInv ==
    /\ GuiShape(ui) /\ ui.sent = <<>> /\ QueueType
    /\ job # "undefined" => GuiInv(ui) /\ CommandsLive

-----------------------------------------------------------------------------
(* What an operation leaves alone.                                         *)

\* All but the tree and the screen.
Rest(g, h) ==
    /\ IsGui(h)
    /\ h.grabber = g.grabber /\ h.frame = g.frame /\ h.origin = g.origin
    /\ h.saved = g.saved /\ h.last = g.last
    /\ h.sent = g.sent /\ h.rootPos = g.rootPos

LEMMA ScreenSet ==
    ASSUME NEW g, IsGui(g), NEW x, NEW h, h = [g EXCEPT !.screen = x]
    PROVE  Rest(g, h) /\ h.tree = g.tree
BY DEF IsGui, Rest

LEMMA TreeSet ==
    ASSUME NEW g, IsGui(g), NEW t, NEW h, h = [g EXCEPT !.tree = t]
    PROVE  Rest(g, h) /\ h.tree = t
BY DEF IsGui, Rest

LEMMA RestTwice ==
    ASSUME NEW g, NEW h, NEW k, Rest(g, h), Rest(h, k)
    PROVE  Rest(g, k)
BY DEF Rest

LEMMA RedrawKeeps ==
    ASSUME NEW g, IsGui(g), NEW w, NEW h, h = win_redraw(g, w)
    PROVE  Rest(g, h) /\ h.tree = g.tree
<1>1. CASE Visible(g.tree, w)
  BY <1>1, ScreenSet DEF win_redraw
<1>2. CASE ~ Visible(g.tree, w)
  BY <1>2 DEF win_redraw, Rest, IsGui
<1>3. QED
  BY <1>1, <1>2

\* The same windows, with the same parents and children, areas, or looks.
SameLinks(t, u) ==
    /\ IsTree(u) /\ DOMAIN u = DOMAIN t
    /\ \A w \in DOMAIN t : u[w].parent = t[w].parent /\ u[w].children = t[w].children

SameAreas(t, u) == \A w \in DOMAIN t : u[w].area = t[w].area
SameLooks(t, u) == \A w \in DOMAIN t : u[w].look.pressed = t[w].look.pressed

SameWindows(t, u) == SameLinks(t, u) /\ SameAreas(t, u) /\ SameLooks(t, u)

LEMMA SameTwice ==
    ASSUME NEW t, NEW u, NEW v, SameWindows(t, u), SameWindows(u, v)
    PROVE  SameWindows(t, v)
BY DEF SameWindows, SameLinks, SameAreas, SameLooks

LEMMA SameSelf ==
    ASSUME NEW t, IsTree(t)
    PROVE  SameWindows(t, t)
BY DEF SameWindows, SameLinks, SameAreas, SameLooks

LEMMA LinksKeepShape ==
    ASSUME NEW t, NEW u, Shape(t), SameLinks(t, u)
    PROVE  Shape(u) /\ (FrameWhole(t) => FrameWhole(u))
<1>1. /\ DOMAIN u = DOMAIN t /\ IsTree(u)
      /\ \A w \in DOMAIN t : u[w].parent = t[w].parent /\ u[w].children = t[w].children
  BY DEF SameLinks
<1>2. ASSUME NEW w \in DOMAIN t
      PROVE  ChildrenOf(u, w) = ChildrenOf(t, w)
  BY <1>1 DEF ChildrenOf
<1>3. Shape(u)
  BY <1>1, <1>2 DEF Shape
<1>4. FrameWhole(t) => FrameWhole(u)
  BY <1>1 DEF FrameWhole
<1>5. QED
  BY <1>3, <1>4

LEMMA AreasKeepFit ==
    ASSUME NEW t, NEW u, DOMAIN u = DOMAIN t, SameAreas(t, u), FrameWhole(t), AreasFit(t)
    PROVE  AreasFit(u)
BY DEF SameAreas, FrameWhole, AreasFit, FrameParts

LEMMA LooksKeepPressed ==
    ASSUME NEW t, NEW u, DOMAIN u = DOMAIN t, SameLooks(t, u)
    PROVE  PressedParts(u) = PressedParts(t)
BY DEF SameLooks, PressedParts

\* A window with one attribute changed is a window.
LEMMA AttributeSet ==
    ASSUME NEW r, IsWindow(r), NEW x
    PROVE  /\ IsWindow([r EXCEPT !.mapped = x])
           /\ \A a \in AreaType : IsWindow([r EXCEPT !.area = a])
           /\ \A l : IsLook(l) => IsWindow([r EXCEPT !.look = l])
           /\ \A c \in Seq(AllWindows) : IsWindow([r EXCEPT !.children = c])
           /\ IsWindow([r EXCEPT !.parent = x])
<1>1. IsWindow([r EXCEPT !.mapped = x]) /\ IsWindow([r EXCEPT !.parent = x])
  BY DEF IsWindow
<1>2. ASSUME NEW a \in AreaType PROVE IsWindow([r EXCEPT !.area = a])
  BY <1>2 DEF IsWindow
<1>3. ASSUME NEW l, IsLook(l) PROVE IsWindow([r EXCEPT !.look = l])
  BY <1>3 DEF IsWindow
<1>4. ASSUME NEW c \in Seq(AllWindows) PROVE IsWindow([r EXCEPT !.children = c])
  BY SMTT(60), <1>4 DEF IsWindow
<1>5. QED
  BY <1>1, <1>2, <1>3, <1>4

LEMMA MappedSet ==
    ASSUME NEW t, IsTree(t), NEW w \in DOMAIN t, NEW x,
           NEW u, u = [t EXCEPT ![w].mapped = x]
    PROVE  SameWindows(t, u)
<1>1. PICK r : r = [t[w] EXCEPT !.mapped = x]
  OBVIOUS
<1>2. IsWindow(t[w])
  BY DEF IsTree
<1>3. IsWindow(r)
  BY <1>1, <1>2, AttributeSet
<1>4. /\ r.area = t[w].area /\ r.look = t[w].look
      /\ r.parent = t[w].parent /\ r.children = t[w].children
  BY <1>1, <1>2 DEF IsWindow
<1>5. u = [t EXCEPT ![w] = r]
  BY <1>1
<1>6. IsTree(u)
  BY <1>3, <1>5 DEF IsTree
<1>7. /\ DOMAIN u = DOMAIN t /\ u[w] = r
      /\ \A y \in DOMAIN t \ {w} : u[y] = t[y]
  BY <1>5
<1>8. QED
  BY <1>4, <1>6, <1>7 DEF SameWindows, SameLinks, SameAreas, SameLooks

\* Showing and hiding.
LEMMA ShowKeeps ==
    ASSUME NEW g, IsGui(g), IsTree(g.tree), NEW w \in DOMAIN g.tree,
           NEW h, h = win_show(g, w)
    PROVE  Rest(g, h) /\ SameWindows(g.tree, h.tree)
<1>1. CASE g.tree[w].mapped
  BY <1>1, SameSelf DEF win_show, Rest, IsGui
<1>2. CASE ~ g.tree[w].mapped
  <2> DEFINE t == [g.tree EXCEPT ![w].mapped = TRUE]
             k == [g EXCEPT !.tree[w].mapped = TRUE]
  <2>1. k = [g EXCEPT !.tree = t]
    OBVIOUS
  <2>2. SameWindows(g.tree, t)
    BY MappedSet
  <2>3. h = win_redraw(k, w)
    BY <1>2 DEF win_show
  <2> HIDE DEF t, k
  <2>4. Rest(g, k) /\ k.tree = t
    BY <2>1, TreeSet
  <2>5. Rest(k, h) /\ h.tree = t
    BY <2>3, <2>4, RedrawKeeps DEF Rest
  <2>6. QED
    BY <2>2, <2>4, <2>5, RestTwice
<1>3. QED
  BY <1>1, <1>2

LEMMA HideKeeps ==
    ASSUME NEW g, IsGui(g), IsTree(g.tree), NEW w \in DOMAIN g.tree,
           NEW h, h = win_hide(g, w)
    PROVE  Rest(g, h) /\ SameWindows(g.tree, h.tree)
<1> DEFINE t == [g.tree EXCEPT ![w].mapped = FALSE]
           k == [g EXCEPT !.tree[w].mapped = FALSE]
<1>1. k = [g EXCEPT !.tree = t]
  OBVIOUS
<1>2. SameWindows(g.tree, t)
  BY MappedSet
<1>3. \/ h = g \/ h = k
      \/ \E x : h = [k EXCEPT !.screen = x]
  BY DEF win_hide
<1> HIDE DEF t, k
<1>4. Rest(g, k) /\ k.tree = t
  BY <1>1, TreeSet
<1>5. CASE h = g
  BY <1>5, SameSelf DEF Rest, IsGui
<1>6. CASE h = k
  BY <1>2, <1>4, <1>6
<1>7. CASE \E x : h = [k EXCEPT !.screen = x]
  <2>1. Rest(k, h) /\ h.tree = k.tree
    BY <1>4, <1>7, ScreenSet DEF Rest
  <2>2. QED
    BY <1>2, <1>4, <2>1, RestTwice
<1>8. QED
  BY <1>3, <1>5, <1>6, <1>7

\* Placing.
PlacedAt(t, u, w, a) ==
    /\ SameLinks(t, u) /\ SameLooks(t, u)
    /\ u[w].area = a /\ \A x \in DOMAIN t \ {w} : u[x].area = t[x].area

LEMMA AreaSet ==
    ASSUME NEW t, IsTree(t), NEW w \in DOMAIN t, NEW a \in AreaType,
           NEW u, u = [t EXCEPT ![w].area = a]
    PROVE  PlacedAt(t, u, w, a)
<1>1. PICK r : r = [t[w] EXCEPT !.area = a]
  OBVIOUS
<1>2. IsWindow(t[w])
  BY DEF IsTree
<1>3. IsWindow(r)
  BY <1>1, <1>2, AttributeSet
<1>4. /\ r.area = a /\ r.look = t[w].look
      /\ r.parent = t[w].parent /\ r.children = t[w].children
  BY <1>1, <1>2 DEF IsWindow
<1>5. u = [t EXCEPT ![w] = r]
  BY <1>1
<1>6. IsTree(u)
  BY <1>3, <1>5 DEF IsTree
<1>7. /\ DOMAIN u = DOMAIN t /\ u[w] = r
      /\ \A y \in DOMAIN t \ {w} : u[y] = t[y]
  BY <1>5
<1>8. QED
  BY <1>4, <1>6, <1>7 DEF PlacedAt, SameLinks, SameLooks

LEMMA SetAreaPlaces ==
    ASSUME NEW g, IsGui(g), IsTree(g.tree), NEW w \in DOMAIN g.tree,
           NEW area \in AreaType, NEW changes, NEW h, h = win_set_area(g, w, area, changes),
           NEW a, a = [pos |-> IF "position" \in changes THEN area.pos ELSE g.tree[w].area.pos,
                       size |-> IF "size" \in changes THEN area.size ELSE g.tree[w].area.size]
    PROVE  Rest(g, h) /\ PlacedAt(g.tree, h.tree, w, a)
<1>1. PICK t : t = [g.tree EXCEPT ![w].area = a]
  OBVIOUS
<1>2. PICK k : k = [g EXCEPT !.tree = t]
  OBVIOUS
<1>3. a \in AreaType
  <2>1. g.tree[w].area \in AreaType
    BY DEF IsTree, IsWindow
  <2>2. QED
    BY <2>1 DEF AreaType
<1>4. PlacedAt(g.tree, t, w, a)
  BY <1>1, <1>3, AreaSet
<1>5. Rest(g, k) /\ k.tree = t
  BY SMTT(60), <1>2, TreeSet
<1>6. h = k \/ \E x : h = [k EXCEPT !.screen = x]
  BY ZenonT(60), <1>1, <1>2 DEF win_set_area
<1>7. CASE h = k
  BY <1>4, <1>5, <1>7
<1>8. CASE \E x : h = [k EXCEPT !.screen = x]
  <2>1. Rest(k, h) /\ h.tree = k.tree
    BY <1>5, <1>8, ScreenSet DEF Rest
  <2>2. QED
    BY <1>4, <1>5, <2>1, RestTwice
<1>9. QED
  BY <1>6, <1>7, <1>8

\* Pressing and letting go.
LooksPressed(t, u, w, p) ==
    /\ SameLinks(t, u) /\ SameAreas(t, u)
    /\ u[w].look.pressed = p /\ \A x \in DOMAIN t \ {w} : u[x].look.pressed = t[x].look.pressed

LEMMA LookSet ==
    ASSUME NEW t, IsTree(t), NEW w \in DOMAIN t, NEW l, IsLook(l),
           NEW u, u = [t EXCEPT ![w].look = l]
    PROVE  LooksPressed(t, u, w, l.pressed)
<1>1. PICK r : r = [t[w] EXCEPT !.look = l]
  OBVIOUS
<1>2. IsWindow(t[w])
  BY DEF IsTree
<1>3. IsWindow(r)
  BY <1>1, <1>2, AttributeSet
<1>4. /\ r.area = t[w].area /\ r.look = l
      /\ r.parent = t[w].parent /\ r.children = t[w].children
  BY <1>1, <1>2 DEF IsWindow
<1>5. u = [t EXCEPT ![w] = r]
  BY <1>1
<1>6. IsTree(u)
  BY <1>3, <1>5 DEF IsTree
<1>7. /\ DOMAIN u = DOMAIN t /\ u[w] = r
      /\ \A y \in DOMAIN t \ {w} : u[y] = t[y]
  BY <1>5
<1>8. QED
  BY <1>4, <1>6, <1>7 DEF LooksPressed, SameLinks, SameAreas

LEMMA PressedSet ==
    ASSUME NEW t, IsTree(t), NEW w \in DOMAIN t, NEW p \in BOOLEAN,
           NEW u, u = [t EXCEPT ![w].look.pressed = p]
    PROVE  LooksPressed(t, u, w, p)
<1>1. PICK l : l = [t[w].look EXCEPT !.pressed = p]
  OBVIOUS
<1>2. IsLook(t[w].look)
  BY DEF IsTree, IsWindow
<1>3. IsLook(l) /\ l.pressed = p
  BY <1>1, <1>2 DEF IsLook
<1>4. u = [t EXCEPT ![w].look = l]
  BY <1>1
<1>5. QED
  BY <1>3, <1>4, LookSet

LEMMA ValueSet ==
    ASSUME NEW t, IsTree(t), NEW w \in DOMAIN t, NEW v,
           NEW u, u = [t EXCEPT ![w].look.value = v]
    PROVE  SameWindows(t, u)
<1>1. PICK l : l = [t[w].look EXCEPT !.value = v]
  OBVIOUS
<1>2. IsLook(t[w].look)
  BY DEF IsTree, IsWindow
<1>3. IsLook(l) /\ l.pressed = t[w].look.pressed
  BY <1>1, <1>2 DEF IsLook
<1>4. u = [t EXCEPT ![w].look = l]
  BY <1>1
<1>5. LooksPressed(t, u, w, l.pressed)
  BY <1>3, <1>4, LookSet
<1>6. QED
  BY <1>3, <1>5 DEF LooksPressed, SameWindows, SameLooks

-----------------------------------------------------------------------------
(* The rings of siblings.                                                  *)

LEMMA SequenceDomain ==
    ASSUME NEW S, NEW s \in Seq(S)
    PROVE  \E n \in Nat : n = Len(s) /\ DOMAIN s = 1 .. n /\ \A i \in 1 .. n : s[i] \in S
BY LenProperties, ElementOfSeq

LEMMA WithoutLeaves ==
    ASSUME NEW S, NEW s \in Seq(S), Once(s), NEW w \in ToSet(s)
    PROVE  /\ Without(s, w) \in Seq(S) /\ Once(Without(s, w))
           /\ ToSet(Without(s, w)) = ToSet(s) \ {w}
<1>1. PICK i \in DOMAIN s : s[i] = w
  BY DEF ToSet
<1>2. i = Position(s, w)
  BY <1>1 DEF Position, Once
<1>3. PICK n \in Nat : n = Len(s) /\ DOMAIN s = 1 .. n /\ \A j \in 1 .. n : s[j] \in S
  BY SequenceDomain
<1>i. i \in 1 .. n
  BY <1>1, <1>3
<1>once. \A j, k \in 1 .. n : s[j] = s[k] => j = k
  BY <1>3 DEF Once
<1>4. PICK a : a = SubSeq(s, 1, i - 1)
  OBVIOUS
<1>5. PICK b : b = SubSeq(s, i + 1, n)
  OBVIOUS
<1>6. /\ a \in Seq(S) /\ Len(a) = i - 1
      /\ \A j \in 1 .. i - 1 : a[j] = s[j]
  <2>1. \A j \in 1 .. i - 1 : s[j] \in S
    BY <1>i, <1>3
  <2>2. 1 \in Int /\ i - 1 \in Int
    BY <1>i
  <2>3. /\ a \in Seq(S) /\ Len(a) = IF 1 <= i - 1 THEN i - 1 - 1 + 1 ELSE 0
        /\ \A j \in 1 .. i - 1 - 1 + 1 : a[j] = s[1 + j - 1]
    BY <1>4, <2>1, <2>2, SubSeqProperties
  <2>4. QED
    BY <1>i, <2>3
<1>7. /\ b \in Seq(S) /\ Len(b) = n - i
      /\ \A j \in 1 .. n - i : b[j] = s[i + j]
  <2>1. \A j \in i + 1 .. n : s[j] \in S
    BY <1>i, <1>3
  <2>2. i + 1 \in Int /\ n \in Int
    BY <1>i
  <2>3. /\ b \in Seq(S) /\ Len(b) = IF i + 1 <= n THEN n - (i + 1) + 1 ELSE 0
        /\ \A j \in 1 .. n - (i + 1) + 1 : b[j] = s[i + 1 + j - 1]
    BY SMTT(60), <1>5, <2>1, <2>2, SubSeqProperties
  <2>4. QED
    BY <1>i, <2>3
<1>8. PICK c : c = a \o b
  OBVIOUS
<1>9. Without(s, w) = c
  BY <1>2, <1>3, <1>4, <1>5, <1>8 DEF Without, RemoveAt
<1>10. /\ c \in Seq(S) /\ DOMAIN c = 1 .. n - 1
       /\ \A j \in 1 .. n - 1 : c[j] = IF j < i THEN s[j] ELSE s[j + 1]
  <2>1. /\ c \in Seq(S) /\ Len(c) = Len(a) + Len(b)
        /\ \A j \in 1 .. Len(a) + Len(b) : c[j] = IF j <= Len(a) THEN a[j] ELSE b[j - Len(a)]
    BY <1>6, <1>7, <1>8, ConcatProperties
  <2>2. Len(c) = n - 1 /\ Len(a) + Len(b) = n - 1
    BY SMTT(60), <1>6, <1>7, <1>i, <2>1
  <2>3. ASSUME NEW j \in 1 .. n - 1
        PROVE  c[j] = IF j < i THEN s[j] ELSE s[j + 1]
    <3>1. c[j] = IF j <= i - 1 THEN a[j] ELSE b[j - (i - 1)]
      BY <1>6, <2>1, <2>2
    <3>2. CASE j < i
      BY <1>i, <1>6, <3>1, <3>2
    <3>3. CASE j >= i
      <4>1. j - (i - 1) \in 1 .. n - i /\ i + (j - (i - 1)) = j + 1
        BY <1>i, <3>3
      <4>2. b[j - (i - 1)] = s[j + 1]
        BY <1>7, <4>1
      <4>3. QED
        BY <1>i, <3>1, <3>3, <4>2
    <3>4. QED
      BY <1>i, <3>2, <3>3
  <2>4. QED
    BY <2>1, <2>2, <2>3, LenProperties
<1>11. Once(c)
  <2>1. ASSUME NEW j \in 1 .. n - 1, NEW k \in 1 .. n - 1, c[j] = c[k] PROVE j = k
    <3>1. PICK l \in 1 .. n : c[j] = s[l] /\ l = IF j < i THEN j ELSE j + 1
      BY <1>10, <1>i
    <3>2. PICK m \in 1 .. n : c[k] = s[m] /\ m = IF k < i THEN k ELSE k + 1
      BY <1>10, <1>i
    <3>3. l = m
      BY <1>once, <2>1, <3>1, <3>2
    <3>4. QED
      BY <1>i, <3>1, <3>2, <3>3
  <2>2. QED
    BY <1>10, <2>1 DEF Once
<1>12. ToSet(c) = ToSet(s) \ {w}
  <2>1. ASSUME NEW j \in 1 .. n - 1 PROVE c[j] \in ToSet(s) \ {w}
    <3>1. PICK l \in 1 .. n : c[j] = s[l] /\ l = IF j < i THEN j ELSE j + 1
      BY SMTT(60), <1>10, <1>i
    <3>2. l # i
      BY <1>i, <3>1
    <3>3. QED
      BY <1>1, <1>3, <1>i, <1>once, <3>1, <3>2 DEF ToSet
  <2>2. ASSUME NEW x \in ToSet(s) \ {w} PROVE \E j \in 1 .. n - 1 : c[j] = x
    <3>1. PICK k \in 1 .. n : s[k] = x
      BY <1>3 DEF ToSet
    <3>2. k # i
      BY <1>1, <3>1
    <3>3. CASE k < i
      BY <1>i, <1>10, <3>1, <3>3
    <3>4. CASE k > i
      <4>1. k - 1 \in 1 .. n - 1 /\ ~ (k - 1 < i) /\ (k - 1) + 1 = k
        BY <1>i, <3>4
      <4>2. c[k - 1] = s[k]
        BY <1>10, <4>1
      <4>3. QED
        BY <3>1, <4>1, <4>2
    <3>5. QED
      BY <1>i, <3>2, <3>3, <3>4
  <2>3. ASSUME NEW x \in ToSet(c) PROVE x \in ToSet(s) \ {w}
    <3>1. PICK j \in 1 .. n - 1 : c[j] = x
      BY <1>10 DEF ToSet
    <3>2. QED
      BY <2>1, <3>1
  <2>4. ASSUME NEW x \in ToSet(s) \ {w} PROVE x \in ToSet(c)
    <3>1. PICK j \in 1 .. n - 1 : c[j] = x
      BY <2>2
    <3>2. QED
      BY <1>10, <3>1 DEF ToSet
  <2>5. QED
    BY <2>3, <2>4
<1>13. QED
  BY <1>9, <1>10, <1>11, <1>12

LEMMA OnTop ==
    ASSUME NEW S, NEW s \in Seq(S), Once(s), NEW w \in S, w \notin ToSet(s)
    PROVE  /\ <<w>> \o s \in Seq(S) /\ Once(<<w>> \o s)
           /\ ToSet(<<w>> \o s) = ToSet(s) \cup {w}
<1>1. PICK n \in Nat : n = Len(s) /\ DOMAIN s = 1 .. n /\ \A j \in 1 .. n : s[j] \in S
  BY SequenceDomain
<1>2. PICK h : h = <<w>>
  OBVIOUS
<1>3. h \in Seq(S) /\ Len(h) = 1 /\ h[1] = w
  BY <1>2
<1>4. PICK c : c = h \o s
  OBVIOUS
<1>5. /\ c \in Seq(S) /\ DOMAIN c = 1 .. n + 1
      /\ \A j \in 1 .. n + 1 : c[j] = IF j = 1 THEN w ELSE s[j - 1]
  <2>0. /\ c \in Seq(S) /\ Len(c) = Len(h) + Len(s)
        /\ \A j \in 1 .. Len(h) + Len(s) : c[j] = IF j <= Len(h) THEN h[j] ELSE s[j - Len(h)]
    BY <1>3, <1>4, ConcatProperties
  <2>1. /\ c \in Seq(S) /\ Len(c) = 1 + n
        /\ \A j \in 1 .. 1 + n : c[j] = IF j <= 1 THEN h[j] ELSE s[j - 1]
    BY <1>1, <1>3, <2>0
  <2>2. QED
    BY <1>1, <1>3, <2>1, LenProperties
<1>once. \A j, k \in 1 .. n : s[j] = s[k] => j = k
  BY <1>1 DEF Once
<1>new. \A j \in 1 .. n : s[j] # w
  BY <1>1 DEF ToSet
<1>6. Once(c)
  <2>1. ASSUME NEW j \in 1 .. n + 1, NEW k \in 1 .. n + 1, c[j] = c[k] PROVE j = k
    <3>1. \A l \in 1 .. n + 1 : l # 1 => l - 1 \in 1 .. n /\ c[l] = s[l - 1] /\ c[l] # w
      BY <1>5, <1>new
    <3>2. c[1] = w
      BY <1>5
    <3>3. CASE j = 1 \/ k = 1
      BY <2>1, <3>1, <3>2, <3>3
    <3>4. CASE j # 1 /\ k # 1
      <4>1. j - 1 \in 1 .. n /\ k - 1 \in 1 .. n /\ s[j - 1] = s[k - 1]
        BY <2>1, <3>1, <3>4
      <4>2. j - 1 = k - 1
        BY <1>once, <4>1
      <4>3. QED
        BY <4>2
    <3>5. QED
      BY <3>3, <3>4
  <2>2. QED
    BY <1>5, <2>1 DEF Once
<1>7. ToSet(c) = ToSet(s) \cup {w}
  <2>1. \A j \in 1 .. n + 1 : c[j] = w \/ \E k \in 1 .. n : c[j] = s[k]
    BY <1>5
  <2>2. \A k \in 1 .. n : k + 1 \in 1 .. n + 1 /\ c[k + 1] = s[k]
    BY <1>5
  <2>3. 1 \in 1 .. n + 1 /\ c[1] = w
    BY <1>5
  <2>4. ASSUME NEW x \in ToSet(c) PROVE x \in ToSet(s) \cup {w}
    <3>1. PICK j \in 1 .. n + 1 : c[j] = x
      BY <1>5 DEF ToSet
    <3>2. QED
      BY <1>1, <2>1, <3>1 DEF ToSet
  <2>5. ASSUME NEW x \in ToSet(s) PROVE x \in ToSet(c)
    BY <1>1, <1>5, <2>2 DEF ToSet
  <2>6. w \in ToSet(c)
    BY <1>5, <2>3 DEF ToSet
  <2>7. QED
    BY <2>4, <2>5, <2>6
<1>8. QED
  BY <1>2, <1>4, <1>5, <1>6, <1>7

LEMMA AtTheEnd ==
    ASSUME NEW S, NEW s \in Seq(S), Once(s), NEW w \in S, w \notin ToSet(s)
    PROVE  /\ Append(s, w) \in Seq(S) /\ Once(Append(s, w))
           /\ ToSet(Append(s, w)) = ToSet(s) \cup {w}
<1>1. PICK n \in Nat : n = Len(s) /\ DOMAIN s = 1 .. n /\ \A j \in 1 .. n : s[j] \in S
  BY SequenceDomain
<1>2. PICK c : c = Append(s, w)
  OBVIOUS
<1>3. /\ c \in Seq(S) /\ DOMAIN c = 1 .. n + 1 /\ c[n + 1] = w
      /\ \A j \in 1 .. n : c[j] = s[j]
  BY <1>1, <1>2, AppendProperties
<1>4. \A j, k \in 1 .. n : s[j] = s[k] => j = k
  BY <1>1 DEF Once
<1>5. \A j \in 1 .. n : s[j] # w
  BY <1>1 DEF ToSet
<1>6. Once(c)
  BY <1>3, <1>4, <1>5 DEF Once
<1>7. ToSet(c) = ToSet(s) \cup {w}
  <2>1. ASSUME NEW x \in ToSet(c) PROVE x \in ToSet(s) \cup {w}
    BY <1>1, <1>3 DEF ToSet
  <2>2. ASSUME NEW x \in ToSet(s) PROVE x \in ToSet(c)
    BY <1>1, <1>3 DEF ToSet
  <2>3. w \in ToSet(c)
    BY <1>3 DEF ToSet
  <2>4. QED
    BY <2>1, <2>2, <2>3
<1>8. QED
  BY <1>2, <1>3, <1>6, <1>7

\* A window with another ring of children, and one with another parent.
WithChildren(t, w, c) == [t EXCEPT ![w].children = c]
WithParent(t, w, p) == [t EXCEPT ![w].parent = p]

LEMMA ChildrenSet ==
    ASSUME NEW t, IsTree(t), NEW w \in DOMAIN t, NEW c \in Seq(AllWindows),
           NEW u, u = WithChildren(t, w, c)
    PROVE  /\ IsTree(u) /\ DOMAIN u = DOMAIN t /\ SameAreas(t, u) /\ SameLooks(t, u)
           /\ \A x \in DOMAIN t : u[x].parent = t[x].parent
           /\ u[w].children = c /\ \A x \in DOMAIN t \ {w} : u[x].children = t[x].children
<1>1. PICK r : r = [t[w] EXCEPT !.children = c]
  OBVIOUS
<1>2. IsWindow(t[w])
  BY DEF IsTree
<1>3. IsWindow(r)
  BY <1>1, <1>2, AttributeSet
<1>4. /\ r.area = t[w].area /\ r.look = t[w].look
      /\ r.parent = t[w].parent /\ r.children = c
  BY <1>1, <1>2 DEF IsWindow
<1>5. u = [t EXCEPT ![w] = r]
  BY <1>1 DEF WithChildren
<1>6. IsTree(u)
  BY <1>3, <1>5 DEF IsTree
<1>7. /\ DOMAIN u = DOMAIN t /\ u[w] = r
      /\ \A y \in DOMAIN t \ {w} : u[y] = t[y]
  BY <1>5
<1>8. QED
  BY <1>4, <1>6, <1>7 DEF SameAreas, SameLooks

LEMMA ParentSet ==
    ASSUME NEW t, IsTree(t), NEW w \in DOMAIN t, NEW p,
           NEW u, u = WithParent(t, w, p)
    PROVE  /\ IsTree(u) /\ DOMAIN u = DOMAIN t /\ SameAreas(t, u) /\ SameLooks(t, u)
           /\ \A x \in DOMAIN t : u[x].children = t[x].children
           /\ u[w].parent = p /\ \A x \in DOMAIN t \ {w} : u[x].parent = t[x].parent
<1>1. PICK r : r = [t[w] EXCEPT !.parent = p]
  OBVIOUS
<1>2. IsWindow(t[w])
  BY DEF IsTree
<1>3. IsWindow(r)
  BY <1>1, <1>2, AttributeSet
<1>4. /\ r.area = t[w].area /\ r.look = t[w].look
      /\ r.parent = p /\ r.children = t[w].children
  BY <1>1, <1>2 DEF IsWindow
<1>5. u = [t EXCEPT ![w] = r]
  BY <1>1 DEF WithParent
<1>6. IsTree(u)
  BY <1>3, <1>5 DEF IsTree
<1>7. /\ DOMAIN u = DOMAIN t /\ u[w] = r
      /\ \A y \in DOMAIN t \ {w} : u[y] = t[y]
  BY <1>5
<1>8. QED
  BY <1>4, <1>6, <1>7 DEF SameAreas, SameLooks

-----------------------------------------------------------------------------
(* Moving windows about in the tree.                                       *)

\* The same windows, perhaps with other parents or in another order.
SameParts(t, u) == DOMAIN u = DOMAIN t /\ SameAreas(t, u) /\ SameLooks(t, u)

LEMMA PartsTwice ==
    ASSUME NEW t, NEW u, NEW v, SameParts(t, u), SameParts(u, v)
    PROVE  SameParts(t, v)
BY DEF SameParts, SameAreas, SameLooks

LEMMA SameIsParts ==
    ASSUME NEW t, NEW u, SameWindows(t, u)
    PROVE  SameParts(t, u)
BY DEF SameWindows, SameLinks, SameParts

\* The window w is in no ring, and what its parent is does not matter.
Loose(t, w) ==
    /\ IsTree(t) /\ Root \in DOMAIN t /\ DOMAIN t \subseteq AllWindows
    /\ w \in DOMAIN t \ {Root}
    /\ \A x \in DOMAIN t :
        /\ x # w => t[x].parent \in MayLieIn(x) /\ (x # Root => t[x].parent \in DOMAIN t)
        /\ ToSet(t[x].children) = ChildrenOf(t, x) \ {w} /\ Once(t[x].children)

LEMMA UnlinkLoosens ==
    ASSUME NEW t, Shape(t), NEW w \in DOMAIN t \ {Root}, NEW u, u = win_unlink(t, w)
    PROVE  /\ Loose(u, w) /\ SameParts(t, u)
           /\ \A x \in DOMAIN t : u[x].parent = t[x].parent
<1>1. IsTree(t) /\ Root \in DOMAIN t /\ DOMAIN t \subseteq AllWindows
  BY DEF Shape
<1>2. PICK q : q = t[w].parent
  OBVIOUS
<1>3. /\ q \in DOMAIN t /\ w \in ToSet(t[q].children)
      /\ ToSet(t[q].children) = ChildrenOf(t, q) /\ Once(t[q].children)
  BY <1>2 DEF Shape, ChildrenOf
<1>4. t[q].children \in Seq(AllWindows)
  BY <1>1, <1>3 DEF IsTree, IsWindow
<1>5. PICK c : c = Without(t[q].children, w)
  OBVIOUS
<1>6. c \in Seq(AllWindows) /\ Once(c) /\ ToSet(c) = ChildrenOf(t, q) \ {w}
  BY <1>3, <1>4, <1>5, WithoutLeaves
<1>7. u = WithChildren(t, q, c)
  BY <1>2, <1>5 DEF win_unlink, WithChildren
<1>8. /\ IsTree(u) /\ DOMAIN u = DOMAIN t /\ SameAreas(t, u) /\ SameLooks(t, u)
      /\ \A x \in DOMAIN t : u[x].parent = t[x].parent
      /\ u[q].children = c /\ \A x \in DOMAIN t \ {q} : u[x].children = t[x].children
  <2>1. IsTree(t) /\ q \in DOMAIN t /\ c \in Seq(AllWindows)
    BY <1>1, <1>3, <1>6
  <2>2. QED
    BY SMTT(60), <1>7, <2>1, ChildrenSet
<1>9. \A x : ChildrenOf(u, x) = ChildrenOf(t, x)
  BY <1>8 DEF ChildrenOf
<1>10. ASSUME NEW x \in DOMAIN t
       PROVE  /\ x # w => u[x].parent \in MayLieIn(x) /\ (x # Root => u[x].parent \in DOMAIN t)
              /\ ToSet(u[x].children) = ChildrenOf(u, x) \ {w} /\ Once(u[x].children)
  <2>1. x # w => u[x].parent \in MayLieIn(x) /\ (x # Root => u[x].parent \in DOMAIN t)
    BY <1>8 DEF Shape
  <2>2. CASE x = q
    BY <1>6, <1>8, <1>9, <2>1, <2>2
  <2>3. CASE x # q
    <3>1. w \notin ChildrenOf(t, x)
      BY <1>2, <2>3 DEF ChildrenOf
    <3>2. ToSet(t[x].children) = ChildrenOf(t, x) /\ Once(t[x].children)
      BY DEF Shape
    <3>3. QED
      BY <1>8, <1>9, <2>1, <2>3, <3>1, <3>2
  <2>4. QED
    BY <2>2, <2>3
<1>11. QED
  BY <1>1, <1>8, <1>10 DEF Loose, SameParts

LEMMA AddTies ==
    ASSUME NEW t, NEW w, Loose(t, w), NEW p \in DOMAIN t, p \in MayLieIn(w),
           NEW u, u = win_add_top_child(t, p, w)
    PROVE  /\ Shape(u) /\ SameParts(t, u)
           /\ u[w].parent = p /\ \A x \in DOMAIN t \ {w} : u[x].parent = t[x].parent
<1>1. IsTree(t) /\ Root \in DOMAIN t /\ DOMAIN t \subseteq AllWindows /\ w \in DOMAIN t \ {Root}
  BY DEF Loose
<1>2. t[p].children \in Seq(AllWindows)
  BY <1>1 DEF IsTree, IsWindow
<1>3. ToSet(t[p].children) = ChildrenOf(t, p) \ {w} /\ Once(t[p].children)
  BY DEF Loose
<1>4. PICK c : c = <<w>> \o t[p].children
  OBVIOUS
<1>5. w \in AllWindows
  BY <1>1
<1>6. c \in Seq(AllWindows) /\ Once(c) /\ ToSet(c) = ChildrenOf(t, p) \cup {w}
  BY <1>2, <1>3, <1>4, <1>5, OnTop
<1>7. PICK v : v = WithChildren(t, p, c)
  OBVIOUS
<1>8. u = WithParent(v, w, p)
  BY <1>4, <1>7 DEF win_add_top_child, WithChildren, WithParent
<1>9. /\ IsTree(v) /\ DOMAIN v = DOMAIN t /\ SameAreas(t, v) /\ SameLooks(t, v)
      /\ \A x \in DOMAIN t : v[x].parent = t[x].parent
      /\ v[p].children = c /\ \A x \in DOMAIN t \ {p} : v[x].children = t[x].children
  <2>1. IsTree(t) /\ c \in Seq(AllWindows)
    BY <1>1, <1>6
  <2>2. QED
    BY <1>7, <2>1, ChildrenSet
<1>w. w \in DOMAIN v
  BY <1>1, <1>9
<1>10. /\ IsTree(u) /\ DOMAIN u = DOMAIN v /\ SameAreas(v, u) /\ SameLooks(v, u)
       /\ \A x \in DOMAIN v : u[x].children = v[x].children
       /\ u[w].parent = p /\ \A x \in DOMAIN v \ {w} : u[x].parent = v[x].parent
  BY <1>8, <1>9, <1>w, ParentSet
<1>11. SameParts(t, u)
  BY <1>9, <1>10 DEF SameParts, SameAreas, SameLooks
<1>12. ChildrenOf(u, p) = ChildrenOf(t, p) \cup {w}
  BY <1>1, <1>9, <1>10 DEF ChildrenOf
<1>13. \A x : x # p => ChildrenOf(u, x) = ChildrenOf(t, x) \ {w}
  BY <1>1, <1>9, <1>10 DEF ChildrenOf
<1>14. ASSUME NEW x \in DOMAIN t
       PROVE  /\ u[x].parent \in MayLieIn(x) /\ (x # Root => u[x].parent \in DOMAIN t)
              /\ ToSet(u[x].children) = ChildrenOf(u, x) /\ Once(u[x].children)
  <2>1. u[x].parent \in MayLieIn(x) /\ (x # Root => u[x].parent \in DOMAIN t)
    BY <1>1, <1>9, <1>10 DEF Loose
  <2>2. CASE x = p
    BY <1>6, <1>9, <1>10, <1>12, <2>1, <2>2
  <2>3. CASE x # p
    <3>1. ToSet(t[x].children) = ChildrenOf(t, x) \ {w} /\ Once(t[x].children)
      BY DEF Loose
    <3>2. QED
      BY <1>9, <1>10, <1>13, <2>1, <2>3, <3>1
  <2>4. QED
    BY <2>2, <2>3
<1>15. Shape(u)
  BY <1>1, <1>9, <1>10, <1>14 DEF Shape
<1>16. QED
  BY <1>9, <1>10, <1>11, <1>15

\* Taken out of its ring and put on top of another, or of the same.
LEMMA MoveToTop ==
    ASSUME NEW t, Shape(t), NEW w \in DOMAIN t \ {Root}, NEW p \in DOMAIN t, p \in MayLieIn(w),
           NEW u, u = win_add_top_child(win_unlink(t, w), p, w)
    PROVE  /\ Shape(u) /\ SameParts(t, u)
           /\ u[w].parent = p /\ \A x \in DOMAIN t \ {w} : u[x].parent = t[x].parent
<1>1. PICK v : v = win_unlink(t, w)
  OBVIOUS
<1>2. Loose(v, w) /\ SameParts(t, v) /\ \A x \in DOMAIN t : v[x].parent = t[x].parent
  BY <1>1, UnlinkLoosens
<1>3. u = win_add_top_child(v, p, w) /\ p \in DOMAIN v /\ DOMAIN v = DOMAIN t
  BY <1>1, <1>2 DEF SameParts
<1>4. /\ Shape(u) /\ SameParts(v, u)
      /\ u[w].parent = p /\ \A x \in DOMAIN v \ {w} : u[x].parent = v[x].parent
  BY <1>2, <1>3, AddTies
<1>5. QED
  BY <1>2, <1>3, <1>4, PartsTwice

\* The operations leave a gui with the same parts.
Rearranged(g, h) == Rest(g, h) /\ Shape(h.tree) /\ SameParts(g.tree, h.tree)

LEMMA RearrangedTwice ==
    ASSUME NEW g, NEW h, NEW k, Rearranged(g, h), Rearranged(h, k)
    PROVE  Rearranged(g, k)
BY RestTwice, PartsTwice DEF Rearranged

LEMMA SameRearranged ==
    ASSUME NEW g, NEW h, Shape(g.tree), Rest(g, h), SameWindows(g.tree, h.tree)
    PROVE  Rearranged(g, h)
BY LinksKeepShape, SameIsParts DEF Rearranged, SameWindows

LEMMA SelfRearranged ==
    ASSUME NEW g, IsGui(g), Shape(g.tree)
    PROVE  Rearranged(g, g)
BY SameSelf, SameRearranged DEF Rest, Shape

LEMMA RaiseRearranges ==
    ASSUME NEW g, IsGui(g), Shape(g.tree), NEW w \in DOMAIN g.tree \ {Root},
           NEW h, h = win_raise(g, w)
    PROVE  Rearranged(g, h) /\ \A x \in DOMAIN g.tree : h.tree[x].parent = g.tree[x].parent
<1>1. PICK p : p = g.tree[w].parent
  OBVIOUS
<1>2. p \in DOMAIN g.tree /\ p \in MayLieIn(w)
  BY <1>1 DEF Shape
<1>3. PICK t : t = win_add_top_child(win_unlink(g.tree, w), p, w)
  OBVIOUS
<1>4. /\ Shape(t) /\ SameParts(g.tree, t)
      /\ t[w].parent = p /\ \A x \in DOMAIN g.tree \ {w} : t[x].parent = g.tree[x].parent
  BY <1>2, <1>3, MoveToTop
<1>5. PICK k : k = [g EXCEPT !.tree = t]
  OBVIOUS
<1>6. Rest(g, k) /\ k.tree = t
  BY <1>5, TreeSet
<1>7. h = g \/ h = win_redraw(k, w)
  BY <1>1, <1>3, <1>5 DEF win_raise
<1>8. CASE h = g
  BY <1>8, SelfRearranged
<1>9. CASE h = win_redraw(k, w)
  <2>1. Rest(k, h) /\ h.tree = t
    BY <1>6, <1>9, RedrawKeeps DEF Rest
  <2>2. QED
    BY <1>1, <1>4, <1>6, <2>1, RestTwice DEF Rearranged
<1>10. QED
  BY <1>7, <1>8, <1>9

LEMMA LowerRearranges ==
    ASSUME NEW g, IsGui(g), Shape(g.tree), NEW w \in DOMAIN g.tree \ {Root},
           NEW h, h = win_lower(g, w)
    PROVE  Rearranged(g, h)
<1>0. PICK o : o = g.tree
  OBVIOUS
<1>1. PICK p : p = o[w].parent
  OBVIOUS
<1>2. /\ p \in DOMAIN o /\ IsTree(o) /\ ToSet(o[p].children) = ChildrenOf(o, p)
      /\ Once(o[p].children) /\ w \in ToSet(o[p].children) /\ w \in AllWindows
  BY <1>0, <1>1 DEF Shape, ChildrenOf
<1>3. o[p].children \in Seq(AllWindows)
  BY <1>2 DEF IsTree, IsWindow
<1>4. PICK b : b = Without(o[p].children, w)
  OBVIOUS
<1>5. b \in Seq(AllWindows) /\ Once(b) /\ ToSet(b) = ChildrenOf(o, p) \ {w}
  BY <1>2, <1>3, <1>4, WithoutLeaves
<1>6. PICK c : c = Append(b, w)
  OBVIOUS
<1>7. c \in Seq(AllWindows) /\ Once(c) /\ ToSet(c) = ChildrenOf(o, p)
  <2>1. w \notin ToSet(b)
    BY <1>5
  <2>2. c \in Seq(AllWindows) /\ Once(c) /\ ToSet(c) = ToSet(b) \cup {w}
    BY <1>2, <1>5, <1>6, <2>1, AtTheEnd
  <2>3. QED
    BY <1>2, <1>5, <2>2
<1>8. PICK t : t = WithChildren(o, p, c)
  OBVIOUS
<1>9. /\ IsTree(t) /\ DOMAIN t = DOMAIN o /\ SameAreas(o, t) /\ SameLooks(o, t)
      /\ \A x \in DOMAIN o : t[x].parent = o[x].parent
      /\ t[p].children = c /\ \A x \in DOMAIN o \ {p} : t[x].children = o[x].children
  BY <1>2, <1>7, <1>8, ChildrenSet
<1>10. \A x : ChildrenOf(t, x) = ChildrenOf(o, x)
  BY <1>9 DEF ChildrenOf
<1>11. ASSUME NEW x \in DOMAIN o
       PROVE  /\ t[x].parent \in MayLieIn(x) /\ (x # Root => t[x].parent \in DOMAIN o)
              /\ ToSet(t[x].children) = ChildrenOf(t, x) /\ Once(t[x].children)
  <2>1. t[x].parent \in MayLieIn(x) /\ (x # Root => t[x].parent \in DOMAIN o)
    BY <1>0, <1>9 DEF Shape
  <2>2. CASE x = p
    BY <1>7, <1>9, <1>10, <2>1, <2>2
  <2>3. CASE x # p
    BY <1>0, <1>9, <1>10, <2>1, <2>3 DEF Shape
  <2>4. QED
    BY <2>2, <2>3
<1>12. Shape(t) /\ SameParts(o, t)
  BY SMTT(60), <1>0, <1>9, <1>11 DEF Shape, SameParts
<1>13. PICK k : k = [g EXCEPT !.tree = t]
  OBVIOUS
<1>14. Rest(g, k) /\ k.tree = t
  BY <1>13, TreeSet
<1>15. h = g \/ h = win_redraw(k, w)
  BY <1>0, <1>1, <1>4, <1>6, <1>8, <1>13 DEF win_lower, WithChildren
<1>16. CASE h = g
  BY <1>16, SelfRearranged
<1>17. CASE h = win_redraw(k, w)
  <2>1. Rest(k, h) /\ h.tree = t
    BY <1>14, <1>17, RedrawKeeps DEF Rest
  <2>2. QED
    BY <1>0, <1>12, <1>14, <2>1, RestTwice DEF Rearranged
<1>18. QED
  BY <1>15, <1>16, <1>17

LEMMA ReparentRearranges ==
    ASSUME NEW g, IsGui(g), Shape(g.tree), NEW w \in DOMAIN g.tree \ {Root},
           NEW p \in DOMAIN g.tree, p \in MayLieIn(w),
           NEW h, h = win_reparent(g, w, p)
    PROVE  Rearranged(g, h)
<1>1. PICK hidden : hidden = win_hide(g, w)
  OBVIOUS
<1>2. Rearranged(g, hidden)
  BY <1>1, HideKeeps, SameRearranged DEF Shape
<1>3. IsGui(hidden) /\ Shape(hidden.tree) /\ DOMAIN hidden.tree = DOMAIN g.tree
  BY <1>2 DEF Rearranged, Rest, SameParts
<1>4. PICK t : t = win_add_top_child(win_unlink(hidden.tree, w), p, w)
  OBVIOUS
<1>5. Shape(t) /\ SameParts(hidden.tree, t)
  BY <1>3, <1>4, MoveToTop
<1>6. PICK moved : moved = [hidden EXCEPT !.tree = t]
  OBVIOUS
<1>7. Rearranged(hidden, moved) /\ moved.tree = t
  BY <1>3, <1>5, <1>6, TreeSet DEF Rearranged
<1>8. IsGui(moved) /\ Shape(moved.tree) /\ w \in DOMAIN moved.tree
  BY <1>3, <1>5, <1>7 DEF Rearranged, Rest, SameParts
<1>9. h = moved \/ h = win_show(moved, w)
  BY <1>1, <1>4, <1>6 DEF win_reparent
<1>10. CASE h = moved
  BY <1>2, <1>7, <1>10, RearrangedTwice
<1>11. CASE h = win_show(moved, w)
  <2>1. Rearranged(moved, h)
    BY <1>8, <1>11, ShowKeeps, SameRearranged DEF Shape
  <2>2. QED
    BY <1>2, <1>7, <2>1, RearrangedTwice
<1>12. QED
  BY <1>9, <1>10, <1>11

-----------------------------------------------------------------------------
(* Creating and destroying.                                                *)

\* A new window that is not pressed, with the area a.
Made(t, u, w, a) ==
    /\ Shape(u) /\ DOMAIN u = DOMAIN t \cup {w}
    /\ u[w].area = a /\ ~ u[w].look.pressed
    /\ \A x \in DOMAIN t : u[x].area = t[x].area /\ u[x].look.pressed = t[x].look.pressed

LEMMA CreateMakes ==
    ASSUME NEW g, IsGui(g), Shape(g.tree), NEW w \in AllWindows \ DOMAIN g.tree,
           NEW p \in DOMAIN g.tree, p \in MayLieIn(w), NEW a \in AreaType, NEW l, IsLook(l),
           ~ l.pressed, NEW x, NEW y,
           NEW h, h = win_create(g, p, w, [area |-> a, look |-> l, redrawParent |-> x,
                                           raiseOnPress |-> y])
    PROVE  Rest(g, h) /\ Made(g.tree, h.tree, w, a)
<1>1. PICK t : t = g.tree
  OBVIOUS
<1>2. IsTree(t) /\ Root \in DOMAIN t /\ DOMAIN t \subseteq AllWindows /\ w \notin DOMAIN t
  BY <1>1 DEF Shape
<1>3. PICK r : r = [area |-> a, look |-> l, redrawParent |-> x, raiseOnPress |-> y,
                    mapped |-> FALSE, parent |-> p, children |-> <<>>]
  OBVIOUS
<1>4. IsWindow(r)
  BY <1>3 DEF IsWindow
<1>5. PICK u : u = [z \in DOMAIN t \cup {w} |-> IF z = w THEN r ELSE t[z]]
  OBVIOUS
<1>7. /\ DOMAIN u = DOMAIN t \cup {w} /\ u[w] = r
      /\ \A z \in DOMAIN t : u[z] = t[z]
  BY <1>2, <1>5
<1>8. IsTree(u)
  <2>1. u = [z \in DOMAIN u |-> u[z]]
    BY <1>5
  <2>2. \A z \in DOMAIN u : IsWindow(u[z])
    BY <1>2, <1>4, <1>7 DEF IsTree
  <2>3. QED
    BY <2>1, <2>2 DEF IsTree
<1>9. ASSUME NEW z \in DOMAIN u
      PROVE  /\ z # w => u[z].parent \in MayLieIn(z) /\ (z # Root => u[z].parent \in DOMAIN u)
             /\ ToSet(u[z].children) = ChildrenOf(u, z) \ {w} /\ Once(u[z].children)
  <2>1. z # w => u[z].parent \in MayLieIn(z) /\ (z # Root => u[z].parent \in DOMAIN u)
    BY <1>1, <1>7 DEF Shape
  <2>2. CASE z # w
    <3>1. ToSet(t[z].children) = ChildrenOf(t, z) /\ Once(t[z].children)
      BY <1>1, <1>7, <2>2 DEF Shape
    <3>2. ChildrenOf(u, z) \ {w} = ChildrenOf(t, z)
      BY <1>2, <1>7 DEF ChildrenOf
    <3>3. QED
      BY <1>7, <2>1, <2>2, <3>1, <3>2
  <2>3. CASE z = w
    <3>1. u[z].children = <<>>
      BY <1>3, <1>7, <2>3
    <3>2. ToSet(<<>>) = {} /\ Once(<<>>)
      BY DEF ToSet, Once
    <3>3. \A c \in DOMAIN t \ {Root} : t[c].parent # w
      BY <1>1, <1>2 DEF Shape
    <3>4. ChildrenOf(u, z) \ {w} = {}
      BY <1>7, <2>3, <3>3 DEF ChildrenOf
    <3>5. QED
      BY <2>1, <3>1, <3>2, <3>4
  <2>4. QED
    BY <2>2, <2>3
<1>10. Loose(u, w)
  BY <1>2, <1>7, <1>8, <1>9 DEF Loose
<1>11. PICK v : v = win_add_top_child(u, p, w)
  OBVIOUS
<1>12. Shape(v) /\ SameParts(u, v)
  <2>1. p \in DOMAIN u
    BY <1>1, <1>7
  <2>2. QED
    BY <1>10, <1>11, <2>1, AddTies
<1>13. h = [g EXCEPT !.tree = v]
  BY <1>1, <1>3, <1>5, <1>11 DEF win_create
<1>14. Rest(g, h) /\ h.tree = v
  BY <1>13, TreeSet
<1>15. r.area = a /\ ~ r.look.pressed
  BY <1>3
<1>16. QED
  BY <1>1, <1>7, <1>12, <1>14, <1>15 DEF Made, SameParts, SameAreas, SameLooks

\* A set of windows with everything inside them.
WithInsides(t, S) == \A x \in S : ToSet(t[x].children) \subseteq S

LEMMA FamilyLeast ==
    ASSUME NEW t, Shape(t), NEW w \in DOMAIN t, NEW F, F = Family(t, w)
    PROVE  /\ w \in F /\ F \subseteq DOMAIN t /\ WithInsides(t, F)
           /\ \A S \in SUBSET DOMAIN t : w \in S /\ WithInsides(t, S) => F \subseteq S
<1>1. F = {x \in DOMAIN t : \A S \in SUBSET DOMAIN t : w \in S /\ WithInsides(t, S) => x \in S}
  BY DEF Family, WithInsides
<1>2. \A x \in DOMAIN t : ToSet(t[x].children) \subseteq DOMAIN t
  BY DEF Shape, ChildrenOf
<1>3. ASSUME NEW x \in F, NEW c \in ToSet(t[x].children)
      PROVE  c \in F
  <2>1. x \in DOMAIN t /\ c \in DOMAIN t
    BY <1>1, <1>2
  <2>2. ASSUME NEW S \in SUBSET DOMAIN t, w \in S, WithInsides(t, S)
        PROVE  c \in S
    <3>1. x \in S
      BY <1>1, <2>2
    <3>2. QED
      BY <2>2, <3>1 DEF WithInsides
  <2>3. QED
    BY <1>1, <2>1, <2>2
<1>4. QED
  BY <1>1, <1>3 DEF WithInsides

LEMMA FamilyHangs ==
    ASSUME NEW t, Shape(t), NEW w \in DOMAIN t \ {Root}, NEW F, F = Family(t, w)
    PROVE  Root \notin F /\ \A c \in F \ {w} : t[c].parent \in F
<1>1. /\ w \in F /\ F \subseteq DOMAIN t /\ WithInsides(t, F)
      /\ \A S \in SUBSET DOMAIN t : w \in S /\ WithInsides(t, S) => F \subseteq S
  BY FamilyLeast
<1>2. \A x \in DOMAIN t : ToSet(t[x].children) = ChildrenOf(t, x)
  BY DEF Shape
<1>3. Root \notin F
  <2>1. WithInsides(t, DOMAIN t \ {Root})
    BY <1>2 DEF WithInsides, ChildrenOf
  <2>2. QED
    BY <1>1, <2>1
<1>4. \A c \in F \ {w} : t[c].parent \in F
  <2> DEFINE S == {w} \cup {c \in F : c # Root /\ t[c].parent \in F}
  <2>1. S \subseteq F
    BY <1>1
  <2>2. ASSUME NEW x \in S, NEW c \in ToSet(t[x].children) PROVE c \in S
    <3>1. x \in F /\ x \in DOMAIN t
      BY <1>1, <2>1
    <3>2. c \in F /\ c # Root /\ t[c].parent = x
      BY <1>1, <1>2, <3>1 DEF WithInsides, ChildrenOf
    <3>3. QED
      BY <3>1, <3>2
  <2>3. WithInsides(t, S)
    BY <2>2 DEF WithInsides
  <2>4. F \subseteq S
    <3>1. w \in S /\ S \subseteq DOMAIN t
      BY <1>1, <2>1
    <3> HIDE DEF S
    <3>2. QED
      BY <1>1, <2>3, <3>1
  <2>5. QED
    BY <2>4
<1>5. QED
  BY <1>3, <1>4

LEMMA FamilyOfLinks ==
    ASSUME NEW t, NEW u, SameLinks(t, u), NEW w
    PROVE  Family(u, w) = Family(t, w)
BY DEF Family, SameLinks

\* What is left after the windows of F are gone.
Spared(t, u, F) ==
    /\ Shape(u) /\ DOMAIN u = DOMAIN t \ F
    /\ \A x \in DOMAIN u : u[x].area = t[x].area /\ u[x].look.pressed = t[x].look.pressed

LEMMA DestroySpares ==
    ASSUME NEW g, IsGui(g), Shape(g.tree), NEW w \in DOMAIN g.tree \ {Root},
           NEW h, h = win_destroy(g, w)
    PROVE  Rest(g, h) /\ Spared(g.tree, h.tree, Family(g.tree, w))
<1>0. PICK t : t = g.tree
  OBVIOUS
<1>f. PICK F : F = Family(t, w)
  OBVIOUS
<1>1. PICK hidden : hidden = win_hide(g, w)
  OBVIOUS
<1>2. Rest(g, hidden) /\ SameWindows(t, hidden.tree)
  BY <1>0, <1>1, HideKeeps DEF Shape
<1>3. Shape(hidden.tree) /\ DOMAIN hidden.tree = DOMAIN t /\ F = Family(hidden.tree, w)
  BY <1>0, <1>f, <1>2, LinksKeepShape, FamilyOfLinks DEF SameWindows, SameLinks
<1>4. PICK k : k = hidden.tree
  OBVIOUS
<1>5. PICK left : left = win_unlink(k, w)
  OBVIOUS
<1>6. /\ Loose(left, w) /\ SameParts(k, left)
      /\ \A x \in DOMAIN k : left[x].parent = k[x].parent
  BY <1>0, <1>3, <1>4, <1>5, UnlinkLoosens
<1>7. PICK u : u = Restrict(left, DOMAIN left \ F)
  OBVIOUS
<1>8. h = [hidden EXCEPT !.tree = u]
  BY <1>0, <1>f, <1>1, <1>4, <1>5, <1>7 DEF win_destroy
<1>9. Rest(g, h) /\ h.tree = u
  <2>1. IsGui(hidden)
    BY <1>2 DEF Rest
  <2>2. Rest(hidden, h) /\ h.tree = u
    BY <1>8, <2>1, TreeSet
  <2>3. QED
    BY <1>2, <2>2, RestTwice
<1>10. /\ w \in F /\ F \subseteq DOMAIN k /\ WithInsides(k, F)
       /\ Root \notin F /\ \A c \in F \ {w} : k[c].parent \in F
  <2>1. Shape(k) /\ w \in DOMAIN k \ {Root} /\ F = Family(k, w)
    BY <1>0, <1>3, <1>4
  <2>2. QED
    BY <2>1, FamilyLeast, FamilyHangs
<1>11. /\ DOMAIN left = DOMAIN k
       /\ DOMAIN u = DOMAIN left \ F /\ u = [x \in DOMAIN u |-> left[x]]
       /\ \A x \in DOMAIN u : u[x] = left[x]
  BY <1>6, <1>7 DEF Restrict, SameParts
<1>12. IsTree(u) /\ Root \in DOMAIN u /\ DOMAIN u \subseteq AllWindows
  BY <1>6, <1>10, <1>11 DEF Loose, IsTree
<1>13. ASSUME NEW x \in DOMAIN u
       PROVE  /\ u[x].parent \in MayLieIn(x) /\ (x # Root => u[x].parent \in DOMAIN u)
              /\ ToSet(u[x].children) = ChildrenOf(u, x) /\ Once(u[x].children)
  <2>1. x \in DOMAIN left /\ x \notin F /\ x # w
    BY <1>10, <1>11
  <2>2. /\ left[x].parent \in MayLieIn(x) /\ (x # Root => left[x].parent \in DOMAIN left)
        /\ ToSet(left[x].children) = ChildrenOf(left, x) \ {w} /\ Once(left[x].children)
    BY <1>6, <2>1 DEF Loose
  <2>3. ASSUME x # Root PROVE left[x].parent \notin F
    <3>1. x \in ChildrenOf(k, left[x].parent) /\ left[x].parent \in DOMAIN k
      BY <1>6, <1>11, <2>1, <2>2, <2>3 DEF ChildrenOf
    <3>2. x \in ToSet(k[left[x].parent].children)
      BY <1>3, <1>4, <3>1 DEF Shape
    <3>3. QED
      BY <1>10, <2>1, <3>2 DEF WithInsides
  <2>4. ChildrenOf(u, x) = ChildrenOf(left, x) \ {w}
    <3>1. ASSUME NEW c \in DOMAIN left \ {Root}, left[c].parent = x, c # w
          PROVE  c \notin F
      BY <1>6, <1>10, <1>11, <2>1, <3>1
    <3>2. QED
      BY <1>10, <1>11, <3>1 DEF ChildrenOf
  <2>5. QED
    BY <1>11, <2>2, <2>3, <2>4
<1>14. Shape(u)
  BY <1>12, <1>13 DEF Shape
<1>15. SameAreas(t, left) /\ SameLooks(t, left)
  <2>1. SameParts(t, k)
    BY <1>2, <1>4, SameIsParts
  <2>2. QED
    BY <1>6, <2>1, PartsTwice DEF SameParts
<1>16. Spared(t, u, F)
  <2>1. DOMAIN u = DOMAIN t \ F
    BY <1>3, <1>4, <1>11
  <2>2. QED
    BY <1>11, <1>14, <1>15, <2>1 DEF Spared, SameAreas, SameLooks
<1>17. QED
  BY <1>0, <1>f, <1>9, <1>16

\* With the container the whole frame goes, ...
LEMMA FrameFamily ==
    ASSUME NEW t, Shape(t), FrameWhole(t), Container \in DOMAIN t
    PROVE  FrameParts \subseteq Family(t, Container)
<1>1. PICK F : F = Family(t, Container)
  OBVIOUS
<1>2. Container \in F /\ WithInsides(t, F)
  BY <1>1, FamilyLeast
<1>3. FrameParts \subseteq DOMAIN t /\ Container \in FrameParts
  BY DEF FrameWhole, FrameParts
<1>4. ASSUME NEW p \in F \cap DOMAIN t, NEW c \in DOMAIN t \ {Root}, t[c].parent = p
      PROVE  c \in F
  <2>1. c \in ToSet(t[p].children)
    BY <1>4 DEF Shape, ChildrenOf
  <2>2. QED
    BY <1>2, <2>1 DEF WithInsides
<1>5. Container # Root /\ Contents # Root /\ Resize # Root /\ Root \notin Widget
  BY WindowsAssumption
<1>6. Contents \in F /\ Resize \in F
  <2>1. t[Contents].parent = Container /\ t[Resize].parent = Container
    <3>1. MayLieIn(Contents) = {Container} /\ MayLieIn(Resize) = {Container}
      BY WindowsAssumption DEF MayLieIn, Container, Contents, Resize, Window
    <3>2. QED
      BY <1>3, <3>1 DEF Shape, FrameParts
  <2>2. QED
    BY <1>2, <1>3, <1>4, <1>5, <2>1 DEF FrameParts
<1>7. ASSUME NEW w \in Widget PROVE w \in F
  <2>1. w \notin {Root, Container, Contents, Resize, Window}
    BY WindowsAssumption
  <2>2. t[w].parent = Contents
    BY <1>3, <2>1 DEF Shape, MayLieIn, FrameParts
  <2>3. QED
    BY <1>3, <1>4, <1>6, <2>1, <2>2 DEF FrameParts
<1>8. QED
  BY <1>1, <1>2, <1>6, <1>7 DEF FrameParts

\* ... and nothing lies in the application's window.
LEMMA WindowFamily ==
    ASSUME NEW t, Shape(t), Window \in DOMAIN t
    PROVE  Family(t, Window) = {Window}
<1>1. PICK F : F = Family(t, Window)
  OBVIOUS
<1>2. /\ Window \in F
      /\ \A S \in SUBSET DOMAIN t : Window \in S /\ WithInsides(t, S) => F \subseteq S
  BY <1>1, FamilyLeast
<1>3. ASSUME NEW c \in DOMAIN t \ {Root} PROVE t[c].parent # Window
  <2>1. t[c].parent \in MayLieIn(c) /\ c \in AllWindows
    BY DEF Shape
  <2>2. Root # Window /\ Container # Window /\ Contents # Window
    BY WindowsAssumption DEF Container, Contents, Window
  <2>3. c \in {Container, Contents, Resize, Window} \cup Widget
    BY <2>1 DEF AllWindows, FrameParts
  <2>4. MayLieIn(c) \subseteq {Root, Container, Contents}
    BY <2>3, WindowsAssumption DEF MayLieIn
  <2>5. QED
    BY <2>1, <2>2, <2>4
<1>4. WithInsides(t, {Window})
  BY <1>3 DEF Shape, ChildrenOf, WithInsides
<1>5. QED
  BY <1>1, <1>2, <1>4

-----------------------------------------------------------------------------
(* The way down to the window under the pointer.                           *)

LEMMA LeastIsThere ==
    ASSUME NEW I \in SUBSET Nat, I # {}
    PROVE  Min(I) \in I
<1>1. PICK n \in I : \A m \in I : n <= m
  <2> DEFINE R == OpToRel(<, Nat)
  <2>1. IsWellFoundedOn(R, Nat)
    BY NatLessThanWellFounded
  <2>2. \A m, n \in Nat : m < n => <<m, n>> \in R
    BY DEF OpToRel
  <2> HIDE DEF R
  <2>3. PICK n \in I : \A m \in I : ~ (<<m, n>> \in R)
    BY <2>1, WFMin
  <2>4. ASSUME NEW m \in I PROVE n <= m
    <3>1. m \in Nat /\ n \in Nat
      OBVIOUS
    <3>2. ~ (m < n)
      BY <2>2, <2>3, <3>1, Zenon
    <3>3. QED
      BY <3>1, <3>2
  <2>5. QED
    BY <2>4
<1>2. QED
  BY <1>1 DEF Min

\* A level down leads to a child, and may reorder the children.
LEMMA DownRearranges ==
    ASSUME NEW at, IsGui(at.gui), Shape(at.gui.tree), at.win \in DOMAIN at.gui.tree,
           NEW press, NEW b, b = Down(at, press)
    PROVE  Rearranged(at.gui, b.gui) /\ b.win \in DOMAIN at.gui.tree
<1> DEFINE t == at.gui.tree
           s == t[at.win].children
<1>3. s \in Seq(AllWindows) /\ ToSet(s) = ChildrenOf(t, at.win)
  BY DEF Shape, IsTree, IsWindow
<1>4. PICK n \in Nat : n = Len(s) /\ DOMAIN s = 1 .. n /\ \A j \in 1 .. n : s[j] \in AllWindows
  BY SMTT(60), <1>3, SequenceDomain
<1> DEFINE local == Minus(at.point, t[at.win].area.pos)
           under(c) == t[c].mapped /\ win_is_inside_area(t[c].area, local)
           hit == SelectInSeq(s, under)
           I == {i \in 1 .. Len(s) : under(s[i])}
<1>5. b = IF hit = 0 THEN at
          ELSE [gui |-> IF press /\ t[s[hit]].raiseOnPress
                        THEN win_raise(at.gui, s[hit]) ELSE at.gui,
                win |-> s[hit], point |-> local]
  BY ZenonT(60) DEF Down
<1>6. hit = IF I # {} THEN Min(I) ELSE 0
  BY SMTT(60) DEF SelectInSeq
<1>7. I \in SUBSET (1 .. n)
  BY <1>4
<1> HIDE DEF I, hit, local, s
<1>8. CASE hit = 0
  BY <1>5, <1>8, SelfRearranged
<1>9. CASE hit # 0
  <2>1. hit \in 1 .. n
    <3>1. I # {} /\ hit = Min(I)
      BY <1>6, <1>9
    <3>2. I \in SUBSET Nat
      BY <1>7
    <3>3. QED
      BY <1>7, <3>1, <3>2, LeastIsThere
  <2>2. s[hit] \in DOMAIN t \ {Root}
    <3>1. s[hit] \in ToSet(s)
      BY <1>4, <2>1 DEF ToSet
    <3>2. QED
      BY <1>3, <3>1 DEF ChildrenOf
  <2>3. b.win = s[hit] /\ (b.gui = at.gui \/ b.gui = win_raise(at.gui, s[hit]))
    BY <1>5, <1>9
  <2>4. Rearranged(at.gui, b.gui)
    <3>1. CASE b.gui = at.gui
      BY <3>1, SelfRearranged
    <3>2. CASE b.gui = win_raise(at.gui, s[hit])
      BY <2>2, <3>2, RaiseRearranges
    <3>3. QED
      BY <2>3, <3>1, <3>2
  <2>5. QED
    BY <2>2, <2>3, <2>4
<1>10. QED
  BY <1>8, <1>9

LEMMA PointerRearranges ==
    ASSUME NEW g, IsGui(g), Shape(g.tree), NEW p, NEW press,
           NEW at, at = win_handle_pointer_event(g, p, press)
    PROVE  Rearranged(g, at.gui) /\ at.win \in DOMAIN g.tree
<1>1. PICK a : a = [gui |-> g, win |-> Root, point |-> p]
  OBVIOUS
<1>2. a.gui = g /\ a.win \in DOMAIN g.tree
  BY <1>1 DEF Shape
<1>3. PICK b : b = Down(a, press)
  OBVIOUS
<1>4. PICK c : c = Down(b, press)
  OBVIOUS
<1>5. at = Down(c, press)
  BY <1>1, <1>3, <1>4 DEF win_handle_pointer_event
<1>6. Rearranged(g, b.gui) /\ b.win \in DOMAIN g.tree
  BY <1>2, <1>3, DownRearranges
<1>7. /\ Rearranged(g, c.gui) /\ IsGui(c.gui) /\ Shape(c.gui.tree)
      /\ c.win \in DOMAIN c.gui.tree
  <2>1. IsGui(b.gui) /\ Shape(b.gui.tree) /\ b.win \in DOMAIN b.gui.tree
    BY <1>6 DEF Rearranged, Rest, SameParts
  <2>2. Rearranged(b.gui, c.gui) /\ c.win \in DOMAIN b.gui.tree
    BY <1>4, <2>1, DownRearranges
  <2>3. QED
    BY <1>6, <2>2, RearrangedTwice DEF Rearranged, Rest, SameParts
<1>8. Rearranged(c.gui, at.gui) /\ at.win \in DOMAIN c.gui.tree
  BY <1>5, <1>7, DownRearranges
<1>9. QED
  BY <1>7, <1>8, RearrangedTwice DEF Rearranged, SameParts

-----------------------------------------------------------------------------
(* The frame.                                                              *)

LEMMA Vectors ==
    ASSUME NEW p \in Vector, NEW q \in Vector
    PROVE  /\ Plus(p, q) \in Vector /\ Minus(p, q) \in Vector /\ Most(p, q) \in Vector
           /\ Most(Most(p, q), q) = Most(p, q) /\ Plus(Minus(p, q), q) = p
BY DEF Vector, Plus, Minus, Most

LEMMA FramesAreVectors ==
    ASSUME NEW n \in Int
    PROVE  Frames(n) \in Vector
BY DEF Frames, Vector

LEMMA AreaParts ==
    ASSUME NEW a \in AreaType, NEW v \in Vector
    PROVE  /\ a.pos \in Vector /\ a.size \in Vector
           /\ [a EXCEPT !.pos = v] \in AreaType /\ [a EXCEPT !.size = v] \in AreaType
           /\ [a EXCEPT !.pos = v].pos = v /\ [a EXCEPT !.size = v].size = v
BY DEF AreaType

\* Operations that place some of the windows of W.
Placed(g, h, W) ==
    /\ Rest(g, h) /\ SameLinks(g.tree, h.tree) /\ SameLooks(g.tree, h.tree)
    /\ \A x \in DOMAIN g.tree \ W : h.tree[x].area = g.tree[x].area

LEMMA PlacedTwice ==
    ASSUME NEW g, NEW h, NEW k, NEW V, NEW W, Placed(g, h, V), Placed(h, k, W)
    PROVE  Placed(g, k, V \cup W)
BY RestTwice DEF Placed, SameLinks, SameLooks

LEMMA PlacedIsGui ==
    ASSUME NEW g, Shape(g.tree), NEW h, NEW W, Placed(g, h, W)
    PROVE  /\ IsGui(h) /\ Shape(h.tree) /\ DOMAIN h.tree = DOMAIN g.tree
           /\ PressedParts(h.tree) = PressedParts(g.tree)
BY LinksKeepShape, LooksKeepPressed DEF Placed, Rest, SameLinks

LEMMA SizeSet ==
    ASSUME NEW g, IsGui(g), IsTree(g.tree), NEW w \in DOMAIN g.tree, NEW area \in AreaType,
           NEW h, h = win_set_area(g, w, area, {"size"})
    PROVE  /\ Placed(g, h, {w})
           /\ h.tree[w].area.pos = g.tree[w].area.pos /\ h.tree[w].area.size = area.size
<1>1. PICK a : a = [pos |-> IF "position" \in {"size"} THEN area.pos ELSE g.tree[w].area.pos,
                    size |-> IF "size" \in {"size"} THEN area.size ELSE g.tree[w].area.size]
  OBVIOUS
<1>2. Rest(g, h) /\ PlacedAt(g.tree, h.tree, w, a)
  BY <1>1, SetAreaPlaces
<1>3. a.pos = g.tree[w].area.pos /\ a.size = area.size
  BY <1>1
<1>4. QED
  BY <1>2, <1>3 DEF PlacedAt, Placed

LEMMA PosSet ==
    ASSUME NEW g, IsGui(g), IsTree(g.tree), NEW w \in DOMAIN g.tree, NEW area \in AreaType,
           NEW h, h = win_set_area(g, w, area, {"position"})
    PROVE  /\ Placed(g, h, {w})
           /\ h.tree[w].area.pos = area.pos /\ h.tree[w].area.size = g.tree[w].area.size
<1>1. PICK a : a = [pos |-> IF "position" \in {"position"} THEN area.pos ELSE g.tree[w].area.pos,
                    size |-> IF "size" \in {"position"} THEN area.size ELSE g.tree[w].area.size]
  OBVIOUS
<1>2. Rest(g, h) /\ PlacedAt(g.tree, h.tree, w, a)
  BY <1>1, SetAreaPlaces
<1>3. a.pos = area.pos /\ a.size = g.tree[w].area.size
  BY <1>1
<1>4. QED
  BY <1>2, <1>3 DEF PlacedAt, Placed

\* The frame around contents of a given size.
Fits(t) ==
    /\ t[Container].area.size = Plus(t[Contents].area.size, Frames(2 * Border))
    /\ t[Resize].area.pos = Minus(t[Container].area.size, HandleSize)
    /\ t[Contents].area.size = Most(t[Contents].area.size, MinSize)

LEMMA ResizeFits ==
    ASSUME NEW g, IsGui(g), Shape(g.tree), {Container, Contents, Resize} \subseteq DOMAIN g.tree,
           NEW asked \in AreaType, NEW h, h = wtk_resize_frame(g, asked)
    PROVE  /\ Placed(g, h, {Container, Contents, Resize}) /\ Fits(h.tree)
           /\ h.tree[Contents].area.pos = g.tree[Contents].area.pos
           /\ h.tree[Resize].area.size = g.tree[Resize].area.size
<1>0. Container # Contents /\ Container # Resize /\ Contents # Resize
  BY DEF Container, Contents, Resize
<1>1. PICK wanted : wanted = [asked EXCEPT !.size = Most(@, MinSize)]
  OBVIOUS
<1>2. PICK s : s = Most(asked.size, MinSize)
  OBVIOUS
<1>3. s \in Vector /\ Most(s, MinSize) = s
  BY <1>2, AreaParts, Vectors, WindowsAssumption DEF AreaType
<1>4. wanted \in AreaType /\ wanted.size = s
  BY <1>1, <1>2, <1>3, AreaParts
<1>5. PICK a : a = win_set_area(g, Contents, wanted, {"size"})
  OBVIOUS
<1>6. /\ Placed(g, a, {Contents})
      /\ a.tree[Contents].area.pos = g.tree[Contents].area.pos
      /\ a.tree[Contents].area.size = s
  <2>1. IsTree(g.tree) /\ Contents \in DOMAIN g.tree /\ wanted \in AreaType
    BY <1>4 DEF Shape
  <2>2. /\ Placed(g, a, {Contents})
        /\ a.tree[Contents].area.pos = g.tree[Contents].area.pos
        /\ a.tree[Contents].area.size = wanted.size
    BY <1>5, <2>1, SizeSet
  <2>3. QED
    BY <1>4, <2>2
<1>7. IsGui(a) /\ IsTree(a.tree) /\ {Container, Contents, Resize} \subseteq DOMAIN a.tree
  BY <1>6 DEF Placed, Rest, SameLinks
<1>8. h = FitContainer(a)
  BY <1>1, <1>5 DEF wtk_resize_frame
<1>9. PICK b : b = Plus(s, Frames(2 * Border))
  OBVIOUS
<1>10. b \in Vector
  BY <1>3, <1>9, FramesAreVectors, Vectors, WindowsAssumption
<1>11. PICK box : box = [a.tree[Container].area EXCEPT !.size = b]
  OBVIOUS
<1>12. box \in AreaType /\ box.size = b
  <2>1. a.tree[Container].area \in AreaType
    BY <1>7 DEF IsTree, IsWindow
  <2>2. QED
    BY <1>10, <1>11, <2>1, AreaParts
<1>13. PICK c : c = win_set_area(a, Container, box, {"size"})
  OBVIOUS
<1>14. /\ Placed(a, c, {Container}) /\ c.tree[Container].area.size = b
  <2>1. /\ Placed(a, c, {Container})
        /\ c.tree[Container].area.pos = a.tree[Container].area.pos
        /\ c.tree[Container].area.size = box.size
    BY <1>7, <1>12, <1>13, SizeSet
  <2>2. QED
    BY <1>12, <2>1
<1>15. IsGui(c) /\ IsTree(c.tree) /\ {Container, Contents, Resize} \subseteq DOMAIN c.tree
  BY <1>7, <1>14 DEF Placed, Rest, SameLinks
<1>16. h = FitHandle(c)
  BY <1>6, <1>8, <1>9, <1>11, <1>13 DEF FitContainer
<1>17. PICK p : p = Minus(b, HandleSize)
  OBVIOUS
<1>18. PICK handle : handle = [c.tree[Resize].area EXCEPT !.pos = p]
  OBVIOUS
<1>19. handle \in AreaType /\ handle.pos = p
  <2>1. c.tree[Resize].area \in AreaType
    BY <1>15 DEF IsTree, IsWindow
  <2>2. p \in Vector
    BY <1>10, <1>17, Vectors, WindowsAssumption
  <2>3. QED
    BY <1>18, <2>1, <2>2, AreaParts
<1>20. h = win_set_area(c, Resize, handle, {"position"})
  BY <1>14, <1>16, <1>17, <1>18 DEF FitHandle
<1>21. /\ Placed(c, h, {Resize}) /\ h.tree[Resize].area.pos = p
       /\ h.tree[Resize].area.size = c.tree[Resize].area.size
  BY <1>15, <1>19, <1>20, PosSet
<1>22. Placed(g, h, {Container, Contents, Resize})
  <2>1. Placed(g, c, {Contents} \cup {Container})
    BY <1>6, <1>14, PlacedTwice
  <2>2. Placed(g, h, ({Contents} \cup {Container}) \cup {Resize})
    BY <1>21, <2>1, PlacedTwice
  <2>3. ({Contents} \cup {Container}) \cup {Resize} = {Container, Contents, Resize}
    OBVIOUS
  <2>4. QED
    BY <2>2, <2>3
<1>23. /\ h.tree[Contents].area = a.tree[Contents].area
       /\ h.tree[Container].area = c.tree[Container].area
       /\ h.tree[Resize].area.size = g.tree[Resize].area.size
  BY <1>0, <1>6, <1>7, <1>14, <1>15, <1>21 DEF Placed, SameLinks
<1>24. Fits(h.tree)
  BY <1>3, <1>6, <1>9, <1>14, <1>17, <1>21, <1>23 DEF Fits
<1>25. QED
  BY <1>6, <1>22, <1>23, <1>24

\* A frame without widgets.
LEMMA FrameCreated ==
    ASSUME NEW g, IsGui(g), Shape(g.tree), FrameParts \cap DOMAIN g.tree = {},
           NEW h, h = wtk_frame_create(g)
    PROVE  /\ IsGui(h) /\ Shape(h.tree) /\ Fits(h.tree)
           /\ DOMAIN h.tree = DOMAIN g.tree \cup {Container, Contents, Resize}
           /\ h.tree[Contents].area.pos = Frames(Border)
           /\ h.tree[Resize].area.size = HandleSize
           /\ h.frame = "normal" /\ h.grabber = g.grabber /\ h.origin = g.origin
           /\ h.sent = g.sent /\ PressedParts(h.tree) = PressedParts(g.tree)
<1>1. /\ Container # Contents /\ Container # Resize /\ Contents # Resize
      /\ {Container, Contents, Resize} \subseteq AllWindows
      /\ {Container, Contents, Resize} \cap DOMAIN g.tree = {}
  BY DEF Container, Contents, Resize, AllWindows, FrameParts
<1>2. /\ Root \in MayLieIn(Container)
      /\ Container \in MayLieIn(Contents) /\ Container \in MayLieIn(Resize)
  BY WindowsAssumption DEF MayLieIn, Container, Contents, Resize, Window
<1>3. IsLook(Plain) /\ ~ Plain.pressed
  BY DEF IsLook, Plain
<1>4. PICK inside : inside = [FrameArea EXCEPT !.pos = Frames(Border)]
  OBVIOUS
<1>5. PICK corner : corner = [FrameArea EXCEPT !.size = HandleSize]
  OBVIOUS
<1>6. /\ FrameArea \in AreaType
      /\ inside \in AreaType /\ inside.pos = Frames(Border)
      /\ corner \in AreaType /\ corner.size = HandleSize
  <2>1. Frames(Border) \in Vector /\ FrameArea \in AreaType /\ HandleSize \in Vector
    BY FramesAreVectors, WindowsAssumption
  <2>2. QED
    BY <1>4, <1>5, <2>1, AreaParts
<1>7. PICK b : b = win_create(g, Root, Container,
                       [area |-> FrameArea, look |-> Plain, redrawParent |-> TRUE,
                        raiseOnPress |-> TRUE])
  OBVIOUS
<1>8. Rest(g, b) /\ Made(g.tree, b.tree, Container, FrameArea)
  <2>1. Container \in AllWindows \ DOMAIN g.tree /\ Root \in DOMAIN g.tree
    BY <1>1 DEF Shape
  <2>2. QED
    BY <1>2, <1>3, <1>6, <1>7, <2>1, CreateMakes
<1>9. PICK i : i = win_create(b, Container, Contents,
                       [area |-> inside, look |-> Plain, redrawParent |-> FALSE,
                        raiseOnPress |-> FALSE])
  OBVIOUS
<1>10. Rest(b, i) /\ Made(b.tree, i.tree, Contents, inside)
  <2>1. Contents \in AllWindows \ DOMAIN b.tree /\ Container \in DOMAIN b.tree
    BY <1>1, <1>8 DEF Made
  <2>2. IsGui(b) /\ Shape(b.tree)
    BY <1>8 DEF Rest, Made
  <2>3. QED
    BY <1>2, <1>3, <1>6, <1>9, <2>1, <2>2, CreateMakes
<1>11. PICK r : r = win_create(i, Container, Resize,
                       [area |-> corner, look |-> Plain, redrawParent |-> FALSE,
                        raiseOnPress |-> FALSE])
  OBVIOUS
<1>12. Rest(i, r) /\ Made(i.tree, r.tree, Resize, corner)
  <2>1. Resize \in AllWindows \ DOMAIN i.tree /\ Container \in DOMAIN i.tree
    BY <1>1, <1>8, <1>10 DEF Made
  <2>2. IsGui(i) /\ Shape(i.tree)
    BY <1>10 DEF Rest, Made
  <2>3. QED
    BY <1>2, <1>3, <1>6, <1>11, <2>1, <2>2, CreateMakes
<1>13. PICK s : s = win_show(r, Resize)
  OBVIOUS
<1>14. Rest(r, s) /\ SameWindows(r.tree, s.tree) /\ Shape(s.tree)
  <2>1. IsGui(r) /\ Shape(r.tree) /\ IsTree(r.tree) /\ Resize \in DOMAIN r.tree
    BY <1>12 DEF Rest, Made, Shape
  <2>2. QED
    BY <1>13, <2>1, ShowKeeps, LinksKeepShape DEF SameWindows
<1>15. PICK k : k = [s EXCEPT !.frame = "normal"]
  OBVIOUS
<1>16. /\ IsGui(k) /\ k.tree = s.tree /\ k.frame = "normal" /\ k.grabber = s.grabber
       /\ k.origin = s.origin /\ k.sent = s.sent
  BY <1>14, <1>15 DEF Rest, IsGui
<1>17. /\ DOMAIN k.tree = DOMAIN g.tree \cup {Container, Contents, Resize}
       /\ k.tree[Contents].area = inside /\ k.tree[Resize].area = corner
       /\ \A x \in DOMAIN k.tree :
             k.tree[x].look.pressed <=> x \in DOMAIN g.tree /\ g.tree[x].look.pressed
  <2>1. /\ DOMAIN r.tree = DOMAIN g.tree \cup {Container, Contents, Resize}
        /\ r.tree[Contents].area = inside /\ r.tree[Resize].area = corner
        /\ \A x \in DOMAIN r.tree :
             r.tree[x].look.pressed <=> x \in DOMAIN g.tree /\ g.tree[x].look.pressed
    BY <1>1, <1>8, <1>10, <1>12 DEF Made
  <2>2. QED
    BY <1>14, <1>16, <2>1 DEF SameWindows, SameLinks, SameAreas, SameLooks
<1>18. PICK m : m = wtk_resize_frame(k, FrameArea)
  OBVIOUS
<1>19. /\ Placed(k, m, {Container, Contents, Resize}) /\ Fits(m.tree)
       /\ m.tree[Contents].area.pos = k.tree[Contents].area.pos
       /\ m.tree[Resize].area.size = k.tree[Resize].area.size
  <2>1. Shape(k.tree) /\ {Container, Contents, Resize} \subseteq DOMAIN k.tree
    BY <1>14, <1>16, <1>17
  <2>2. QED
    BY ZenonT(60), <1>6, <1>16, <1>18, <2>1, ResizeFits
<1>20. /\ IsGui(m) /\ Shape(m.tree) /\ DOMAIN m.tree = DOMAIN k.tree
       /\ PressedParts(m.tree) = PressedParts(k.tree)
  BY <1>14, <1>16, <1>19, PlacedIsGui
<1>21. h = win_show(m, Contents)
  BY <1>4, <1>5, <1>7, <1>9, <1>11, <1>13, <1>15, <1>18 DEF wtk_frame_create
<1>22. Rest(m, h) /\ SameWindows(m.tree, h.tree)
  <2>1. IsTree(m.tree) /\ Contents \in DOMAIN m.tree
    BY <1>17, <1>20 DEF Shape
  <2>2. QED
    BY <1>20, <1>21, <2>1, ShowKeeps
<1>23. /\ Shape(h.tree) /\ DOMAIN h.tree = DOMAIN m.tree
       /\ PressedParts(h.tree) = PressedParts(m.tree)
  BY <1>20, <1>22, LinksKeepShape, LooksKeepPressed DEF SameWindows, SameLinks
<1>24. /\ Fits(h.tree) /\ h.tree[Contents].area.pos = Frames(Border)
       /\ h.tree[Resize].area.size = HandleSize
  BY <1>6, <1>17, <1>19, <1>20, <1>22 DEF Fits, SameWindows, SameAreas
<1>25. PressedParts(k.tree) = PressedParts(g.tree)
  BY <1>17 DEF PressedParts
<1>26. /\ IsGui(h) /\ h.frame = "normal" /\ h.grabber = g.grabber /\ h.origin = g.origin
       /\ h.sent = g.sent
  BY <1>8, <1>10, <1>12, <1>14, <1>16, <1>19, <1>22 DEF Rest, Placed
<1>27. QED
  BY <1>17, <1>20, <1>23, <1>24, <1>25, <1>26

\* One ring put before another.
LEMMA Joined ==
    ASSUME NEW S, NEW a \in Seq(S), Once(a), NEW b \in Seq(S), Once(b),
           ToSet(a) \cap ToSet(b) = {}
    PROVE  a \o b \in Seq(S) /\ Once(a \o b) /\ ToSet(a \o b) = ToSet(a) \cup ToSet(b)
<1>1. PICK m \in Nat : m = Len(a) /\ DOMAIN a = 1 .. m /\ \A j \in 1 .. m : a[j] \in S
  BY SequenceDomain
<1>2. PICK n \in Nat : n = Len(b) /\ DOMAIN b = 1 .. n /\ \A j \in 1 .. n : b[j] \in S
  BY SequenceDomain
<1>3. PICK c : c = a \o b
  OBVIOUS
<1>4. /\ c \in Seq(S) /\ DOMAIN c = 1 .. m + n
      /\ \A j \in 1 .. m + n : c[j] = IF j <= m THEN a[j] ELSE b[j - m]
  <2>1. /\ c \in Seq(S) /\ Len(c) = Len(a) + Len(b)
        /\ \A j \in 1 .. Len(a) + Len(b) : c[j] = IF j <= Len(a) THEN a[j] ELSE b[j - Len(a)]
    BY <1>3, ConcatProperties
  <2>2. QED
    BY <1>1, <1>2, <2>1, LenProperties
<1>5. /\ \A j \in 1 .. m : a[j] \in ToSet(a) /\ c[j] = a[j] /\ j \in 1 .. m + n
      /\ \A j \in 1 .. n : b[j] \in ToSet(b) /\ c[m + j] = b[j] /\ m + j \in 1 .. m + n
  <2>1. \A j \in 1 .. m : a[j] \in ToSet(a)
    BY <1>1 DEF ToSet
  <2>2. \A j \in 1 .. n : b[j] \in ToSet(b)
    BY <1>2 DEF ToSet
  <2>3. \A j \in 1 .. m : c[j] = a[j] /\ j \in 1 .. m + n
    BY <1>4
  <2>4. ASSUME NEW j \in 1 .. n PROVE c[m + j] = b[j] /\ m + j \in 1 .. m + n
    <3>1. m + j \in 1 .. m + n /\ ~ (m + j <= m) /\ (m + j) - m = j
      OBVIOUS
    <3>2. QED
      BY <1>4, <3>1
  <2>5. QED
    BY <2>1, <2>2, <2>3, <2>4
<1>6. ASSUME NEW j \in 1 .. m + n
      PROVE  \/ j \in 1 .. m /\ c[j] = a[j]
             \/ j - m \in 1 .. n /\ c[j] = b[j - m]
  BY <1>4
<1>7. Once(c)
  <2>1. ASSUME NEW j \in 1 .. m + n, NEW k \in 1 .. m + n, c[j] = c[k] PROVE j = k
    <3>1. CASE j \in 1 .. m /\ k \in 1 .. m
      BY <1>1, <1>5, <2>1, <3>1 DEF Once
    <3>2. CASE j - m \in 1 .. n /\ k - m \in 1 .. n
      <4>1. b[j - m] = b[k - m]
        BY SMTT(60), <1>4, <2>1, <3>2
      <4>2. j - m = k - m
        BY <1>2, <3>2, <4>1 DEF Once
      <4>3. QED
        BY <4>2
    <3>3. CASE j \in 1 .. m /\ k - m \in 1 .. n
      <4>1. c[j] \in ToSet(a)
        BY <1>5, <3>3
      <4>2. c[k] = b[k - m] /\ b[k - m] \in ToSet(b)
        BY <1>4, <1>5, <3>3
      <4>3. QED
        BY <2>1, <4>1, <4>2
    <3>4. CASE j - m \in 1 .. n /\ k \in 1 .. m
      <4>1. c[k] \in ToSet(a)
        BY <1>5, <3>4
      <4>2. c[j] = b[j - m] /\ b[j - m] \in ToSet(b)
        BY <1>4, <1>5, <3>4
      <4>3. QED
        BY <2>1, <4>1, <4>2
    <3>5. QED
      BY <1>6, <3>1, <3>2, <3>3, <3>4
  <2>2. QED
    BY <1>4, <2>1 DEF Once
<1>8. ToSet(c) = ToSet(a) \cup ToSet(b)
  <2>1. ASSUME NEW x \in ToSet(c) PROVE x \in ToSet(a) \cup ToSet(b)
    <3>1. PICK j \in 1 .. m + n : c[j] = x
      BY <1>4 DEF ToSet
    <3>2. QED
      BY <1>5, <1>6, <3>1
  <2>2. ASSUME NEW x \in ToSet(a) PROVE x \in ToSet(c)
    <3>1. PICK j \in 1 .. m : a[j] = x
      BY <1>1 DEF ToSet
    <3>2. QED
      BY <1>4, <1>5, <3>1 DEF ToSet
  <2>3. ASSUME NEW x \in ToSet(b) PROVE x \in ToSet(c)
    <3>1. PICK j \in 1 .. n : b[j] = x
      BY <1>2 DEF ToSet
    <3>2. QED
      BY <1>4, <1>5, <3>1 DEF ToSet
  <2>4. QED
    BY <2>1, <2>2, <2>3
<1>9. QED
  BY <1>3, <1>4, <1>7, <1>8

\* The widgets of a new frame.
LEMMA WidgetsCreated ==
    ASSUME NEW g, IsGui(g), Shape(g.tree), Widget \cap DOMAIN g.tree = {},
           Contents \in DOMAIN g.tree, NEW h, h = CreateWidgets(g)
    PROVE  /\ IsGui(h) /\ Shape(h.tree) /\ DOMAIN h.tree = DOMAIN g.tree \cup Widget
           /\ h.frame = g.frame /\ h.grabber = g.grabber /\ h.origin = g.origin
           /\ h.sent = g.sent
           /\ \A x \in DOMAIN g.tree : /\ h.tree[x].area = g.tree[x].area
                                       /\ h.tree[x].look = g.tree[x].look
           /\ \A w \in Widget : h.tree[w].area = PlaceOf[w] /\ ~ h.tree[w].look.pressed
<1> DEFINE t == g.tree
           made(w) == [area |-> PlaceOf[w], look |-> Plain,
                       redrawParent |-> kind[w] \in {"check_box", "radio"},
                       raiseOnPress |-> FALSE,
                       mapped |-> TRUE, parent |-> Contents, children |-> <<>>]
           root == [t[Contents] EXCEPT !.children = Stacking \o @]
           u == [x \in DOMAIN t \cup Widget |->
                    IF x \in Widget THEN made(x) ELSE IF x = Contents THEN root ELSE t[x]]
<1>1. /\ IsTree(t) /\ Root \in DOMAIN t /\ DOMAIN t \subseteq AllWindows
      /\ Contents \notin Widget /\ Root \notin Widget /\ Root # Contents
      /\ Widget \subseteq AllWindows
  BY WindowsAssumption DEF Shape, AllWindows, FrameParts
<1>2. PICK s : s = t[Contents].children
  OBVIOUS
<1>3. /\ s \in Seq(AllWindows) /\ Once(s) /\ ToSet(s) = ChildrenOf(t, Contents)
      /\ IsWindow(t[Contents])
  BY <1>1, <1>2 DEF Shape, IsTree, IsWindow
<1>4. PICK c : c = Stacking \o s
  OBVIOUS
<1>5. c \in Seq(AllWindows) /\ Once(c) /\ ToSet(c) = Widget \cup ChildrenOf(t, Contents)
  <2>1. Stacking \in Seq(Widget) /\ Once(Stacking) /\ ToSet(Stacking) = Widget
    BY StackingAssumption DEF Once
  <2>2. Stacking \in Seq(AllWindows)
    <3>1. PICK n \in Nat : n = Len(Stacking) /\ DOMAIN Stacking = 1 .. n
                           /\ \A i \in 1 .. n : Stacking[i] \in Widget
      BY <2>1, SequenceDomain
    <3>2. \A i \in 1 .. Len(Stacking) : Stacking[i] \in AllWindows
      BY <1>1, <3>1
    <3>3. QED
      BY <2>1, <3>2, SeqDef
  <2>3. ToSet(Stacking) \cap ToSet(s) = {}
    BY <1>3, <2>1 DEF ChildrenOf
  <2>4. QED
    BY <1>3, <1>4, <2>1, <2>2, <2>3, Joined
<1>6. root = [t[Contents] EXCEPT !.children = c]
  BY SMTT(60), <1>2, <1>4
<1>7. /\ IsWindow(root) /\ root.children = c /\ root.parent = t[Contents].parent
      /\ root.area = t[Contents].area /\ root.look = t[Contents].look
  <2>1. IsWindow(root)
    BY <1>3, <1>5, <1>6, AttributeSet
  <2>2. QED
    BY <1>3, <1>6, <2>1 DEF IsWindow
<1>8. ASSUME NEW w \in Widget
      PROVE  /\ IsWindow(made(w)) /\ made(w).parent = Contents /\ made(w).children = <<>>
             /\ made(w).area = PlaceOf[w] /\ made(w).look = Plain /\ ~ Plain.pressed
  <2>1. PlaceOf[w] \in AreaType
    BY WindowsAssumption
  <2>2. IsLook(Plain) /\ ~ Plain.pressed
    BY DEF IsLook, Plain
  <2>3. <<>> \in Seq(AllWindows)
    BY SMTT(60)
  <2>4. QED
    BY <2>1, <2>2, <2>3 DEF IsWindow
<1>9. /\ h.tree = u /\ IsGui(h)
      /\ h.frame = g.frame /\ h.grabber = g.grabber /\ h.origin = g.origin /\ h.sent = g.sent
  <2>1. \E r : h = [g EXCEPT !.tree = u, !.rootPos = r]
    BY DEF CreateWidgets
  <2> HIDE DEF u
  <2>2. QED
    BY <2>1 DEF IsGui
<1> HIDE DEF made, root
<1>10. /\ DOMAIN u = DOMAIN t \cup Widget
       /\ \A w \in Widget : u[w] = made(w)
       /\ u[Contents] = root
       /\ \A x \in DOMAIN t \ {Contents} : u[x] = t[x]
  BY <1>1
<1>11. IsTree(u)
  <2>1. \A x \in DOMAIN u : IsWindow(u[x])
    BY <1>1, <1>7, <1>8, <1>10 DEF IsTree
  <2>2. u = [x \in DOMAIN u |-> u[x]]
    OBVIOUS
  <2>3. QED
    BY <2>1, <2>2 DEF IsTree
<1> HIDE DEF u
<1>12. /\ \A x \in DOMAIN t : u[x].parent = t[x].parent /\ u[x].area = t[x].area
                              /\ u[x].look = t[x].look
       /\ \A w \in Widget : u[w].parent = Contents
  BY <1>7, <1>8, <1>10
<1>13. /\ ChildrenOf(u, Contents) = Widget \cup ChildrenOf(t, Contents)
       /\ \A x : x # Contents => ChildrenOf(u, x) = ChildrenOf(t, x)
  BY <1>1, <1>10, <1>12 DEF ChildrenOf
<1>14. ASSUME NEW x \in DOMAIN u
       PROVE  /\ u[x].parent \in MayLieIn(x) /\ (x # Root => u[x].parent \in DOMAIN u)
              /\ ToSet(u[x].children) = ChildrenOf(u, x) /\ Once(u[x].children)
  <2>1. CASE x \in Widget
    <3>1. MayLieIn(x) = {Contents} /\ x # Contents
      BY <2>1, WindowsAssumption DEF MayLieIn
    <3>2. ChildrenOf(t, x) = {}
      BY <2>1 DEF Shape, ChildrenOf
    <3>3. u[x].children = <<>> /\ ToSet(<<>>) = {} /\ Once(<<>>)
      BY <1>8, <1>10, <2>1 DEF ToSet, Once
    <3>4. QED
      BY <1>10, <1>12, <1>13, <2>1, <3>1, <3>2, <3>3
  <2>2. CASE x = Contents
    BY <1>5, <1>7, <1>10, <1>12, <1>13, <2>2 DEF Shape
  <2>3. CASE x \notin Widget /\ x # Contents
    BY <1>10, <1>12, <1>13, <2>3 DEF Shape
  <2>4. QED
    BY <2>1, <2>2, <2>3
<1>15. Shape(u)
  BY <1>1, <1>10, <1>11, <1>14 DEF Shape
<1>16. QED
  BY <1>8, <1>9, <1>10, <1>12, <1>15

LEMMA LaunchMakesFrame ==
    ASSUME NEW g, GuiInv(g), Container \notin DOMAIN g.tree,
           NEW h, h = win_show(CreateWidgets(wtk_frame_create(g)), Container)
    PROVE  GuiInv(h) /\ h.sent = g.sent /\ h.grabber = Nothing
<1>1. /\ IsGui(g) /\ Shape(g.tree) /\ FrameParts \cap DOMAIN g.tree = {}
      /\ PressedParts(g.tree) = {} /\ g.grabber = Nothing /\ g.origin \in Vector
  <2>1. FrameParts \cap DOMAIN g.tree = {}
    BY DEF GuiInv, GuiShape, FrameWhole, FrameParts
  <2>2. PressedParts(g.tree) = {} /\ DraggedParts(g) = {}
    <3>1. PressedParts(g.tree) \subseteq Widget
      BY DEF GuiInv, GuiShape
    <3>2. PressedParts(g.tree) \subseteq DOMAIN g.tree /\ Widget \subseteq FrameParts
      BY DEF PressedParts, FrameParts
    <3>3. DraggedParts(g) = {}
      BY <2>1 DEF DraggedParts, FrameParts
    <3>4. QED
      BY <2>1, <3>1, <3>2, <3>3
  <2>3. g.grabber = Nothing
    BY <2>2 DEF GuiInv, GuiShape
  <2>4. QED
    BY <2>1, <2>2, <2>3 DEF GuiInv, GuiShape
<1>2. PICK f : f = wtk_frame_create(g)
  OBVIOUS
<1>3. /\ IsGui(f) /\ Shape(f.tree) /\ Fits(f.tree)
      /\ DOMAIN f.tree = DOMAIN g.tree \cup {Container, Contents, Resize}
      /\ f.tree[Contents].area.pos = Frames(Border)
      /\ f.tree[Resize].area.size = HandleSize
      /\ f.frame = "normal" /\ f.grabber = g.grabber /\ f.origin = g.origin
      /\ f.sent = g.sent /\ PressedParts(f.tree) = PressedParts(g.tree)
  BY <1>1, <1>2, FrameCreated
<1>4. PICK k : k = CreateWidgets(f)
  OBVIOUS
<1>5. /\ IsGui(k) /\ Shape(k.tree) /\ DOMAIN k.tree = DOMAIN f.tree \cup Widget
      /\ k.frame = f.frame /\ k.grabber = f.grabber /\ k.origin = f.origin
      /\ k.sent = f.sent
      /\ \A x \in DOMAIN f.tree : /\ k.tree[x].area = f.tree[x].area
                                  /\ k.tree[x].look = f.tree[x].look
      /\ \A w \in Widget : k.tree[w].area = PlaceOf[w] /\ ~ k.tree[w].look.pressed
  <2>1. Widget \cap DOMAIN f.tree = {}
    BY <1>1, <1>3, WindowsAssumption DEF FrameParts
  <2>2. Contents \in DOMAIN f.tree
    BY <1>3
  <2>3. QED
    BY <1>3, <1>4, <2>1, <2>2, WidgetsCreated
<1>6. PressedParts(k.tree) = {}
  BY <1>1, <1>3, <1>5 DEF PressedParts
<1>7. h = win_show(k, Container) /\ Container \in DOMAIN k.tree /\ IsTree(k.tree)
  BY <1>2, <1>3, <1>4, <1>5 DEF Shape
<1>8. Rest(k, h) /\ SameWindows(k.tree, h.tree)
  BY <1>5, <1>7, ShowKeeps
<1>9. /\ Shape(h.tree) /\ PressedParts(h.tree) = {} /\ DOMAIN h.tree = DOMAIN k.tree
      /\ SameAreas(k.tree, h.tree)
  BY <1>5, <1>6, <1>8, LinksKeepShape, LooksKeepPressed DEF SameWindows, SameLinks
<1>10. FrameWhole(h.tree)
  BY <1>3, <1>5, <1>9 DEF FrameWhole, FrameParts
<1>11. AreasFit(h.tree)
  <2>1. AreasFit(k.tree)
    BY <1>3, <1>5 DEF AreasFit, Fits
  <2>2. QED
    BY <1>9, <1>10, <2>1, AreasKeepFit DEF FrameWhole
<1>12. /\ IsGui(h) /\ h.frame = "normal" /\ h.grabber = Nothing /\ h.origin \in Vector
       /\ h.sent = g.sent
  BY <1>1, <1>3, <1>5, <1>8 DEF Rest
<1>13. DraggedParts(h) = {}
  BY <1>12 DEF DraggedParts, Awaiting, Dragging
<1>14. QED
  BY <1>9, <1>10, <1>11, <1>12, <1>13 DEF GuiInv, GuiShape, FrameStates

-----------------------------------------------------------------------------
(* The pointer in the widgets.                                             *)

\* What holds the pointer, and nothing else, is pressed or dragged.
LEMMA Holders ==
    ASSUME NEW g, GuiInv(g)
    PROVE  /\ DraggedParts(g) \subseteq {Container, Resize} /\ PressedParts(g.tree) \subseteq Widget
           /\ Nothing \notin PressedParts(g.tree) \cup DraggedParts(g)
           /\ Widget \cap {Container, Resize} = {}
           /\ g.grabber = Nothing => PressedParts(g.tree) = {} /\ DraggedParts(g) = {}
           /\ g.grabber # Nothing => g.grabber \in DOMAIN g.tree
           /\ \A w \in PressedParts(g.tree) :
                 /\ g.grabber = w /\ PressedParts(g.tree) = {w} /\ DraggedParts(g) = {}
           /\ \A w \in DraggedParts(g) :
                 /\ g.grabber = w /\ PressedParts(g.tree) = {} /\ DraggedParts(g) = {w}
<1>1. /\ PressedParts(g.tree) \subseteq Widget
      /\ PressedParts(g.tree) \cup DraggedParts(g) = {g.grabber} \ {Nothing}
  BY DEF GuiInv, GuiShape
<1>2. DraggedParts(g) \subseteq {Container, Resize} \cap DOMAIN g.tree
  BY DEF DraggedParts
<1>3. PressedParts(g.tree) \subseteq DOMAIN g.tree
  BY DEF PressedParts
<1>4. Widget \cap {Container, Resize} = {}
  BY WindowsAssumption
<1>5. QED
  BY <1>1, <1>2, <1>3, <1>4

\* A gui whose windows are where they were is as good as before.
LEMMA RearrangedIsGui ==
    ASSUME NEW g, GuiInv(g), NEW h, Rearranged(g, h)
    PROVE  /\ GuiInv(h) /\ DOMAIN h.tree = DOMAIN g.tree
           /\ h.grabber = g.grabber /\ h.sent = g.sent
           /\ PressedParts(h.tree) = PressedParts(g.tree)
<1>1. /\ IsGui(h) /\ h.grabber = g.grabber /\ h.frame = g.frame /\ h.origin = g.origin
      /\ h.sent = g.sent
      /\ Shape(h.tree) /\ DOMAIN h.tree = DOMAIN g.tree
      /\ SameAreas(g.tree, h.tree) /\ SameLooks(g.tree, h.tree)
  BY DEF Rearranged, Rest, SameParts
<1>2. PressedParts(h.tree) = PressedParts(g.tree)
  BY <1>1, LooksKeepPressed
<1>3. DraggedParts(h) = DraggedParts(g)
  BY <1>1 DEF DraggedParts
<1>4. FrameWhole(h.tree)
  BY <1>1 DEF GuiInv, GuiShape, FrameWhole
<1>5. AreasFit(h.tree)
  BY <1>1, AreasKeepFit DEF GuiInv, GuiShape
<1>6. QED
  BY <1>1, <1>2, <1>3, <1>4, <1>5 DEF GuiInv, GuiShape

LEMMA RedrawIsGui ==
    ASSUME NEW g, GuiInv(g), NEW w, NEW h, h = win_redraw(g, w)
    PROVE  GuiInv(h) /\ h.tree = g.tree /\ h.grabber = g.grabber /\ h.sent = g.sent
<1>1. IsGui(g) /\ Shape(g.tree)
  BY DEF GuiInv, GuiShape
<1>2. Rest(g, h) /\ h.tree = g.tree
  BY <1>1, RedrawKeeps
<1>3. Rearranged(g, h)
  BY <1>1, <1>2, SelfRearranged DEF Rearranged
<1>4. QED
  BY <1>2, <1>3, RearrangedIsGui DEF Rest

\* A widget that takes the pointer or lets it go.
Grabbing(g, w, x, b) == [g EXCEPT !.grabber = x, !.tree[w].look.pressed = b]

LEMMA GrabbingIsGui ==
    ASSUME NEW g, GuiInv(g), NEW w \in Widget \cap DOMAIN g.tree,
           PressedParts(g.tree) \subseteq {w}, DraggedParts(g) = {}, NEW b \in BOOLEAN,
           NEW x, x = IF b THEN w ELSE Nothing,
           NEW h, h = win_redraw(Grabbing(g, w, x, b), w)
    PROVE  /\ GuiInv(h) /\ DOMAIN h.tree = DOMAIN g.tree /\ h.sent = g.sent
           /\ h.grabber = x
<1>1. IsGui(g) /\ Shape(g.tree) /\ IsTree(g.tree) /\ w # Nothing
  BY WindowsAssumption DEF GuiInv, GuiShape, Shape
<1>3. PICK t : t = [g.tree EXCEPT ![w].look.pressed = b]
  OBVIOUS
<1>4. LooksPressed(g.tree, t, w, b)
  BY <1>1, <1>3, PressedSet
<1>5. /\ Shape(t) /\ DOMAIN t = DOMAIN g.tree /\ SameAreas(g.tree, t)
      /\ FrameWhole(t) /\ AreasFit(t)
  <2>1. SameLinks(g.tree, t) /\ SameAreas(g.tree, t)
    BY <1>4 DEF LooksPressed
  <2>2. DOMAIN t = DOMAIN g.tree
    BY <2>1 DEF SameLinks
  <2>3. Shape(t) /\ FrameWhole(t)
    BY <1>1, <2>1, LinksKeepShape DEF GuiInv, GuiShape
  <2>4. AreasFit(t)
    BY <2>1, <2>2, AreasKeepFit DEF GuiInv, GuiShape
  <2>5. QED
    BY <2>1, <2>2, <2>3, <2>4
<1>6. PressedParts(t) = IF b THEN {w} ELSE {}
  BY <1>4, <1>5 DEF LooksPressed, PressedParts
<1>7. PICK k : k = [g EXCEPT !.grabber = x, !.tree = t]
  OBVIOUS
<1>8. k = Grabbing(g, w, x, b)
  BY <1>3, <1>7 DEF Grabbing
<1>9. /\ IsGui(k) /\ k.tree = t /\ k.grabber = x /\ k.frame = g.frame
      /\ k.origin = g.origin /\ k.sent = g.sent
  BY <1>1, <1>7 DEF IsGui
<1>10. DraggedParts(k) = {}
  BY <1>5, <1>9 DEF DraggedParts
<1>11. PressedParts(k.tree) \cup DraggedParts(k) = {k.grabber} \ {Nothing}
  BY <1>1, <1>6, <1>9, <1>10
<1>12. GuiInv(k)
  BY <1>5, <1>6, <1>9, <1>11 DEF GuiInv, GuiShape
<1>13. h = win_redraw(k, w)
  BY <1>8
<1>14. QED
  BY <1>5, <1>9, <1>12, <1>13, RedrawIsGui

LEMMA UpIsGui ==
    ASSUME NEW g, GuiInv(g), NEW w \in PressedParts(g.tree), NEW h, h = Up(g, w)
    PROVE  /\ GuiInv(h) /\ DOMAIN h.tree = DOMAIN g.tree /\ h.sent = g.sent
           /\ h.grabber = Nothing
<1>1. /\ w \in Widget /\ w \in DOMAIN g.tree
      /\ PressedParts(g.tree) = {w} /\ DraggedParts(g) = {}
  BY Holders DEF PressedParts
<1>2. h = win_redraw(Grabbing(g, w, Nothing, FALSE), w)
  BY DEF Up, Grabbing
<1>3. PICK b \in BOOLEAN : b = FALSE
  OBVIOUS
<1>4. PICK x : x = Nothing
  OBVIOUS
<1>5. h = win_redraw(Grabbing(g, w, x, b), w) /\ x = IF b THEN w ELSE Nothing
  BY <1>2, <1>3, <1>4
<1>6. GuiInv(h) /\ DOMAIN h.tree = DOMAIN g.tree /\ h.sent = g.sent /\ h.grabber = x
  BY <1>1, <1>5, GrabbingIsGui
<1>7. QED
  BY <1>4, <1>6

LEMMA SendIsGui ==
    ASSUME NEW g, GuiInv(g), g.sent = <<>>, NEW w, NEW h, h = SendCommand(g, w)
    PROVE  /\ GuiInv(h) /\ h.tree = g.tree /\ h.grabber = g.grabber /\ h.sent = <<w>>
<1>1. h = [g EXCEPT !.sent = <<w>>]
  BY DEF SendCommand
<1>2. /\ IsGui(h) /\ h.tree = g.tree /\ h.grabber = g.grabber /\ h.frame = g.frame
      /\ h.origin = g.origin /\ h.sent = <<w>>
  BY <1>1 DEF GuiInv, GuiShape, IsGui
<1>3. DraggedParts(h) = DraggedParts(g)
  BY <1>2 DEF DraggedParts
<1>4. QED
  BY <1>2, <1>3 DEF GuiInv, GuiShape

\* A widget with another value.
Valued(g, w, v) == [g EXCEPT !.tree[w].look.value = v]

LEMMA ValueIsGui ==
    ASSUME NEW g, GuiInv(g), NEW w \in DOMAIN g.tree, NEW v,
           NEW h, h = win_redraw(Valued(g, w, v), w)
    PROVE  /\ GuiInv(h) /\ DOMAIN h.tree = DOMAIN g.tree /\ h.grabber = g.grabber
           /\ h.sent = g.sent
<1>1. IsGui(g) /\ Shape(g.tree) /\ IsTree(g.tree)
  BY DEF GuiInv, GuiShape, Shape
<1>2. PICK t : t = [g.tree EXCEPT ![w].look.value = v]
  OBVIOUS
<1>3. SameWindows(g.tree, t)
  BY <1>1, <1>2, ValueSet
<1>4. PICK k : k = [g EXCEPT !.tree = t]
  OBVIOUS
<1>5. Rest(g, k) /\ k.tree = t
  BY <1>1, <1>4, TreeSet
<1>6. Rearranged(g, k)
  BY <1>1, <1>3, <1>5, SameRearranged
<1>7. GuiInv(k) /\ DOMAIN k.tree = DOMAIN g.tree /\ k.grabber = g.grabber /\ k.sent = g.sent
  BY <1>6, RearrangedIsGui
<1>8. h = win_redraw(k, w)
  BY <1>2, <1>4 DEF Valued
<1>9. QED
  BY <1>7, <1>8, RedrawIsGui

\* The marks of the radio buttons move, nothing else does.
LEMMA SelectIsGui ==
    ASSUME NEW g, GuiInv(g), NEW w \in DOMAIN g.tree,
           NEW h, h = wtk_radio_button_select(g, w)
    PROVE  /\ GuiInv(h) /\ DOMAIN h.tree = DOMAIN g.tree /\ h.grabber = g.grabber
           /\ h.sent = g.sent
<1>1. IsGui(g) /\ Shape(g.tree) /\ IsTree(g.tree)
  BY DEF GuiInv, GuiShape, Shape
<1> DEFINE others == {x \in Widget : kind[x] = "radio" /\ x # w}
           marked == {x \in others : g.tree[x].look.value = 1}
           t == [x \in DOMAIN g.tree |->
                    IF x = w THEN [g.tree[x] EXCEPT !.look.value = 1]
                    ELSE IF x \in marked THEN [g.tree[x] EXCEPT !.look.value = 0]
                    ELSE g.tree[x]]
           k == [g EXCEPT !.tree = t]
<1>2. ASSUME NEW r, IsWindow(r), NEW v, NEW q, q = [r EXCEPT !.look.value = v]
      PROVE  /\ IsWindow(q) /\ q.area = r.area /\ q.look.pressed = r.look.pressed
             /\ q.parent = r.parent /\ q.children = r.children
  <2>1. PICK l : l = [r.look EXCEPT !.value = v]
    OBVIOUS
  <2>2. IsLook(l) /\ l.pressed = r.look.pressed
    BY <1>2, <2>1 DEF IsWindow, IsLook
  <2>3. q = [r EXCEPT !.look = l]
    BY <1>2, <2>1
  <2>4. IsWindow(q)
    <3>1. IsWindow([r EXCEPT !.look = l])
      BY <1>2, <2>2, AttributeSet
    <3>2. QED
      BY <2>3, <3>1
  <2>5. QED
    BY <1>2, <2>2, <2>3, <2>4 DEF IsWindow
<1>3. \/ h = g
      \/ \E x : h = win_redraw(k, x)
      \/ \E x, y : h = win_redraw(win_redraw(k, x), y)
  BY DEF wtk_radio_button_select
<1>4. ASSUME NEW x \in DOMAIN t
      PROVE  /\ IsWindow(t[x]) /\ t[x].area = g.tree[x].area
             /\ t[x].look.pressed = g.tree[x].look.pressed
             /\ t[x].parent = g.tree[x].parent /\ t[x].children = g.tree[x].children
  <2>0. IsWindow(g.tree[x])
    BY <1>1 DEF IsTree
  <2>1. \/ t[x] = g.tree[x]
        \/ t[x] = [g.tree[x] EXCEPT !.look.value = 1]
        \/ t[x] = [g.tree[x] EXCEPT !.look.value = 0]
    OBVIOUS
  <2>2. PICK q : q = t[x]
    OBVIOUS
  <2> HIDE DEF t
  <2>3. QED
    BY SMTT(60), <1>2, <2>0, <2>1, <2>2
<1>5. DOMAIN t = DOMAIN g.tree /\ t = [x \in DOMAIN t |-> t[x]]
  OBVIOUS
<1> HIDE DEF t
<1>6. SameWindows(g.tree, t)
  BY <1>4, <1>5 DEF SameWindows, SameLinks, SameAreas, SameLooks, IsTree
<1>7. Rest(g, k) /\ k.tree = t
  BY <1>1, TreeSet
<1>8. Rearranged(g, k)
  BY <1>1, <1>6, <1>7, SameRearranged
<1> HIDE DEF k
<1>9. GuiInv(k) /\ DOMAIN k.tree = DOMAIN g.tree /\ k.grabber = g.grabber /\ k.sent = g.sent
  BY <1>8, RearrangedIsGui
<1>10. ASSUME NEW x, NEW m, m = win_redraw(k, x)
       PROVE  /\ GuiInv(m) /\ DOMAIN m.tree = DOMAIN g.tree /\ m.grabber = g.grabber
              /\ m.sent = g.sent
  BY <1>9, <1>10, RedrawIsGui
<1>11. ASSUME NEW x, NEW y, h = win_redraw(win_redraw(k, x), y)
       PROVE  /\ GuiInv(h) /\ DOMAIN h.tree = DOMAIN g.tree /\ h.grabber = g.grabber
              /\ h.sent = g.sent
  <2>1. PICK m : m = win_redraw(k, x)
    OBVIOUS
  <2>2. h = win_redraw(m, y)
    BY <1>11, <2>1
  <2>3. QED
    BY <1>10, <2>1, <2>2, RedrawIsGui
<1>12. QED
  BY <1>3, <1>10, <1>11

\* What a handler makes of a pointer event.
Answered(g, h, w) ==
    /\ GuiInv(h) /\ DOMAIN h.tree = DOMAIN g.tree
    /\ h.sent = <<>> \/ (h.sent = <<w>> /\ w \in PressedParts(g.tree))

LEMMA Unmoved ==
    ASSUME NEW g, GuiInv(g), g.sent = <<>>, NEW w
    PROVE  Answered(g, g, w)
BY DEF Answered

\* A press takes the pointer when nothing has it.
LEMMA PressTakes ==
    ASSUME NEW g, GuiInv(g), g.sent = <<>>, NEW w \in Widget \cap DOMAIN g.tree,
           g.grabber \in {Nothing, w}, ~ g.tree[w].look.pressed,
           NEW event, event.act = "press",
           NEW h, h = win_redraw([g EXCEPT !.grabber = w, !.tree[w].look.pressed = TRUE], w)
    PROVE  Answered(g, h, w)
<1>1. PressedParts(g.tree) = {} /\ DraggedParts(g) = {}
  <2>1. CASE g.grabber = Nothing
    BY <2>1, Holders
  <2>2. CASE g.grabber = w /\ w # Nothing
    <3>1. w \notin PressedParts(g.tree) /\ w \notin DraggedParts(g)
      BY Holders DEF PressedParts
    <3>2. QED
      BY <2>2, <3>1 DEF GuiInv, GuiShape
  <2>3. QED
    BY <2>1, <2>2
<1>2. PICK b \in BOOLEAN : b = TRUE
  OBVIOUS
<1>3. h = win_redraw(Grabbing(g, w, w, b), w) /\ w = IF b THEN w ELSE Nothing
  BY <1>2 DEF Grabbing
<1>4. GuiInv(h) /\ DOMAIN h.tree = DOMAIN g.tree /\ h.sent = g.sent
  BY <1>1, <1>3, GrabbingIsGui
<1>5. QED
  BY <1>4 DEF Answered

\* Buttons, check boxes and radio buttons.
LEMMA PressAndReleaseAnswers ==
    ASSUME NEW g, GuiInv(g), g.sent = <<>>, NEW w \in Widget \cap DOMAIN g.tree,
           g.grabber \in {Nothing, w}, NEW event, NEW clicked,
           w \in PressedParts(g.tree) =>
               /\ GuiInv(clicked) /\ DOMAIN clicked.tree = DOMAIN g.tree
               /\ clicked.grabber = Nothing /\ clicked.sent = <<w>>,
           NEW h, h = PressAndRelease(g, w, event, clicked)
    PROVE  Answered(g, h, w)
<1>1. CASE event.act = "press" /\ ~ g.tree[w].look.pressed
  <2>1. h = win_redraw([g EXCEPT !.grabber = w, !.tree[w].look.pressed = TRUE], w)
    BY <1>1 DEF PressAndRelease
  <2>2. QED
    BY <1>1, <2>1, PressTakes
<1>2. CASE event.act = "release" /\ g.tree[w].look.pressed
  <2>1. w \in PressedParts(g.tree)
    BY <1>2 DEF PressedParts
  <2>2. h = clicked \/ h = Up(g, w)
    BY <1>2 DEF PressAndRelease
  <2>3. CASE h = clicked
    BY <1>2, <2>1, <2>3 DEF Answered
  <2>4. CASE h = Up(g, w)
    BY <2>1, <2>4, UpIsGui DEF Answered
  <2>5. QED
    BY <2>2, <2>3, <2>4
<1>3. CASE /\ ~ (event.act = "press" /\ ~ g.tree[w].look.pressed)
           /\ ~ (event.act = "release" /\ g.tree[w].look.pressed)
  BY <1>3, Unmoved DEF PressAndRelease
<1>4. QED
  BY SMTT(60), <1>1, <1>2, <1>3

LEMMA ButtonsAnswer ==
    ASSUME NEW g, GuiInv(g), g.sent = <<>>, NEW w \in Widget \cap DOMAIN g.tree,
           g.grabber \in {Nothing, w}, NEW event,
           NEW h, h \in {wtk_button_handler(g, w, event), wtk_check_box_handler(g, w, event),
                         wtk_radio_button_handler(g, w, event)}
    PROVE  Answered(g, h, w)
<1>1. PICK a : a = Up(g, w)
  OBVIOUS
<1>2. w \in PressedParts(g.tree) =>
          /\ GuiInv(a) /\ DOMAIN a.tree = DOMAIN g.tree /\ a.sent = <<>>
          /\ a.grabber = Nothing
  BY <1>1, UpIsGui
<1>3. CASE h = wtk_button_handler(g, w, event)
  <2>1. PICK c : c = SendCommand(a, w)
    OBVIOUS
  <2>2. w \in PressedParts(g.tree) =>
            /\ GuiInv(c) /\ DOMAIN c.tree = DOMAIN g.tree
            /\ c.grabber = Nothing /\ c.sent = <<w>>
    BY <1>2, <2>1, SendIsGui
  <2>3. h = PressAndRelease(g, w, event, c)
    BY <1>1, <1>3, <2>1 DEF wtk_button_handler
  <2>4. QED
    BY <2>2, <2>3, PressAndReleaseAnswers
<1>4. CASE h = wtk_check_box_handler(g, w, event)
  <2>1. PICK b : b = wtk_check_box_toggle(a, w)
    OBVIOUS
  <2>2. PICK v : v = 1 - a.tree[w].look.value
    OBVIOUS
  <2>3. b = win_redraw(Valued(a, w, v), w)
    BY <2>1, <2>2 DEF wtk_check_box_toggle, Valued
  <2>4. w \in PressedParts(g.tree) =>
            /\ GuiInv(b) /\ DOMAIN b.tree = DOMAIN g.tree
            /\ b.grabber = Nothing /\ b.sent = <<>>
    BY <1>2, <2>3, ValueIsGui
  <2>5. PICK c : c = SendCommand(b, w)
    OBVIOUS
  <2>6. w \in PressedParts(g.tree) =>
            /\ GuiInv(c) /\ DOMAIN c.tree = DOMAIN g.tree
            /\ c.grabber = Nothing /\ c.sent = <<w>>
    BY <2>4, <2>5, SendIsGui
  <2>7. h = PressAndRelease(g, w, event, c)
    BY <1>1, <1>4, <2>1, <2>5 DEF wtk_check_box_handler
  <2>8. QED
    BY <2>6, <2>7, PressAndReleaseAnswers
<1>5. CASE h = wtk_radio_button_handler(g, w, event)
  <2>1. PICK b : b = wtk_radio_button_select(a, w)
    OBVIOUS
  <2>2. w \in PressedParts(g.tree) =>
            /\ GuiInv(b) /\ DOMAIN b.tree = DOMAIN g.tree
            /\ b.grabber = Nothing /\ b.sent = <<>>
    BY <1>2, <2>1, SelectIsGui
  <2>3. PICK c : c = SendCommand(b, w)
    OBVIOUS
  <2>4. w \in PressedParts(g.tree) =>
            /\ GuiInv(c) /\ DOMAIN c.tree = DOMAIN g.tree
            /\ c.grabber = Nothing /\ c.sent = <<w>>
    BY <2>2, <2>3, SendIsGui
  <2>5. h = PressAndRelease(g, w, event, c)
    BY <1>1, <1>5, <2>1, <2>3 DEF wtk_radio_button_handler
  <2>6. QED
    BY <2>4, <2>5, PressAndReleaseAnswers
<1>6. QED
  BY <1>3, <1>4, <1>5

LEMMA SliderAnswers ==
    ASSUME NEW g, GuiInv(g), g.sent = <<>>, NEW w \in Widget \cap DOMAIN g.tree,
           g.grabber \in {Nothing, w}, kind[w] = "slider", NEW event,
           NEW h, h = wtk_slider_handler(g, w, event)
    PROVE  Answered(g, h, w)
<1>1. \/ /\ event.act = "press" /\ ~ g.tree[w].look.pressed
         /\ h = win_redraw([g EXCEPT !.grabber = w, !.tree[w].look.pressed = TRUE], w)
      \/ /\ g.tree[w].look.pressed
         /\ \E v : h = SendCommand(win_redraw(Valued(g, w, v), w), w)
      \/ g.tree[w].look.pressed /\ h = Up(g, w)
      \/ h = g
  BY ZenonT(60) DEF wtk_slider_handler, Up, Valued
<1>2. CASE /\ event.act = "press" /\ ~ g.tree[w].look.pressed
           /\ h = win_redraw([g EXCEPT !.grabber = w, !.tree[w].look.pressed = TRUE], w)
  BY <1>2, PressTakes
<1>3. CASE /\ g.tree[w].look.pressed
           /\ \E v : h = SendCommand(win_redraw(Valued(g, w, v), w), w)
  <2>1. PICK v : h = SendCommand(win_redraw(Valued(g, w, v), w), w)
    BY <1>3
  <2>2. PICK b : b = win_redraw(Valued(g, w, v), w)
    OBVIOUS
  <2>3. /\ GuiInv(b) /\ DOMAIN b.tree = DOMAIN g.tree /\ b.grabber = g.grabber
        /\ b.sent = <<>>
    BY <2>2, ValueIsGui
  <2>4. GuiInv(h) /\ h.tree = b.tree /\ h.grabber = b.grabber /\ h.sent = <<w>>
    <3>1. h = SendCommand(b, w)
      BY <2>1, <2>2
    <3>2. QED
      BY <2>3, <3>1, SendIsGui
  <2>5. w \in PressedParts(g.tree)
    BY <1>3 DEF PressedParts
  <2>6. QED
    BY <2>3, <2>4, <2>5 DEF Answered
<1>4. CASE g.tree[w].look.pressed /\ h = Up(g, w)
  <2>1. w \in PressedParts(g.tree)
    BY <1>4 DEF PressedParts
  <2>2. QED
    BY <1>4, <2>1, UpIsGui DEF Answered
<1>5. CASE h = g
  BY <1>5, Unmoved
<1>6. QED
  BY <1>1, <1>2, <1>3, <1>4, <1>5

-----------------------------------------------------------------------------
(* The pointer in the frame.                                               *)

\* Another state of the frame, and another holder of the pointer.
LEMMA DraggedSet ==
    ASSUME NEW g, GuiInv(g), NEW h, IsGui(h), h.tree = g.tree, h.frame \in FrameStates,
           h.origin \in Vector,
           PressedParts(g.tree) \cup DraggedParts(h) = {h.grabber} \ {Nothing}
    PROVE  GuiInv(h)
BY DEF GuiInv, GuiShape

\* The states in which a part of the frame is dragged.
LEMMA DragStates ==
    ASSUME NEW w \in {Container, Resize}
    PROVE  /\ Awaiting(w) \in FrameStates \ {"normal"} /\ Dragging(w) \in FrameStates \ {"normal"}
           /\ Awaiting(w) # Dragging(w) /\ "normal" \in FrameStates
           /\ \A x \in {Container, Resize} :
                 {Awaiting(x), Dragging(x)} \cap {Awaiting(w), Dragging(w)} # {} => x = w
BY DEF Awaiting, Dragging, FrameStates, Container, Resize

\* The symbols of a drag are drawn on the screen; nothing else is touched.
Marked(g, h) ==
    /\ IsGui(h) /\ h.tree = g.tree /\ h.grabber = g.grabber /\ h.frame = g.frame
    /\ h.origin = g.origin /\ h.sent = g.sent

LEMMA SymbolsMark ==
    ASSUME NEW g, IsGui(g), NEW event,
           NEW h, h \in {StartDrag(g, event), ContinueDrag(g, event), StopDrag(g, event)}
    PROVE  Marked(g, h)
<1>1. CASE h = StartDrag(g, event)
  BY <1>1 DEF StartDrag, IsGui, Marked
<1>2. CASE h = ContinueDrag(g, event)
  BY <1>2 DEF ContinueDrag, IsGui, Marked
<1>3. CASE h = StopDrag(g, event)
  BY <1>3 DEF StopDrag, IsGui, Marked
<1>4. QED
  BY <1>1, <1>2, <1>3

LEMMA FramePressAnswers ==
    ASSUME NEW g, GuiInv(g), g.sent = <<>>, NEW w \in {Container, Resize} \cap DOMAIN g.tree,
           g.grabber \in {Nothing, w}, NEW event, event.act = "press", event.pos \in Vector,
           NEW h, h = FramePress(g, w, event.pos)
    PROVE  Answered(g, h, w)
<1>1. CASE g.frame # "normal"
  BY <1>1, Unmoved DEF FramePress
<1>2. CASE g.frame = "normal"
  <2>1. PressedParts(g.tree) = {}
    <3>1. w \notin PressedParts(g.tree)
      BY Holders
    <3>2. QED
      BY <3>1 DEF GuiInv, GuiShape
  <2>2. h = [g EXCEPT !.origin = event.pos, !.grabber = w, !.frame = Awaiting(w)]
    BY <1>2 DEF FramePress
  <2>3. /\ IsGui(h) /\ h.tree = g.tree /\ h.frame = Awaiting(w) /\ h.origin = event.pos
        /\ h.grabber = w /\ h.sent = <<>>
    BY <2>2 DEF GuiInv, GuiShape, IsGui
  <2>4. DraggedParts(h) = {w}
    BY <2>3, DragStates DEF DraggedParts
  <2>5. w # Nothing /\ h.frame \in FrameStates
    BY ZenonT(60), <2>3, DragStates, WindowsAssumption
  <2>6. PressedParts(g.tree) \cup DraggedParts(h) = {h.grabber} \ {Nothing}
    BY <2>1, <2>3, <2>4, <2>5
  <2>7. GuiInv(h)
    BY <2>3, <2>5, <2>6, DraggedSet
  <2>8. QED
    BY <2>3, <2>7 DEF Answered
<1>3. QED
  BY <1>1, <1>2

LEMMA FrameMoveAnswers ==
    ASSUME NEW g, GuiInv(g), g.sent = <<>>, NEW w \in {Container, Resize} \cap DOMAIN g.tree,
           NEW event, NEW h, h = FrameMove(g, w, event)
    PROVE  Answered(g, h, w)
<1>1. CASE h = g
  BY <1>1, Unmoved
<1>2. CASE g.frame = Awaiting(w) /\ h = StartDrag([g EXCEPT !.frame = Dragging(w)], event)
  <2>1. PICK k : k = [g EXCEPT !.frame = Dragging(w)]
    OBVIOUS
  <2>2. /\ IsGui(k) /\ k.tree = g.tree /\ k.frame = Dragging(w) /\ k.origin = g.origin
        /\ k.grabber = g.grabber /\ k.sent = <<>>
    BY <2>1 DEF GuiInv, GuiShape, IsGui
  <2>3. Marked(k, h)
    BY <1>2, <2>1, <2>2, SymbolsMark
  <2>4. /\ IsGui(h) /\ h.tree = g.tree /\ h.frame = Dragging(w) /\ h.origin = g.origin
        /\ h.grabber = g.grabber /\ h.sent = <<>>
    BY <2>2, <2>3 DEF Marked
  <2>5. DraggedParts(h) = {w} /\ DraggedParts(g) = {w}
    BY ZenonT(60), <1>2, <2>4, DragStates DEF DraggedParts
  <2>6. h.frame \in FrameStates
    BY <2>4, DragStates
  <2>7. GuiInv(h)
    BY <2>4, <2>5, <2>6, DraggedSet DEF GuiInv, GuiShape
  <2>8. QED
    BY <2>4, <2>7 DEF Answered
<1>3. CASE h = ContinueDrag(g, event)
  <2>1. Marked(g, h)
    BY <1>3, SymbolsMark DEF GuiInv, GuiShape
  <2>2. DraggedParts(h) = DraggedParts(g)
    BY <2>1 DEF Marked, DraggedParts
  <2>3. GuiInv(h)
    BY <2>1, <2>2, DraggedSet DEF GuiInv, GuiShape, Marked
  <2>4. QED
    BY <2>1, <2>3 DEF Answered, Marked
<1>4. QED
  BY <1>1, <1>2, <1>3 DEF FrameMove

\* Placing the parts of the frame so that they fit.
LEMMA PlacedFits ==
    ASSUME NEW g, GuiInv(g), Container \in DOMAIN g.tree,
           NEW h, Placed(g, h, {Container, Contents, Resize}), Fits(h.tree),
           h.tree[Contents].area.pos = g.tree[Contents].area.pos,
           h.tree[Resize].area.size = g.tree[Resize].area.size
    PROVE  /\ GuiInv(h) /\ DOMAIN h.tree = DOMAIN g.tree /\ h.grabber = g.grabber
           /\ h.sent = g.sent
<1>1. /\ IsGui(h) /\ Shape(h.tree) /\ DOMAIN h.tree = DOMAIN g.tree
      /\ PressedParts(h.tree) = PressedParts(g.tree)
  BY PlacedIsGui DEF GuiInv, GuiShape
<1>2. /\ h.grabber = g.grabber /\ h.frame = g.frame /\ h.origin = g.origin
      /\ h.sent = g.sent
  BY DEF Placed, Rest
<1>3. FrameWhole(h.tree)
  BY <1>1 DEF GuiInv, GuiShape, FrameWhole
<1>4. Widget \cap {Container, Contents, Resize} = {}
  BY WindowsAssumption
<1>5. AreasFit(h.tree)
  BY <1>1, <1>4 DEF GuiInv, GuiShape, AreasFit, Fits, Placed
<1>6. DraggedParts(h) = DraggedParts(g)
  BY <1>1, <1>2 DEF DraggedParts
<1>7. QED
  BY <1>1, <1>2, <1>3, <1>5, <1>6 DEF GuiInv, GuiShape

LEMMA FrameReleaseAnswers ==
    ASSUME NEW g, GuiInv(g), g.sent = <<>>, NEW w \in {Container, Resize} \cap DOMAIN g.tree,
           NEW event, event.pos \in Vector, NEW h, h = FrameRelease(g, w, event)
    PROVE  Answered(g, h, w)
<1>1. CASE g.frame # Dragging(w)
  BY <1>1, Unmoved DEF FrameRelease
<1>2. CASE g.frame = Dragging(w)
  <2>1. w \in DraggedParts(g)
    BY <1>2 DEF DraggedParts
  <2>2. g.grabber = w /\ PressedParts(g.tree) = {}
    BY <2>1, Holders
  <2>3. PICK stopped : stopped = StopDrag(g, event)
    OBVIOUS
  <2>4. PICK k : k = [stopped EXCEPT !.grabber = Nothing, !.frame = "normal"]
    OBVIOUS
  <2>5. /\ IsGui(k) /\ k.tree = g.tree /\ k.frame = "normal" /\ k.origin = g.origin
        /\ k.grabber = Nothing /\ k.sent = <<>>
    <3>1. Marked(g, stopped)
      BY <2>3, SymbolsMark DEF GuiInv, GuiShape
    <3>2. QED
      BY <2>4, <3>1 DEF Marked, IsGui
  <2>6. DraggedParts(k) = {}
    BY <2>5, DragStates DEF DraggedParts
  <2>7. GuiInv(k)
    <3>1. k.frame \in FrameStates /\ k.origin \in Vector
      BY <2>5, DragStates DEF GuiInv, GuiShape
    <3>2. QED
      BY <2>2, <2>5, <2>6, <3>1, DraggedSet
  <2>8. {Container, Contents, Resize} \subseteq DOMAIN k.tree /\ Shape(k.tree)
    BY <2>5 DEF GuiInv, GuiShape, FrameWhole, FrameParts
  <2>9. PICK by : by = Minus(event.pos, g.origin)
    OBVIOUS
  <2>10. by \in Vector
    BY <2>9, Vectors DEF GuiInv, GuiShape
  <2>11. h = k \/ h = MoveBy(k, by) \/ h = ResizeBy(k, by)
    BY <1>2, <2>4, <2>9, <2>3 DEF FrameRelease
  <2>12. CASE h = k
    BY <2>5, <2>7, <2>12 DEF Answered
  <2>13. CASE h = MoveBy(k, by)
    <3>1. PICK a : a = k.tree[Container].area
      OBVIOUS
    <3>2. PICK p : p = Plus(a.pos, by)
      OBVIOUS
    <3>3. PICK area : area = [a EXCEPT !.pos = p]
      OBVIOUS
    <3>4. IsTree(k.tree) /\ a \in AreaType
      BY <2>8, <3>1 DEF Shape, IsTree, IsWindow
    <3>5. area \in AreaType
      BY <2>10, <3>2, <3>3, <3>4, AreaParts, Vectors
    <3>6. h = win_set_area(k, Container, area, {"position"})
      BY <2>13, <3>1, <3>2, <3>3 DEF MoveBy
    <3>7. /\ Placed(k, h, {Container})
          /\ h.tree[Container].area.size = k.tree[Container].area.size
      <4>1. /\ Placed(k, h, {Container})
            /\ h.tree[Container].area.pos = area.pos
            /\ h.tree[Container].area.size = k.tree[Container].area.size
        <5>1. IsGui(k) /\ IsTree(k.tree) /\ Container \in DOMAIN k.tree
          BY <2>5, <2>8, <3>4
        <5>2. QED
          BY <3>5, <3>6, <5>1, PosSet
      <4>2. QED
        BY <4>1
    <3>8. /\ h.tree[Contents].area = k.tree[Contents].area
          /\ h.tree[Resize].area = k.tree[Resize].area
      BY <2>8, <3>7 DEF Placed, Container, Contents, Resize
    <3>9. Placed(k, h, {Container, Contents, Resize})
      BY <3>7 DEF Placed
    <3>10. Fits(h.tree)
      <4>1. Fits(k.tree)
        BY <2>7, <2>8 DEF GuiInv, GuiShape, AreasFit, Fits
      <4>2. QED
        BY <3>7, <3>8, <4>1 DEF Fits
    <3>11. GuiInv(h) /\ DOMAIN h.tree = DOMAIN k.tree /\ h.grabber = k.grabber /\ h.sent = k.sent
      BY <2>7, <2>8, <3>8, <3>9, <3>10, PlacedFits
    <3>12. QED
      BY <2>5, <3>11 DEF Answered
  <2>14. CASE h = ResizeBy(k, by)
    <3>1. PICK a : a = k.tree[Contents].area
      OBVIOUS
    <3>2. PICK s : s = Plus(a.size, by)
      OBVIOUS
    <3>3. PICK area : area = [a EXCEPT !.size = s]
      OBVIOUS
    <3>4. a \in AreaType
      BY <2>8, <3>1 DEF Shape, IsTree, IsWindow
    <3>5. area \in AreaType
      BY <2>10, <3>2, <3>3, <3>4, AreaParts, Vectors
    <3>6. h = wtk_resize_frame(k, area)
      BY <2>14, <3>1, <3>2, <3>3 DEF ResizeBy
    <3>7. /\ Placed(k, h, {Container, Contents, Resize}) /\ Fits(h.tree)
          /\ h.tree[Contents].area.pos = k.tree[Contents].area.pos
          /\ h.tree[Resize].area.size = k.tree[Resize].area.size
      BY <2>5, <2>8, <3>5, <3>6, ResizeFits
    <3>8. GuiInv(h) /\ DOMAIN h.tree = DOMAIN k.tree /\ h.grabber = k.grabber /\ h.sent = k.sent
      BY <2>7, <2>8, <3>7, PlacedFits
    <3>9. QED
      BY <2>5, <3>8 DEF Answered
  <2>15. QED
    BY <2>11, <2>12, <2>13, <2>14
<1>3. QED
  BY <1>1, <1>2

LEMMA HandlerAnswers ==
    ASSUME NEW g, GuiInv(g), g.sent = <<>>, NEW w \in DOMAIN g.tree, g.grabber \in {Nothing, w},
           NEW event, event.act \in {"press", "move", "release"}, event.pos \in Vector,
           NEW h, h = Handler(g, w, event)
    PROVE  Answered(g, h, w)
<1>1. event.act \in {"press", "move", "release"} /\ event.pos \in Vector
  OBVIOUS
<1>2. Widget \cap {Container, Resize} = {}
  BY WindowsAssumption
<1>3. CASE w \in {Container, Resize}
  <2>1. h = wtk_frame_handler(g, w, event)
    BY <1>2, <1>3 DEF Handler
  <2>2. CASE event.act = "press"
    <3>1. h = FramePress(g, w, event.pos)
      BY <2>1, <2>2 DEF wtk_frame_handler
    <3>2. QED
      BY <1>1, <1>3, <2>2, <3>1, FramePressAnswers
  <2>3. CASE event.act = "move"
    <3>1. h = FrameMove(g, w, event)
      BY <2>1, <2>3 DEF wtk_frame_handler
    <3>2. QED
      BY <1>3, <3>1, FrameMoveAnswers
  <2>4. CASE event.act = "release"
    <3>1. h = FrameRelease(g, w, event)
      BY <2>1, <2>4 DEF wtk_frame_handler
    <3>2. QED
      BY <1>1, <1>3, <3>1, FrameReleaseAnswers
  <2>5. QED
    BY <1>1, <2>2, <2>3, <2>4
<1>4. CASE w \in Widget
  <2>1. \/ h \in {wtk_button_handler(g, w, event), wtk_check_box_handler(g, w, event),
                  wtk_radio_button_handler(g, w, event)}
        \/ kind[w] = "slider" /\ h = wtk_slider_handler(g, w, event)
        \/ h = g
    BY <1>2, <1>4 DEF Handler
  <2>2. QED
    BY <1>4, <2>1, ButtonsAnswer, SliderAnswers, Unmoved
<1>5. CASE w \notin Widget \cup {Container, Resize}
  BY <1>5, Unmoved DEF Handler
<1>6. QED
  BY <1>3, <1>4, <1>5

-----------------------------------------------------------------------------
(* What the worker and the application do to the gui.                      *)

LEMMA LastSet ==
    ASSUME NEW h, GuiInv(h), NEW x, NEW k, k = [h EXCEPT !.last = x]
    PROVE  GuiInv(k) /\ k.sent = h.sent /\ k.tree = h.tree
<1>1. /\ IsGui(k) /\ k.tree = h.tree /\ k.grabber = h.grabber /\ k.frame = h.frame
      /\ k.origin = h.origin /\ k.sent = h.sent
  BY DEF GuiInv, GuiShape, IsGui
<1>2. DraggedParts(k) = DraggedParts(h)
  BY <1>1 DEF DraggedParts
<1>3. QED
  BY <1>1, <1>2 DEF GuiInv, GuiShape

LEMMA PointerAnswers ==
    ASSUME GuiInv(ui), ui.sent = <<>>, NEW event \in PointerType,
           NEW h, h = win_process_pointer_event(event)
    PROVE  /\ GuiInv(h) /\ DOMAIN h.tree = DOMAIN ui.tree
           /\ h.sent = <<>> \/ \E w \in PressedParts(ui.tree) : h.sent = <<w>>
<1>1. PICK e : e = [act |-> event.act, pos |-> event.pos, last |-> ui.last]
  OBVIOUS
<1>2. e.act \in {"press", "move", "release"} /\ e.pos \in Vector
  BY <1>1 DEF PointerType
<1>3. PICK at : at = IF ui.grabber # Nothing THEN [gui |-> ui, win |-> ui.grabber]
                    ELSE win_handle_pointer_event(ui, event.pos, event.act = "press")
  OBVIOUS
<1>4. PICK g : g = at.gui
  OBVIOUS
<1>5. PICK w : w = at.win
  OBVIOUS
<1>6. /\ GuiInv(g) /\ DOMAIN g.tree = DOMAIN ui.tree /\ w \in DOMAIN g.tree
      /\ g.grabber \in {Nothing, w} /\ g.sent = <<>>
      /\ PressedParts(g.tree) = PressedParts(ui.tree)
  <2>1. CASE ui.grabber # Nothing
    <3>1. g = ui /\ w = ui.grabber
      BY <1>3, <1>4, <1>5, <2>1
    <3>2. w \in DOMAIN ui.tree
      BY <2>1, <3>1, Holders
    <3>3. QED
      BY <3>1, <3>2
  <2>2. CASE ui.grabber = Nothing
    <3>1. Rearranged(ui, g) /\ w \in DOMAIN ui.tree
      <4>1. IsGui(ui) /\ Shape(ui.tree)
        BY DEF GuiInv, GuiShape
      <4>2. at = win_handle_pointer_event(ui, event.pos, event.act = "press")
        BY <1>3, <2>2
      <4>3. QED
        BY <1>4, <1>5, <4>1, <4>2, PointerRearranges
    <3>2. QED
      BY <2>2, <3>1, RearrangedIsGui
  <2>3. QED
    BY <2>1, <2>2
<1>7. PICK after : after = Handler(g, w, e)
  OBVIOUS
<1>8. Answered(g, after, w)
  BY <1>2, <1>6, <1>7, HandlerAnswers
<1>9. \E x : h = [after EXCEPT !.last = x]
  BY <1>1, <1>3, <1>4, <1>5, <1>7 DEF win_process_pointer_event
<1>10. GuiInv(h) /\ h.sent = after.sent /\ h.tree = after.tree
  BY <1>8, <1>9, LastSet DEF Answered
<1>11. QED
  BY <1>6, <1>8, <1>10 DEF Answered

\* A gui that is as good as before, with the same frame.
Kept(g, h) ==
    /\ GuiInv(h) /\ h.sent = g.sent
    /\ FrameParts \cap DOMAIN g.tree \subseteq DOMAIN h.tree

LEMMA KeptRearranged ==
    ASSUME NEW g, GuiInv(g), NEW h, Rearranged(g, h)
    PROVE  Kept(g, h)
BY RearrangedIsGui DEF Kept

LEMMA ShownIsKept ==
    ASSUME NEW g, GuiInv(g), NEW w \in DOMAIN g.tree, NEW h, h \in {win_show(g, w), win_hide(g, w)}
    PROVE  Kept(g, h)
<1>1. IsGui(g) /\ Shape(g.tree) /\ IsTree(g.tree)
  BY DEF GuiInv, GuiShape, Shape
<1>2. Rest(g, h) /\ SameWindows(g.tree, h.tree)
  BY <1>1, ShowKeeps, HideKeeps
<1>3. QED
  BY <1>1, <1>2, SameRearranged, KeptRearranged

LEMMA BackgroundIsKept ==
    ASSUME NEW g, GuiInv(g), NEW l, IsLook(l), ~ l.pressed,
           NEW h, h = win_set_attributes(g, Root, l)
    PROVE  Kept(g, h) /\ Root \in DOMAIN h.tree
<1>1. IsGui(g) /\ Shape(g.tree) /\ IsTree(g.tree) /\ Root \in DOMAIN g.tree
  BY DEF GuiInv, GuiShape, Shape
<1>2. PICK t : t = [g.tree EXCEPT ![Root].look = l]
  OBVIOUS
<1>3. LooksPressed(g.tree, t, Root, l.pressed)
  BY <1>1, <1>2, LookSet
<1>4. ~ g.tree[Root].look.pressed
  BY <1>1, Holders, WindowsAssumption DEF PressedParts
<1>5. IsLook(g.tree[Root].look)
  BY <1>1 DEF IsTree, IsWindow
<1>6. SameWindows(g.tree, t)
  BY <1>3, <1>4, <1>5 DEF LooksPressed, SameWindows, SameLooks, IsLook
<1>7. PICK k : k = [g EXCEPT !.tree = t]
  OBVIOUS
<1>8. Rest(g, k) /\ k.tree = t
  BY <1>1, <1>7, TreeSet
<1>9. Rearranged(g, k)
  BY <1>1, <1>6, <1>8, SameRearranged
<1>10. Kept(g, k) /\ DOMAIN k.tree = DOMAIN g.tree
  BY <1>9, KeptRearranged, RearrangedIsGui
<1>11. h = win_redraw(k, Root)
  BY <1>2, <1>7 DEF win_set_attributes
<1>12. QED
  BY <1>1, <1>10, <1>11, RedrawIsGui DEF Kept

\* The application's own window.
LEMMA WindowCreated ==
    ASSUME NEW g, GuiInv(g), Window \notin DOMAIN g.tree,
           NEW h, h = win_create(g, Root, Window,
                                 [area |-> WindowArea, look |-> Plain,
                                  redrawParent |-> FALSE, raiseOnPress |-> FALSE])
    PROVE  Kept(g, h)
<1>1. IsGui(g) /\ Shape(g.tree) /\ Root \in DOMAIN g.tree
  BY DEF GuiInv, GuiShape, Shape
<1>2. /\ Root \in MayLieIn(Window) /\ WindowArea \in AreaType /\ Window \in AllWindows
      /\ Window \notin Widget /\ Window \notin FrameParts /\ Window # Container
  BY WindowsAssumption DEF MayLieIn, AllWindows, FrameParts, Window, Container, Contents, Resize
<1>3. IsLook(Plain) /\ ~ Plain.pressed
  BY DEF IsLook, Plain
<1>4. Rest(g, h) /\ Made(g.tree, h.tree, Window, WindowArea)
  BY <1>1, <1>2, <1>3, CreateMakes
<1>5. /\ Shape(h.tree) /\ DOMAIN h.tree = DOMAIN g.tree \cup {Window}
      /\ PressedParts(h.tree) = PressedParts(g.tree)
      /\ \A x \in DOMAIN g.tree : h.tree[x].area = g.tree[x].area
  BY <1>4 DEF Made, PressedParts
<1>6. FrameWhole(h.tree)
  <2>1. FrameWhole(g.tree)
    BY DEF GuiInv, GuiShape
  <2>2. DOMAIN h.tree = DOMAIN g.tree \cup {Window} /\ Window \notin FrameParts
    BY <1>2, <1>5
  <2>3. QED
    BY <2>1, <2>2 DEF FrameWhole
<1>7. AreasFit(h.tree)
  <2>1. AreasFit(g.tree) /\ FrameWhole(g.tree)
    BY DEF GuiInv, GuiShape
  <2>2. Container \in DOMAIN h.tree => {Container, Contents, Resize} \subseteq DOMAIN g.tree
    BY <1>2, <1>5, <2>1 DEF FrameWhole, FrameParts
  <2>3. QED
    BY <1>2, <1>5, <2>1, <2>2 DEF AreasFit
<1>8. DraggedParts(h) = DraggedParts(g)
  <2>1. h.frame = g.frame
    BY <1>4 DEF Rest
  <2>2. Window \notin {Container, Resize}
    BY <1>2 DEF FrameParts
  <2>3. QED
    BY <1>5, <2>1, <2>2 DEF DraggedParts
<1>9. QED
  BY <1>2, <1>4, <1>5, <1>6, <1>7, <1>8 DEF GuiInv, GuiShape, Kept, Rest

LEMMA WindowDestroyed ==
    ASSUME NEW g, GuiInv(g), Window \in DOMAIN g.tree, NEW h, h = win_destroy(g, Window)
    PROVE  Kept(g, h)
<1>1. IsGui(g) /\ Shape(g.tree)
  BY DEF GuiInv, GuiShape
<1>2. Window # Root /\ Window \notin FrameParts /\ Window \notin Widget
  BY WindowsAssumption DEF FrameParts, Window, Container, Contents, Resize
<1>3. Rest(g, h) /\ Spared(g.tree, h.tree, {Window})
  <2>1. Rest(g, h) /\ Spared(g.tree, h.tree, Family(g.tree, Window))
    BY <1>1, <1>2, DestroySpares
  <2>2. QED
    BY <1>1, <2>1, WindowFamily
<1>4. /\ Shape(h.tree) /\ DOMAIN h.tree = DOMAIN g.tree \ {Window}
      /\ \A x \in DOMAIN h.tree : /\ h.tree[x].area = g.tree[x].area
                                  /\ h.tree[x].look.pressed = g.tree[x].look.pressed
  BY <1>3 DEF Spared
<1>5. PressedParts(h.tree) = PressedParts(g.tree)
  BY <1>2, <1>4, Holders DEF PressedParts
<1>6. FrameWhole(h.tree)
  BY <1>2, <1>4 DEF GuiInv, GuiShape, FrameWhole
<1>7. AreasFit(h.tree)
  <2>1. AreasFit(g.tree) /\ FrameWhole(g.tree)
    BY DEF GuiInv, GuiShape
  <2>2. Container \in DOMAIN h.tree => {Container, Contents, Resize} \subseteq DOMAIN h.tree
    BY <1>2, <1>4, <1>6 DEF FrameWhole, FrameParts
  <2>3. QED
    BY <1>4, <2>1, <2>2 DEF AreasFit
<1>8. DraggedParts(h) = DraggedParts(g)
  <2>1. h.frame = g.frame
    BY <1>3 DEF Rest
  <2>2. Window \notin {Container, Resize}
    BY <1>2 DEF FrameParts
  <2>3. QED
    BY <1>4, <2>1, <2>2 DEF DraggedParts
<1>9. GuiInv(h) /\ h.sent = g.sent
  BY <1>3, <1>4, <1>5, <1>6, <1>7, <1>8 DEF GuiInv, GuiShape, Rest
<1>10. FrameParts \cap DOMAIN g.tree \subseteq DOMAIN h.tree
  BY <1>2, <1>4
<1>11. QED
  BY <1>9, <1>10 DEF Kept

\* The frame is closed: nothing is left of it but, maybe, a hold on the pointer.
LEMMA FrameClosed ==
    ASSUME NEW g, GuiInv(g), Container \in DOMAIN g.tree,
           NEW h, h = win_destroy(g, Container)
    PROVE  /\ GuiShape(h) /\ h.sent = g.sent
           /\ h.grabber \in DOMAIN h.tree \cup {Nothing} => GuiInv(h)
<1>1. IsGui(g) /\ Shape(g.tree) /\ FrameWhole(g.tree) /\ Container # Root
  BY WindowsAssumption DEF GuiInv, GuiShape
<1>2. PICK F : F = Family(g.tree, Container)
  OBVIOUS
<1>3. FrameParts \subseteq F
  BY <1>1, <1>2, FrameFamily
<1>4. Rest(g, h) /\ Spared(g.tree, h.tree, F)
  BY <1>1, <1>2, DestroySpares
<1>5. /\ Shape(h.tree) /\ FrameParts \cap DOMAIN h.tree = {}
      /\ \A x \in DOMAIN h.tree : x \in DOMAIN g.tree
                                  /\ h.tree[x].look.pressed = g.tree[x].look.pressed
  BY <1>3, <1>4 DEF Spared
<1>6. PressedParts(h.tree) = {}
  <2>1. PressedParts(h.tree) \subseteq PressedParts(g.tree) \cap DOMAIN h.tree
    BY <1>5 DEF PressedParts
  <2>2. PressedParts(g.tree) \subseteq FrameParts
    BY Holders DEF FrameParts
  <2>3. QED
    BY <1>5, <2>1, <2>2
<1>7. FrameWhole(h.tree) /\ AreasFit(h.tree) /\ DraggedParts(h) = {}
  BY <1>5 DEF FrameWhole, AreasFit, DraggedParts, FrameParts
<1>8. /\ IsGui(h) /\ h.grabber = g.grabber /\ h.frame = g.frame /\ h.origin = g.origin
      /\ h.sent = g.sent
  BY <1>4 DEF Rest
<1>9. GuiShape(h)
  BY <1>5, <1>6, <1>7, <1>8 DEF GuiInv, GuiShape
<1>10. ASSUME h.grabber \in DOMAIN h.tree \cup {Nothing} PROVE h.grabber = Nothing
  <2>1. g.grabber # Nothing => g.grabber \in FrameParts
    BY Holders DEF GuiInv, FrameParts
  <2>2. QED
    BY <1>5, <1>8, <1>10, <2>1
<1>11. QED
  BY <1>6, <1>7, <1>8, <1>9, <1>10 DEF GuiInv

-----------------------------------------------------------------------------
(* The steps.                                                              *)

LEMMA EventKinds ==
    /\ \A e \in PointerType : e \notin CommandType /\ e.type = "pointer"
    /\ \A e \in CommandType : e \notin PointerType /\ e.type = "command" /\ e.sender \in Widget
BY DEF PointerType, CommandType

\* The queue is as it was, and so are the parts of the frame.
LEMMA UiIsKept ==
    ASSUME UiInv, job # "undefined", Kept(ui, ui'),
           kind' = kind /\ ring' = ring /\ call' = call /\ stylus' = stylus,
           job' = job \/ (job = "idle" /\ job' = "handle" /\ ring # <<>>)
    PROVE  UiInv'
<1>1. GuiInv(ui)' /\ GuiShape(ui)' /\ (ui.sent = <<>>)'
  BY DEF UiInv, Kept, GuiInv
<1>2. QueueType /\ QueueType'
  BY DEF UiInv, QueueType, Jobs
<1>3. Widget \cap Live \subseteq Live'
  BY DEF Kept, FrameParts, Live
<1>4. Pending' \subseteq Pending
  BY DEF Pending
<1>5. \A i \in Pending : ring[i].sender \in Widget
  BY EventKinds DEF Pending
<1>6. CommandsLive
  BY DEF UiInv
<1>7. call # <<>> => call[1] \in Widget
  <2>1. call \in Seq(Widget)
    BY <1>2 DEF QueueType
  <2>2. QED
    BY <2>1, ElementOfSeq, EmptySeq, LenProperties
<1>8. CommandsLive'
  BY <1>3, <1>4, <1>5, <1>6, <1>7 DEF CommandsLive
<1>9. QED
  BY <1>1, <1>2, <1>8 DEF UiInv

\* A new event is queued, or dropped.
LEMMA RingGrows ==
    ASSUME NEW e, win_event_queue_push(e), e \in PointerType \cup CommandType,
           ring \in Seq(PointerType \cup CommandType), kind \in KindsOf
    PROVE  \E n \in Nat :
              /\ DOMAIN ring = 1 .. n /\ ring' \in Seq(PointerType \cup CommandType)
              /\ ring # <<>> => n > 0
              /\ \/ ring' = ring /\ ring # <<>>
                 \/ /\ DOMAIN ring' = 1 .. n + 1 /\ ring'[n + 1] = e /\ ring' # <<>>
                    /\ \A i \in 1 .. n : ring'[i] = ring[i]
<1>1. PICK n \in Nat : n = Len(ring) /\ DOMAIN ring = 1 .. n
  BY SequenceDomain
<1>2. ring # <<>> => n > 0
  BY <1>1, EmptySeq
<1>3. CASE Len(ring) = QueueSize[kind]
  <2>1. ring' = ring /\ n > 0
    BY <1>1, <1>3, QueueAssumption DEF win_event_queue_push
  <2>2. ring # <<>>
    BY <1>1, <2>1
  <2>3. QED
    BY <1>1, <1>2, <2>1, <2>2
<1>4. CASE Len(ring) # QueueSize[kind]
  <2>1. PICK c : c = Append(ring, e)
    OBVIOUS
  <2>2. /\ c \in Seq(PointerType \cup CommandType) /\ DOMAIN c = 1 .. n + 1
        /\ c[n + 1] = e /\ \A i \in 1 .. n : c[i] = ring[i]
    BY <1>1, <2>1, AppendProperties
  <2>3. ring' = c
    BY <1>4, <2>1 DEF win_event_queue_push
  <2>4. c # <<>>
    BY <2>2
  <2>5. QED
    BY <1>1, <1>2, <2>2, <2>3, <2>4
<1>5. QED
  BY <1>3, <1>4

\* An interrupt handler's event.
LEMMA EventQueued ==
    ASSUME UiInv, job # "undefined", NEW e \in PointerType, win_queue_event(e),
           stylus' \in Vector \cup {Nothing}
    PROVE  UiInv'
<1>1. /\ QueueType /\ CommandsLive /\ GuiInv(ui) /\ UNCHANGED <<ui, kind, job, call>>
      /\ win_event_queue_push(e)
  BY DEF UiInv, win_queue_event
<1>2. PICK n \in Nat :
              /\ DOMAIN ring = 1 .. n /\ ring' \in Seq(PointerType \cup CommandType)
              /\ ring # <<>> => n > 0
              /\ \/ ring' = ring /\ ring # <<>>
                 \/ /\ DOMAIN ring' = 1 .. n + 1 /\ ring'[n + 1] = e /\ ring' # <<>>
                    /\ \A i \in 1 .. n : ring'[i] = ring[i]
  <2>1. /\ ring \in Seq(PointerType \cup CommandType) /\ e \in PointerType \cup CommandType
        /\ kind \in KindsOf
    BY <1>1 DEF QueueType
  <2>2. QED
    BY <1>1, <2>1, RingGrows
<1>3. QueueType'
  BY <1>1, <1>2 DEF QueueType
<1>4. ASSUME NEW i \in Pending' PROVE i \in Pending /\ ring'[i] = ring[i]
  <2>1. i \in DOMAIN ring' /\ ring'[i] \in CommandType
    BY DEF Pending
  <2>2. e \notin CommandType
    BY EventKinds
  <2>3. i \in DOMAIN ring /\ ring'[i] = ring[i]
    BY <1>2, <2>1, <2>2
  <2>4. QED
    BY <1>1, <2>1, <2>3 DEF Pending
<1>5. Live' = Live
  BY <1>1 DEF Live
<1>6. CommandsLive'
  BY <1>1, <1>4, <1>5 DEF CommandsLive
<1>7. QED
  BY <1>1, <1>3, <1>6 DEF UiInv

LEMMA TouchSteps ==
    ASSUME UiInv, TouchPress \/ TouchMove \/ TouchRelease
    PROVE  UiInv'
<1>0. stylus \in Vector \cup {Nothing} /\ PenPlaces[kind] \subseteq Vector
  BY WindowsAssumption DEF UiInv, QueueType
<1>1. \A act, p : p \in Vector /\ act \in {"press", "move", "release"} =>
                     Pointer(act, p) \in PointerType
  BY DEF Pointer, PointerType
<1>2. \E act \in {"press", "move", "release"}, p \in Vector :
         Touch(act, p) /\ stylus' \in Vector \cup {Nothing}
  <2>1. CASE TouchPress
    BY <1>0, <2>1 DEF TouchPress
  <2>2. CASE TouchMove
    BY <1>0, <2>2 DEF TouchMove
  <2>3. CASE TouchRelease
    BY <1>0, <2>3 DEF TouchRelease
  <2>4. QED
    BY <2>1, <2>2, <2>3
<1>3. PICK act \in {"press", "move", "release"}, p \in Vector :
         Touch(act, p) /\ stylus' \in Vector \cup {Nothing}
  BY <1>2
<1>4. PICK e : e = Pointer(act, p)
  OBVIOUS
<1>5. e \in PointerType /\ win_queue_event(e) /\ job # "undefined"
  BY <1>1, <1>3, <1>4 DEF Touch
<1>6. QED
  BY <1>3, <1>5, EventQueued

LEMMA SentSet ==
    ASSUME NEW h, GuiShape(h), NEW k, k = [h EXCEPT !.sent = <<>>]
    PROVE  /\ GuiShape(k) /\ k.sent = <<>> /\ k.tree = h.tree
           /\ GuiInv(h) => GuiInv(k)
<1>1. /\ IsGui(k) /\ k.tree = h.tree /\ k.grabber = h.grabber /\ k.frame = h.frame
      /\ k.origin = h.origin /\ k.sent = <<>>
  BY DEF GuiShape, IsGui
<1>2. DraggedParts(k) = DraggedParts(h)
  BY <1>1 DEF DraggedParts
<1>3. GuiShape(k)
  BY <1>1 DEF GuiShape
<1>4. QED
  BY <1>1, <1>2, <1>3 DEF GuiInv

\* A handler that keeps the windows there are, and sends from one that is pressed.
LEMMA HandledKeeps ==
    ASSUME UiInv, job = "handle", NEW h, Handled(h), GuiInv(h), DOMAIN h.tree = DOMAIN ui.tree,
           h.sent = <<>> \/ \E w \in PressedParts(ui.tree) : h.sent = <<w>>
    PROVE  UiInv'
<1>1. /\ GuiInv(ui) /\ QueueType /\ CommandsLive /\ ring # <<>>
      /\ ring \in Seq(PointerType \cup CommandType)
  BY DEF UiInv, QueueType
<1>2. PICK n \in Nat : n = Len(ring) /\ DOMAIN ring = 1 .. n
  BY <1>1, SequenceDomain
<1>3. ~ Dangling(h)
  <2>1. h.grabber \in DOMAIN h.tree \cup {Nothing}
    BY Holders
  <2>2. ASSUME NEW i \in 2 .. Len(ring), ring[i].type = "command"
        PROVE  ring[i].sender \in DOMAIN h.tree
    <3>1. i \in DOMAIN ring /\ i # 1
      BY <1>2
    <3>2. ring[i] \in PointerType \cup CommandType
      BY <1>1, <1>2, <3>1, ElementOfSeq
    <3>3. ring[i] \in CommandType
      BY <2>2, <3>2, EventKinds
    <3>4. i \in Pending
      BY <3>1, <3>3 DEF Pending
    <3>5. QED
      BY <1>1, <3>4 DEF CommandsLive, Live
  <2>3. QED
    BY <2>1, <2>2 DEF Dangling
<1>4. /\ ui' = [h EXCEPT !.sent = <<>>] /\ call' = h.sent
      /\ job' = IF h.sent = <<>> THEN "pop" ELSE "add task"
      /\ UNCHANGED <<kind, ring, stylus>>
  BY <1>3 DEF Handled
<1>5. GuiShape(ui') /\ GuiInv(ui') /\ ui'.sent = <<>> /\ Live' = Live
  BY <1>4, SentSet DEF GuiInv, Live
<1>6. \A w \in PressedParts(ui.tree) : w \in Widget /\ w \in Live
  BY <1>1, Holders DEF PressedParts, Live
<1>7. call' = <<>> \/ \E w \in Widget \cap Live : call' = <<w>>
  BY <1>4, <1>6
<1>8. /\ call' \in Seq(Widget) /\ (call' # <<>> => Len(call') = 1)
      /\ (call' # <<>> => call'[1] \in Live)
  <2>1. \A w \in Widget \cap Live : /\ <<w>> \in Seq(Widget) /\ Len(<<w>>) = 1
                                    /\ <<w>>[1] \in Live
    OBVIOUS
  <2>2. <<>> \in Seq(Widget)
    OBVIOUS
  <2>3. QED
    BY <1>7, <2>1, <2>2
<1>9. QueueType'
  BY <1>1, <1>4, <1>8 DEF QueueType, Jobs
<1>10. Pending' \subseteq Pending
  BY <1>4 DEF Pending
<1>11. CommandsLive'
  BY <1>1, <1>4, <1>5, <1>8, <1>10 DEF CommandsLive
<1>12. QED
  BY <1>5, <1>9, <1>11 DEF UiInv

\* A frame that is closed, whoever holds the pointer and whatever is queued.
LEMMA HandledCloses ==
    ASSUME UiInv, job = "handle", Container \in Live,
           NEW h, h = win_destroy(ui, Container), Handled(h)
    PROVE  UiInv'
<1>1. /\ GuiInv(ui) /\ ui.sent = <<>> /\ QueueType /\ ring # <<>>
      /\ ring \in Seq(PointerType \cup CommandType)
  BY DEF UiInv, QueueType
<1>2. PICK n \in Nat : n = Len(ring) /\ DOMAIN ring = 1 .. n
  BY <1>1, SequenceDomain
<1>3. /\ GuiShape(h) /\ h.sent = <<>>
      /\ h.grabber \in DOMAIN h.tree \cup {Nothing} => GuiInv(h)
  BY <1>1, FrameClosed DEF Live
<1>4. /\ ui' = [h EXCEPT !.sent = <<>>] /\ call' = <<>>
      /\ job' = IF Dangling(h) THEN "undefined" ELSE "pop"
      /\ UNCHANGED <<kind, ring, stylus>>
  BY <1>3 DEF Handled
<1>5. /\ GuiShape(ui') /\ ui'.sent = <<>> /\ Live' = DOMAIN h.tree
      /\ GuiInv(h) => GuiInv(ui')
  BY <1>3, <1>4, SentSet DEF Live
<1>6. QueueType'
  BY <1>1, <1>4 DEF QueueType, Jobs
<1>7. ASSUME job' # "undefined" PROVE GuiInv(ui') /\ CommandsLive'
  <2>1. ~ Dangling(h) /\ job' = "pop"
    BY <1>4, <1>7
  <2>2. GuiInv(ui')
    BY <1>3, <1>5, <2>1 DEF Dangling
  <2>3. ASSUME NEW i \in Pending' PROVE ring'[i].sender \in Live'
    <3>1. i \in 1 .. n /\ i # 1 /\ ring[i] \in CommandType
      BY <1>2, <1>4, <2>1 DEF Pending
    <3>2. i \in 2 .. Len(ring)
      BY <1>2, <3>1
    <3>3. ring[i].sender \in DOMAIN h.tree
      BY <2>1, <3>1, <3>2, EventKinds DEF Dangling
    <3>4. QED
      BY <1>4, <1>5, <3>3
  <2>4. QED
    BY <1>4, <2>2, <2>3 DEF CommandsLive
<1>8. QED
  BY <1>5, <1>6, <1>7 DEF UiInv

LEMMA HandleStep ==
    ASSUME UiInv, HandleEvent
    PROVE  UiInv'
<1>1. /\ GuiInv(ui) /\ ui.sent = <<>> /\ job = "handle" /\ ring # <<>> /\ CommandsLive
      /\ ring \in Seq(PointerType \cup CommandType)
  BY DEF UiInv, HandleEvent, QueueType
<1>2. PICK n \in Nat : DOMAIN ring = 1 .. n /\ n > 0
  BY <1>1, SequenceDomain, EmptySeq
<1>3. PICK e : e = ring[1]
  OBVIOUS
<1>4. e = Head(ring) /\ e \in PointerType \cup CommandType /\ 1 \in DOMAIN ring
  BY <1>1, <1>2, <1>3, ElementOfSeq
<1>5. PICK h : h = IF e.type = "pointer" THEN win_process_pointer_event(e)
                   ELSE win_process_command_event(e)
  OBVIOUS
<1>6. Handled(h)
  BY <1>4, <1>5 DEF HandleEvent
<1>7. CASE e \in PointerType
  <2>1. h = win_process_pointer_event(e)
    BY <1>5, <1>7, EventKinds
  <2>2. /\ GuiInv(h) /\ DOMAIN h.tree = DOMAIN ui.tree
        /\ h.sent = <<>> \/ \E w \in PressedParts(ui.tree) : h.sent = <<w>>
    BY <1>1, <1>7, <2>1, PointerAnswers
  <2>3. QED
    BY <1>1, <1>6, <2>2, HandledKeeps
<1>8. CASE e \in CommandType
  <2>1. h = IF kind[e.sender] = "button" THEN win_destroy(ui, Container) ELSE ui
    BY <1>5, <1>8, EventKinds DEF win_process_command_event
  <2>2. CASE h = ui
    BY <1>1, <1>6, <2>2, HandledKeeps
  <2>3. CASE h = win_destroy(ui, Container)
    <3>1. 1 \in Pending
      BY <1>1, <1>3, <1>4, <1>8 DEF Pending
    <3>2. e.sender \in Live /\ e.sender \in Widget
      BY <1>1, <1>3, <1>8, <3>1, EventKinds DEF CommandsLive
    <3>3. Container \in Live
      BY <1>1, <3>2 DEF GuiInv, GuiShape, FrameWhole, FrameParts, Live
    <3>4. QED
      BY <1>1, <1>6, <2>3, <3>3, HandledCloses
  <2>4. QED
    BY <2>1, <2>2, <2>3
<1>9. QED
  BY <1>4, <1>7, <1>8

LEMMA OnlyElement ==
    ASSUME NEW S, NEW s \in Seq(S), Len(s) = 1
    PROVE  s[1] \in S /\ Head(s) = s[1] /\ s # <<>>
<1>1. s[1] \in S
  BY SMTT(60), ElementOfSeq
<1>2. Head(s) = s[1] /\ s # <<>>
  BY SMTT(60)
<1>3. QED
  BY <1>1, <1>2

LEMMA PushStep ==
    ASSUME UiInv, QueueCommandPush
    PROVE  UiInv'
<1>1. /\ GuiInv(ui) /\ GuiShape(ui) /\ ui.sent = <<>> /\ QueueType /\ CommandsLive
      /\ job = "push" /\ job' = "pop" /\ call' = <<>> /\ UNCHANGED <<ui, kind, stylus>>
      /\ ring \in Seq(PointerType \cup CommandType) /\ ring # <<>> /\ kind \in KindsOf
      /\ call \in Seq(Widget) /\ Len(call) = 1
  BY DEF UiInv, QueueCommandPush, QueueType
<1>2. PICK w \in Widget : w = call[1] /\ w = Head(call) /\ call # <<>>
  <2>1. call \in Seq(Widget) /\ Len(call) = 1
    BY <1>1
  <2>2. call[1] \in Widget /\ Head(call) = call[1] /\ call # <<>>
    BY <2>1, OnlyElement
  <2>3. QED
    BY <2>2
<1>3. PICK e : e = CommandFrom(w)
  OBVIOUS
<1>4. e \in CommandType /\ e.sender = w /\ win_event_queue_push(e)
  BY <1>2, <1>3 DEF CommandFrom, CommandType, QueueCommandPush
<1>5. PICK n \in Nat :
              /\ DOMAIN ring = 1 .. n /\ ring' \in Seq(PointerType \cup CommandType)
              /\ ring # <<>> => n > 0
              /\ \/ ring' = ring /\ ring # <<>>
                 \/ /\ DOMAIN ring' = 1 .. n + 1 /\ ring'[n + 1] = e /\ ring' # <<>>
                    /\ \A i \in 1 .. n : ring'[i] = ring[i]
  <2>1. e \in PointerType \cup CommandType
    BY <1>4
  <2>2. QED
    BY <1>1, <1>4, <2>1, RingGrows
<1>6. QueueType'
  <2>1. ring' # <<>>
    BY <1>1, <1>5
  <2>2. <<>> \in Seq(Widget)
    OBVIOUS
  <2>3. QED
    BY <1>1, <1>5, <2>1, <2>2 DEF QueueType, Jobs
<1>7. Live' = Live
  BY <1>1 DEF Live
<1>8. ASSUME NEW i \in Pending' PROVE ring'[i].sender \in Live
  <2>1. i \in DOMAIN ring' /\ ring'[i] \in CommandType /\ i # 1
    BY <1>1 DEF Pending
  <2>2. CASE i \in DOMAIN ring /\ ring'[i] = ring[i]
    <3>1. i \in Pending
      BY <2>1, <2>2 DEF Pending
    <3>2. QED
      BY <1>1, <2>2, <3>1 DEF CommandsLive
  <2>3. CASE ring'[i] = e
    BY <1>1, <1>2, <1>4, <2>3 DEF CommandsLive
  <2>4. QED
    BY <1>5, <2>1, <2>2, <2>3
<1>9. CommandsLive'
  BY <1>1, <1>7, <1>8 DEF CommandsLive
<1>10. QED
  BY <1>1, <1>6, <1>9 DEF UiInv

LEMMA PopStep ==
    ASSUME UiInv, win_event_queue_pop
    PROVE  UiInv'
<1>1. /\ GuiInv(ui) /\ GuiShape(ui) /\ ui.sent = <<>> /\ QueueType /\ CommandsLive
      /\ job = "pop" /\ ring' = Tail(ring) /\ call = <<>>
      /\ job' = IF Len(ring) = 1 THEN "idle" ELSE "handle"
      /\ UNCHANGED <<ui, kind, call, stylus>>
      /\ ring \in Seq(PointerType \cup CommandType) /\ ring # <<>>
  BY DEF UiInv, win_event_queue_pop, QueueType
<1>2. PICK n \in Nat : n = Len(ring) /\ DOMAIN ring = 1 .. n
  BY <1>1, SequenceDomain
<1>3. /\ ring' \in Seq(PointerType \cup CommandType) /\ DOMAIN ring' = 1 .. n - 1
      /\ Len(ring') = n - 1 /\ n > 0
      /\ \A i \in 1 .. n - 1 : ring'[i] = ring[i + 1] /\ i + 1 \in 1 .. n
  <2>1. /\ ring' \in Seq(PointerType \cup CommandType) /\ Len(ring') = Len(ring) - 1
        /\ \A i \in 1 .. Len(ring') : ring'[i] = ring[i + 1]
    BY <1>1, HeadTailProperties
  <2>2. n > 0
    BY <1>1, <1>2, EmptySeq
  <2>3. DOMAIN ring' = 1 .. Len(ring')
    BY <2>1, LenProperties
  <2>4. QED
    BY <1>2, <2>1, <2>2, <2>3
<1>4. QueueType'
  <2>1. job' # "idle" => ring' # <<>>
    <3>1. job' # "idle" => n - 1 > 0
      BY <1>1, <1>2, <1>3
    <3>2. QED
      BY <1>3, <3>1
  <2>2. QED
    BY <1>1, <1>3, <2>1 DEF QueueType, Jobs
<1>5. Live' = Live
  BY <1>1 DEF Live
<1>6. ASSUME NEW i \in Pending' PROVE ring'[i].sender \in Live
  <2>1. i \in 1 .. n - 1 /\ ring'[i] \in CommandType
    BY <1>3 DEF Pending
  <2>2. ring'[i] = ring[i + 1] /\ i + 1 \in DOMAIN ring /\ i + 1 # 1
    BY <1>2, <1>3, <2>1
  <2>3. i + 1 \in Pending
    BY <2>1, <2>2 DEF Pending
  <2>4. QED
    BY <1>1, <2>2, <2>3 DEF CommandsLive
<1>7. CommandsLive'
  BY <1>1, <1>5, <1>6 DEF CommandsLive
<1>8. QED
  BY <1>1, <1>4, <1>7 DEF UiInv

LEMMA TaskSteps ==
    ASSUME UiInv, StartWorker \/ QueueCommandTask
    PROVE  UiInv'
<1>1. CASE StartWorker
  <2>1. /\ ui' = ui /\ kind' = kind /\ ring' = ring /\ call' = call /\ stylus' = stylus
        /\ job = "idle" /\ (job' = job \/ (job' = "handle" /\ ring # <<>>))
    BY <1>1 DEF StartWorker
  <2>2. Kept(ui, ui')
    BY <2>1 DEF Kept, UiInv
  <2>3. QED
    BY <2>1, <2>2, UiIsKept
<1>2. CASE QueueCommandTask
  <2>1. /\ UNCHANGED <<ui, kind, ring, call, stylus>> /\ job = "add task" /\ job' = "push"
    BY <1>2 DEF QueueCommandTask
  <2>2. QueueType'
    BY <2>1 DEF UiInv, QueueType, Jobs
  <2>3. Pending' = Pending /\ Live' = Live
    BY <2>1 DEF Pending, Live
  <2>4. CommandsLive'
    BY <2>1, <2>3 DEF UiInv, CommandsLive
  <2>5. QED
    BY <2>1, <2>2, <2>4 DEF UiInv
<1>3. QED
  BY <1>1, <1>2

LEMMA ApplicationSteps ==
    ASSUME UiInv, \/ ShowDesktop \/ CreateWindow \/ ShowWindow \/ HideWindow \/ RaiseFrame
                  \/ LowerFrame \/ DestroyWindow \/ MoveIntoFrame
    PROVE  UiInv'
<1>1. /\ kind' = kind /\ ring' = ring /\ call' = call /\ stylus' = stylus
      /\ job' = job /\ job = "idle" /\ job # "undefined"
  BY DEF ShowDesktop, CreateWindow, ShowWindow, HideWindow, RaiseFrame, LowerFrame,
         DestroyWindow, MoveIntoFrame, OnWindow, OnFrame, Application
<1>2. GuiInv(ui) /\ IsGui(ui) /\ Shape(ui.tree) /\ Root \in DOMAIN ui.tree
  BY <1>1 DEF UiInv, GuiInv, GuiShape, Shape
<1>3. Window # Root /\ Container # Root
  BY WindowsAssumption
<1>4. CASE ShowDesktop
  <2>1. PICK l : l = [Plain EXCEPT !.value = 1]
    OBVIOUS
  <2>2. IsLook(l) /\ ~ l.pressed
    BY <2>1 DEF IsLook, Plain
  <2>3. PICK g : g = win_set_attributes(ui, Root, l)
    OBVIOUS
  <2>4. Kept(ui, g) /\ Root \in DOMAIN g.tree
    BY <1>2, <2>2, <2>3, BackgroundIsKept
  <2>5. ui' = win_show(g, Root)
    BY <1>4, <2>1, <2>3 DEF ShowDesktop, Application
  <2>6. GuiInv(g)
    BY <2>4 DEF Kept
  <2>7. Kept(g, ui')
    BY <2>4, <2>5, <2>6, ShownIsKept
  <2>8. Kept(ui, ui')
    BY <2>4, <2>7 DEF Kept
  <2>9. QED
    BY <1>1, <2>8, UiIsKept
<1>5. CASE CreateWindow
  <2>1. /\ Window \notin DOMAIN ui.tree
        /\ ui' = win_create(ui, Root, Window,
                            [area |-> WindowArea, look |-> Plain,
                             redrawParent |-> FALSE, raiseOnPress |-> FALSE])
    BY <1>5 DEF CreateWindow, Application, Live
  <2>2. Kept(ui, ui')
    BY <1>2, <2>1, WindowCreated
  <2>3. QED
    BY <1>1, <2>2, UiIsKept
<1>6. CASE ShowWindow \/ HideWindow
  <2>1. Window \in DOMAIN ui.tree /\ ui' \in {win_show(ui, Window), win_hide(ui, Window)}
    BY <1>6 DEF ShowWindow, HideWindow, OnWindow, Application, Live
  <2>2. Kept(ui, ui')
    BY <1>2, <2>1, ShownIsKept
  <2>3. QED
    BY <1>1, <2>2, UiIsKept
<1>7. CASE RaiseFrame
  <2>1. Container \in DOMAIN ui.tree /\ ui' = win_raise(ui, Container)
    BY <1>7 DEF RaiseFrame, OnFrame, Application, Live
  <2>2. Rearranged(ui, ui')
    BY <1>2, <1>3, <2>1, RaiseRearranges
  <2>3. QED
    BY <1>1, <1>2, <2>2, KeptRearranged, UiIsKept
<1>8. CASE LowerFrame
  <2>1. Container \in DOMAIN ui.tree /\ ui' = win_lower(ui, Container)
    BY <1>8 DEF LowerFrame, OnFrame, Application, Live
  <2>2. Rearranged(ui, ui')
    BY <1>2, <1>3, <2>1, LowerRearranges
  <2>3. QED
    BY <1>1, <1>2, <2>2, KeptRearranged, UiIsKept
<1>9. CASE DestroyWindow
  <2>1. Window \in DOMAIN ui.tree /\ ui' = win_destroy(ui, Window)
    BY <1>9 DEF DestroyWindow, OnWindow, Application, Live
  <2>2. Kept(ui, ui')
    BY <1>2, <2>1, WindowDestroyed
  <2>3. QED
    BY <1>1, <2>2, UiIsKept
<1>10. CASE MoveIntoFrame
  <2>1. /\ Window \in DOMAIN ui.tree /\ Contents \in DOMAIN ui.tree
        /\ ui' = win_reparent(ui, Window, Contents)
    BY <1>10 DEF MoveIntoFrame, OnWindow, Application, Live
  <2>2. Contents \in MayLieIn(Window)
    BY WindowsAssumption DEF MayLieIn, Window, Container, Contents, Resize
  <2>3. Rearranged(ui, ui')
    BY <1>2, <1>3, <2>1, <2>2, ReparentRearranges
  <2>4. QED
    BY <1>1, <1>2, <2>3, KeptRearranged, UiIsKept
<1>11. QED
  BY <1>4, <1>5, <1>6, <1>7, <1>8, <1>9, <1>10

LEMMA LaunchStep ==
    ASSUME UiInv, LaunchFrame
    PROVE  UiInv'
<1>1. /\ GuiInv(ui) /\ ui.sent = <<>> /\ QueueType /\ CommandsLive
      /\ Container \notin Live /\ job = "idle" /\ call = <<>>
      /\ UNCHANGED <<kind, ring, job, call, stylus>>
      /\ ui' = win_show(CreateWidgets(wtk_frame_create(ui)), Container)
  BY DEF UiInv, LaunchFrame, Application, QueueType
<1>2. GuiInv(ui') /\ ui'.sent = <<>>
  BY <1>1, LaunchMakesFrame DEF Live
<1>3. Pending = {}
  <2>1. Widget \cap Live = {}
    BY <1>1 DEF GuiInv, GuiShape, FrameWhole, FrameParts, Live
  <2>2. \A i \in Pending : ring[i].sender \in Widget \cap Live
    BY <1>1, EventKinds DEF Pending, CommandsLive
  <2>3. QED
    BY <2>1, <2>2
<1>4. Pending' = {}
  BY <1>1, <1>3 DEF Pending
<1>5. CommandsLive'
  BY <1>1, <1>4 DEF CommandsLive
<1>6. QueueType'
  BY <1>1 DEF QueueType
<1>7. QED
  BY <1>2, <1>5, <1>6 DEF UiInv, GuiInv

LEMMA UiStarts ==
    ASSUME UiInit
    PROVE  UiInv
<1>1. PICK r : r = [area |-> [pos |-> Zero, size |-> ScreenSize],
                    look |-> Plain, redrawParent |-> FALSE, raiseOnPress |-> FALSE,
                    mapped |-> FALSE, parent |-> Nothing, children |-> <<>>]
  OBVIOUS
<1>2. IsWindow(r) /\ r.parent = Nothing /\ r.children = <<>> /\ ~ r.look.pressed
  <2>1. IsLook(Plain) /\ ~ Plain.pressed
    BY DEF IsLook, Plain
  <2>2. r.area \in AreaType
    <3>1. Zero \in Vector
      BY DEF Zero, Vector
    <3>2. ScreenSize \in Vector
      BY ScreenAssumption DEF Vector
    <3>3. QED
      BY <1>1, <3>1, <3>2 DEF AreaType
  <2>3. QED
    BY <1>1, <2>1, <2>2 DEF IsWindow
<1>3. PICK t : t = Desktop
  OBVIOUS
<1>4. DOMAIN t = {Root} /\ t[Root] = r /\ t = [x \in {Root} |-> t[x]]
  BY <1>1, <1>3 DEF Desktop
<1>5. Shape(t)
  <2>1. Nothing \in MayLieIn(Root)
    BY WindowsAssumption DEF MayLieIn
  <2>2. ToSet(<<>>) = {} /\ Once(<<>>)
    BY DEF ToSet, Once
  <2>3. ChildrenOf(t, Root) = {}
    BY <1>4 DEF ChildrenOf
  <2>4. IsTree(t)
    BY <1>2, <1>4 DEF IsTree
  <2>5. QED
    BY <1>2, <1>4, <2>1, <2>2, <2>3, <2>4 DEF Shape, AllWindows
<1>6. Root \notin FrameParts
  BY WindowsAssumption DEF FrameParts
<1>7. FrameWhole(t) /\ AreasFit(t) /\ PressedParts(t) = {}
  BY <1>2, <1>4, <1>6 DEF FrameWhole, AreasFit, PressedParts, FrameParts
<1>8. /\ ui.tree = t /\ IsGui(ui) /\ ui.grabber = Nothing /\ ui.frame = "normal"
      /\ ui.origin = Zero /\ ui.sent = <<>>
  BY <1>3 DEF UiInit, IsGui
<1>9. DraggedParts(ui) = {}
  BY <1>4, <1>6, <1>8 DEF DraggedParts, FrameParts
<1>10. Zero \in Vector
  BY DEF Zero, Vector
<1>11. GuiShape(ui) /\ GuiInv(ui)
  BY <1>5, <1>7, <1>8, <1>9, <1>10 DEF GuiInv, GuiShape, FrameStates
<1>12. QueueType
  BY DEF UiInit, QueueType, Jobs
<1>13. CommandsLive
  BY DEF UiInit, Pending, CommandsLive
<1>14. QED
  BY <1>8, <1>11, <1>12, <1>13 DEF UiInv

\* UiInv is kept by every step.
LEMMA UiStep ==
    ASSUME UiInv, [UiNext]_uiVars
    PROVE  UiInv'
<1>1. CASE TouchPress \/ TouchMove \/ TouchRelease
  BY <1>1, TouchSteps
<1>2. CASE StartWorker \/ QueueCommandTask
  BY <1>2, TaskSteps
<1>3. CASE HandleEvent
  BY <1>3, HandleStep
<1>4. CASE QueueCommandPush
  BY <1>4, PushStep
<1>5. CASE win_event_queue_pop
  BY <1>5, PopStep
<1>6. CASE LaunchFrame
  BY <1>6, LaunchStep
<1>7. CASE \/ ShowDesktop \/ CreateWindow \/ ShowWindow \/ HideWindow \/ RaiseFrame
           \/ LowerFrame \/ DestroyWindow \/ MoveIntoFrame
  BY <1>7, ApplicationSteps
<1>8. CASE Undefined \/ UNCHANGED uiVars
  <2>1. UNCHANGED <<ui, kind, ring, job, call, stylus>>
    BY <1>8 DEF Undefined, uiVars
  <2>2. QueueType' /\ (CommandsLive => CommandsLive')
    BY <2>1 DEF UiInv, QueueType, CommandsLive, Pending, Live
  <2>3. QED
    BY <2>1, <2>2 DEF UiInv
<1>9. QED
  BY <1>1, <1>2, <1>3, <1>4, <1>5, <1>6, <1>7, <1>8 DEF UiNext, Worker

\* The tree of windows is a tree and the frame is whole or gone, whatever is
\* pressed, dragged, launched and closed; and until a frame is closed that holds the
\* pointer or has sent another command (wtk_frame.c), the pointer is held and the
\* commands are sent by windows that exist.
THEOREM GuiSafe == UiSpec => []UiInv
<1>1. UiInit => UiInv
  BY UiStarts
<1>2. UiInv /\ [UiNext]_uiVars => UiInv'
  BY UiStep
<1>3. QED
  BY <1>1, <1>2, PTL DEF UiSpec

\* As long as what the program does is defined, the pointer is held by the one
\* widget that looks pressed or by the part of the frame that awaits a drag or is
\* dragged, and by nothing else (win_grab_pointer and the handlers of wtk_*.c).
THEOREM PointerIsHeldByWhatIsPressed == UiSpec => []PressedHoldsPointer
<1>1. UiInv => PressedHoldsPointer
  <2>1. PressedParts(ui.tree) = {w \in Live : ui.tree[w].look.pressed}
    BY DEF PressedParts, Live
  <2>2. DraggedParts(ui) = {w \in Live \cap {Container, Resize} :
                               ui.frame \in {Awaiting(w), Dragging(w)}}
    BY DEF DraggedParts, Live
  <2>3. QED
    BY <2>1, <2>2 DEF UiInv, GuiInv, PressedHoldsPointer
<1>2. UiSpec => []UiInv
  BY GuiSafe
<1>3. QED
  BY <1>1, <1>2, PTL

\* The container always surrounds the contents of the frame, with the handle in
\* its corner, whatever is created, moved, resized and closed
\* (wtk_resize_frame).
THEOREM FramesFit == UiSpec => []FrameFits
<1>1. UiInv => FrameFits
  <2>1. ASSUME UiInv, Container \in Live PROVE FrameFits
    <3>1. AreasFit(ui.tree) /\ FrameWhole(ui.tree) /\ Shape(ui.tree) /\ Container \in DOMAIN ui.tree
      BY <2>1 DEF UiInv, GuiShape, Live
    <3>2. PICK box : box = ui.tree[Container].area
      OBVIOUS
    <3>3. PICK handle : handle = ui.tree[Resize].area
      OBVIOUS
    <3>4. box.size \in Vector
      <4>1. box \in AreaType
        BY <3>1, <3>2 DEF Shape, IsTree, IsWindow
      <4>2. QED
        BY <4>1, AreaParts DEF AreaType
    <3>5. handle.pos = Minus(box.size, HandleSize) /\ handle.size = HandleSize
      BY <3>1, <3>2, <3>3 DEF AreasFit
    <3>6. End(handle) = box.size
      BY <3>4, <3>5, Vectors, WindowsAssumption DEF End
    <3>7. QED
      BY <3>1, <3>2, <3>3, <3>6 DEF AreasFit, FrameFits
  <2>2. Container \notin Live => FrameFits
    BY DEF FrameFits
  <2>3. QED
    BY <2>1, <2>2
<1>2. UiSpec => []UiInv
  BY GuiSafe
<1>3. QED
  BY <1>1, <1>2, PTL

=============================================================================
