-------------------------- MODULE WorkqueueProofs --------------------------
(***************************************************************************)
(* The invariants of Workqueue, and that it implements TaskQueues, for     *)
(* every finite set of tasks and every set of queues.                      *)
(***************************************************************************)
EXTENDS Workqueue, SListProofs

(***************************************************************************)
(* A heap that holds qs has qs for its contents.                           *)
(***************************************************************************)
LEMMA ContentsOfHeap ==
    ASSUME NEW h, NEW qs \in [List -> Seq(Node)], Holds(h, qs)
    PROVE  [l \in List |-> Items(h, l)] = qs
BY ItemsOfHolds

(***************************************************************************)
(* Membership after an append and after removing the head.                 *)
(***************************************************************************)
LEMMA RangeOfAppend ==
    ASSUME NEW s \in Seq(Node), NEW n \in Node
    PROVE  Range(Append(s, n)) = Range(s) \cup {n}
<1>1. /\ Append(s, n) \in Seq(Node)
      /\ Len(s) \in Nat
      /\ Len(Append(s, n)) = Len(s) + 1
      /\ \A i \in 1 .. Len(s) : Append(s, n)[i] = s[i]
      /\ Append(s, n)[Len(s) + 1] = n
  BY LenProperties
<1>2. DOMAIN s = 1 .. Len(s) /\ DOMAIN Append(s, n) = 1 .. Len(s) + 1
  BY <1>1, LenProperties
<1>3. QED
  BY <1>1, <1>2 DEF Range

LEMMA RangeOfTail ==
    ASSUME NEW s \in Seq(Node), s # << >>
    PROVE  Range(s) = Range(Tail(s)) \cup {Head(s)}
<1>1. /\ Tail(s) \in Seq(Node)
      /\ Len(s) \in Nat \ {0}
      /\ Len(Tail(s)) = Len(s) - 1
      /\ \A i \in 1 .. Len(s) - 1 : Tail(s)[i] = s[i + 1]
      /\ Head(s) = s[1]
  BY HeadTailProperties, EmptySeq
<1>2. DOMAIN s = 1 .. Len(s) /\ DOMAIN Tail(s) = 1 .. Len(s) - 1
  BY <1>1, LenProperties
<1>3. ASSUME NEW x \in Range(s)
      PROVE  x \in Range(Tail(s)) \cup {Head(s)}
  <2>1. PICK i \in 1 .. Len(s) : x = s[i]
    BY <1>2 DEF Range
  <2>2. CASE i = 1
    BY <2>1, <2>2, <1>1
  <2>3. CASE i # 1
    <3>1. i - 1 \in 1 .. Len(s) - 1 /\ Tail(s)[i - 1] = s[i]
      BY <2>3, <1>1
    <3>2. QED
      BY <3>1, <2>1, <1>2 DEF Range
  <2>4. QED
    BY <2>2, <2>3
<1>4. Range(Tail(s)) \cup {Head(s)} \subseteq Range(s)
  BY <1>1, <1>2 DEF Range
<1>5. QED
  BY <1>3, <1>4

(***************************************************************************)
(* workqueue_add_task does to the lists what Enqueued does to sequences,   *)
(* and keeps the next pointers honest.                                     *)
(***************************************************************************)
LEMMA AddTaskHolds ==
    ASSUME NEW h \in Heap, NEW qs \in [List -> Seq(Node)],
           Holds(h, qs), Linked(h, qs),
           NEW l \in List, NEW t \in Task \cup {NULL}
    PROVE  /\ workqueue_add_task(h, l, t) \in Heap
           /\ TQ!Enqueued(qs, l, t) \in [List -> Seq(Node)]
           /\ Holds(workqueue_add_task(h, l, t), TQ!Enqueued(qs, l, t))
           /\ Linked(workqueue_add_task(h, l, t), TQ!Enqueued(qs, l, t))
           /\ \A m \in List : m # l => TQ!Enqueued(qs, l, t)[m] = qs[m]
<1>0. NULL \notin Node
  BY SListAssumption
<1>1. CASE t = NULL
  BY <1>1 DEF workqueue_add_task, TQ!Enqueued
<1>2. CASE t # NULL /\ h.next[t] # NULL
  <2>1. TQ!Queued(qs, t)
    BY <1>2 DEF Linked, TQ!Queued, TQ!Range, Range, Task, workqueue_task_is_queued
  <2>2. QED
    BY <1>2, <2>1 DEF workqueue_add_task, TQ!Enqueued, workqueue_task_is_queued
<1>3. CASE t # NULL /\ h.next[t] = NULL
  <2> DEFINE g == slist_insert_tail(h, l, t)
             r == [qs EXCEPT ![l] = Append(@, t)]
  <2>1. t \in Node /\ \A m \in List : t \notin Range(qs[m])
    BY <1>3 DEF Linked, Task, workqueue_task_is_queued
  <2>2. /\ workqueue_add_task(h, l, t) = g
        /\ TQ!Enqueued(qs, l, t) = r
    BY <1>3, <2>1 DEF workqueue_add_task, TQ!Enqueued, TQ!Queued, TQ!Range, Range,
           workqueue_task_is_queued
  <2>3. g \in Heap /\ Holds(g, r)
    BY <2>1, InsertTailHolds
  <2>4. r \in [List -> Seq(Node)]
    BY <2>1
  <2>5. /\ \A m \in List : m # l => r[m] = qs[m]
        /\ Range(r[l]) = Range(qs[l]) \cup {t}
    BY <2>1, RangeOfAppend
  <2>6. Linked(g, r)
    <3>1. h.last[l] \in Addr /\ h.next \in [Addr -> Addr \cup {NULL}] /\ l \in Addr /\ l # NULL
      BY SListAssumption DEF Heap, Addr
    <3>2. g.next = [h.next EXCEPT ![t] = l, ![h.last[l]] = t]
      BY DEF slist_insert_tail
    <3>3. g.next[t] # NULL
      BY <2>1, <3>1, <3>2, <1>0 DEF Addr
    <3>4. ASSUME NEW u \in Task, u # t
          PROVE  g.next[u] # NULL <=> h.next[u] # NULL
      <4>1. CASE u = h.last[l]
        <5>1. qs[l] # << >>
          <6> SUFFICES ASSUME qs[l] = << >> PROVE FALSE
            OBVIOUS
          <6>1. Len(qs[l]) = 0
            BY EmptySeq
          <6>2. h.last[l] = l
            BY <6>1 DEF Holds, Represents, Stop
          <6>3. QED
            BY <6>2, <4>1, SListAssumption DEF Task
        <5>2. u \in Range(qs[l])
          BY <5>1, <4>1, HoldsEnds, LenProperties DEF Range
        <5>3. h.next[u] # NULL
          BY <5>2 DEF Linked, workqueue_task_is_queued
        <5>4. g.next[u] # NULL
          BY <4>1, <3>1, <3>2, <2>1, <1>0 DEF Addr, Task
        <5>5. QED
          BY <5>3, <5>4
      <4>2. CASE u # h.last[l]
        BY <4>2, <3>1, <3>2, <3>4 DEF Addr, Task
      <4>3. QED
        BY <4>1, <4>2
    <3>5. QED
      BY <3>3, <3>4, <2>5 DEF Linked, workqueue_task_is_queued
  <2>7. QED
    BY <2>2, <2>3, <2>4, <2>5, <2>6
<1>4. QED
  BY <1>1, <1>2, <1>3

(***************************************************************************)
(* workqueue_pop_task returns the head, removes it and marks it unqueued.  *)
(***************************************************************************)
LEMMA PopTaskHolds ==
    ASSUME NEW h \in Heap, NEW qs \in [List -> Seq(Node)],
           Holds(h, qs), Linked(h, qs), NEW l \in List, qs[l] # << >>
    PROVE  /\ workqueue_popped(h, l) = Head(qs[l])
           /\ Head(qs[l]) \in Task
           /\ workqueue_pop_task(h, l) \in Heap
           /\ [qs EXCEPT ![l] = Tail(@)] \in [List -> Seq(Node)]
           /\ Holds(workqueue_pop_task(h, l), [qs EXCEPT ![l] = Tail(@)])
           /\ Linked(workqueue_pop_task(h, l), [qs EXCEPT ![l] = Tail(@)])
           /\ \A m \in List : Head(qs[l]) \notin Range([qs EXCEPT ![l] = Tail(@)][m])
<1> DEFINE n == Head(qs[l])
           g == slist_pop_head_node(h, l)
           f == SetNext(g, n, NULL)
           r == [qs EXCEPT ![l] = Tail(@)]
<1>1. h.next[l] = n /\ n \in Node /\ ~ slist_is_empty(h, l)
  BY HoldsEnds
<1>2. /\ workqueue_popped(h, l) = n
      /\ workqueue_pop_task(h, l) = f
  BY <1>1 DEF workqueue_popped, workqueue_pop_task, slist_peek_head_node
<1>3. g \in Heap /\ Holds(g, r) /\ \A m \in List : n \notin Range(r[m])
  BY PopHeadHolds
<1>4. r \in [List -> Seq(Node)]
  BY HeadTailProperties
<1>5. f \in Heap /\ Holds(f, r)
  BY <1>1, <1>3, <1>4, UnlistedNodeHolds
<1>6. Range(qs[l]) = Range(r[l]) \cup {n} /\ \A m \in List : m # l => r[m] = qs[m]
  BY RangeOfTail
<1>7. Linked(f, r)
  <2>1. h.next \in [Addr -> Addr \cup {NULL}] /\ l \in Addr /\ n \in Addr /\ l \notin Node
    BY <1>1, SListAssumption DEF Heap, Addr
  <2>2. f.next = [[h.next EXCEPT ![l] = h.next[n]] EXCEPT ![n] = NULL]
    BY <1>1 DEF SetNext, slist_pop_head_node
  <2>3. f.next[n] = NULL
    BY <2>1, <2>2
  <2>4. \A u \in Task : u # n => f.next[u] = h.next[u]
    BY <2>1, <2>2 DEF Task, Addr
  <2>5. QED
    BY <1>3, <1>6, <2>3, <2>4 DEF Linked, workqueue_task_is_queued
<1>8. QED
  BY <1>1, <1>2, <1>3, <1>4, <1>5, <1>7 DEF Task

-----------------------------------------------------------------------------
(***************************************************************************)
(* The inductive invariant: it is also what the runs check.                *)
(***************************************************************************)
Inv ==
    /\ TypeOK
    /\ Holds(heap, Contents)
    /\ QueuedIffListed
    /\ NoStrandedWaiter

LEMMA InvContents ==
    Inv => /\ heap \in Heap
           /\ Contents \in [List -> Seq(Node)]
           /\ Holds(heap, Contents)
           /\ Linked(heap, Contents)
           /\ current \in [Nested -> Task \cup {NULL}]
           /\ \A n \in Nested : current[n] = NULL => Contents[n] = << >>
           /\ \A l \in List : slist_is_empty(heap, l) <=> Contents[l] = << >>
<1> SUFFICES ASSUME Inv
             PROVE  /\ heap \in Heap
                    /\ Contents \in [List -> Seq(Node)]
                    /\ Holds(heap, Contents)
                    /\ Linked(heap, Contents)
                    /\ current \in [Nested -> Task \cup {NULL}]
                    /\ \A n \in Nested : current[n] = NULL => Contents[n] = << >>
                    /\ \A l \in List : slist_is_empty(heap, l) <=> Contents[l] = << >>
  OBVIOUS
<1>1. Holds(heap, Contents)
  BY DEF Inv
<1>2. Contents \in [List -> Seq(Node)]
  <2>1. \A l \in List : Contents[l] \in Seq(Node)
    BY <1>1, NodeSeqsAreSeqs DEF Holds
  <2>2. QED
    BY <2>1 DEF Contents
<1>3. \A l \in List : slist_is_empty(heap, l) <=> Contents[l] = << >>
  BY <1>1, HoldsEnds
<1>4. QED
  BY <1>1, <1>2, <1>3 DEF Inv, TypeOK, QueuedIffListed, NoStrandedWaiter, Nested

(***************************************************************************)
(* To re-establish the invariant it is enough to name what the new lists   *)
(* hold.                                                                   *)
(***************************************************************************)
LEMMA InvFromContents ==
    ASSUME NEW qs \in [List -> Seq(Node)],
           heap' \in Heap, Holds(heap', qs), Linked(heap', qs),
           current' \in [Nested -> Task \cup {NULL}],
           \A n \in Nested : current'[n] = NULL => qs[n] = << >>
    PROVE  Inv' /\ Contents' = qs
<1>1. Contents' = qs
  BY ContentsOfHeap DEF Contents
<1>2. \A n \in Nested : current'[n] = NULL => slist_is_empty(heap', n)
  BY HoldsEnds DEF Nested
<1>3. QED
  BY <1>1, <1>2 DEF Inv, TypeOK, QueuedIffListed, NoStrandedWaiter

LEMMA InitInv == Init => Inv /\ TQ!Init
<1> SUFFICES ASSUME Init PROVE Inv /\ TQ!Init
  OBVIOUS
<1> DEFINE qs == [l \in List |-> << >>]
<1>1. heap \in Heap
  BY SListAssumption DEF Init, Heap, Addr
<1>2. \A l \in List : heap.next[l] = l /\ heap.last[l] = l
  BY DEF Init, Addr
<1>3. << >> \in NodeSeqs
  <2>1. << >> \in Seq(Node) /\ DOMAIN << >> = {}
    BY EmptySeq
  <2>2. QED
    BY <2>1, NodeSeqsAreSeqs DEF IsInjective
<1>4. qs \in [List -> Seq(Node)]
  BY EmptySeq
<1>5. Holds(heap, qs)
  <2>1. Len(<< >>) = 0 /\ DOMAIN << >> = {}
    BY EmptySeq
  <2>2. \A l \in List : Represents(heap, l, qs[l])
    BY <1>2, <2>1 DEF Represents, Stop
  <2>3. \A l \in List : Range(qs[l]) = {}
    BY <2>1 DEF Range
  <2>4. QED
    BY <1>3, <2>2, <2>3 DEF Holds
<1>6. Linked(heap, qs)
  <2>1. \A t \in Task : heap.next[t] = NULL
    BY SListAssumption DEF Init, Addr, Task
  <2>2. \A l \in List : Range(qs[l]) = {}
    BY DEF Range
  <2>3. QED
    BY <2>1, <2>2 DEF Linked, workqueue_task_is_queued
<1>7. Contents = qs
  BY <1>4, <1>5, ContentsOfHeap DEF Contents
<1>8. current = [n \in Nested |-> NULL]
  BY DEF Init
<1>9. \A l \in List : slist_is_empty(heap, l)
  BY <1>2 DEF slist_is_empty
<1>10. QED
  BY <1>1, <1>5, <1>6, <1>7, <1>8, <1>9
  DEF Inv, TypeOK, QueuedIffListed, NoStrandedWaiter, TQ!Init, TQ!Nested, Nested

(***************************************************************************)
(* One lemma per function: from an invariant state its action reaches an   *)
(* invariant state and takes a step of TaskQueues.                         *)
(***************************************************************************)
LEMMA AddTaskStep ==
    ASSUME Inv, NEW t \in Task \cup {NULL}, AddTask(t)
    PROVE  Inv' /\ TQ!Enqueue(t)
<1> DEFINE qs == TQ!Enqueued(Contents, main_workqueue, t)
<1>1. /\ heap' = workqueue_add_task(heap, main_workqueue, t)
      /\ current' = current
  BY DEF AddTask
<1>2. /\ heap' \in Heap /\ qs \in [List -> Seq(Node)]
      /\ Holds(heap', qs) /\ Linked(heap', qs)
      /\ \A m \in List : m # main_workqueue => qs[m] = Contents[m]
  BY <1>1, InvContents, AddTaskHolds, WorkqueueAssumption
<1>3. \A n \in Nested : current'[n] = NULL => qs[n] = << >>
  BY <1>1, <1>2, InvContents DEF Nested
<1>4. Inv' /\ Contents' = qs
  <2>1. current' \in [Nested -> Task \cup {NULL}]
    BY <1>1, InvContents
  <2>2. QED
    BY <1>2, <1>3, <2>1, InvFromContents
<1>5. QED
  BY <1>1, <1>4 DEF TQ!Enqueue

LEMMA PopTaskStep ==
    ASSUME Inv, PopTask
    PROVE  Inv' /\ TQ!Dequeue
<1> DEFINE qs == [Contents EXCEPT ![main_workqueue] = Tail(@)]
<1>1. /\ heap' = workqueue_pop_task(heap, main_workqueue)
      /\ current' = current
      /\ Contents[main_workqueue] # << >>
  BY InvContents, WorkqueueAssumption DEF PopTask
<1>2. /\ heap' \in Heap /\ qs \in [List -> Seq(Node)]
      /\ Holds(heap', qs) /\ Linked(heap', qs)
  BY <1>1, InvContents, PopTaskHolds, WorkqueueAssumption
<1>3. \A n \in Nested : current'[n] = NULL => qs[n] = << >>
  BY <1>1, InvContents DEF Nested
<1>4. Inv' /\ Contents' = qs
  <2>1. current' \in [Nested -> Task \cup {NULL}]
    BY <1>1, InvContents
  <2>2. QED
    BY <1>2, <1>3, <2>1, InvFromContents
<1>5. QED
  BY <1>1, <1>4 DEF TQ!Dequeue

LEMMA NestedAddTaskWaitStep ==
    ASSUME Inv, NEW n \in Nested, NEW t \in Task \cup {NULL}, NestedAddTaskWait(n, t)
    PROVE  Inv' /\ TQ!Wait(n, t)
<1> DEFINE qs == TQ!Enqueued(Contents, n, t)
<1>1. /\ heap' = workqueue_add_task(heap, n, t)
      /\ current' = current
      /\ current[n] # NULL
      /\ n \in List
  BY DEF NestedAddTaskWait, Nested
<1>2. /\ heap' \in Heap /\ qs \in [List -> Seq(Node)]
      /\ Holds(heap', qs) /\ Linked(heap', qs)
      /\ \A m \in List : m # n => qs[m] = Contents[m]
  BY <1>1, InvContents, AddTaskHolds
<1>3. \A m \in Nested : current'[m] = NULL => qs[m] = << >>
  BY <1>1, <1>2, InvContents DEF Nested
<1>4. Inv' /\ Contents' = qs
  <2>1. current' \in [Nested -> Task \cup {NULL}]
    BY <1>1, InvContents
  <2>2. QED
    BY <1>2, <1>3, <2>1, InvFromContents
<1>5. QED
  BY <1>1, <1>4 DEF TQ!Wait

LEMMA NestedAddTaskNowStep ==
    ASSUME Inv, NEW n \in Nested, NEW t \in Task \cup {NULL}, NestedAddTaskNow(n, t)
    PROVE  Inv' /\ TQ!Grant(n, t)
<1> DEFINE qs == TQ!Enqueued(Contents, main_workqueue, t)
<1>1. /\ heap' = workqueue_add_task(heap, main_workqueue, t)
      /\ current' = [current EXCEPT ![n] = t]
      /\ current[n] = NULL
      /\ n \in List
  BY DEF NestedAddTaskNow, Nested
<1>2. /\ heap' \in Heap /\ qs \in [List -> Seq(Node)]
      /\ Holds(heap', qs) /\ Linked(heap', qs)
      /\ \A m \in List : m # main_workqueue => qs[m] = Contents[m]
  BY <1>1, InvContents, AddTaskHolds, WorkqueueAssumption
<1>3. \A m \in Nested : current'[m] = NULL => qs[m] = << >>
  <2>1. \A m \in Nested : current'[m] = NULL => current[m] = NULL
    BY <1>1, InvContents
  <2>2. QED
    BY <2>1, <1>2, InvContents DEF Nested
<1>4. Inv' /\ Contents' = qs
  <2>1. current' \in [Nested -> Task \cup {NULL}]
    BY <1>1, InvContents
  <2>2. QED
    BY <1>2, <1>3, <2>1, InvFromContents
<1>5. QED
  BY <1>1, <1>4 DEF TQ!Grant

LEMMA NestedNextTaskStep ==
    ASSUME Inv, NEW n \in Nested, NestedNextTask(n)
    PROVE  Inv' /\ (TQ!PassOn(n) \/ TQ!Release(n))
<1>1. n \in List /\ n # main_workqueue
  BY DEF Nested
<1>2. CASE Contents[n] = << >>
  <2>1. /\ workqueue_popped(heap, n) = NULL
        /\ workqueue_pop_task(heap, n) = heap
    BY <1>1, <1>2, InvContents DEF workqueue_popped, workqueue_pop_task
  <2>2. heap' = heap /\ current' = [current EXCEPT ![n] = NULL]
    BY <2>1 DEF NestedNextTask, workqueue_add_task
  <2>3. /\ current' \in [Nested -> Task \cup {NULL}]
        /\ \A m \in Nested : current'[m] = NULL => Contents[m] = << >>
    BY <1>2, <2>2, InvContents
  <2>4. heap' \in Heap /\ Holds(heap', Contents) /\ Linked(heap', Contents)
    BY <2>2, InvContents
  <2>5. Inv' /\ Contents' = Contents
    <3> DEFINE qs == Contents
    <3>1. qs \in [List -> Seq(Node)]
      BY InvContents
    <3> HIDE DEF qs
    <3>2. Inv' /\ Contents' = qs
      <4>1. Holds(heap', qs) /\ Linked(heap', qs)
        BY <2>4 DEF qs
      <4>2. \A m \in Nested : current'[m] = NULL => qs[m] = << >>
        BY <2>3 DEF qs
      <4>3. QED
        BY <4>1, <4>2, <3>1, <2>3, <2>4, InvFromContents
    <3>3. QED
      BY <3>2 DEF qs
  <2>6. QED
    BY <1>2, <2>2, <2>5 DEF TQ!Release
<1>3. CASE Contents[n] # << >>
  <2> DEFINE t == Head(Contents[n])
             h == workqueue_pop_task(heap, n)
             ps == [Contents EXCEPT ![n] = Tail(@)]
             qs == [ps EXCEPT ![main_workqueue] = Append(@, t)]
  <2>1. /\ workqueue_popped(heap, n) = t /\ t \in Task
        /\ h \in Heap /\ ps \in [List -> Seq(Node)]
        /\ Holds(h, ps) /\ Linked(h, ps)
        /\ \A m \in List : t \notin Range(ps[m])
    BY <1>1, <1>3, InvContents, PopTaskHolds
  <2>2. /\ heap' = workqueue_add_task(h, main_workqueue, t)
        /\ current' = [current EXCEPT ![n] = t]
    BY <2>1 DEF NestedNextTask
  <2>3. t # NULL
    BY <2>1, SListAssumption DEF Task
  <2>4. TQ!Enqueued(ps, main_workqueue, t) = qs
    BY <2>1, <2>3 DEF TQ!Enqueued, TQ!Queued, TQ!Range, Range
  <2>5. /\ heap' \in Heap /\ qs \in [List -> Seq(Node)]
        /\ Holds(heap', qs) /\ Linked(heap', qs)
    <3>1. t \in Task \cup {NULL} /\ main_workqueue \in List
      BY <2>1, WorkqueueAssumption
    <3> HIDE DEF t, h, ps, qs
    <3>2. /\ workqueue_add_task(h, main_workqueue, t) \in Heap
          /\ TQ!Enqueued(ps, main_workqueue, t) \in [List -> Seq(Node)]
          /\ Holds(workqueue_add_task(h, main_workqueue, t),
                   TQ!Enqueued(ps, main_workqueue, t))
          /\ Linked(workqueue_add_task(h, main_workqueue, t),
                    TQ!Enqueued(ps, main_workqueue, t))
      BY <2>1, <3>1, AddTaskHolds
    <3>3. QED
      BY <3>2, <2>2, <2>4
  <2>6. /\ current' \in [Nested -> Task \cup {NULL}]
        /\ \A m \in Nested : current'[m] = NULL => m # n /\ current[m] = NULL
    BY <2>1, <2>2, <2>3, InvContents
  <2>7. \A m \in Nested : m # n => qs[m] = Contents[m]
    BY <2>1, InvContents DEF Nested
  <2>8. \A m \in Nested : current'[m] = NULL => qs[m] = << >>
    BY <2>6, <2>7, InvContents
  <2>9. Inv' /\ Contents' = qs
    BY <2>5, <2>6, <2>8, InvFromContents
  <2>10. qs = [Contents EXCEPT ![n] = Tail(@), ![main_workqueue] = Append(@, Head(Contents[n]))]
    BY <1>1, WorkqueueAssumption, InvContents
  <2>11. QED
    BY <1>3, <2>2, <2>9, <2>10 DEF TQ!PassOn
<1>4. QED
  BY <1>2, <1>3

LEMMA NextStep == Inv /\ [Next]_vars => Inv' /\ [TQ!Next]_TQ!vars
<1> SUFFICES ASSUME Inv, [Next]_vars
             PROVE  Inv' /\ [TQ!Next]_TQ!vars
  OBVIOUS
<1>0. TQ!Nested = Nested
  BY DEF TQ!Nested, Nested
<1>1. CASE \E t \in Task \cup {NULL} : AddTask(t)
  <2>1. PICK t \in Task \cup {NULL} : AddTask(t)
    BY <1>1
  <2>2. Inv' /\ TQ!Enqueue(t)
    BY <2>1, AddTaskStep
  <2>3. QED
    BY <2>2 DEF TQ!Next
<1>2. CASE PopTask
  BY <1>2, PopTaskStep DEF TQ!Next
<1>3. CASE \E n \in Nested, t \in Task \cup {NULL} :
                NestedAddTaskWait(n, t) \/ NestedAddTaskNow(n, t)
  <2>1. PICK n \in Nested, t \in Task \cup {NULL} :
                NestedAddTaskWait(n, t) \/ NestedAddTaskNow(n, t)
    BY <1>3
  <2>2. Inv' /\ (TQ!Wait(n, t) \/ TQ!Grant(n, t))
    BY <2>1, NestedAddTaskWaitStep, NestedAddTaskNowStep
  <2>3. QED
    BY <1>0, <2>2 DEF TQ!Next
<1>4. CASE \E n \in Nested : NestedNextTask(n)
  <2>1. PICK n \in Nested : NestedNextTask(n)
    BY <1>4
  <2>2. Inv' /\ (TQ!PassOn(n) \/ TQ!Release(n))
    BY <2>1, NestedNextTaskStep
  <2>3. QED
    BY <1>0, <2>2 DEF TQ!Next
<1>5. CASE UNCHANGED vars
  <2>1. heap' = heap /\ current' = current
    BY <1>5 DEF vars
  <2>2. Contents' = Contents
    BY <2>1 DEF Contents
  <2>3. Inv'
    BY <2>1, <2>2
    DEF Inv, TypeOK, QueuedIffListed, NoStrandedWaiter
  <2>4. QED
    BY <2>1, <2>2, <2>3 DEF TQ!vars
<1>6. QED
  BY <1>1, <1>2, <1>3, <1>4, <1>5 DEF Next

(***************************************************************************)
(* The invariant holds in every reachable state.                           *)
(***************************************************************************)
THEOREM Invariance == Spec => []Inv
<1>1. Init => Inv
  BY InitInv
<1>2. Inv /\ [Next]_vars => Inv'
  BY NextStep
<1>3. QED
  BY <1>1, <1>2, PTL DEF Spec

(***************************************************************************)
(* The heap and the current tasks keep their types: no C function here     *)
(* leaves a pointer that is neither a node, nor a sentinel, nor NULL.      *)
(***************************************************************************)
THEOREM TypeCorrect == Spec => []TypeOK
<1>1. Inv => TypeOK
  BY DEF Inv
<1>2. QED
  BY <1>1, Invariance, PTL

(***************************************************************************)
(* workqueue_add_task, workqueue_pop_task and the nested variants never    *)
(* tie two task lists together, lose a chain's end or link a task twice.   *)
(***************************************************************************)
THEOREM QueuesStayWellFormed == Spec => []QueuesHold
<1>1. Inv => QueuesHold
  <2> SUFFICES ASSUME Inv PROVE Holds(heap, Contents) /\ Contents \in [List -> NodeSeqs]
    BY DEF QueuesHold
  <2>1. Holds(heap, Contents)
    BY DEF Inv
  <2> QED
    BY <2>1 DEF Holds, Contents
<1>2. QED
  BY <1>1, Invariance, PTL

(***************************************************************************)
(* workqueue_task_is_queued answers exactly whether some queue holds the   *)
(* task.                                                                   *)
(***************************************************************************)
THEOREM QueuedTestIsExact == Spec => []QueuedIffListed
<1>1. Inv => QueuedIffListed
  BY DEF Inv
<1>2. QED
  BY <1>1, Invariance, PTL

(***************************************************************************)
(* nested_workqueue_add_task and nested_workqueue_next_task never leave a  *)
(* task waiting in a nested queue whose current task is NULL.              *)
(***************************************************************************)
THEOREM WaitersAreServed == Spec => []NoStrandedWaiter
<1>1. Inv => NoStrandedWaiter
  BY DEF Inv
<1>2. QED
  BY <1>1, Invariance, PTL

(***************************************************************************)
(* The linked lists of workqueue.c implement first-in-first-out queues:    *)
(* every step is a step of TaskQueues, or changes nothing there.           *)
(***************************************************************************)
THEOREM Refinement == Spec => ImplementsTaskQueues
<1>1. Init => TQ!Init
  BY InitInv
<1>2. Inv /\ [Next]_vars => [TQ!Next]_TQ!vars
  BY NextStep
<1>3. QED
  BY <1>1, <1>2, Invariance, PTL DEF Spec, ImplementsTaskQueues, TQ!Spec
=============================================================================
