# A verification model of the Xplain software framework

The repository (`src/source`, 378 files of C and headers, about 70 000 lines, half of them
in headers of register definitions, CPUs and boards) is a small run-to-completion
operating environment for AVR8 (XMEGA, megaAVR) and AVR32 (UC3) microcontrollers: work
queues and softirqs on a single stack, allocators, linked lists and streams, drivers for
SPI, dataflash, timers, touch screens and USB devices, a window system, and applications
that use them. There are no threads. Everything that makes it hard comes from interrupt
handlers that run between any two instructions, from callbacks that come back later, and
from intrusive data structures whose links live inside what they link.

This directory holds TLA+ modules translated from that code, TLC configurations that check
them and proofs that TLAPS checks. `PROJECT.json` maps every definition to the lines it
stands for.

## 1. Inventory

| Part | State | Operations | Interaction | What must hold |
|---|---|---|---|---|
| Work queues `util/workqueue.c`, `include/workqueue.h` | circular task list per queue, `current` of each nested queue, `next` of each task | add, pop, nested add, nested next | called from the main loop, workers and interrupt handlers | lists stay chains; a task is in at most one; FIFO; a nested queue never has waiters and no holder |
| Main loop and sleep `include/mainloop.h`, `cpu/*/include/cpu/sleep.h` | interrupt flag, the running worker | poll softirqs, pop, run, sleep | runs everything else | no lost wake-up; queued tasks run |
| Softirqs `include/softirq.h`, `arch/avr8/include/arch/softirq.h` | pending bitmap, handler table | raise, poll, set handler | raised by interrupt handlers | handled in order of priority and before tasks; none lost |
| Linked lists `include/slist.h` | sentinel, last pointer, links | insert, pop, move, borrow, give back | every queue of requests and buffers | behave as sequences although nodes are shared while lent |
| Bit operations `include/bitops.h`, `arch/*/include/arch/bitops.h` | none | set, clear, toggle, find | softirqs, USB | the atomic and the plain operations mean the same bit |
| Interrupt masking `arch/*/include/arch/interrupt.h` | interrupt flag | save, restore, enable, disable | every critical section | sections nest; no section ends early |
| Physical memory, malloc `util/physmem.c`, `util/malloc_simple.c` | bounds of each pool | allocate high, allocate low | pools, malloc | regions disjoint, in the pool |
| Memory pools `util/mempool.c` | free list through the objects | init, alloc, free | tasks, buffers, requests | no object handed out twice or lost |
| Memory bags `util/membag.c` | a pool and statistics per bag | alloc, free, queries | display applications | blocks return to their bag, counts exact |
| Buffers, DMA pools `util/buffer.c`, `util/dmapool.c` | three pools, address and length of each buffer | alloc, free, resize | USB, dataflash | nothing lost on partial failure |
| Ring buffers, streams `include/ring.h`, `util/stream` | free-running head and tail | insert, extract, commit, make room | debug console, window events | FIFO with one producer and one consumer |
| SPI bus `include/spi.h`, `drivers/serial/spi` | a nested work queue, the request in progress | request bus, submit, poll, release | dataflash, touch, display | one owner; every request completes |
| AT45 and dataflash `drivers/flash`, `drivers/block` | state of a request, current page and buffer list | open, submit, page state machine | SPI bus, mass storage, file system | bytes transferred are accounted; the bus is given back |
| USB `drivers/usb/at90usb`, `drivers/usb/core` | endpoint queues, control request state, configuration, flags of the controller | standard requests, submit, terminate, handlers of the controller's interrupts | buffers, mass storage, host | every request completes once; device and host agree on address and configuration |
| Mass storage `drivers/usb/udi/msc_bulk.c` | command state, buffers in flight | command, read and write pipelines, reset | block device and USB completions | status only after all data; nothing pending is forgotten |
| Touch and its calibration `drivers/touch/resistive`, `apps/display-demo/app_calibrate.c` | the sampling state, the sums of the samples, the last event, the matrix | port and converter interrupts, softirq, enable, disable, set handler | softirq of the main loop, window system | exactly one thing moves the driver on; a release is reported; samples of two touches never mix |
| Bridge controller `apps/xplain-bc` | mode, workers | switch between USB and UART | work queues, SPI | no switch while the bus is busy |
| Timer `drivers/tc/timer` | counter, compare value and interrupt enable of each timer | set alarm, interrupts | applications | an alarm fires once and not early |
| Window system `util/gfx/win.c` | tree of windows, event ring, focus and grab | create, destroy, show, move, raise, queue event | touch, applications, widgets | the screen shows what the tree says; events reach live windows in order |
| Widgets `util/gfx/wtk_*.c` | state of each frame, button, box, slider; the squares saved under a drag's symbols | handlers of pointer events, commands | window system, applications | what is pressed holds the pointer and nothing else does; frames fit their contents |
| File system `util/fs/tsfs.c` | the operation in progress | init, open, read | block device | callbacks in sequence, within file bounds |
| Graphics, pins, clocks, UART registers, boards, strings | registers | set-up and pixels | - | not state machines |

How they interact, and what is hard about it:

- *Interrupt handlers* run from start to end between any two instructions at which
  interrupts are enabled. They add tasks, raise softirqs and submit buffers, so every
  structure they share with the main loop is only safe inside `cpu_irq_save` sections, and
  the decision to sleep must not be taken on old information.
- *Callbacks* carry every longer operation on: a task adds itself again with another work
  function, an SPI transfer ends by adding the owner's task, a block request sleeps until
  its client supplies buffers. Nothing but this chain keeps an operation going; one missing
  or doubled link and the bus is never released or a task runs twice.
- *Sharing*: list nodes live in what they link and are lent between lists; a pool's free
  list lives in the free objects; one physical pool is consumed from both ends.
- *Failure*: allocations fail half way through; a client may be late, or give nothing.
- There is no persistence and no restart of parts, no retransmission, and nothing runs in
  parallel: crashes, message loss and multi-processor orderings are not among the hazards.

The hazards that follow from this are listed, each at its line, in `PROJECT.json`.

## 2. Plan

In order of importance; a step is written only when the one before it is checked.

1. **Kernel**: `SList`, `TaskQueues` (abstract), `Workqueue`, `WorkqueueIrq`, `NodeLists`
   (abstract), `SListClient`, `MainLoop`; `SListProofs`, `SListClientProofs`,
   `WorkqueueProofs`, `WorkqueueIrqProofs`, `GuiProofs` (of `MainLoop`). *Done.*
2. **Memory**: `MemOps`, `ObjectPool` (abstract), `MemPool`, `Buffers` (composes `MemPool`),
   `MemBag` (composes it too); `MemoryProofs`. *Done.*
3. **Storage**: `At45Chip` (external), `SpiBus`, `Dataflash`; `DriverProofs`. *Done.* To follow: the mode
   switch of `apps/xplain-bc/main.c` on top of `Dataflash` - the worker tests the status of
   one SPI transfer, which is idle between two transfers of a request in progress.
4. **USB**: `UsbControl` (endpoint 0, the bus events, the standard requests), `MassStorage`
   (the function between the data endpoints and a block device that keeps `Dataflash`'s
   promises); `UsbProofs`. *Done.* To follow: a multiplexer with several interfaces.
5. **Display**: `Touch` (proofs in `DriverProofs` too), `Areas`, `Windows`, `Painting`, `Widgets`
   (composes `Windows`), `Screen` (puts `Widgets` and `Painting` together); `GuiProofs`.
   *Done.* To follow: keyboard events and focus; the timer (with the test for an alarm
   already passed, `tc_timer_avr32.c:198-205`).
6. **Streams**: `ring.h` with torn 16-bit reads, the stream core with the debug UART.
7. **Files**: `tsfs.c` and `file_loader.c` over the abstract block device.

## 3. The modules and the code

### Lists and work queues

`SList` translates `include/slist.h` pointer by pointer. A heap is a record of two
functions: `next`, the link of every node and every sentinel, and `last`, the tail pointer
of every list. Each operator has the name of its C function and returns the heap that the
function leaves. `Items` walks a list, `Holds(h, q)` says that heap `h` represents the
sequences `q`: chains that end at their own sentinel and share no node.

`Workqueue` translates `util/workqueue.c` and `include/workqueue.h` with every function as
one action: `AddTask`, `PopTask`, `NestedAddTaskWait` and `NestedAddTaskNow` (the two
branches of `nested_workqueue_add_task`) and `NestedNextTask`. `heap` are the task lists,
`current` is `nwq->current`. A task is queued if its `next` is not NULL, as in the code, not
if some list holds it; that the two agree is a property. `TaskQueues` is what the queues
promise: sequences of tasks and at most one holder of each nested queue.

`WorkqueueIrq` opens these functions up: a program counter steps through every test and
store, a stack of saved flags models `cpu_irq_save` and `cpu_irq_restore`, and an interrupt
handler may call any of the functions atomically wherever interrupts are enabled. Its
history variable `public` is the state at the last return, and under it the module
implements `Workqueue`.

`SListClient` is the most general caller of `slist.h` that keeps the documented
preconditions, with `slist_borrow_to_tail` and `slist_give_back_head` as the USB driver uses
them (including the one use, `at90usb_udc.c:1166`, of giving back a list that has been
emptied). `NodeLists` is the same over sequences.

### Main loop

`MainLoop` is `mainloop_run`: `pc` is the place in the loop, `irq` the interrupt flag,
`softirq_priv_status` the pending softirqs. `DisableIrq`, `PollHandle`, `HandlerReturns`,
`PollNone`, `RunTask`, `WorkerReturns`, `PopNone` and `EnterSleep` are the steps in the
order of the code. `cpu` chooses between AVR8, whose `cpu_enter_sleep` only enables
interrupts, and UC3, which sleeps in one instruction with enabling them and has no
softirqs. Workers, softirq handlers and interrupt handlers are arbitrary: they call the
queues and raise softirqs, and leave the flag as they like. The bitmap of pending softirqs is
the set of its one bits, and `bit_array_find_first_one_bit` returns what the code returns: an
index inside the word of the bitmap in which it stops, so that the order of softirqs rests on
there being no more of them than `WordBits` (`MainLoopAssumption`).

### Memory

`MemOps` holds the address arithmetic, with addresses that wrap at `2^AddrBits`: `round_up`,
`physmem_alloc`, `mem_pool_init`. `MemPool` creates pools at the top of a physical pool that
`malloc` eats from the bottom, allocates and frees, and lets users write to the objects they hold -
the place where the free list's links were. `ObjectPool` is the abstract pool, of which the objects
that are not in use (`used`, a history of what was returned and freed) are the free ones: it says
what a caller sees. `Buffers` composes `MemPool` into the two generic DMA pools and the pool of
buffer structs: `buffer_dma_alloc` and `buffer_dma_free` take two steps, `calls` is the stack of
calls in progress, and between the steps of one an interrupt handler may make another. `MemBag` is
`membag.c` with its counters, another user of `MemPool`: `membag_init` takes a pool for every bag in
the order of the list, a request is served by the first bag that is large enough and not empty, and
`membag_free` looks for the bag by address.

### Storage

`At45Chip` is the external chip: which page its buffer holds, what it is busy with, and what
a command does when the select line rises. `SpiBus` is the bus and the polled master: a
nested work queue of owners, the transfer in progress, its polling task and its buffer list
task. `Dataflash` is `dataflash.c` with the steps of `at45_device.c`: a request `r` has the
work function its task runs next (`func`), its position, its list of buffers and the
`sleeping` flag. Each operator of a step has the name of the C function: `ReadSetup`,
`WriteReady`, `WriteSetup`, `PageDone`, `Transfer`, `WaitOn` (`at45_wait_ready`). Clients
`Submit` with all their buffers (as `tsfs.c`) or with none (as `msc_bulk.c`) and add buffers
at any time with `SubmitBufList`. Each of these is one action since `dataflash_transfer`
masks interrupts around the list and the flag it shares with clients.

### USB

`MassStorage` is `udi/msc_bulk.c` between a host and the block device. Everything there runs in
tasks of the main loop, so the state of the device is one record `msc` (the fields of `struct
msc_interface`, the queues of the two endpoints, the block request, the DMA pool), the C functions
are operators from `dev` to `dev` with the names they have in the code, and an action is one task: a
command arrives (`HostCommand`), a packet moves and the request it belongs to completes
(`InTransfer`, `OutTransfer`), the block device has filled or emptied buffers (`BdTransfer`) or is
done with a page (`BdPageDone`), the host clears a halt (`DataStalled`, `StatusStalled`), resets the
function (`BulkReset`), the application takes the disk away and gives it back (`udi_msc_set_busy`,
`udi_msc_set_ready`). The host (`initiator`) follows the Bulk-Only protocol and writes down what it
has got and stored, in what phase. The block device is the part of `Dataflash` that a client sees:
it sleeps without buffers, gives lists of buffers back at the end of a page, and completes when all
blocks have moved.

`UsbControl` is endpoint 0: the controller's registers (`UEINTX` the pending flags, `UEIENX` those
that interrupt), the handlers of `at90usb_core.c` which mask the source and queue a task
(`EpInterrupt`, `GenericInterrupt`), the two workers (`RunTask` runs
`at90usb_udc_ep0_worker` or `at90usb_udc_device_worker`), and the standard requests of
`udc_lib.c` that enumeration needs. The host sends SETUP packets, takes and sends packets,
resets the bus and is plugged in and out between any two of these. The worker's busy waits
(`udc_ep0_write_sync`) are a state of their own, in which nothing but the host and the
interrupts go on.

### Display

`Windows` is the window tree of `util/gfx/win.c` as a library of operators on a *gui*, a tree
together with the paint that is on the screen; `Areas` has the arithmetic of places and areas. How a
window is painted, whether it is visible and whether a place is inside it are parameters of
`Windows` (`Draw`, `DrawParent`, `Visible`, `Inside`, `PlaceInRoot`), for nothing that happens to
the tree depends on what is painted. `Painting` supplies them: clipping and drawing are translated
as the code does them (climb to the root, draw what covers, draw children from the bottom up).
`win_raise` and `win_lower` are applied to windows with children only, as the code takes for granted
(section 7). Each pixel remembers which windows it shows, where inside them and in which look, so
that paint that should have been replaced differs from fresh paint. `Picture(tree)` says
independently what should be seen. The recursion of `win_destroy_children` is the least set that is
closed under children (`Family`), and the descent to the window under the pointer is three levels of
`Down`: no window lies deeper than a frame, its contents and what is in there.

`Widgets` puts the event queue of `win.c`, the handlers of the widgets and an application on top of
it (`Screen` is `Widgets` with `Painting`). `HandleEvent` is the handling of one event by the event
task up to the command it queues; `QueueCommandTask`, `QueueCommandPush` and `win_event_queue_pop`
are separate steps, since `TouchPress`, `TouchMove` and `TouchRelease` queue events from a softirq
or an interrupt in between. A drag of the frame draws two symbols straight onto the screen, saves
what they cover and puts it back (`StartDrag`, `ContinueDrag`, `StopDrag`, with `gfx_get_pixmap` and
`gfx_put_pixmap`): `saved` are the two squares, `last` the pointer position of the event before,
which the code passes to the handler, and `Roomy` the scenes in which there is memory for the
squares. Events are queued with no regard for what is still in the queue. When the handling of an
event leaves the pointer, or a command that is still queued, with a window that has been destroyed
(`Dangling`), the program uses memory that it has given back; `job` is then `"undefined"` and
nothing more happens in the model, for nothing can be said about it. The application launches a
frame of widgets (`Stacking` is the order in which they are created; the frame is shown when they
are all there, so that they are created in one step), closes it by its button, raises and lowers it,
and creates, shows, hides, moves into the frame and destroys a window of its own.

`Touch` is `drivers/touch/resistive/touch.c`: `touch_priv_port_handler`,
`touch_priv_adc_handler` (`ReadX`, `ReadY`), the softirq `touch_priv_process_samples`,
`touch_enable` and `touch_disable`; the pen goes down, slides and goes up between any two of
them. The calibration of `app_calibrate.c` (`app_touch_calibrate_setup`, `TakePoint`,
`CalibrationDone`) replaces the driver's event handler by its own, with the matrix arithmetic
of `touch_compute_calibration_matrix`. Divisions truncate as in C, and sums and products wrap around
at the width of an `int32_t` (`Int32`, with `IntLimit` for 2^31), the reported place at that of an
`int16_t` (`Int16`). Overflow of a signed number is undefined in C; the compilers for these CPUs wrap.

## 4. The runs

| Run | States | What is checked |
|---|---|---|
| `workqueue` | 1 264 | types, lists stay chains (`QueuesHold`), no waiter without a holder, refinement of `TaskQueues` |
| `workqueue_irq` | 3 622 | interrupts are off whenever the structure is half changed; every call is one atomic `Workqueue` step |
| `main_loop` | 1 464 | no sleep on work, softirqs first, queued tasks run, raised softirqs are handled |
| `slist_client` | 1 416 | refinement of `NodeLists`, call by call |
| `buffers` | 8 514 | regions disjoint, allocation fails only when full, structs and objects conserved through failures half way and interrupts, refinement of `ObjectPool` |
| `membag` | 8 488 | blocks return to their bag and its list leads to nothing else, counts exact |
| `dataflash` | 25 089 | the next owner of the bus finds an idle chip; only own blocks change; complete means transferred; every request completes |
| `mass_storage` | 42 550 | data and status in their phases, buffers and counts accounted for, nothing of a command left behind for the next, quiet once the application has the disk, the data of each command exactly the blocks it names, every command answered |
| `usb_control` | 73 447 | address and configuration agreed with the host, no request left when a SETUP packet comes (for a host that is not ahead of the device), transfers end |
| `usb_setup_race` | - | finding, section 7 |
| `widgets` | 282 400 | the screen shows exactly the tree, but for the squares of a drag's symbols, what is pressed holds the pointer, frames fit, a press goes to what is seen, events are taken |
| `touch` | 555 380 | the handlers agree, the matrix maps touches to circles unless an int is too short, releases are reported, a still pen is reported where it lies |

Bounds. *Queues*: three tasks and two nested queues let a queue be empty, hold one task (head and
tail are the same node) and more, and let two nested queues hand over into the main queue; the
proofs cover all sizes. *Interrupts*: two tasks and one nested queue, since the interrupted call and
the handler touch at most one list each, and nesting of handlers adds nothing as a handler runs
masked. *Main loop*: two tasks to wait for each other, two softirqs to have a priority. *Lists*:
three nodes in three lists let a lent chain have a first, a middle and a last node. *Memory*:
addresses of six bits, pools with two objects and with one, sizes and bounds that are not aligned,
and a region small enough to be exhausted from both sides; at most one handler interrupts a call,
since handlers run masked; two bags that touch each other, with requests that the second serves when
the first is empty, and pointers that are freed without being blocks. *Dataflash*: two pages of two
blocks and two requests of up to three blocks: whole pages, first and second halves, requests that
cross a page and overlap; each request is submitted once, which still lets one wait for the other in
either order. *Mass storage*: four large buffers, of which a pipeline may use two, pages of two
blocks, and transfers of up to six blocks that begin at either half of a page: the pipeline fills,
drains and wraps more than once; the commands are listed in `MCMassStorage`, with every disagreement
of host and device on direction and length that the code has a branch for. Two tags tell the status
of one command from that of the next. *Control*: descriptors of no packet and of one to three, with
and without a last full one, two addresses, one interface. *Widgets*: a screen of one line of six
pixels (the operators treat the two coordinates alike, one line at a time as the code does), a frame
with two widgets, and six scenes, each with the parts that belong together, so that every one of
them can be explored: buttons, and a frame that is moved and resized (`MoveOrResize`); a window of
the application over a frame that is moved and resized with symbols (`WithWindow`); symbols three
pixels wide that overlap and are cut off at the edge of the screen (`NarrowDrag`); a button that
closes the frame with a window inside or over it (`Closing`); a second press before the first has
been dealt with (`SecondPress`); radio buttons of one group (`Group`). The queue has one place, two
or three: with one events are dropped all the time, and a press between a release and the command it
leads to takes three. The pen touches two or three places. *Touch*: two samples per coordinate, a
panel of 320 x 240 pixels as on the boards, samples of four bits and ints of 16 in place of samples
of twelve and ints of 32 (and shorts of 12 in place of 16): four places, of which some orders of
three make a constant of the matrix overflow, and some what is divided in the end; a floating input,
four movements of the pen (`MaxPen`), enough for a touch, a release and a second touch in every
state of the driver, or for a calibration.

Fairness. `MainLoop` assumes only that the CPU executes: the loop takes its steps, and
workers and handlers return. Interrupts are never forced, so nothing in the liveness
properties depends on one. `RaisedSoftirqIsHandled` says under which conditions a softirq
of low priority may starve. The other modules assume what `MainLoop` shows (`QueuedTaskRuns`:
queued tasks run) and what the hardware and the other side do: for `Dataflash`, a byte sent on
the bus arrives, the chip finishes, and a client that owes buffers supplies them; for
`MassStorage`, the block device works and a host that has sent a command polls its endpoints;
for `UsbControl`, interrupts that are enabled are taken and the host polls; for `Touch`, the
same and the converter finishes. `Widgets` assumes that the event task starts and runs to its end:
`WF_job(Advance)` with `Advance` the steps of the worker, which are enabled whenever it has
started. `CHECK_DEADLOCK FALSE` is given for `Dataflash` (both requests are complete),
`MassStorage` and `UsbControl` (the host and the application may leave the device alone for ever).

What the host does not do in the passing runs, because the code does not survive it (section 7): a
SETUP packet ahead of the device (`DeviceKeepsUp`), a reset of the function in the middle of a
command (`HostGivesUp`; hazards of the data phase, such as an endpoint that is disabled while data
is queued, are therefore not covered), a short read that takes more than one request, an answer to
MODE SENSE that is longer than was asked for. The last three are excluded by `MassStorage`'s
assumptions `CommandsFit` and `NoLongAnswers`, on which the theorems rest too; `MCMassStorage`
checks that its commands satisfy them.

## 5. What is proved

For every set of tasks, nodes, lists and queues, any number of softirqs up to eight, of pools,
objects, sizes and addresses, of USB requests and their packets, of commands, block requests, pages
and buffers, of samples, places and touches, and of widgets, coordinates and places in the event
queue, from the named assumptions in `SList`, `Workqueue`, `WorkqueueIrq`, `MainLoop`, `MemOps`,
`MemPool`, `Buffers`, `UsbControl`, `MassStorage`, `At45Chip`, `Dataflash`, `Touch`, `Areas` and
`Widgets` (finitely many tasks; nodes, lists, tasks and NULL are different things, and so are
requests, buffers and the names of the functions; the provers know no powers, so `MemOpsAssumption`
says that those of two are positive, `TouchAssumption` the same of the number of samples, and TLC
evaluates both):

- `SListProofs` has the lemmas on the pointer operations: inserting at the tail of a chain
  appends, popping the head removes it, and neither touches another list.
- `WorkqueueProofs`: `Inv` is the type invariant, `Holds(heap, Contents)`, the exactness of
  the queued test and `NoStrandedWaiter`. The parts need each other: without the queued
  test a task could be linked twice, which breaks a chain; without chains, `next # NULL` says
  nothing. There is one lemma per action, each also showing the step of `TaskQueues` it
  implements. Theorems: `Invariance`, `TypeCorrect`, `QueuesStayWellFormed`,
  `QueuedTestIsExact`, `WaitersAreServed`, and `Refinement`: `Spec => TaskQueues`.
- `WorkqueueIrqProofs`: `IInv` says for every place in the functions how many cookies of
  `cpu_irq_save` are kept and that the flag is off (`Sections`), that outside of the sections
  nothing is half done (`Settled`), and which stores have been made since the last call ended, as
  an equation between the heap and `public` (`AddProgress`, `NestedAddProgress`, `PopProgress`,
  `NextProgress`). So at a return the equation is that of the whole call. It needs one fact
  about the queues, that the head of a list that is not empty is a task: that is `Inv` of
  `WorkqueueProofs` for `public`, carried along by `PublicStepIsQueueStep`. Theorems:
  `HalfwayIsMasked`, `CallsAreAtomic` (`Spec => Workqueue`), and with the refinement above
  `SharedQueuesAreFifo`: the single stores implement `TaskQueues`.
- `GuiProofs`, of `MainLoop`: `NothingMissed` strengthens the two invariants by what `softirq_poll`
  has established at `pc = "pop"`; `LooksWithIrqsOff`, `SleepsOnlyWhenIdle` and
  `SoftirqsComeFirst` follow. `StepOfQueues` shows that every step of the loop is a step of
  `Workqueue` or leaves the queues alone, which carries `WorkqueueProofs!Inv` over;
  `StartedTaskIsFree` and `LoopTypeCorrect` follow.
- `SListClientProofs`: `IInv` says what every list looks like. A list at rest is a chain
  (`Holds`). A list that lent its head keeps its tail, its old nodes keep their links whether the
  borrower has popped them or not, and what was appended since hangs on the last of them; that is
  what makes giving back the rest correct. One lemma per call shows that it keeps the shapes and
  that it is the operation of `NodeLists` on the sequences. Theorems: `ListsKeepTheirShape`,
  `CallsAreThoseOfSequences` (`Spec => NodeLists`).
- `MemoryProofs`, of `Buffers` and `MemBag`: `IInv` of the buffers is the types and three parts.
  `Layout`: pools lie one below the other at the top of the physical pool, what malloc returned one
  above the other at the bottom. `FreeListsLinked`: the objects of a pool that are not in use are
  one free list - the head, no two links alike, and a rank that falls along the links, which
  excludes circles. That there is a rank replaces the induction along the list that the provers
  cannot do, and still shows, as every set of numbers has a least one, that a list which is NULL at
  its head has no objects (`LinkedAlloc`). `Held`: every object in use has one holder, a buffer or a
  call, and DMA memory is of the pool that it will be freed to. The last two need each other:
  freeing an object that is already free, or to another pool, would break a list, and a list with a
  circle would give an object two holders. `AllocHigh` and `AllocLow` say what the physical pool
  returns: the highest and the lowest aligned place. The theorems assume `NoOverflow`: the end of
  the pool and every size, plus one alignment, lie below `2^AddrBits`. It is what `round_up` needs,
  and the code's pools have it: they end far below the end of `phys_addr_t`, and the sizes are those
  of the configuration. `MCBuffers` and `MCMemBag` check that their constants satisfy it; those of
  the buffers also assume the three pools there are (`ThreePools`). Theorems: `AllocatorsAgree`,
  `NothingGivenOutTwice`, `FailureMeansFull`, `EveryObjectHasOneHolder`, and
  `PoolsKeepTheirPromise`: `Spec => ObjectPool`. For the bags `BagsInv` is the same invariant of
  `MemPool` with the counts. `membag_free` compares with bounds that include the first byte after
  the bag, which may be the first block of another one; but the bags lie downwards in the order of
  the list (`Layout`), so that the first bag around a block is its own. `ListOfLinked` shows that
  the list leads to all of the free blocks: a part of them closed under the links, without one of
  them, would have fewer targets than links (the pigeonhole principle). Theorems:
  `BlocksReturnToTheirBag`, `FreeBlocksAreCounted`.
- `UsbProofs`, of `UsbControl`: `Good(dev, host)` relates the driver and the host: what is left to
  send is a submitted request's (`Accounted`), which is in its data stage (`Sending`); the
  endpoint's copy of the interrupt mask is right whenever its task is not queued (`MaskKept`); a
  task that waits for the host waits alone (`Waiting`); what a reset that is not handled yet says
  (`Resetting`); when a configuration counts for whom (`Configured`); that both are in the same
  request (`SameRequest`), and that the device sees its status go when the host has it
  (`StatusSeen`). `AllCompletedBySetup` alone is far from inductive: that no request is left at the
  next SETUP packet rests on the mask, on the states of the transfer and on what the host has seen.
  The theorems assume `DeviceKeepsUp`, the host of the run `usb_control`; without it the first of
  them is false (`usb_setup_race`, section 7). Packets begin and end inside one buffer; what is left
  of a descriptor is counted as the driver counts it, from the last packet alone (section 7), which
  the three theorems do not mind. Theorems: `DeviceAndHostAgree`, `SetupCompletesRequests`,
  `HostAndDeviceConfigured`, and of the steps `AddressChangesAfterStatus`.
- `UsbProofs`, of `MassStorage` (the two share a module and know nothing of each other): none of the
  four invariants of the run is inductive, for each speaks of the end of a command or of one sum in
  the middle. `MscInv` says where device and host are. `Always`: the types, and the application is
  told only that a queue is empty which is. Otherwise they are in one of three situations: `AtRest`,
  `Recovering` from a command refused, or `Serving`; and they serve in one of six ways. `Ending`:
  the status is on the endpoint, behind a halt perhaps. `Answering`: one answer and, if there is no
  residue, the status behind it. `Writing`, `Verifying` and `Reading` are the pipelines of
  `msc_write_worker` and `msc_read_worker` with their books, and `Draining` is a read of which the
  block device has done its part. The books say that the requests on the endpoint carry the blocks
  that come next, one after the other (`Carries`), that the blocks the host has, those in requests,
  those in the block request's two lists and those still to come add up (`Taken`, `queued`, `free`),
  and that the block request is where it should be in its page (`Active`, `Paged`): without it,
  nobody knows that a page ends with buffers to give back, and the counts that keep the pipeline
  going (`blk_pending`, `usb_pending`) would not be known when the worker looks at them.
  `OneRequest` is the special case of a read shorter than the host asks for. `Passed` is what a
  status says once it is on the endpoint; that it is true when it gets there follows from the books.
  There is one lemma per function of the driver that says what it does with the queues and buffers,
  one per worker for a round of its loop, and one per action. `CommandsFit` excludes the host that
  gives up, short reads in more than one request, and an answer to MODE SENSE that does not fit into
  the host's buffer; the first two are disagreements of section 7 and falsify the theorems, the last
  is not modelled (section 6). Theorems: `MscSafe`, `StatusIsInItsPhase`, `BuffersAreAccounted`,
  `NothingIsLeftBehind`, `BusyIsQuiet`, and with `NoLongAnswers` (section 7 as well) of the steps
  `StatusIsTrue`: a command that passes has moved all of its blocks, each once and in order, and the
  residue is right.
- `DriverProofs`, of `Dataflash`: neither property says anything about a request in the middle, so
  two invariants say where everything is at every step. `CInv` is about control. `Turns`: while a
  transfer is in progress the master's task is in the main queue and the owner's is not; otherwise
  the owner's is, unless it sleeps for want of buffers; all other requests that are not done wait
  for the bus in their first state. `Phases`: for each work function of the owner, which step of
  the AT45 driver is next, which command is on its way or has been taken, whether the chip is ready,
  and how much of the page has moved. The two need each other: without `Turns` the task of a
  request that waits could run and select the chip, without `Phases` nobody knows whether the
  chip is busy when the owner goes on. `ListFits` says that a list in progress is not at its end.
  `CInv` holds for any size of page; `NextOwnerStartsFresh` follows.
  `DInv` is about data. `Counted`: position, blocks left and buffers of a request always add up to
  what was asked for, and its list holds the buffers of the blocks that come next. `Owned`: what the
  list in progress holds of them (`ListTaken`), that the chip moves blocks at the place which is
  next (`AddressFits`), that the chip's buffer holds the blocks moved and, if only a part of the page
  is written, the rest of the page as it is in the flash (`PageBuffered`), and how many blocks are
  already the same in flash and buffer (`Sure`, `Transferred`): of a write these are not the ones
  sent but the ones programmed. `Lent`: what a client has not got back lies ahead, or is in the list
  that is handed back at the end of the page. `OnlyOwnBlocksChange` is about a step, programming,
  and follows from `PageBuffered`; `CompleteMeansTransferred` from `Counted`, `Transferred` and
  `Lent`. There is a lemma per work function for the one (`...Step`) and for the other
  (`...KeepsData`). Theorems: `NextOwnerStartsFresh`, and for pages of two blocks (`PagesOfTwo`)
  `RestOfPageIsKept` and `RequestsCompleteWhole`. The assumption is the code's: it computes page
  and position for 1024 bytes only (section 7), and for pages of one block both are false.
- `DriverProofs`, of `Touch`: the types of the driver's control variables and `HandlersAgree` are
  inductive together (`HandlerInv`), which proves the assertions in the two interrupt handlers
  (`HandlersStayInStep`). `MeasuredInv` adds what the data is: samples are counted during a measurement
  only (`SamplesCounted`), the sums of a pen that has not moved are so many times its place (`Summed`),
  and after the calibration the matrix is the one of its three points (`MatrixOfPoints`).
  `StillPenIsReported` follows from the sums, as the average of equal samples is the sample;
  `CalibrationIsExact` from `MatrixSolves`: each row of the matrix, applied to one of the three
  points, is the denominator times the coordinate of the circle, an identity of polynomials in
  nine unknowns (`RowSolves`), and truncating division takes nothing from a multiple. In ints of a
  given width the identity holds up to multiples of their number, so that overflow on the way
  cancels out: it is enough that the denominator and its products with the coordinates of the circles
  are ints (`Fits`). For points on a line, or farther apart than that, the matrix is wrong (section 7).
- `GuiProofs`, of `Widgets` (the windows are what the loop's tasks serve; the two know nothing of
  each other): `PressedHoldsPointer` and `FrameFits` read the tree, the grabber, the state of the
  frame and the queue, and are not inductive without them all. `UiInv` has four parts. `GuiShape`:
  the tree is a tree, every window in the ring of its parent once and nowhere else (`Shape`), the
  frame is there as a whole or not at all (`FrameWhole`), areas fit (`AreasFit`), only widgets are
  pressed. `QueueType`: the queue, the worker's place and the command under way have their types.
  The other two hold as long as what the program does is defined: what is pressed or dragged has the
  pointer (`GuiInv`), and the senders of the commands that are queued or about to be are windows
  that exist (`CommandsLive`). The first two hold even then, which is what makes the theorems free
  of assumptions about the pen: any taps may come in any order, and closing the frame may lead to
  `"undefined"`. There is one lemma for every operation of `Windows` that says what it does to the
  tree (for most, `Rearranged`: still a tree of the same windows, with areas and looks as they
  were), then one for every handler, then one per action. The theorems are for any painting
  whatever: `Draw` and its companions are constants, and so are the radius and the paint of the
  symbols. Theorems: `GuiSafe`, `PointerIsHeldByWhatIsPressed`, `FramesFit`.

`QueuedIffListed` of `Workqueue` and `IrqsOffWhileLooking`, `RunningTaskIsFree` and `TypeOK` of
`MainLoop` are proved and therefore no longer among the properties of the runs.

Only model-checked: the liveness properties (`QueuedTaskRuns`, `RaisedSoftirqIsHandled`,
`RequestCompletes`, `CommandAnswered`, `TransferEnds`, `ReleaseIsReported`, `EventsAreTaken`), and
of the windows `Repainted` and `PressGoesToWhatIsSeen`, which are about what is painted. Liveness is
out of TLAPS' reach; so is a module with recursive operators, and drawing is recursive by nature:
what it leaves on the screen would need an induction over the tree. The loops of the mass storage
workers end after `MSC_MAX_NR_SEGS = 2` rounds at the latest, so `msc_read_worker` and
`msc_write_worker` are two rounds, and a lemma about one suffices.

`Items(h, l)`
is the sequence that list `l` represents, chosen; `SListProofs` shows that there is only one.

## 6. What is not modelled

`PROJECT.json` gives a status and a reason for every part. Inside the modelled parts:

- *Kernel, memory, storage*: the contents of work functions other than those of the modelled
  drivers; `softirq_set_handler` (called before interrupts are enabled); the bytes of an SPI
  transfer (a transfer is one step after any number of polls); dataflash pages of 256 bytes;
  SPI exchanges, which nothing calls; the tuning statistics of bags that are only written;
  nested interrupt levels.
- *USB*: an interrupt of VBUS in the middle of `usb_dev_set_configuration`; data from the host on
  endpoint 0 (no function here asks for any); several interfaces and configurations; remote
  wake-up and test modes. Mass storage: `BYTCHK` of VERIFY, answers to MODE SENSE longer than
  the host's buffer; disabling the function while the block request is in progress.
- *Display*: keyboard events and the focus, pointers with relative coordinates, allocations that
  fail while a window or widget is created (those of a drag's symbols do fail), the outline of the
  symbols within their squares, raising and lowering a window without children, labels, plots and
  progress bars (they only draw). Touch: `touch_disable` in the middle of a measurement.

Not modelled at all, for their size against what could go wrong: games and demonstrations,
graphics, start-up, pins, strings. The timer, the rings and streams, the file system and the
bridge application are the next steps of section 2.

## 7. Findings

`usb_setup_race`: `at90usb_udc.c:1402-1403` says "A SETUP packet clears the TX complete interrupt,
so complete all submitted requests now", and the functions that start a transfer on endpoint 0
assert that there is none. But `at90usb_ep_interrupt` overwrites the endpoint's copy of its
interrupt mask each time it runs (`at90usb_core.c:301`). When the transmitter's interrupt has been
masked and its task queued, and a SETUP packet arrives before the task runs, the copy no longer
says that the transmitter was enabled: the task does not complete the request that is still on
the endpoint, and the assertion fails. `usb_control` excludes it by a host that sends a SETUP
packet only when the device has caught up.

Disagreements found by variants of the runs, kept as observations:

- `membag_free` takes the address just past the last block for a block and links it into
  the free list, although invalid addresses "will be ignored" (`membag.c:323,333`). In `MemBag`
  the pointers that are no blocks lie outside of the physical pool.
- `buffer_alloc` stores through the NULL pointer it is about to return when the pool is
  exhausted (`buffer.c:46,54`).
- `dataflash.c` computes page and position for pages of 1024 bytes whatever chip it
  detected; on the 512-byte chips that `at45.h:45` lists as supported, two blocks share a
  page (`dataflash.c:383`).
- With `HostGivesUp = TRUE`, a Bulk-Only reset in the middle of a read leaves the block request of
  the old command running into the new one (`NothingLeftBehind` fails), and buffers of
  flushed OUT requests are not freed (`msc_bulk.c`).
- A read that moves less than the host asks for, in more than one request, submits the status
  twice (`msc_bulk.c:327-332`).
- MODE SENSE submits its whole answer even if that is longer than the allocation length, while the
  residue counts `min_u(alloc_len, total_size)` (`msc_bulk.c:954-957`): the host has got more than the
  status says, so that `DataIsWhatWasAsked` fails for such a command (`LongAnswer`).
- Closing a frame in its command is said to be safe, as "no other references to this frame or its
  contents will be done" (`wtk_frame.c:968-977`). With three places in the event queue, the button
  that closes it is released and then pressed again before the first release is handled: the first
  release queues the command behind the second press, the press gives the pointer to the button, and
  the command destroys it. `win_destroy` clears neither the grabber nor the focus, and leaves what
  is queued. The same happens when a part of the frame awaits a drag. The run `widgets` reaches this
  (`job = "undefined"`); a run with the invariant `job # "undefined"` shows how.
- `wtk_stop_drag` "erases the drag handles" (`wtk_frame.c:608`), but a run that asks for a screen
  with no wrong pixel when no drag is going on finds three ways in which it does not. The squares of
  the two symbols overlap: the one saved first is put back first, and the second brings back a part
  of the first symbol (`wtk_frame.c:625-634`). A release is lost because the queue is full, and the
  pen is put down elsewhere during the drag: the window system takes the place of the press for the
  last place of the drag, and the second square is put back there. And what is painted during a drag
  under a symbol is overwritten with the old pixels at its end. `Repainted` confines all of this to
  the squares of the symbols.
- With three places such as `<<15, 11>>`, `<<2, 2>>`, `<<2, 15>>` of `MCTouch`,
  `TouchesMapToCircles` without the condition `Fits` fails, although the driver takes care to "avoid
  overflow in computations" (`touch.c:343-344`): the denominator times a coordinate of a circle does
  not fit. The converter has 12 bits (`cpu/xmega/include/cpu/touch/resistive/touch.h:220-222`). On a
  surface that uses all of them for the 320 x 240 pixels the denominator is about 6.6 million, and
  the number that is divided reaches 2.12 thousand million at the right edge, just below 2^31 =
  2.147 thousand million; three touches slightly farther apart than the circles overflow there, and
  touches in the corners (4095 * 4095 * 269) overflow at the circles themselves.
- `at90usb_ep0_tx_complete` sets the offset into the buffer to the bytes written by the last packet,
  and forgets what had gone before (`at90usb_udc.c:1171`). With three packets or more in one buffer,
  the second is sent again in place of the third, until the host ends the transfer. The descriptors
  of the repository are shorter than one packet.

Observations made while translating, without a run:

- The atomic bit operations of AVR32 hand the word's size in bytes to a function that wants
  bits (`arch/avr32/include/arch/bitops.h:70`); nothing calls them.
- `bit_array_find_first_one_bit` returns the index inside the word it stops at, not in the
  array (`bitops.h:211,224`); all arrays in use have one word.
- `physmem_alloc` wraps around for a size larger than the pool's end address
  (`physmem.c:71`); its callers never ask for that much.
- A bag's `num_allocations` is never lowered, so it is not the high watermark of `membag.h:80`.
- `dataflash_page_done` calls `buf_list_done` before it updates `bytes_xfered`, which
  `block/device.h:302` says is updated before, and leaves emptying `current_buf_list` to the
  client: buffers that a client leaves there come back in the next callback.
- `spi_polled_exchange_buf_list` uses the list it writes as the list it reads
  (`spi_polled_buf_list.c:154`); nothing calls it.
- `udc_ep0_write_sync` waits for the host with no way out; a host that goes away meanwhile stops the
  main loop.
- The test for an alarm that has already passed has two branches that do not test what the comment
  above them says (`tc_timer_avr32.c:196-205`).
- `win_raise` and `win_lower` send `WIN_EVENT_UNRAISE`, `win_lower` also `WIN_EVENT_RAISE`, to
  `win->top_child`, the topmost child of the window itself, where their comments say that it is the
  window that is or gets to be on top of its siblings (`win.c:648,689,696`). For a window without
  children that is NULL, and `win_handle_event` reads through it (`win.c:1710`).
  `win_set_keyboard_focus(NULL)` does the like.
- A part of the frame that is pressed and released without having been dragged stays in the state
  that awaits a drag, and keeps the pointer (`wtk_frame.c:260-291,361-396`): the next move, wherever
  it is, may start one. `PressedHoldsPointer` says what holds the pointer in spite of it.
- `touch_disable` while a measurement is being processed lets the softirq enable the port
  interrupt again, although "no sampling will occur" (`touch.c:64`); disabled and enabled during a
  conversion, the driver runs into an `assert(0)`.
- The calibration's first event is not initialised and may be taken for the release that it says it
  waits for; afterwards the window system's handler may get a move or a release without a press.
