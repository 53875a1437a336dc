----------------------------- MODULE Dataflash -----------------------------
(***************************************************************************)
(* The block device of drivers/block/dataflash.c on an AT45 chip           *)
(* (drivers/flash/at45_device.c) behind a polled SPI bus.  A request owns  *)
(* the bus from its first step to its last; each of its steps starts a     *)
(* transfer, after which its task runs again with another work function,   *)
(* or sleeps until the client has supplied buffers.                        *)
(*                                                                         *)
(* Clients supply and take back buffers at any time: they run in other     *)
(* tasks and in interrupt handlers, and dataflash_transfer masks           *)
(* interrupts around what it shares with them.  A client gives every       *)
(* request as many buffers as it has blocks, and takes the buffers of      *)
(* buf_list_done off the list, as udi/msc_bulk.c does.                     *)
(***************************************************************************)
EXTENDS SpiBus, FiniteSetsExt, Functions

CONSTANTS
    Req,        \* block requests allocated by clients
    MaxLen,     \* bound: blocks in a request
    Ranges      \* bound: the blocks <<first, count>> each request may be for, once

VARIABLES
    breq,               \* the requests
    next,               \* at45d->next, the AT45 operation in progress
    transfer_pos,       \* blocks of the page moved so far
    current_buf_list,   \* buffers of the last transfer
    flags,              \* the device flags once detection has ended
    given,              \* what each client has asked for and supplied (history)
    lent                \* the buffers that clients have not got back (history)

driverVars == <<breq, next, transfer_pos, current_buf_list, flags>>
spiVars == <<queues, current, spi, cmdrsp, data, chip>>
clientVars == <<given, lent>>
vars == <<driverVars, spiVars, clientVars>>

DETECT == "detect"      \* df_bdev->task
EVENT == "event"        \* df_bdev->event_task

\* The functions that at45d->next can be.
At45Step == {"identify_fetch_status", "identify_got_status", "identify_fetch_id",
             "identify_got_id", "wait_poll_cmd_done", "wait_poll_done"}

ASSUME DataflashAssumption ==
    /\ MaxLen \in Nat \ {0}
    /\ Req \cap ({DETECT, EVENT} \cup MasterTask) = {} /\ NULL \notin Task \cup At45Step
    /\ \A r \in Req : \A a \in Ranges[r] :
            a[2] \in 1 .. MaxLen /\ a[1] \in Block /\ a[1] + a[2] - 1 \in Block
    /\ Client = Req \cup {DETECT}
    /\ OtherTask = {EVENT}
    /\ Buffer = Req \X (1 .. MaxLen)
    /\ Buffer \cup ({NULL} \X (Block \cup {0})) \subseteq Value

NoAsk == [first |-> 0, count |-> 0, bufs |-> 0]

Init ==
    /\ chip \in [selected : {FALSE}, cmd : {"none"}, page : {0}, pos : {0},
                 work : {Idle, [op |-> "load", page |-> 0]},
                 buffer : {[i \in 0 .. PageBlocks - 1 |-> <<NULL, 0>>]},
                 flash : {[b \in Block |-> <<NULL, b>>]}]
    /\ spi = NoTransfer
    /\ cmdrsp = FALSE
    /\ data = [buf \in Buffer |-> <<NULL, 0>>]
    \* dataflash_blkdev_init has requested the bus for detection
    /\ queues = [q \in {Main, Bus} |-> IF q = Main THEN <<DETECT>> ELSE << >>]
    /\ current = DETECT
    /\ breq = [r \in Req |-> [func |-> "start", lba |-> 0, remaining_blocks |-> 0,
                              operation |-> "read", sleeping |-> FALSE,
                              buf_list |-> << >>, status |-> "ok", bytes_xfered |-> 0]]
    /\ next = NULL
    /\ transfer_pos = 0
    /\ current_buf_list = << >>
    /\ flags = {}
    /\ given = [r \in Req |-> NoAsk]
    /\ lent = {}

-----------------------------------------------------------------------------
(* Commands.  The opcode of a command overwrites the byte that the status  *)
(* is read into.                                                           *)

ReadyBitOfOpcode == [read |-> FALSE, load |-> FALSE, program |-> TRUE,
                     buffer_write |-> TRUE, id |-> TRUE, status |-> TRUE]

\* d is the chip after the select lines have been driven.
Command(d, op, p, i) ==
    /\ StartTransfer(Write([op |-> op, page |-> p, pos |-> i]))
    /\ cmdrsp' = ReadyBitOfOpcode[op]
    /\ chip' = d

ReadResponse(d) ==
    /\ StartTransfer(Read)
    /\ chip' = d
    /\ UNCHANGED cmdrsp

\* at45_wait_poll_status
PollStatus(d) ==
    /\ next' = "wait_poll_cmd_done"
    /\ Command(Selected(d), "status", 0, 0)

\* at45_wait_ready returns true, and leaves the chip deselected ...
WaitIsOver == next = "wait_poll_done" /\ cmdrsp

\* Variant: the response is not read again.
WaitOn_OldResponse(d) ==
    \/ next = NULL /\ next' = "wait_poll_done" /\ Command(Selected(d), "status", 0, 0)
    \/ next = "wait_poll_done" /\ ~ cmdrsp /\ PollStatus(Deselected(d))

\* ... or takes its next step.
WaitOn(d) ==
    \/ next = NULL /\ PollStatus(d)
    \/ next = "wait_poll_cmd_done" /\ next' = "wait_poll_done" /\ ReadResponse(d)
    \/ next = "wait_poll_done" /\ ~ cmdrsp /\ PollStatus(Deselected(d))

-----------------------------------------------------------------------------
(* Detection: dataflash_detect with the steps of at45_identify.            *)

detectOnly == <<breq, transfer_pos, current_buf_list, data, clientVars>>

IdentifyStep ==
    \/ /\ next = NULL
       /\ next' = "identify_fetch_status"
       /\ Command(Selected(chip), "status", 0, 0)
    \/ /\ next \in {"identify_fetch_status", "identify_got_status"}
       /\ next = "identify_got_status" => ~ cmdrsp
       /\ next' = "identify_got_status"
       /\ ReadResponse(chip)
    \/ /\ next = "identify_got_status" /\ cmdrsp
       /\ next' = "identify_fetch_id"
       /\ Command(Selected(Deselected(chip)), "id", 0, 0)
    \/ /\ next = "identify_fetch_id"
       /\ next' = "identify_got_id"
       /\ ReadResponse(chip)

Identify ==
    /\ Runs(DETECT)
    /\ IdentifyStep
    /\ UNCHANGED <<detectOnly, flags>>

\* The chip is identified: a DataFlash or not, write protected or not.
Identified ==
    /\ Runs(DETECT)
    /\ next = "identify_got_id"
    /\ next' = NULL
    /\ chip' = Deselected(chip)
    /\ flags' \in {{}, {"BDEV_PRESENT"}, {"BDEV_PRESENT", "BDEV_WRITEABLE"}}
    /\ current' = NextOwner
    /\ queues' = Added(Released(Popped), EVENT)
    /\ UNCHANGED <<detectOnly, spi, cmdrsp>>

\* The application is told that the device can be used.
Event ==
    /\ Runs(EVENT)
    /\ queues' = Popped
    /\ flags' = flags \cup {"used"}
    /\ UNCHANGED <<breq, next, transfer_pos, current_buf_list, clientVars,
                   current, spi, cmdrsp, data, chip>>

-----------------------------------------------------------------------------
(* The position of a request in a page.                                    *)

\* Variant: a page is aligned whatever the request still covers of it.
dataflash_is_page_aligned_Even(b) == b.lba % 2 = 0

dataflash_is_page_aligned(b) ==
    PageBlocks = 2 => b.lba % 2 = 0 /\ b.remaining_blocks >= 2

dataflash_get_remaining_page_size(b) ==
    IF PageBlocks = 2 /\ b.lba % 2 = 0 /\ b.remaining_blocks >= 2 THEN 2 ELSE 1

\* The address in a command is made for pages of 1024 bytes.
PageOf(b) == b.lba \div 2
PosOf(b) == b.lba % 2

-----------------------------------------------------------------------------
(* The steps of a request.  r is the request, b its state in the course of *)
(* the step and d the chip's.                                              *)

Becomes(r, b, func) == breq' = [breq EXCEPT ![r] = [b EXCEPT !.func = func]]

ReadSetup(r, b, d) ==
    /\ Becomes(r, b, "transfer")
    /\ transfer_pos' = 0
    /\ Command(Selected(d), "read", PageOf(b), PosOf(b))

WriteReady(r, b, d) ==
    /\ Becomes(r, b, "transfer")
    /\ Command(Selected(d), "buffer_write", 0, PosOf(b))

WriteSetup(r, b, d) ==
    /\ transfer_pos' = 0
    /\ IF dataflash_is_page_aligned(b)
       THEN WriteReady(r, b, d)
       ELSE /\ Becomes(r, b, "write_buffered")
            /\ Command(Selected(d), "load", PageOf(b), 0)

\* The callback buf_list_done: the client takes its buffers off the list.
HandBack == lent' = lent \ Range(current_buf_list)

\* dataflash_page_done: counts the page, then goes on or completes the request.
PageDone(r, b, d) ==
    LET rest == [b EXCEPT !.bytes_xfered = @ + transfer_pos,
                          !.remaining_blocks = @ - transfer_pos,
                          !.lba = @ + transfer_pos]
    IN  /\ HandBack
        /\ current_buf_list' = << >>
        /\ IF rest.remaining_blocks # 0
           THEN IF b.operation = "read" THEN ReadSetup(r, rest, d)
                                        ELSE WriteSetup(r, rest, d)
           ELSE /\ current' = NextOwner
                /\ queues' = Released(Popped)
                /\ breq' = [breq EXCEPT ![r] = [rest EXCEPT !.status = "ok"]]
                /\ chip' = d
                /\ UNCHANGED <<transfer_pos, spi, cmdrsp>>

\* dataflash_transfer: the buffers of the last transfer go back, and those that
\* the rest of the page needs are taken; without any the request sleeps.

Sleep(r, b) ==
    /\ b.buf_list = << >>
    /\ breq' = [breq EXCEPT ![r].sleeping = TRUE]
    /\ queues' = Popped
    /\ current_buf_list' = << >>
    /\ UNCHANGED <<current, transfer_pos, spi, cmdrsp, chip>>

StartBuffers(r, b) ==
    LET end_pos == dataflash_get_remaining_page_size(b)
        taken == Min({Len(b.buf_list), end_pos - transfer_pos})
        bufs == SubSeq(b.buf_list, 1, taken)
        done == IF b.operation = "read" THEN "read_done" ELSE "write_done"
    IN  /\ b.buf_list # << >>
        /\ transfer_pos' = transfer_pos + taken
        /\ current_buf_list' = bufs
        /\ Becomes(r, [b EXCEPT !.buf_list = SubSeq(@, taken + 1, Len(@))],
                   IF transfer_pos' = end_pos THEN done ELSE "transfer")
        /\ StartTransfer(IF b.operation = "read" THEN ReadList(bufs) ELSE WriteList(bufs))
        /\ UNCHANGED <<cmdrsp, chip>>

Transfer(r, b) == HandBack /\ UNCHANGED next /\ (Sleep(r, b) \/ StartBuffers(r, b))

\* Variant: the chip stays selected.
ReadDone_Selected(r, b) == PageDone(r, b, chip) /\ UNCHANGED next

ReadDone(r, b) == PageDone(r, b, Deselected(chip)) /\ UNCHANGED next

\* The chip is polled until it has programmed the page.
WriteWait(r, b, d) ==
    IF WaitIsOver THEN next' = NULL /\ PageDone(r, b, Deselected(d))
    ELSE /\ WaitOn(d)
         /\ breq' = [breq EXCEPT ![r] = b]
         /\ UNCHANGED <<transfer_pos, current_buf_list, lent>>

\* The chip is polled until it has loaded the page.
WriteBufferedWait(r, b, d) ==
    /\ IF WaitIsOver THEN next' = NULL /\ WriteReady(r, b, Deselected(d))
       ELSE WaitOn(d) /\ breq' = [breq EXCEPT ![r] = b]
    /\ UNCHANGED <<transfer_pos, current_buf_list, lent>>

WriteDone(r, b) ==
    /\ Becomes(r, b, "write_wait_begin")
    /\ Command(Selected(Deselected(chip)), "program", PageOf(b), 0)
    /\ UNCHANGED <<next, transfer_pos, current_buf_list, lent>>

\* The work function of r's task.
Work(r, b) ==
    \/ /\ b.func = "start"
       /\ IF b.operation = "read" THEN ReadSetup(r, b, chip) ELSE WriteSetup(r, b, chip)
       /\ UNCHANGED <<next, current_buf_list, lent>>
    \/ b.func = "transfer" /\ Transfer(r, b)
    \/ b.func = "read_done" /\ ReadDone(r, b)
    \/ /\ b.func = "write_buffered"
       /\ WriteBufferedWait(r, [b EXCEPT !.func = "write_buffered_wait"], Deselected(chip))
    \/ b.func = "write_buffered_wait" /\ WriteBufferedWait(r, b, chip)
    \/ b.func = "write_done" /\ WriteDone(r, b)
    \/ /\ b.func = "write_wait_begin"
       /\ WriteWait(r, [b EXCEPT !.func = "write_wait"], Deselected(chip))
    \/ b.func = "write_wait" /\ WriteWait(r, b, chip)

Request(r) == Runs(r) /\ Work(r, breq[r]) /\ UNCHANGED <<flags, data, given>>

-----------------------------------------------------------------------------
(* The clients.                                                            *)

Done(r) == breq[r].status = "ok"

\* Buffers number i + 1 .. j of request r.
Bufs(r, i, j) == [k \in 1 .. j - i |-> <<r, i + k>>]

\* What the client puts in a buffer for the device to store.
Filled(r, i, j, op) ==
    [buf \in Buffer |-> IF op = "write" /\ buf \in Range(Bufs(r, i, j)) THEN buf ELSE data[buf]]

\* block_prepare_req, blk_req_add_buffer for the first n buffers, block_submit_req:
\* util/fs/tsfs.c adds all buffers first, udi/msc_bulk.c none.
Submit(r, first, count, op, n) ==
    /\ {"used", "BDEV_PRESENT"} \subseteq flags
    /\ op = "write" => "BDEV_WRITEABLE" \in flags
    /\ Done(r) /\ given[r] = NoAsk
    /\ breq' = [breq EXCEPT ![r] =
                   [func |-> "start", lba |-> first, remaining_blocks |-> count,
                    operation |-> op, sleeping |-> FALSE,
                    buf_list |-> breq[r].buf_list \o Bufs(r, 0, n),
                    status |-> "in_progress", bytes_xfered |-> 0]]
    /\ RequestBus(r)
    /\ given' = [given EXCEPT ![r] = [first |-> first, count |-> count, bufs |-> n]]
    /\ lent' = lent \cup Range(Bufs(r, 0, n))
    /\ data' = Filled(r, 0, n, op)
    /\ UNCHANGED <<next, transfer_pos, current_buf_list, flags, spi, cmdrsp, chip>>

\* What a client that owes buffers supplies: n more.
Supplied(r, n) ==
    LET g == given[r] IN
    /\ ~ Done(r) /\ g.bufs + n <= g.count
    /\ given' = [given EXCEPT ![r].bufs = @ + n]
    /\ lent' = lent \cup Range(Bufs(r, g.bufs, g.bufs + n))
    /\ data' = Filled(r, g.bufs, g.bufs + n, breq[r].operation)

\* dataflash_submit_buf_list with n more buffers: wakes a request that sleeps.
SubmitBufList(r, n) ==
    /\ Supplied(r, n)
    /\ breq' = [breq EXCEPT ![r].buf_list = @ \o Bufs(r, given[r].bufs, given[r].bufs + n),
                            ![r].sleeping = FALSE]
    /\ queues' = IF breq[r].sleeping THEN Added(queues, r) ELSE queues
    /\ UNCHANGED <<next, transfer_pos, current_buf_list, flags, current, spi, cmdrsp, chip>>

-----------------------------------------------------------------------------
(* The system.                                                             *)

Master == MasterStep /\ UNCHANGED <<driverVars, clientVars>>

MainLoopStep == Master \/ Identify \/ Identified \/ Event \/ \E r \in Req : Request(r)

ChipFinishes ==
    /\ ~ Ready(chip)
    /\ chip' = Finished(chip)
    /\ UNCHANGED <<driverVars, clientVars, queues, current, spi, cmdrsp, data>>

Supply(r) == \E n \in 1 .. MaxLen : SubmitBufList(r, n)

Next ==
    \/ MainLoopStep
    \/ ChipFinishes
    \/ \E r \in Req, op \in {"read", "write"} : \E a \in Ranges[r] : \E n \in {0, a[2]} :
            Submit(r, a[1], a[2], op, n)
    \/ \E r \in Req : Supply(r)

Spec ==
    /\ Init /\ [][Next]_vars
    /\ WF_vars(MainLoopStep)
    /\ WF_vars(ChipFinishes)
    /\ \A r \in Req : WF_vars(Supply(r))

-----------------------------------------------------------------------------
(* Properties.                                                             *)

\* When the bus is free or has been handed on, the chip is deselected and idle and
\* no AT45 operation is under way: the next owner starts from scratch.
NextOwnerFindsChipIdle ==
    (current = NULL \/ \E r \in Req : current = r /\ breq[r].func = "start")
        => ~ chip.selected /\ Ready(chip) /\ next = NULL /\ ~ Busy

\* Only blocks of the request that owns the bus ever change in the flash, and
\* they get the data of its buffer for that block: writing a part of a page keeps
\* the rest of the page.
OnlyOwnBlocksChange ==
    [][\A b \in Block : chip'.flash[b] # chip.flash[b] =>
            \E r \in Req : /\ current = r /\ breq[r].operation = "write"
                           /\ b - given[r].first \in 0 .. given[r].count - 1
                           /\ chip'.flash[b] = <<r, b - given[r].first + 1>>]_vars

\* When a request completes, all of its buffers hold what its blocks hold, it
\* has got every one of them back and all of them are counted.
CompleteMeansTransferred ==
    [][\A r \in Req : ~ Done(r) /\ Done(r)' =>
            /\ \A i \in 1 .. given[r].count :
                    data'[<<r, i>>] = chip'.flash[given[r].first + i - 1]
            /\ \A buf \in lent' : buf[1] # r
            /\ breq'[r].bytes_xfered = given[r].count]_vars

\* Every request completes, if its client supplies the buffers it owes.
RequestCompletes == \A r \in Req : ~ Done(r) ~> Done(r)
=============================================================================
