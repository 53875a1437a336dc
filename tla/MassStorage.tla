---------------------------- MODULE MassStorage ----------------------------
(***************************************************************************)
(* The bulk-only mass storage function of drivers/usb/udi/msc_bulk.c       *)
(* between a host and the dataflash block device.                          *)
(*                                                                         *)
(* Everything here runs in tasks of the main loop: a request completes, a  *)
(* buffer list comes back from the block device or a command arrives, and  *)
(* the callbacks it leads to run to their end.  They are operators from    *)
(* the state of the device to the next; an action is one task.  A buffer   *)
(* holds one block, the requests of an endpoint are a sequence, and a      *)
(* request completes when the host has taken or sent its last byte.        *)
(***************************************************************************)
EXTENDS Naturals, Sequences, FiniteSets, FiniteSetsExt, SequencesExt

CONSTANTS
    Command,            \* the commands the host sends
    NrLargeObjs,        \* CONFIG_DMAPOOL_NR_LARGE_OBJS
    PageBlocks,         \* blocks in a page of the flash
    HostGivesUp         \* the host may reset the device in the middle of a command

ASSUME MassStorageAssumption ==
    /\ NrLargeObjs \in Nat /\ NrLargeObjs >= 2
    /\ PageBlocks \in {1, 2}
    /\ HostGivesUp \in BOOLEAN
    /\ Command \subseteq [op : {"read", "write", "verify", "info", "mode", "ready", "bad"},
                          in : BOOLEAN,     \* USB_CBW_DIRECTION_IN
                          len : Nat,        \* dCBWDataTransferLength
                          lba : Nat,
                          count : Nat,      \* blocks or allocation length in the CDB
                          resp : Nat]       \* what "info" and "mode" have to say

MSC_MAX_NR_BUFFERS == NrLargeObjs \div 2
MSC_MAX_NR_SEGS == 2

VARIABLES
    msc,        \* the device: the fields of struct msc_interface, the endpoints' queues,
                \* the block request and the DMA pool
    initiator   \* the host: where it is in the command, and what data it has seen

mscVars == <<msc, initiator>>

NoCommand == [op |-> "bad", in |-> FALSE, len |-> 0, lba |-> 0, count |-> 0, resp |-> 0]

\* The one request that carries commands and status, and requests that carry data.
Cbw == [kind |-> "cbw", data |-> << >>]
Csw == [kind |-> "csw", data |-> << >>]
Data(blocks) == [kind |-> "data", data |-> blocks]
Answer(n) == [kind |-> "short", data |-> [i \in 1 .. n |-> i]]

BlockRequest(st, op, lba, remaining) ==
    [st |-> st, op |-> op, lba |-> lba, remaining |-> remaining, pos |-> 0,
     list |-> << >>, current |-> << >>]

NoBlockRequest == BlockRequest("idle", "read", 0, 0)

-----------------------------------------------------------------------------
(* The endpoints.                                                          *)

\* How many requests that carry data a queue holds, and how many blocks they carry.
DataRequests(q) == {i \in DOMAIN q : q[i].kind = "data"}
InFlight(q) == Cardinality(DataRequests(q))
Slots(q) == {s \in DataRequests(q) \X (1 .. NrLargeObjs) : s[2] <= Len(q[s[1]].data)}
Blocks(q) == Cardinality(Slots(q))

SubmitIn(d, r) == [d EXCEPT !.inq = Append(@, r)]
SubmitOut(d, r) == [d EXCEPT !.outq = Append(@, r)]

\* udc_ep_set_halt of the endpoint that the command's data goes through.
HaltDataEp(d) == [d EXCEPT !.halted = @ \cup {IF d.cbw.in THEN "in" ELSE "out"}]

\* udc_ep_clear_halt, which leaves a wedged endpoint halted.
ClearHalt(d, ep) == [d EXCEPT !.halted = IF d.wedged THEN @ ELSE @ \ {ep}]

-----------------------------------------------------------------------------
(* Status.                                                                 *)

msc_queue_empty(d) ==
    [d EXCEPT !.xfer_in_progress = FALSE,
              !.busy_cb = @ /\ ~ d.not_ready,
              !.told = @ \/ (d.not_ready /\ d.busy_cb)]

msc_prepare_csw(d, residue, status) ==
    [d EXCEPT !.csw = [tag |-> d.tag, residue |-> residue, status |-> status]]

\* Variant: the endpoint is not halted.
msc_request_data_done_NoHalt(d) ==
    IF d.csw.residue # 0 THEN SubmitIn(d, Csw) ELSE d

\* The last data of a command that moves less than the host asked for has gone: stall,
\* then send the status.
msc_request_data_done(d) ==
    IF d.csw.residue # 0 THEN SubmitIn(HaltDataEp(d), Csw) ELSE d

\* With no residue the status is queued right behind the data.
msc_request_done(d, residue) == IF residue = 0 THEN SubmitIn(d, Csw) ELSE d

msc_request_done_nodata(d, residue) ==
    SubmitIn(IF residue # 0 THEN HaltDataEp(d) ELSE d, Csw)

msc_request_failed(d, residue, status) ==
    msc_request_done_nodata(msc_prepare_csw(d, residue, status), residue)

msc_phase_error(d) == msc_request_failed(d, d.cbw.len, "phase")

\* The host asked for data in the other direction, or for less than the command moves.
Invalid(d, alloc_len, in) == d.cbw.in # in \/ d.cbw.len < alloc_len

\* The request that carried the status is used again for the next command.
msc_csw_sent(d) == SubmitOut(msc_queue_empty(d), Cbw)

-----------------------------------------------------------------------------
(* Commands that transfer no blocks.                                       *)

\* An answer of "total" bytes, of which the device counts as many as were asked for.
Answered(d, total) ==
    LET asked == Min({d.cbw.count, d.cbw.resp})
        residue == d.cbw.len - asked
        e == msc_prepare_csw(d, residue, "pass")
    IN  IF Invalid(d, d.cbw.count, TRUE) THEN msc_phase_error(d)
        ELSE IF total > 0 THEN msc_request_done(SubmitIn(e, Answer(total)), residue)
        ELSE msc_request_done_nodata(e, residue)

\* INQUIRY, REQUEST SENSE and READ CAPACITY cut the answer to what was asked for.
Inform(d) == Answered(d, Min({d.cbw.count, d.cbw.resp}))

\* MODE SENSE sends its whole answer.
msc_mode_sense(d) == Answered(d, IF d.cbw.count > 0 THEN d.cbw.resp ELSE 0)

msc_test_unit_ready(d) ==
    msc_request_failed(d, d.cbw.len, IF d.not_ready THEN "fail" ELSE "pass")

-----------------------------------------------------------------------------
(* Reading and writing.                                                    *)

\* How many of n blocks msc_fill_buffer_list finds buffers for.
Fill(d, n) == Min({n, MSC_MAX_NR_BUFFERS, d.free})

\* block_queue_req: the dataflash waits for the bus, then for buffers.
QueueBlockRequest(d) ==
    [d EXCEPT !.breq = BlockRequest("transfer", d.cbw.op, d.cbw.lba, d.cbw.count)]

\* Variant: a sleeping request is not woken.
SubmitBufList_NoWakeup(d, blocks) == [d EXCEPT !.breq.list = @ \o blocks]

\* Variant: new buffers come first.
SubmitBufList_AtHead(d, blocks) ==
    [d EXCEPT !.breq.list = blocks \o @,
              !.breq.st = IF @ = "sleep" THEN "transfer" ELSE @]

\* block_submit_buf_list.
SubmitBufList(d, blocks) ==
    [d EXCEPT !.breq.list = @ \o blocks,
              !.breq.st = IF @ = "sleep" THEN "transfer" ELSE @]

msc_submit_read_buffers(d) ==
    LET k == Fill(d, d.total - d.queued)
    IN  IF k = 0 THEN d
        ELSE SubmitBufList([d EXCEPT !.free = @ - k, !.blk_pending = @ + k,
                                     !.queued = @ + k],
                           [i \in 1 .. k |-> 0])

ReadWorkerRound(d) ==
    IF d.blk_pending >= MSC_MAX_NR_SEGS \/ d.queue_locked THEN d ELSE msc_submit_read_buffers(d)

\* Each round that submits anything makes one more block pending, and the loop ends at
\* MSC_MAX_NR_SEGS of them: a third round would do nothing.
msc_read_worker(d) == ReadWorkerRound(ReadWorkerRound(d))

\* Variant: the buffers are not freed.
msc_read_data_sent_Leaks(d, k) ==
    LET e == [d EXCEPT !.usb_pending = @ - 1]
    IN  IF e.queued = e.total THEN msc_request_data_done(e) ELSE msc_read_worker(e)

\* The host has taken k blocks.
msc_read_data_sent(d, k) ==
    LET e == [d EXCEPT !.free = @ + k, !.usb_pending = @ - 1]
    IN  IF e.queued = e.total THEN msc_request_data_done(e) ELSE msc_read_worker(e)

msc_block_read_buffers_done(d, blocks) ==
    SubmitIn([d EXCEPT !.usb_pending = @ + 1, !.blk_pending = @ - Len(blocks)],
             Data(blocks))

msc_submit_write_data_req(d) ==
    LET k == Fill(d, d.total - d.queued)
    IN  IF k = 0 THEN d
        ELSE SubmitOut([d EXCEPT !.free = @ - k, !.usb_pending = @ + 1, !.queued = @ + k],
                       Data([i \in 1 .. k |-> 0]))

WriteWorkerRound(d) ==
    IF d.usb_pending >= MSC_MAX_NR_SEGS \/ d.queue_locked THEN d ELSE msc_submit_write_data_req(d)

\* Two rounds as well: each makes one more request pending.
msc_write_worker(d) == WriteWorkerRound(WriteWorkerRound(d))

\* The pending blocks are counted on a list that is empty by then.
msc_block_write_buffers_done(d, blocks) ==
    msc_write_worker([d EXCEPT !.free = @ + Len(blocks)])

msc_write_data_received(d, blocks) ==
    SubmitBufList([d EXCEPT !.blk_pending = @ + Len(blocks), !.usb_pending = @ - 1],
                  blocks)

\* msc_do_read and msc_do_write.
Transfer(d) ==
    LET in == d.cbw.op = "read"
        residue == d.cbw.len - d.cbw.count
        e == msc_prepare_csw([d EXCEPT !.xfer_in_progress = TRUE], residue, "pass")
        f == QueueBlockRequest([e EXCEPT !.total = d.cbw.count, !.queued = 0,
                                         !.queue_locked = TRUE,
                                         !.blk_pending = 0, !.usb_pending = 0])
        g == IF in THEN msc_submit_read_buffers(f) ELSE msc_submit_write_data_req(f)
    IN  IF Invalid(d, d.cbw.count, in) THEN msc_phase_error(d)
        ELSE IF d.not_ready THEN msc_request_failed(d, d.cbw.len, "fail")
        ELSE IF d.cbw.count = 0 THEN msc_request_done_nodata(e, residue)
        ELSE [IF g = f THEN msc_phase_error(f) ELSE g EXCEPT !.queue_locked = FALSE]

-----------------------------------------------------------------------------
(* Verifying: the blocks are read, and the buffers used again.             *)

msc_verify_read_buffers_done(d, blocks) ==
    LET k == Min({Len(blocks), d.total - d.queued})
        e == [d EXCEPT !.free = @ + (Len(blocks) - k), !.queued = @ + k]
    IN  IF k > 0 THEN SubmitBufList(e, SubSeq(blocks, 1, k)) ELSE e

msc_do_verify(d) ==
    LET e == msc_prepare_csw([d EXCEPT !.xfer_in_progress = TRUE], d.cbw.len, "pass")
        k == Fill(d, d.cbw.count)
        f == QueueBlockRequest([e EXCEPT !.total = d.cbw.count, !.queued = k,
                                         !.free = @ - k])
    IN  IF Invalid(d, 0, FALSE) THEN msc_phase_error(d)
        ELSE IF d.not_ready THEN msc_request_failed(d, d.cbw.len, "fail")
        ELSE IF d.cbw.count = 0 THEN msc_request_done_nodata(e, d.cbw.len)
        ELSE IF k = 0 THEN msc_phase_error(f)
        ELSE SubmitBufList(f, [i \in 1 .. k |-> 0])

-----------------------------------------------------------------------------
(* What the block request calls back.                                      *)

BufListDone(d, blocks) ==
    CASE d.breq.op = "read" -> msc_block_read_buffers_done(d, blocks)
      [] d.breq.op = "write" -> msc_block_write_buffers_done(d, blocks)
      [] d.breq.op = "verify" -> msc_verify_read_buffers_done(d, blocks)

\* Variant: a verification ends like a read as well.
ReqDone_VerifyTwice(d) ==
    CASE d.breq.op = "read" -> msc_request_done(d, d.csw.residue)
      [] d.breq.op = "write" ->
            msc_request_data_done(msc_request_done(d, d.csw.residue))
      [] d.breq.op = "verify" ->
            msc_request_done_nodata(msc_request_done(d, d.csw.residue), d.csw.residue)

\* msc_block_read_done, msc_block_write_done and msc_verify_read_done.  The dataflash
\* reports no errors.
ReqDone(d) ==
    CASE d.breq.op = "read" -> msc_request_done(d, d.csw.residue)
      [] d.breq.op = "write" ->
            msc_request_data_done(msc_request_done(d, d.csw.residue))
      [] d.breq.op = "verify" -> msc_request_done_nodata(d, d.csw.residue)

\* The command that was received.
Handle(d) ==
    CASE d.cbw.op \in {"read", "write"} -> Transfer(d)
      [] d.cbw.op = "verify" -> msc_do_verify(d)
      [] d.cbw.op = "info" -> Inform(d)
      [] d.cbw.op = "mode" -> msc_mode_sense(d)
      [] d.cbw.op = "ready" -> msc_test_unit_ready(d)
      [] d.cbw.op = "bad" -> msc_request_failed(d, d.cbw.len, "fail")

-----------------------------------------------------------------------------
(* The host.                                                               *)

\* Where the host goes when n more blocks of the command's data have moved.
Moved(n, more) ==
    [initiator EXCEPT !.moved = @ + n,
                 !.phase = IF initiator.moved + n > initiator.cmd.len THEN "confused"
                           ELSE IF initiator.moved + n = initiator.cmd.len \/ ~ more THEN "status"
                           ELSE "data"]

Resting(d) == d.breq.st = "idle"

\* A command arrives on the OUT endpoint: msc_cbw_received.
HostCommand(c, tag) ==
    /\ initiator.phase = "idle" /\ tag # initiator.tag
    /\ msc.outq # << >> /\ Head(msc.outq) = Cbw /\ "out" \notin msc.halted
    /\ initiator' = [phase |-> IF c.len > 0 THEN "data" ELSE "status",
                cmd |-> c, tag |-> tag, moved |-> 0, got |-> << >>, stored |-> {}]
    /\ msc' = Handle([msc EXCEPT !.outq = Tail(@), !.cbw = c, !.tag = tag])

\* What is no command wedges both endpoints.
HostInvalidCommand ==
    /\ initiator.phase = "idle"
    /\ msc.outq # << >> /\ Head(msc.outq) = Cbw /\ "out" \notin msc.halted
    /\ initiator' = [initiator EXCEPT !.phase = "recover"]
    /\ msc' = [msc EXCEPT !.outq = Tail(@), !.halted = {"in", "out"}, !.wedged = TRUE]

\* The host takes all of a request from the IN endpoint, and the request is done:
\* msc_read_data_sent, msc_data_sent or msc_csw_sent.
InTransfer ==
    /\ \/ initiator.phase = "data" /\ initiator.cmd.in
       \/ initiator.phase = "status"
    /\ msc.inq # << >> /\ "in" \notin msc.halted
    /\ LET r == Head(msc.inq)
           d == [msc EXCEPT !.inq = Tail(@)]
       IN  \/ /\ r.kind = "csw"
              /\ msc' = msc_csw_sent(d)
              /\ initiator' = [initiator EXCEPT !.phase =
                            IF @ # "status" \/ d.csw.tag # initiator.tag THEN "confused"
                            ELSE IF d.csw.status = "phase" THEN "recover"
                            ELSE "idle"]
           \/ /\ r.kind = "data"
              /\ msc' = msc_read_data_sent(d, Len(r.data))
              /\ initiator' = IF initiator.phase = "data"
                         THEN [Moved(Len(r.data), TRUE) EXCEPT !.got = @ \o r.data]
                         ELSE [initiator EXCEPT !.phase = "confused"]
           \/ /\ r.kind = "short"
              /\ msc' = msc_request_data_done(d)
              /\ initiator' = IF initiator.phase = "data" THEN Moved(Len(r.data), FALSE)
                         ELSE [initiator EXCEPT !.phase = "confused"]

\* The host fills a request of the OUT endpoint: msc_write_data_received.
OutTransfer ==
    /\ initiator.phase = "data" /\ ~ initiator.cmd.in
    /\ msc.outq # << >> /\ Head(msc.outq).kind = "data" /\ "out" \notin msc.halted
    /\ LET k == Len(Head(msc.outq).data)
           blocks == [i \in 1 .. k |-> initiator.moved + i]
       IN  /\ msc' = msc_write_data_received([msc EXCEPT !.outq = Tail(@)], blocks)
           /\ initiator' = Moved(k, TRUE)

\* A stall ends the data phase.
DataStalled ==
    /\ initiator.phase = "data"
    /\ LET ep == IF initiator.cmd.in THEN "in" ELSE "out"
       IN  ep \in msc.halted /\ msc' = ClearHalt(msc, ep)
    /\ initiator' = [initiator EXCEPT !.phase = "status"]

\* The host tries once more to get the status, then recovers.
StatusStalled ==
    /\ initiator.phase = "status" /\ "in" \in msc.halted
    /\ msc' = ClearHalt(msc, "in")
    /\ initiator' = [initiator EXCEPT !.phase = IF msc.wedged THEN "recover" ELSE @]

\* Requests that are flushed are done with an error: the buffers of an IN request are
\* freed, those of an OUT request are not.
Flushed(d) ==
    [d EXCEPT !.free = @ + Blocks(d.inq), !.usb_pending = @ - InFlight(d.inq),
              !.inq = << >>, !.outq = << >>]

msc_bulk_reset(d) ==
    SubmitOut(msc_queue_empty([Flushed(d) EXCEPT !.wedged = FALSE]), Cbw)

\* The host resets the interface and clears the halt of both endpoints.
BulkReset ==
    /\ initiator.phase = "recover" \/ (HostGivesUp /\ initiator.phase \in {"data", "status"})
    /\ msc.enabled
    /\ msc' = LET d == msc_bulk_reset(msc) IN ClearHalt(ClearHalt(d, "in"), "out")
    /\ initiator' = [initiator EXCEPT !.phase = IF msc'.halted = {} THEN "idle" ELSE "recover"]

-----------------------------------------------------------------------------
(* The configuration, the application and the block device.                *)

\* udi_msc_disable, when the host unconfigures or resets the device or VBUS goes away.
udi_msc_disable ==
    /\ msc.enabled /\ (Resting(msc) \/ HostGivesUp)
    /\ initiator.phase # "confused"
    /\ msc' = [Flushed(msc_queue_empty(msc)) EXCEPT !.enabled = FALSE, !.halted = {},
                                                     !.wedged = FALSE]
    /\ initiator' = [initiator EXCEPT !.phase = "idle"]

udi_msc_enable ==
    /\ ~ msc.enabled
    /\ msc' = SubmitOut([msc_queue_empty(msc) EXCEPT !.enabled = TRUE], Cbw)
    /\ UNCHANGED initiator

\* Variant: a transfer in progress is not looked for.
udi_msc_set_busy_AtOnce ==
    /\ ~ msc.not_ready
    /\ msc' = [msc EXCEPT !.not_ready = TRUE, !.told = TRUE]
    /\ UNCHANGED initiator

udi_msc_set_busy ==
    /\ ~ msc.not_ready
    /\ msc' = [msc EXCEPT !.not_ready = TRUE,
                          !.busy_cb = @ \/ msc.xfer_in_progress,
                          !.told = ~ msc.xfer_in_progress]
    /\ UNCHANGED initiator

udi_msc_set_ready ==
    /\ msc.not_ready
    /\ msc' = [msc EXCEPT !.not_ready = FALSE, !.told = FALSE]
    /\ UNCHANGED initiator

\* Where the blocks of the page end: a page that is not transferred as a whole goes block
\* by block.
EndOf(b) == IF b.lba % PageBlocks = 0 /\ b.remaining >= PageBlocks THEN PageBlocks ELSE 1

\* The buffers on the list that still fit into the page, and what is in them when they
\* have been transferred.
Room(b) == Min({Len(b.list), EndOf(b) - b.pos})
Batch(b) == IF b.op = "write" THEN SubSeq(b.list, 1, Room(b))
            ELSE [i \in 1 .. Room(b) |-> b.lba + b.pos + i - 1]

\* What the flash has stored of them.
Written(b) == IF b.op = "write"
              THEN {<<b.lba + b.pos + i - 1, b.list[i]>> : i \in 1 .. Room(b)} ELSE {}

GaveBack(d) == IF d.breq.current = << >> THEN d
               ELSE [BufListDone(d, d.breq.current) EXCEPT !.breq.current = << >>]

NextBuffers(d) ==
    LET b == d.breq  k == Room(b)
    IN  IF b.list = << >> THEN [d EXCEPT !.breq.st = "sleep"]
        ELSE [d EXCEPT !.breq.list = SubSeq(b.list, k + 1, Len(b.list)),
                       !.breq.current = Batch(b), !.breq.pos = b.pos + k,
                       !.breq.st = IF b.pos + k = EndOf(b) THEN "page" ELSE "transfer"]

\* dataflash_transfer: the last buffers go back, then buffers for the rest of the page
\* are taken from the list, or the request sleeps until there are some.
BdTransfer ==
    LET d == GaveBack(msc)
    IN  /\ msc.breq.st = "transfer"
        /\ msc' = NextBuffers(d)
        /\ initiator' = [initiator EXCEPT !.stored = @ \cup Written(d.breq)]

\* dataflash_page_done.
BdPageDone ==
    LET d == BufListDone(msc, msc.breq.current)
        e == [d EXCEPT !.breq.current = << >>, !.breq.pos = 0,
                       !.breq.remaining = @ - msc.breq.pos, !.breq.lba = @ + msc.breq.pos]
    IN  /\ msc.breq.st = "page"
        /\ msc' = IF e.breq.remaining > 0 THEN [e EXCEPT !.breq.st = "transfer"]
                  ELSE [ReqDone(e) EXCEPT !.breq = NoBlockRequest]
        /\ UNCHANGED initiator

-----------------------------------------------------------------------------
MscInit ==
    /\ initiator = [phase |-> "idle", cmd |-> NoCommand, tag |-> 0, moved |-> 0,
               got |-> << >>, stored |-> {}]
    /\ msc = [inq |-> << >>, outq |-> << >>, halted |-> {}, wedged |-> FALSE,
              cbw |-> NoCommand, tag |-> 0,
              csw |-> [tag |-> 0, residue |-> 0, status |-> "pass"],
              total |-> 0, queued |-> 0, blk_pending |-> 0, usb_pending |-> 0,
              queue_locked |-> FALSE, xfer_in_progress |-> FALSE, not_ready |-> FALSE,
              busy_cb |-> FALSE, told |-> FALSE, breq |-> NoBlockRequest,
              free |-> NrLargeObjs, enabled |-> FALSE]

BlockDevice == BdTransfer \/ BdPageDone

\* The host carries on with the command it has sent.
CommandGoesOn == InTransfer \/ OutTransfer \/ DataStalled \/ StatusStalled

MscNext ==
    \/ \E c \in Command, tag \in {1, 2} : HostCommand(c, tag)
    \/ HostInvalidCommand
    \/ CommandGoesOn
    \/ BulkReset
    \/ udi_msc_disable \/ udi_msc_enable
    \/ udi_msc_set_busy \/ udi_msc_set_ready
    \/ BlockDevice

\* Tasks run, and a host that has sent a command polls its endpoints.
MscSpec == MscInit /\ [][MscNext]_mscVars /\ WF_mscVars(BlockDevice) /\ WF_mscVars(CommandGoesOn)

-----------------------------------------------------------------------------
(* What is assumed of the host's commands.                                 *)

\* The host does not give up in the middle of a command, a read that moves less than the
\* host asks for fits into one request, and the answer to MODE SENSE into the buffer.
CommandsFit ==
    /\ ~ HostGivesUp
    /\ \A c \in Command :
        /\ c.op = "read" /\ c.count < c.len /\ c.count # 0 =>
             /\ c.count <= MSC_MAX_NR_BUFFERS
             /\ c.count = 1 \/ (c.count = PageBlocks /\ c.lba % PageBlocks = 0)
        /\ c.op = "mode" /\ c.count # 0 => c.resp <= c.len

\* MODE SENSE sends more than it was asked for.
LongAnswer(c) == c.op = "mode" /\ c.count # 0 /\ c.count < c.resp

\* The answer to MODE SENSE is no longer than what was asked for.
NoLongAnswers == \A c \in Command : ~ LongAnswer(c)

-----------------------------------------------------------------------------
(* Properties.                                                             *)

\* The host gets data in the data phase, at most what it asked for, and in the status
\* phase the status of its command and of no other: the status is never taken for data,
\* nor data for the status, by whichever of the endpoint's requests and stalls the
\* device ends the data phase (msc_request_done, msc_request_data_done).
StatusInItsPhase == initiator.phase # "confused"

\* A command that passes has moved the blocks it names, each once and in order, and the
\* residue is what the host asked for and did not move.
DataIsWhatWasAsked ==
    [][LET c == initiator.cmd IN
        initiator.phase = "status" /\ initiator'.phase = "idle" /\ msc'.enabled
        /\ msc.csw.status = "pass"
        => /\ msc.csw.residue = c.len - initiator.moved
           /\ c.op = "read" => initiator.got = [i \in 1 .. c.count |-> c.lba + i - 1]
           /\ c.op = "write" => initiator.stored = {<<c.lba + i - 1, i>> : i \in 1 .. c.count}]_mscVars

\* Every large buffer is in the pool, with the block device or on one endpoint, and the
\* counts of what is pending, which keep the pipeline going, agree with the queues.
BuffersAccounted ==
    LET bd == Len(msc.breq.list) + Len(msc.breq.current)
    IN  /\ msc.free + bd + Blocks(msc.inq) + Blocks(msc.outq) = NrLargeObjs
        /\ msc.breq.op = "read" /\ ~ Resting(msc) => msc.blk_pending = bd
        /\ msc.xfer_in_progress /\ msc.cbw.op \in {"read", "write"} =>
              msc.usb_pending = InFlight(msc.inq) + InFlight(msc.outq)

\* The one request for commands and status is on one endpoint at a time, and when the
\* host may send a command no block request of an earlier one is in progress.
NothingLeftBehind ==
    LET uses(q) == Cardinality({i \in DOMAIN q : q[i] \in {Cbw, Csw}})
    IN  /\ uses(msc.inq) + uses(msc.outq) <= 1
        /\ initiator.phase = "idle" => Resting(msc) /\ msc.inq = << >>

\* Once the application has been told that the queue is empty, no blocks are
\* transferred until it is ready again.
BusyMeansQuiet == msc.told => Resting(msc)

\* A host that carries on with its command gets to the next, or has to recover.
CommandAnswered ==
    initiator.phase \in {"data", "status"} ~> initiator.phase \notin {"data", "status"}
=============================================================================
