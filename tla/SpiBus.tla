------------------------------- MODULE SpiBus -------------------------------
(***************************************************************************)
(* The polled SPI master of drivers/serial/spi with the bus requests of    *)
(* include/spi.h.  The bus is a nested work queue; its owner starts a      *)
(* transfer and runs again when the transfer has ended.  A transfer is     *)
(* carried by two tasks of the master: one polls the hardware for a whole  *)
(* buffer, one goes on to the next buffer of a list.                       *)
(*                                                                         *)
(* The queues are those of TaskQueues, which Workqueue implements.  Bytes  *)
(* are not modelled: spi_poll moves what is left of the buffer, or runs    *)
(* out of loops and queues itself again, which changes nothing here.       *)
(***************************************************************************)
EXTENDS At45Chip, Sequences

CONSTANTS
    Client,     \* the tasks that may request the bus
    OtherTask,  \* the tasks that use the main work queue only
    Buffer,     \* the buffers of the clients, one block each
    NULL

VARIABLES
    queues,     \* the main work queue and the one of spim->nwq
    current,    \* spim->nwq.current
    spi,        \* the transfer in progress
    cmdrsp,     \* bit AT45_STATUS_RDY of at45d->cmdrsp[0]
    data,       \* the contents of the buffers
    chip        \* the device on the bus

Main == "main"
Bus == "bus"
MasterTask == {"poll", "poll_next_buffer"}
Task == Client \cup OtherTask \cup MasterTask

TQ == INSTANCE TaskQueues WITH
          Queue <- {Main, Bus}, current <- [n \in {Bus} |-> current]

\* spi_poll's transfer is a command (write), a response (read), or a list of
\* buffers, of which those from the present one on are left.
NoTransfer == [op |-> "none"]
Write(k) == [op |-> "write", cmd |-> k]
Read == [op |-> "read"]
WriteList(bufs) == [op |-> "write_list", left |-> bufs]
ReadList(bufs) == [op |-> "read_list", left |-> bufs]

Busy == spi.op # "none"     \* spim->status is OPERATION_IN_PROGRESS

-----------------------------------------------------------------------------
(* What a task does to the queues.  It is at the head of the main work     *)
(* queue when it runs, and off it while it runs.                           *)

Runs(t) == queues[Main] # << >> /\ Head(queues[Main]) = t

Popped == [queues EXCEPT ![Main] = Tail(@)]

Added(qs, t) == TQ!Enqueued(qs, Main, t)

\* The running task, owner of the bus, starts a transfer: spi_polled_start.
StartTransfer(op) == spi' = op /\ queues' = Added(Popped, "poll") /\ UNCHANGED current

\* spi_request_bus
RequestBus(t) ==
    IF current = NULL
    THEN current' = t /\ queues' = Added(queues, t)
    ELSE queues' = TQ!Enqueued(queues, Bus, t) /\ UNCHANGED current

\* spi_release_bus: the bus passes to the task that has waited longest.
NextOwner == IF queues[Bus] = << >> THEN NULL ELSE Head(queues[Bus])

\* Variant: the next owner is not queued to run.
Released_NotQueued(qs) ==
    IF qs[Bus] = << >> THEN qs ELSE [qs EXCEPT ![Bus] = Tail(@)]

Released(qs) ==
    IF qs[Bus] = << >> THEN qs
    ELSE Added([qs EXCEPT ![Bus] = Tail(@)], Head(qs[Bus]))

-----------------------------------------------------------------------------
(* The tasks of the master.                                                *)

\* The last byte of a command or a response: the owner runs next.
PollEnds ==
    /\ Runs("poll")
    /\ spi.op \in {"write", "read"}
    /\ IF spi.op = "write"
       THEN chip' = Commanded(chip, spi.cmd) /\ UNCHANGED cmdrsp
       ELSE cmdrsp' = Ready(chip) /\ UNCHANGED chip
    /\ spi' = NoTransfer
    /\ queues' = Added(Popped, current)
    /\ UNCHANGED <<current, data>>

\* The last byte of a buffer of a list.
PollEndsBuffer ==
    /\ Runs("poll")
    /\ spi.op \in {"write_list", "read_list"}
    /\ LET buf == Head(spi.left)
       IN  IF spi.op = "write_list"
           THEN chip' = Written(chip, data[buf]) /\ UNCHANGED data
           ELSE /\ data' = [data EXCEPT ![buf] = BlockOut(chip, @)]
                /\ chip' = BlockRead(chip)
    /\ queues' = Added(Popped, "poll_next_buffer")
    /\ UNCHANGED <<current, spi, cmdrsp>>

\* spi_polled_next_buffer
NextBuffer ==
    /\ Runs("poll_next_buffer")
    /\ IF Len(spi.left) = 1
       THEN spi' = NoTransfer /\ queues' = Added(Popped, current)
       ELSE /\ spi' = [spi EXCEPT !.left = Tail(@)]
            /\ queues' = Added(Popped, "poll")
    /\ UNCHANGED <<current, cmdrsp, data, chip>>

MasterStep == PollEnds \/ PollEndsBuffer \/ NextBuffer
=============================================================================
