----------------------------- MODULE UsbControl -----------------------------
(***************************************************************************)
(* Control transfers and the life of the connection: endpoint 0 of         *)
(* drivers/usb/at90usb/at90usb_udc.c with the interrupt handlers of        *)
(* at90usb_core.c, the standard requests of drivers/usb/core/udc_lib.c and *)
(* the configuration of drivers/usb/core/dev_mux.c, here with one          *)
(* interface.                                                              *)
(*                                                                         *)
(* The endpoint's interrupt handler masks what is pending and queues the   *)
(* endpoint's task; the task runs whenever the main loop gets to it, and   *)
(* meanwhile the host goes on.  Tasks are operators from the state of the  *)
(* device to the next.                                                     *)
(***************************************************************************)
EXTENDS Naturals, Sequences

CONSTANTS
    Request,        \* the control requests the host makes
    DeviceKeepsUp,  \* the host sends a SETUP packet only when the device has caught up
    MaxAddress      \* bound: addresses the host assigns

ASSUME UsbControlAssumption ==
    /\ MaxAddress \in Nat \ {0} /\ DeviceKeepsUp \in BOOLEAN
    /\ Request \subseteq
         [req : {"get_descriptor", "get_status", "set_address", "set_configuration",
                 "set_interface", "clear_feature", "class", "bad"},
          value : Nat,      \* the address, the configuration or the packets to be sent
          short : BOOLEAN]  \* the last packet is full, and the host asked for more

VARIABLES
    dev,    \* the controller's registers and flags, struct at90usb_udc and its endpoint
            \* 0, and the tasks in the main work queue
    host    \* the transfer that the host is in, and what it knows of the device

vars == <<dev, host>>

RXSTP == "RXSTP"        \* a SETUP packet has arrived
RXOUT == "RXOUT"        \* an OUT packet has arrived
TXIN == "TXIN"          \* the bank is free for an IN packet

NoRequest == [req |-> "bad", value |-> 0, short |-> FALSE]

-----------------------------------------------------------------------------
(* The controller and the main work queue.                                 *)

\* workqueue_add_task leaves a task alone that is queued.
QueueTask(d, t) ==
    [d EXCEPT !.tasks = IF \E i \in DOMAIN @ : @[i] = t THEN @ ELSE Append(@, t)]

\* What is pending is masked; the endpoint's copy of the mask is what was enabled.
at90usb_ep_interrupt(d) ==
    QueueTask([d EXCEPT !.ueienx = d.UEIENX, !.UEIENX = @ \ d.UEINTX], "ep0")

\* The bus reset is masked until its task has run.
at90usb_generic_interrupt(d) == QueueTask([d EXCEPT !.udien = FALSE], "device")

Enable(d, flag) ==
    [d EXCEPT !.ueienx = @ \cup {flag}, !.UEIENX = d.ueienx \cup {flag}]

\* An assertion of the driver fails, and the program stops.
Failed(d) == [d EXCEPT !.asserted = TRUE]

-----------------------------------------------------------------------------
(* Transfers on endpoint 0.                                                *)

udc_ep0_submit_in_req(d, r) ==
    IF d.active THEN Failed(d)
    ELSE Enable([d EXCEPT !.active = TRUE, !.ctrl_state = "DATA_IN", !.left = r.value,
                          !.zlp = r.short], TXIN)

\* Variant: a new address counts at once.
udc_ep0_send_status_AtOnce(d) ==
    [Enable(d, TXIN) EXCEPT !.ctrl_state = "STATUS_IN", !.UEINTX = @ \ {TXIN},
        !.address = IF d.setup_req.req = "set_address" THEN d.setup_req.value ELSE @]

udc_ep0_send_status(d) ==
    IF d.active \/ TXIN \notin d.UEINTX THEN Failed(d)
    ELSE [Enable(d, TXIN) EXCEPT !.ctrl_state = "STATUS_IN", !.UEINTX = @ \ {TXIN}]

\* The task waits until the host has taken the packet.
udc_ep0_write_sync(d) ==
    IF d.active \/ TXIN \notin d.UEINTX THEN Failed(d)
    ELSE [d EXCEPT !.UEINTX = @ \ {TXIN}, !.sync = TRUE]

\* The status needs no attention: the next SETUP packet clears it.
udc_ep0_expect_status(d) ==
    IF d.active THEN Failed(d) ELSE [d EXCEPT !.ctrl_state = "STATUS_OUT"]

\* The callback of a request whose data have been sent.
udm_ctrl_in_done(d) == udc_ep0_expect_status(d)

\* The packet in the bank has gone.  The request is done with its last packet; else what
\* is left is counted from the packet that has gone, whatever had gone before it: from the
\* third packet of a descriptor on, this is less than what has been sent.
at90usb_ep0_tx_complete(d) ==
    LET e == [d EXCEPT !.written = 0,
                       !.left = IF @ = d.written THEN 0 ELSE d.setup_req.value - d.written]
    IN  IF d.left = 0 THEN d
        ELSE IF e.left = 0 THEN udm_ctrl_in_done([e EXCEPT !.active = FALSE])
        ELSE e

at90usb_ep0_tx_flush(d) ==
    LET e == at90usb_ep0_tx_complete(d)
    IN  IF e.left = 0 THEN e
        ELSE udm_ctrl_in_done([e EXCEPT !.left = 0, !.active = FALSE])

-----------------------------------------------------------------------------
(* Configurations.                                                         *)

\* The interface's endpoints have been destroyed when the new configuration creates them.
usb_dev_set_configuration(d, id) ==
    [d EXCEPT !.config = id, !.enabled = id # 0]

usb_dev_reset(d) == IF d.config # 0 THEN usb_dev_set_configuration(d, 0) ELSE d

Stall(d) ==
    [d EXCEPT !.ueienx = @ \ {RXOUT, TXIN}, !.UEIENX = d.ueienx \ {RXOUT, TXIN},
              !.stall = TRUE]

\* A descriptor of no packets is one the device does not have.
usb_dev_get_descriptor(d, r) ==
    IF r.value = 0 THEN Stall(d) ELSE udc_ep0_submit_in_req(d, r)

\* udc_lib_process_setup_request, which refuses what it does not know, a configuration
\* before an address, and what is for an interface that is not configured.  The mass
\* storage interface refuses to be enabled again by SET_INTERFACE.
udc_lib_process_setup_request(d, r) ==
    CASE r.req = "get_descriptor" -> usb_dev_get_descriptor(d, r)
      [] r.req = "get_status" -> udc_ep0_write_sync(d)
      [] r.req \in {"set_address", "clear_feature"} -> udc_ep0_send_status(d)
      [] r.req = "class" /\ d.config # 0 -> udc_ep0_send_status(d)
      [] r.req = "set_configuration" /\ d.address # 0 /\ r.value <= 1 ->
            udc_ep0_send_status(usb_dev_set_configuration(d, r.value))
      [] OTHER -> Stall(d)

-----------------------------------------------------------------------------
(* The task of endpoint 0.                                                 *)

\* The status of a request has gone: a new address counts from now on.
StatusSent(d) ==
    [d EXCEPT !.ueienx = @ \ {TXIN}, !.ctrl_state = "SETUP",
              !.address = IF d.setup_req.req = "set_address" THEN d.setup_req.value ELSE @]

\* Variant: a transfer of full packets is not terminated.
SendData_NoZlp(d) ==
    LET e == at90usb_ep0_tx_complete(d)
    IN  IF e.left = 0 THEN [e EXCEPT !.ueienx = @ \ {TXIN}, !.ctrl_state = "SETUP"]
        ELSE [e EXCEPT !.UEINTX = @ \ {TXIN}, !.written = 1]

\* The bank is free: the next packet, or the empty one after the last.
SendData(d) ==
    LET e == at90usb_ep0_tx_complete(d)
    IN  IF d.ctrl_state = "DATA_ZLP"
        THEN [d EXCEPT !.ctrl_state = "DATA_IN", !.UEINTX = @ \ {TXIN}]
        ELSE IF e.left = 0 THEN [e EXCEPT !.ueienx = @ \ {TXIN}, !.ctrl_state = "SETUP"]
        ELSE [e EXCEPT !.UEINTX = @ \ {TXIN}, !.written = 1,
                       !.ctrl_state = IF e.left = 1 /\ e.zlp THEN "DATA_ZLP" ELSE @]

\* Variant: what was being sent stays.
Setup_NoFlush(d, enabled) ==
    udc_lib_process_setup_request([d EXCEPT !.setup_req = d.setup, !.UEINTX = {TXIN}], d.setup)

\* A SETUP packet ends what was being sent.
Setup(d, enabled) ==
    LET e == IF TXIN \in enabled THEN at90usb_ep0_tx_flush(d) ELSE d
        f == [e EXCEPT !.setup_req = d.setup, !.UEINTX = {TXIN}]
    IN  IF e.asserted THEN e ELSE udc_lib_process_setup_request(f, d.setup)

\* A SETUP packet has taken the bank, so the two are never pending at once; OUT packets
\* are never enabled, as no request here has data to receive.  The mask is restored when
\* the task ends, unless it waits for the host.
at90usb_udc_ep0_worker(d) ==
    LET pending == d.ueienx \cap d.UEINTX
        e == IF TXIN \in pending
             THEN IF d.ctrl_state = "STATUS_IN" THEN StatusSent(d) ELSE SendData(d)
             ELSE IF RXSTP \in pending THEN Setup(d, d.ueienx) ELSE d
    IN  IF e.sync THEN e ELSE [e EXCEPT !.UEIENX = e.ueienx]

\* After a bus reset endpoint 0 is configured anew.
at90usb_udc_device_worker(d) ==
    LET e == usb_dev_reset(at90usb_ep0_tx_flush([d EXCEPT !.address = 0]))
    IN  IF ~ d.eorst THEN [d EXCEPT !.udien = TRUE]
        ELSE Enable([e EXCEPT !.eorst = FALSE, !.on = TRUE, !.ctrl_state = "SETUP",
                              !.UEINTX = {TXIN}, !.stall = FALSE, !.udien = TRUE], RXSTP)

-----------------------------------------------------------------------------
(* The connection.                                                         *)

at90usb_udc_maybe_attach(d) ==
    IF d.HAS_POWER /\ d.AUTOATTACH THEN [d EXCEPT !.attached = TRUE, !.udien = TRUE] ELSE d

\* Variant: the configuration stays.
at90usb_udc_detach_Configured(d) ==
    [d EXCEPT !.address = 0, !.attached = FALSE, !.udien = FALSE]

at90usb_udc_detach(d) ==
    LET e == [d EXCEPT !.address = 0]
    IN  IF d.attached THEN [usb_dev_reset(e) EXCEPT !.attached = FALSE, !.udien = FALSE]
        ELSE e

Vbus(d) ==
    IF d.HAS_POWER THEN at90usb_udc_detach([d EXCEPT !.HAS_POWER = FALSE])
    ELSE at90usb_udc_maybe_attach([d EXCEPT !.HAS_POWER = TRUE])

udc_attach(d) ==
    IF d.AUTOATTACH THEN d ELSE at90usb_udc_maybe_attach([d EXCEPT !.AUTOATTACH = TRUE])

udc_detach(d) ==
    IF d.AUTOATTACH THEN at90usb_udc_detach([d EXCEPT !.AUTOATTACH = FALSE]) ELSE d

-----------------------------------------------------------------------------
(* The host and the wire.                                                  *)

Gone == [stage |-> "gone", r |-> NoRequest, got |-> 0, gaveUp |-> FALSE,
         address |-> 0, config |-> 0]

\* What the host does is seen by a device that is attached.
OnTheWire == dev.attached /\ host.stage # "gone" /\ ~ dev.asserted

\* The device answers to the address that the packets are for.
Addressed == OnTheWire /\ dev.on /\ dev.address = host.address

\* The host resets the bus; the hardware disables endpoint 0.
HostReset ==
    /\ dev.attached /\ ~ dev.eorst /\ ~ dev.sync /\ ~ dev.asserted
    /\ dev' = [dev EXCEPT !.eorst = TRUE, !.on = FALSE, !.UEINTX = {}, !.UEIENX = {},
                          !.address = 0]
    /\ host' = [Gone EXCEPT !.stage = "idle"]

\* The task of endpoint 0 has handled what came before, and what it still sends is not
\* followed by a request for which it would wait.
CaughtUp(r) ==
    /\ \A i \in DOMAIN dev.tasks : dev.tasks[i] # "ep0"
    /\ TXIN \in dev.UEIENX => r.req # "get_status"

\* A SETUP packet is always received, in the middle of the data stage too, and takes the
\* bank.  Bounds: the host gives up one transfer before it sees the next to its end, and
\* none while the device waits for it.
HostSetup(r) ==
    /\ Addressed /\ ~ dev.sync
    /\ host.stage = "idle" \/ (host.stage = "data" /\ ~ host.gaveUp)
    /\ RXSTP \notin dev.UEINTX
    /\ DeviceKeepsUp => CaughtUp(r)
    /\ dev' = [dev EXCEPT !.UEINTX = {RXSTP}, !.stall = FALSE, !.setup = r]
    /\ host' = [host EXCEPT !.r = r, !.got = 0, !.gaveUp = (host.stage = "data"),
                            !.stage = IF r.req \in {"get_descriptor", "get_status"}
                                      THEN "data" ELSE "status"]

Packets(r) == IF r.req = "get_status" THEN 1 ELSE IF r.short THEN r.value + 1 ELSE r.value

\* The host takes a packet.
HostIn ==
    /\ Addressed
    /\ host.stage \in {"data", "status"} /\ dev.UEINTX \cap {RXSTP, TXIN} = {} /\ ~ dev.stall
    /\ dev' = [dev EXCEPT !.UEINTX = @ \cup {TXIN}]
    /\ host' = IF host.stage = "data"
               THEN [host EXCEPT !.got = @ + 1,
                                 !.stage = IF host.got + 1 = Packets(host.r) THEN "out" ELSE @]
               ELSE [host EXCEPT !.stage = "idle",
                       !.address = IF host.r.req = "set_address" THEN host.r.value ELSE @,
                       !.config = IF host.r.req = "set_configuration" THEN host.r.value ELSE @]

\* The empty packet that acknowledges the data.
HostStatusOut ==
    /\ Addressed /\ host.stage = "out" /\ RXSTP \notin dev.UEINTX
    /\ dev' = [dev EXCEPT !.UEINTX = @ \cup {RXOUT}]
    /\ host' = [host EXCEPT !.stage = "idle"]

HostStalled ==
    /\ Addressed /\ host.stage \in {"data", "status"}
    /\ dev.stall /\ RXSTP \notin dev.UEINTX
    /\ host' = [host EXCEPT !.stage = "idle"]
    /\ UNCHANGED dev

HostGoesOn == HostIn \/ HostStatusOut \/ HostStalled

-----------------------------------------------------------------------------
Init ==
    /\ host = Gone
    /\ dev = [address |-> 0, UEINTX |-> {}, UEIENX |-> {}, stall |-> FALSE, on |-> FALSE,
              setup |-> NoRequest, setup_req |-> NoRequest, ueienx |-> {},
              ctrl_state |-> "SETUP", active |-> FALSE, left |-> 0, written |-> 0,
              zlp |-> FALSE, sync |-> FALSE, config |-> 0, enabled |-> FALSE,
              HAS_POWER |-> FALSE, AUTOATTACH |-> FALSE, attached |-> FALSE,
              eorst |-> FALSE, udien |-> FALSE, tasks |-> << >>, asserted |-> FALSE]

EpInterrupt ==
    /\ dev.UEIENX \cap dev.UEINTX # {} /\ ~ dev.asserted
    /\ dev' = at90usb_ep_interrupt(dev)
    /\ UNCHANGED host

GenericInterrupt ==
    /\ dev.eorst /\ dev.udien /\ ~ dev.asserted
    /\ dev' = at90usb_generic_interrupt(dev)
    /\ UNCHANGED host

RunTask ==
    /\ dev.tasks # << >> /\ ~ dev.sync /\ ~ dev.asserted
    /\ LET d == [dev EXCEPT !.tasks = Tail(@)]
       IN  dev' = IF Head(dev.tasks) = "ep0" THEN at90usb_udc_ep0_worker(d)
                  ELSE at90usb_udc_device_worker(d)
    /\ UNCHANGED host

\* The packet that udc_ep0_write_sync waits for has gone.
SyncDone ==
    /\ dev.sync /\ TXIN \in dev.UEINTX
    /\ dev' = [udc_ep0_expect_status(dev) EXCEPT !.sync = FALSE, !.UEIENX = dev.ueienx]
    /\ UNCHANGED host

\* The cable and the application, when the device does not wait for the host.
Connection ==
    /\ ~ dev.sync /\ ~ dev.asserted
    /\ dev' \in {Vbus(dev), udc_attach(dev), udc_detach(dev)}
    /\ host' = IF dev'.attached THEN host ELSE Gone

Next ==
    \/ EpInterrupt \/ GenericInterrupt \/ RunTask \/ SyncDone
    \/ Connection
    \/ HostReset \/ HostGoesOn
    \/ \E r \in Request : HostSetup(r)

\* Interrupts are taken, the main loop runs its tasks and the host polls the device.
Spec ==
    /\ Init /\ [][Next]_vars
    /\ WF_vars(EpInterrupt) /\ WF_vars(GenericInterrupt) /\ WF_vars(RunTask)
    /\ WF_vars(SyncDone) /\ WF_vars(HostGoesOn)

-----------------------------------------------------------------------------
(* Properties.                                                             *)

\* The address changes to the one the host uses from then on, and not before the host
\* has seen the status of SET_ADDRESS: else the status would be sent to nobody.
AddressAgreed ==
    [][dev'.address # dev.address /\ dev'.address # 0 /\ host.stage # "gone"
        => host.stage = "idle" /\ dev'.address = host.address]_vars

\* Between transfers the device is in the configuration that the host put it in, its
\* interface is enabled exactly when it is configured, and a device that is detached or
\* has handled a bus reset is in none.
ConfigurationAgreed ==
    /\ dev.enabled <=> dev.config # 0
    /\ host.stage = "idle" /\ ~ dev.eorst => dev.config = host.config
    /\ ~ dev.attached => dev.config = 0

\* A control transfer ends: with its status, with a stall, or because the host gives up.
\* The empty packet that ends a descriptor of full packets is sent, and a request is
\* refused rather than forgotten.
TransferEnds ==
    host.stage \in {"data", "status", "out"}
        ~> (host.stage \in {"idle", "gone"} \/ dev.asserted)

\* No request is left on endpoint 0 when a SETUP packet is handled: "A SETUP packet clears
\* the TX complete interrupt, so complete all submitted requests now", and
\* udc_ep0_submit_in_req and the others assert that there is none.
AllCompletedBySetup == ~ dev.asserted
=============================================================================
