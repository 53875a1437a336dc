----------------------------- MODULE UsbProofs -----------------------------
(***************************************************************************)
(* The USB device, in two parts that know nothing of each other.           *)
(*                                                                         *)
(* The control endpoint agrees with the host about address and             *)
(* configuration, and finds no request left on it, for every set of        *)
(* requests and every number of packets, as long as the host waits for the *)
(* endpoint's task.                                                        *)
(*                                                                         *)
(* The mass storage function serves every command to its status: data and  *)
(* status come in their phases, what a status says is true, every buffer   *)
(* is accounted for and nothing is left behind, for every number of        *)
(* buffers and every set of commands that fit (CommandsFit).               *)
(***************************************************************************)
EXTENDS UsbControl, MassStorage, Integers, SequenceTheorems, FiniteSetTheorems,
        FunctionTheorems, TLAPS

-----------------------------------------------------------------------------
(* The control endpoint.                                                   *)


Requests == Request \cup {NoRequest}

Queues == {<< >>, <<"ep0">>, <<"device">>, <<"ep0", "device">>}

Device ==
    [address : Nat, UEINTX : SUBSET {RXSTP, RXOUT, TXIN}, UEIENX : SUBSET {RXSTP, TXIN},
     stall : BOOLEAN, on : BOOLEAN, setup : Requests, setup_req : Requests,
     ueienx : SUBSET {RXSTP, TXIN},
     ctrl_state : {"SETUP", "DATA_IN", "DATA_ZLP", "STATUS_IN", "STATUS_OUT"},
     active : BOOLEAN, left : Nat, written : {0, 1}, zlp : BOOLEAN, sync : BOOLEAN,
     config : Nat, enabled : BOOLEAN, HAS_POWER : BOOLEAN, AUTOATTACH : BOOLEAN,
     attached : BOOLEAN, eorst : BOOLEAN, udien : BOOLEAN, tasks : Queues,
     asserted : BOOLEAN]

Host ==
    [stage : {"gone", "idle", "data", "status", "out"}, r : Requests, got : Nat,
     gaveUp : BOOLEAN, address : Nat, config : Nat]

TypeOK == dev \in Device /\ host \in Host

-----------------------------------------------------------------------------
(* The inductive invariant, of a device d and a host h.                    *)

Ep0Queued(d) == d.tasks \in {<<"ep0">>, <<"ep0", "device">>}

DeviceQueued(d) == d.tasks \in {<<"device">>, <<"ep0", "device">>}

\* What is left to send is a submitted request's, which has a packet at least.
Accounted(d) ==
    /\ d.active <=> d.left # 0
    /\ d.active => d.setup_req.value # 0
    /\ d.written # 0 => d.active
    /\ ~ d.asserted

\* A submitted request is in its data stage, and the endpoint's copy of the mask shows it.
Sending(d) == d.active => TXIN \in d.ueienx /\ d.ctrl_state \in {"DATA_IN", "DATA_ZLP"}

\* The copy of the mask is right: it is taken once before the task runs.
MaskKept(d) ==
    /\ d.UEIENX \subseteq d.ueienx
    /\ ~ d.on => d.UEINTX = {}
    /\ d.on /\ ~ d.sync /\ ~ Ep0Queued(d) => d.UEIENX = d.ueienx
    /\ Ep0Queued(d) => /\ d.UEIENX \cap d.UEINTX = {}
                       /\ d.on => d.UEINTX \cap {RXSTP, TXIN} # {}
    /\ ~ (RXSTP \in d.UEINTX /\ TXIN \in d.UEINTX)

\* The task that waits for the host waits alone.
Waiting(d) ==
    /\ d.sync => /\ ~ d.active /\ d.tasks = << >> /\ ~ d.eorst /\ d.on
                 /\ d.UEIENX = {} /\ TXIN \notin d.ueienx /\ RXSTP \notin d.UEINTX
    /\ RXSTP \in d.UEINTX /\ d.setup.req = "get_status" => TXIN \notin d.ueienx

Resetting(d, h) ==
    /\ d.eorst => ~ d.on /\ h.stage \in {"idle", "gone"}
    /\ DeviceQueued(d) => d.eorst
    /\ d.eorst /\ h.stage = "idle" => h.config = 0

\* SET_CONFIGURATION counts for the device from its SETUP packet on, and for the host from
\* its status on.
Configured(d, h) ==
    /\ d.enabled <=> d.config # 0
    /\ ~ d.attached => h.stage = "gone"
    /\ h.stage = "gone" => d.config = 0 /\ (RXSTP \in d.UEINTX => d.address = 0)
    /\ h.stage # "gone" /\ ~ d.eorst =>
         d.config = IF /\ h.stage = "status" /\ RXSTP \notin d.UEINTX /\ ~ d.stall
                       /\ h.r.req = "set_configuration"
                    THEN h.r.value ELSE h.config

\* Device and host are in the same request.
SameRequest(d, h) ==
    /\ RXSTP \in d.UEINTX /\ h.stage # "gone" =>
         d.setup = h.r /\ h.stage \in {"data", "status"} /\ ~ d.stall
    /\ h.stage = "status" /\ RXSTP \notin d.UEINTX => d.setup_req = h.r
    /\ h.stage = "data" => h.r.req \in {"get_descriptor", "get_status"}
    /\ h.stage = "data" /\ RXSTP \notin d.UEINTX =>
         d.ctrl_state # "STATUS_IN" \/ TXIN \notin d.ueienx

\* The device sees that its status has gone when the host has it.
StatusSeen(d, h) ==
    /\ d.ctrl_state = "STATUS_IN" /\ TXIN \in d.ueienx /\ TXIN \in d.UEINTX
    /\ h.stage # "gone"
    => /\ h.stage = "idle"
       /\ d.setup_req.req = "set_address" => h.address = d.setup_req.value

Good(d, h) ==
    /\ d \in Device /\ h \in Host
    /\ Accounted(d) /\ Sending(d)
    /\ MaskKept(d) /\ Waiting(d)
    /\ Resetting(d, h) /\ Configured(d, h) /\ SameRequest(d, h) /\ StatusSeen(d, h)

IInv == Good(dev, host)

-----------------------------------------------------------------------------
LEMMA RequestFacts ==
    /\ \A r \in Requests : r.value \in Nat /\ r.short \in BOOLEAN
    /\ NoRequest \in Requests /\ NoRequest.req = "bad"
<1>1. ASSUME NEW r \in Request PROVE r.value \in Nat /\ r.short \in BOOLEAN
  BY UsbControlAssumption
<1>2. NoRequest.value \in Nat /\ NoRequest.short \in BOOLEAN /\ NoRequest.req = "bad"
  BY DEF NoRequest
<1>3. QED
  BY <1>1, <1>2 DEF Requests

LEMMA Flags == RXSTP # TXIN /\ RXSTP # RXOUT /\ TXIN # RXOUT
BY DEF RXSTP, TXIN, RXOUT

\* What no request changes, and the main loop's tasks.
SameConnection(d, e) ==
    /\ e.on = d.on /\ e.eorst = d.eorst /\ e.attached = d.attached
    /\ e.tasks = d.tasks /\ e.setup = d.setup

\* Beyond that only the transfer changes.
SameEndpoint(d, e) ==
    /\ SameConnection(d, e)
    /\ e.address = d.address /\ e.UEINTX = d.UEINTX /\ e.UEIENX = d.UEIENX
    /\ e.ueienx = d.ueienx /\ e.stall = d.stall /\ e.setup_req = d.setup_req
    /\ e.sync = d.sync /\ e.config = d.config /\ e.enabled = d.enabled

(***************************************************************************)
(* at90usb_ep0_tx_complete: the request goes on, or is done.               *)
(***************************************************************************)
LEMMA CompleteAccounts ==
    ASSUME NEW d \in Device, Accounted(d), NEW e, e = at90usb_ep0_tx_complete(d)
    PROVE  /\ e \in Device /\ Accounted(e) /\ SameEndpoint(d, e)
           /\ e.written = 0
           /\ e.active => d.active /\ e.ctrl_state = d.ctrl_state
           /\ ~ e.active => e.ctrl_state \in {d.ctrl_state, "STATUS_OUT"}
           /\ ~ d.active => e = d
<1> DEFINE left == IF d.left = d.written THEN 0 ELSE d.setup_req.value - d.written
           c == [d EXCEPT !.written = 0, !.left = left]
<1>1. CASE d.left = 0
  <2>1. e = d
    BY <1>1 DEF at90usb_ep0_tx_complete
  <2>2. d.written = 0 /\ ~ d.active
    BY <1>1 DEF Accounted
  <2>3. QED
    BY <2>1, <2>2 DEF SameEndpoint, SameConnection, Accounted
<1>2. CASE d.left # 0
  <2>1. left \in Nat
    BY <1>2, RequestFacts DEF Device, Accounted
  <2>2. /\ c \in Device /\ c.left = left /\ c.written = 0
        /\ c.active = d.active /\ c.asserted = d.asserted /\ c.ctrl_state = d.ctrl_state
        /\ SameEndpoint(d, c)
    <3> HIDE DEF left
    <3>1. QED
      BY <2>1 DEF Device, SameEndpoint, SameConnection
  <2>0. c.left = 0 \/ d.active
    BY <1>2 DEF Accounted
  <2> HIDE DEF c
  <2>3. CASE c.left = 0
    <3>1. e = [[c EXCEPT !.active = FALSE] EXCEPT !.ctrl_state = "STATUS_OUT"]
      <4>1. e = udm_ctrl_in_done([c EXCEPT !.active = FALSE])
        BY <1>2, <2>3 DEF at90usb_ep0_tx_complete, c
      <4>2. [c EXCEPT !.active = FALSE].active = FALSE
        BY <2>2 DEF Device
      <4>3. QED
        BY <4>1, <4>2 DEF udm_ctrl_in_done, udc_ep0_expect_status
    <3>2. /\ e \in Device /\ SameEndpoint(c, e)
          /\ e.active = FALSE /\ e.left = c.left /\ e.written = 0
          /\ e.ctrl_state = "STATUS_OUT" /\ e.asserted = c.asserted
      <4> DEFINE b == [c EXCEPT !.active = FALSE]
      <4>1. /\ b \in Device /\ SameEndpoint(c, b) /\ b.active = FALSE
            /\ b.left = c.left /\ b.written = 0 /\ b.asserted = c.asserted
        BY ZenonT(60), <2>2 DEF Device, SameEndpoint, SameConnection
      <4> HIDE DEF b
      <4>2. e = [b EXCEPT !.ctrl_state = "STATUS_OUT"]
        BY <3>1 DEF b
      <4>3. /\ e \in Device /\ SameEndpoint(b, e) /\ e.active = b.active
            /\ e.left = b.left /\ e.written = b.written /\ e.asserted = b.asserted
            /\ e.ctrl_state = "STATUS_OUT"
        BY <4>1, <4>2 DEF Device, SameEndpoint, SameConnection
      <4>4. QED
        BY <4>1, <4>3 DEF SameEndpoint, SameConnection
    <3>3. QED
      BY <1>2, <2>2, <2>3, <3>2 DEF Accounted, SameEndpoint, SameConnection
  <2>4. CASE c.left # 0
    <3>1. e = c
      BY <1>2, <2>4 DEF at90usb_ep0_tx_complete, c
    <3>2. QED
      BY <1>2, <2>2, <2>4, <3>1 DEF Accounted, SameEndpoint
  <2>5. QED
    BY <2>3, <2>4
<1>3. QED
  BY <1>1, <1>2

(***************************************************************************)
(* at90usb_ep0_tx_flush: nothing is left, and no assertion has failed.     *)
(***************************************************************************)
LEMMA FlushAccounts ==
    ASSUME NEW d \in Device, Accounted(d), NEW e, e = at90usb_ep0_tx_flush(d)
    PROVE  /\ e \in Device /\ Accounted(e) /\ SameEndpoint(d, e)
           /\ ~ e.active
<1> DEFINE c == at90usb_ep0_tx_complete(d)
<1>1. c \in Device /\ Accounted(c) /\ SameEndpoint(d, c) /\ c.written = 0
  BY CompleteAccounts
<1>2. e = IF c.left = 0 THEN c ELSE udm_ctrl_in_done([c EXCEPT !.left = 0, !.active = FALSE])
  BY DEF at90usb_ep0_tx_flush
<1> HIDE DEF c
<1>3. CASE c.left = 0
  BY <1>1, <1>2, <1>3 DEF Accounted, Device
<1>4. CASE c.left # 0
  <2>1. e = [[c EXCEPT !.left = 0, !.active = FALSE] EXCEPT !.ctrl_state = "STATUS_OUT"]
    <3>1. [c EXCEPT !.left = 0, !.active = FALSE].active = FALSE
      BY <1>1 DEF Device
    <3>2. QED
      BY <1>2, <1>4, <3>1 DEF udm_ctrl_in_done, udc_ep0_expect_status
  <2>2. /\ e \in Device /\ SameEndpoint(c, e)
        /\ e.active = FALSE /\ e.left = 0 /\ e.written = 0 /\ e.asserted = c.asserted
    <3> DEFINE b == [c EXCEPT !.left = 0, !.active = FALSE]
    <3>1. /\ b \in Device /\ SameEndpoint(c, b) /\ b.active = FALSE
          /\ b.left = 0 /\ b.written = 0 /\ b.asserted = c.asserted
      BY ZenonT(60), <1>1 DEF Device, SameEndpoint, SameConnection
    <3> HIDE DEF b
    <3>2. e = [b EXCEPT !.ctrl_state = "STATUS_OUT"]
      BY <2>1 DEF b
    <3>3. /\ e \in Device /\ SameEndpoint(b, e) /\ e.active = b.active
          /\ e.left = b.left /\ e.written = b.written /\ e.asserted = b.asserted
      BY <3>1, <3>2 DEF Device, SameEndpoint, SameConnection
    <3>4. QED
      BY <3>1, <3>3 DEF SameEndpoint, SameConnection
  <2>3. QED
    BY <1>1, <2>2 DEF Accounted, SameEndpoint, SameConnection
<1>5. QED
  BY <1>3, <1>4

\* How a SETUP request is answered: a submitted request, a status, a wait for the host, or
\* a stall.
Submits(d, e) ==
    /\ e.active /\ e.ctrl_state = "DATA_IN"
    /\ e.ueienx = d.ueienx \cup {TXIN} /\ e.UEINTX = {TXIN}
    /\ e.sync = d.sync /\ e.stall = d.stall /\ e.config = d.config /\ e.enabled = d.enabled

SendsStatus(d, e, r) ==
    /\ ~ e.active /\ e.ctrl_state = "STATUS_IN"
    /\ e.ueienx = d.ueienx \cup {TXIN} /\ e.UEINTX = {}
    /\ e.sync = d.sync /\ e.stall = d.stall
    /\ IF r.req = "set_configuration"
       THEN d.address # 0 /\ e.config = r.value /\ (e.enabled <=> r.value # 0)
       ELSE e.config = d.config /\ e.enabled = d.enabled

Waits(d, e) ==
    /\ ~ e.active /\ e.sync /\ e.UEINTX = {}
    /\ e.ueienx = d.ueienx /\ e.UEIENX = d.UEIENX
    /\ e.stall = d.stall /\ e.config = d.config /\ e.enabled = d.enabled

Stalls(d, e) ==
    /\ ~ e.active /\ e.stall /\ e.UEINTX = {TXIN}
    /\ e.ueienx = d.ueienx \ {TXIN}
    /\ e.sync = d.sync /\ e.config = d.config /\ e.enabled = d.enabled

Answers(d, e, r) ==
    /\ e \in Device /\ Accounted(e) /\ SameConnection(d, e)
    /\ e.address = d.address /\ e.setup_req = d.setup_req
    /\ \/ r.req = "get_descriptor" /\ Submits(d, e)
       \/ r.req \notin {"get_descriptor", "get_status"} /\ SendsStatus(d, e, r)
       \/ r.req = "get_status" /\ Waits(d, e)
       \/ Stalls(d, e)

LEMMA SubmitAnswers ==
    ASSUME NEW d \in Device, Accounted(d), ~ d.active, d.UEINTX = {TXIN},
           NEW r \in Requests, r.value # 0, d.setup_req = r,
           NEW e, e = udc_ep0_submit_in_req(d, r)
    PROVE  /\ e \in Device /\ Accounted(e) /\ SameConnection(d, e)
           /\ e.address = d.address /\ e.setup_req = d.setup_req
           /\ Submits(d, e)
<1> DEFINE b == [d EXCEPT !.active = TRUE, !.ctrl_state = "DATA_IN", !.left = r.value, !.zlp = r.short]
<1>1. r.value \in Nat \ {0} /\ r.short \in BOOLEAN
  BY RequestFacts
<1>2. e = [b EXCEPT !.ueienx = @ \cup {TXIN}, !.UEIENX = b.ueienx \cup {TXIN}]
  BY DEF udc_ep0_submit_in_req, Enable
<1>3. b \in Device
  BY <1>1 DEF Device
<1>4. /\ b.active /\ b.ctrl_state = "DATA_IN" /\ b.left = r.value
      /\ b.written = d.written /\ b.asserted = d.asserted /\ SameEndpoint(d, b)
  BY DEF Device, SameEndpoint, SameConnection
<1> HIDE DEF b
<1>5. b.ueienx \cup {TXIN} \in SUBSET {RXSTP, TXIN}
  BY <1>3 DEF Device
<1>6. e \in Device
  BY ZenonT(60), <1>2, <1>3, <1>5 DEF Device
<1>7. /\ e.active = b.active /\ e.ctrl_state = b.ctrl_state /\ e.left = b.left
      /\ e.written = b.written /\ e.asserted = b.asserted /\ SameConnection(b, e)
      /\ e.ueienx = b.ueienx \cup {TXIN} /\ e.address = b.address /\ e.UEINTX = b.UEINTX
      /\ e.stall = b.stall /\ e.setup_req = b.setup_req /\ e.sync = b.sync
      /\ e.config = b.config /\ e.enabled = b.enabled
  BY <1>2, <1>3 DEF Device, SameConnection
<1>8. QED
  BY <1>1, <1>4, <1>6, <1>7 DEF Accounted, Submits, SameEndpoint, SameConnection

LEMMA StatusAnswers ==
    ASSUME NEW d \in Device, Accounted(d), ~ d.active, d.UEINTX = {TXIN},
           NEW e, e = udc_ep0_send_status(d)
    PROVE  /\ e \in Device /\ Accounted(e) /\ SameConnection(d, e)
           /\ e.address = d.address /\ e.setup_req = d.setup_req
           /\ ~ e.active /\ e.ctrl_state = "STATUS_IN"
           /\ e.ueienx = d.ueienx \cup {TXIN} /\ e.UEINTX = {}
           /\ e.sync = d.sync /\ e.stall = d.stall
           /\ e.config = d.config /\ e.enabled = d.enabled
<1> DEFINE b == [d EXCEPT !.ueienx = @ \cup {TXIN}, !.UEIENX = d.ueienx \cup {TXIN}]
<1>1. e = [b EXCEPT !.ctrl_state = "STATUS_IN", !.UEINTX = @ \ {TXIN}]
  BY DEF udc_ep0_send_status, Enable
<1>2. d.ueienx \cup {TXIN} \in SUBSET {RXSTP, TXIN}
  BY DEF Device
<1>3. b \in Device
  BY <1>2 DEF Device
<1>4. /\ b.ueienx = d.ueienx \cup {TXIN} /\ b.UEINTX = {TXIN}
      /\ b.active = d.active /\ b.left = d.left /\ b.written = d.written /\ b.asserted = d.asserted
      /\ SameConnection(d, b) /\ b.address = d.address /\ b.setup_req = d.setup_req
      /\ b.sync = d.sync /\ b.stall = d.stall /\ b.config = d.config /\ b.enabled = d.enabled
  BY DEF Device, SameConnection
<1> HIDE DEF b
<1>5. e = [b EXCEPT !.ctrl_state = "STATUS_IN", !.UEINTX = {}] /\ e \in Device
  <2>1. b.UEINTX \ {TXIN} = {}
    BY <1>4
  <2>2. e = [b EXCEPT !.ctrl_state = "STATUS_IN", !.UEINTX = {}]
    BY <1>1, <2>1
  <2>3. QED
    BY ZenonT(60), <2>2, <1>3 DEF Device
<1>6. /\ e.ueienx = b.ueienx /\ e.UEINTX = {} /\ e.ctrl_state = "STATUS_IN"
      /\ e.active = b.active /\ e.left = b.left /\ e.written = b.written /\ e.asserted = b.asserted
      /\ SameConnection(b, e) /\ e.address = b.address /\ e.setup_req = b.setup_req
      /\ e.sync = b.sync /\ e.stall = b.stall /\ e.config = b.config /\ e.enabled = b.enabled
  BY <1>3, <1>5 DEF Device, SameConnection
<1>7. QED
  BY <1>4, <1>5, <1>6 DEF Accounted, SameConnection

LEMMA ConfigurationAnswers ==
    ASSUME NEW d \in Device, Accounted(d), ~ d.active, d.UEINTX = {TXIN}, NEW id \in Nat,
           NEW e, e = udc_ep0_send_status(usb_dev_set_configuration(d, id))
    PROVE  /\ e \in Device /\ Accounted(e) /\ SameConnection(d, e)
           /\ e.address = d.address /\ e.setup_req = d.setup_req
           /\ ~ e.active /\ e.ctrl_state = "STATUS_IN"
           /\ e.ueienx = d.ueienx \cup {TXIN} /\ e.UEINTX = {}
           /\ e.sync = d.sync /\ e.stall = d.stall
           /\ e.config = id /\ (e.enabled <=> id # 0)
<1> DEFINE b == usb_dev_set_configuration(d, id)
<1>1. /\ b \in Device /\ b.config = id /\ (b.enabled <=> id # 0)
      /\ b.active = d.active /\ b.left = d.left /\ b.written = d.written /\ b.asserted = d.asserted
      /\ SameConnection(d, b) /\ b.address = d.address /\ b.setup_req = d.setup_req
      /\ b.sync = d.sync /\ b.stall = d.stall /\ b.ueienx = d.ueienx /\ b.UEINTX = d.UEINTX
  BY DEF Device, SameConnection, usb_dev_set_configuration
<1> HIDE DEF b
<1>2. e = udc_ep0_send_status(b)
  BY DEF b
<1>3. Accounted(b)
  BY <1>1 DEF Accounted
<1>4. /\ e \in Device /\ Accounted(e) /\ SameConnection(b, e)
      /\ e.address = b.address /\ e.setup_req = b.setup_req
      /\ ~ e.active /\ e.ctrl_state = "STATUS_IN"
      /\ e.ueienx = b.ueienx \cup {TXIN} /\ e.UEINTX = {}
      /\ e.sync = b.sync /\ e.stall = b.stall
      /\ e.config = b.config /\ e.enabled = b.enabled
  BY <1>1, <1>2, <1>3, StatusAnswers
<1>5. QED
  BY <1>1, <1>4 DEF SameConnection

LEMMA SyncAnswers ==
    ASSUME NEW d \in Device, Accounted(d), ~ d.active, d.UEINTX = {TXIN},
           NEW e, e = udc_ep0_write_sync(d)
    PROVE  /\ e \in Device /\ Accounted(e) /\ SameConnection(d, e)
           /\ e.address = d.address /\ e.setup_req = d.setup_req
           /\ Waits(d, e)
<1>1. e = [d EXCEPT !.UEINTX = {}, !.sync = TRUE]
  <2>1. e = [d EXCEPT !.UEINTX = d.UEINTX \ {TXIN}, !.sync = TRUE]
    BY DEF udc_ep0_write_sync
  <2>2. QED
    BY <2>1
<1>2. e \in Device
  BY ZenonT(60), <1>1 DEF Device
<1>3. /\ e.sync /\ e.UEINTX = {} /\ e.ueienx = d.ueienx /\ e.UEIENX = d.UEIENX
      /\ e.active = d.active /\ e.left = d.left /\ e.written = d.written /\ e.asserted = d.asserted
      /\ SameConnection(d, e) /\ e.address = d.address /\ e.setup_req = d.setup_req
      /\ e.stall = d.stall /\ e.config = d.config /\ e.enabled = d.enabled
  BY <1>1 DEF Device, SameConnection
<1>4. QED
  BY <1>2, <1>3 DEF Accounted, Waits

LEMMA StallAnswers ==
    ASSUME NEW d \in Device, Accounted(d), ~ d.active, d.UEINTX = {TXIN}, NEW e, e = Stall(d)
    PROVE  /\ e \in Device /\ Accounted(e) /\ SameConnection(d, e)
           /\ e.address = d.address /\ e.setup_req = d.setup_req
           /\ Stalls(d, e)
<1>1. d.ueienx \ {RXOUT, TXIN} = d.ueienx \ {TXIN} /\ d.ueienx \ {TXIN} \subseteq {RXSTP, TXIN}
  BY Flags DEF Device
<1>2. e = [d EXCEPT !.ueienx = d.ueienx \ {TXIN}, !.UEIENX = d.ueienx \ {TXIN}, !.stall = TRUE]
  BY <1>1 DEF Stall
<1>3. e \in Device
  BY ZenonT(60), <1>1, <1>2 DEF Device
<1>4. /\ e.ueienx = d.ueienx \ {TXIN} /\ e.UEINTX = d.UEINTX /\ e.stall /\ e.sync = d.sync
      /\ e.active = d.active /\ e.left = d.left /\ e.written = d.written /\ e.asserted = d.asserted
      /\ SameConnection(d, e) /\ e.address = d.address /\ e.setup_req = d.setup_req
      /\ e.config = d.config /\ e.enabled = d.enabled
  BY <1>2 DEF Device, SameConnection
<1>5. QED
  BY <1>3, <1>4 DEF Accounted, Stalls

(***************************************************************************)
(* udc_lib_process_setup_request, once nothing is submitted and the bank   *)
(* is free: whatever the request, no assertion fails.                      *)
(***************************************************************************)
LEMMA RequestAnswered ==
    ASSUME NEW d \in Device, Accounted(d), ~ d.active, d.UEINTX = {TXIN},
           NEW r \in Requests, d.setup_req = r,
           NEW e, e = udc_lib_process_setup_request(d, r)
    PROVE  Answers(d, e, r)
<1>1. CASE r.req = "get_descriptor" /\ r.value # 0
  <2>1. e = udc_ep0_submit_in_req(d, r)
    BY <1>1 DEF udc_lib_process_setup_request, usb_dev_get_descriptor
  <2>2. QED
    BY <1>1, <2>1, SubmitAnswers DEF Answers
<1>2. CASE r.req = "get_status"
  <2>1. e = udc_ep0_write_sync(d)
    BY <1>2 DEF udc_lib_process_setup_request
  <2>2. QED
    BY <1>2, <2>1, SyncAnswers DEF Answers
<1>3. CASE r.req \in {"set_address", "clear_feature"} \/ (r.req = "class" /\ d.config # 0)
  <2>1. e = udc_ep0_send_status(d)
    BY <1>3 DEF udc_lib_process_setup_request
  <2>2. /\ e \in Device /\ Accounted(e) /\ SameConnection(d, e)
        /\ e.address = d.address /\ e.setup_req = d.setup_req
        /\ ~ e.active /\ e.ctrl_state = "STATUS_IN"
        /\ e.ueienx = d.ueienx \cup {TXIN} /\ e.UEINTX = {}
        /\ e.sync = d.sync /\ e.stall = d.stall
        /\ e.config = d.config /\ e.enabled = d.enabled
    BY <2>1, StatusAnswers
  <2>3. QED
    BY <1>3, <2>2 DEF Answers, SendsStatus
<1>4. CASE r.req = "set_configuration" /\ d.address # 0 /\ r.value <= 1
  <2>1. e = udc_ep0_send_status(usb_dev_set_configuration(d, r.value))
    BY <1>4 DEF udc_lib_process_setup_request
  <2>2. r.value \in Nat
    BY RequestFacts
  <2>3. /\ e \in Device /\ Accounted(e) /\ SameConnection(d, e)
        /\ e.address = d.address /\ e.setup_req = d.setup_req
        /\ ~ e.active /\ e.ctrl_state = "STATUS_IN"
        /\ e.ueienx = d.ueienx \cup {TXIN} /\ e.UEINTX = {}
        /\ e.sync = d.sync /\ e.stall = d.stall
        /\ e.config = r.value /\ (e.enabled <=> r.value # 0)
    BY <2>1, <2>2, ConfigurationAnswers
  <2>4. QED
    BY <1>4, <2>3 DEF Answers, SendsStatus
<1>5. CASE /\ r.req = "get_descriptor" => r.value = 0
           /\ r.req \notin {"get_status", "set_address", "clear_feature"}
           /\ ~ (r.req = "class" /\ d.config # 0)
           /\ ~ (r.req = "set_configuration" /\ d.address # 0 /\ r.value <= 1)
  <2>1. e = Stall(d)
    BY <1>5 DEF udc_lib_process_setup_request, usb_dev_get_descriptor
  <2>2. QED
    BY <2>1, StallAnswers DEF Answers
<1>6. QED
  BY <1>1, <1>2, <1>3, <1>4, <1>5

-----------------------------------------------------------------------------
(* The tasks.                                                              *)

SameTransfer(d, e) ==
    /\ e.active = d.active /\ e.left = d.left /\ e.written = d.written
    /\ e.ctrl_state = d.ctrl_state /\ e.asserted = d.asserted

\* All but the transfer, the mask and the tasks.
SameState(d, e) ==
    /\ e.on = d.on /\ e.eorst = d.eorst /\ e.attached = d.attached /\ e.setup = d.setup
    /\ e.address = d.address /\ e.UEINTX = d.UEINTX /\ e.ueienx = d.ueienx
    /\ e.stall = d.stall /\ e.setup_req = d.setup_req
    /\ e.sync = d.sync /\ e.config = d.config /\ e.enabled = d.enabled

LEMMA TaskTaken ==
    ASSUME NEW c \in Device, Ep0Queued(c), NEW d, d = [c EXCEPT !.tasks = Tail(@)]
    PROVE  /\ d \in Device /\ SameTransfer(c, d) /\ SameState(c, d) /\ d.UEIENX = c.UEIENX
           /\ d.tasks \in {<< >>, <<"device">>}
           /\ DeviceQueued(d) <=> DeviceQueued(c)
<1>1. Tail(c.tasks) = IF c.tasks = <<"ep0">> THEN << >> ELSE <<"device">>
  <2>1. Tail(<<"ep0">>) = << >> /\ Tail(<<"ep0", "device">>) = <<"device">>
        /\ <<"ep0", "device">> # <<"ep0">>
    OBVIOUS
  <2>2. QED
    BY <2>1 DEF Ep0Queued
<1>2. Tail(c.tasks) \in Queues
  BY <1>1 DEF Queues
<1>3. d \in Device /\ SameTransfer(c, d) /\ SameState(c, d) /\ d.UEIENX = c.UEIENX
  BY <1>2 DEF Device, SameTransfer, SameState
<1>4. d.tasks = Tail(c.tasks)
  BY DEF Device
<1>5. QED
  <2>1. << >> # <<"device">> /\ << >> # <<"ep0", "device">> /\ <<"ep0">> # <<"device">>
        /\ <<"ep0", "device">> # <<"ep0">> /\ <<"device">> # <<"ep0", "device">>
    OBVIOUS
  <2>2. QED
    BY <2>1, <1>1, <1>3, <1>4 DEF Ep0Queued, DeviceQueued

LEMMA MaskRestored ==
    ASSUME NEW f \in Device, NEW e, e = [f EXCEPT !.UEIENX = f.ueienx]
    PROVE  /\ e \in Device /\ SameTransfer(f, e) /\ SameState(f, e) /\ e.tasks = f.tasks
           /\ e.UEIENX = f.ueienx
<1>1. f.ueienx \in SUBSET {RXSTP, TXIN}
  BY DEF Device
<1>2. QED
  BY <1>1 DEF Device, SameTransfer, SameState

\* The bank is free and is given the next packet, or the transfer has ended.
Sends(d, f) ==
    /\ f \in Device /\ Accounted(f) /\ Sending(f) /\ f.ctrl_state # "STATUS_IN"
    /\ SameConnection(d, f)
    /\ f.UEINTX \subseteq d.UEINTX /\ f.ueienx \subseteq d.ueienx
    /\ f.stall = d.stall /\ f.setup_req = d.setup_req
    /\ f.sync = d.sync /\ f.config = d.config /\ f.enabled = d.enabled

LEMMA StatusSentSends ==
    ASSUME NEW d \in Device, Accounted(d), Sending(d), d.ctrl_state = "STATUS_IN",
           NEW f, f = StatusSent(d)
    PROVE  /\ Sends(d, f)
           /\ f.address = IF d.setup_req.req = "set_address" THEN d.setup_req.value ELSE d.address
<1> DEFINE a == IF d.setup_req.req = "set_address" THEN d.setup_req.value ELSE d.address
<1>1. a \in Nat
  BY RequestFacts DEF Device
<1>2. f = [d EXCEPT !.ueienx = @ \ {TXIN}, !.ctrl_state = "SETUP", !.address = a]
  BY DEF StatusSent
<1> HIDE DEF a
<1>3. d.ueienx \ {TXIN} \in SUBSET {RXSTP, TXIN}
  BY DEF Device
<1>4. f \in Device
  BY ZenonT(60), <1>1, <1>2, <1>3 DEF Device
<1>5. /\ f.ueienx = d.ueienx \ {TXIN} /\ f.ctrl_state = "SETUP" /\ f.address = a
      /\ f.active = d.active /\ f.left = d.left /\ f.written = d.written /\ f.asserted = d.asserted
      /\ SameConnection(d, f) /\ f.UEINTX = d.UEINTX
      /\ f.stall = d.stall /\ f.setup_req = d.setup_req
      /\ f.sync = d.sync /\ f.config = d.config /\ f.enabled = d.enabled
  BY <1>2 DEF Device, SameConnection
<1>6. QED
  BY <1>4, <1>5 DEF Sends, Accounted, Sending, a

LEMMA SendDataSends ==
    ASSUME NEW d \in Device, Accounted(d), Sending(d), d.ctrl_state # "STATUS_IN",
           NEW f, f = SendData(d)
    PROVE  Sends(d, f) /\ f.address = d.address
<1> DEFINE c == at90usb_ep0_tx_complete(d)
<1>1. /\ c \in Device /\ Accounted(c) /\ SameEndpoint(d, c) /\ c.written = 0
      /\ c.active => d.active /\ c.ctrl_state = d.ctrl_state
  BY CompleteAccounts
<1>2. f = IF d.ctrl_state = "DATA_ZLP"
          THEN [d EXCEPT !.ctrl_state = "DATA_IN", !.UEINTX = @ \ {TXIN}]
          ELSE IF c.left = 0 THEN [c EXCEPT !.ueienx = @ \ {TXIN}, !.ctrl_state = "SETUP"]
          ELSE [c EXCEPT !.UEINTX = @ \ {TXIN}, !.written = 1,
                         !.ctrl_state = IF c.left = 1 /\ c.zlp THEN "DATA_ZLP" ELSE @]
  BY DEF SendData
<1> HIDE DEF c
<1>3. CASE d.ctrl_state = "DATA_ZLP"
  <2>1. f = [d EXCEPT !.ctrl_state = "DATA_IN", !.UEINTX = @ \ {TXIN}]
    BY <1>2, <1>3
  <2>2. d.UEINTX \ {TXIN} \in SUBSET {RXSTP, RXOUT, TXIN}
    BY DEF Device
  <2>3. f \in Device
    BY ZenonT(60), <2>1, <2>2 DEF Device
  <2>4. /\ f.UEINTX = d.UEINTX \ {TXIN} /\ f.ctrl_state = "DATA_IN" /\ f.address = d.address
        /\ f.active = d.active /\ f.left = d.left /\ f.written = d.written /\ f.asserted = d.asserted
        /\ SameConnection(d, f) /\ f.ueienx = d.ueienx
        /\ f.stall = d.stall /\ f.setup_req = d.setup_req
        /\ f.sync = d.sync /\ f.config = d.config /\ f.enabled = d.enabled
    BY <2>1 DEF Device, SameConnection
  <2>5. QED
    BY <2>3, <2>4 DEF Sends, Accounted, Sending
<1>4. CASE d.ctrl_state # "DATA_ZLP" /\ c.left = 0
  <2>1. f = [c EXCEPT !.ueienx = @ \ {TXIN}, !.ctrl_state = "SETUP"]
    BY <1>2, <1>4
  <2>2. c.ueienx \ {TXIN} \in SUBSET {RXSTP, TXIN}
    BY <1>1 DEF Device
  <2>3. f \in Device
    BY ZenonT(60), <1>1, <2>1, <2>2 DEF Device
  <2>4. /\ f.ueienx = c.ueienx \ {TXIN} /\ f.ctrl_state = "SETUP" /\ f.address = c.address
        /\ f.active = c.active /\ f.left = c.left /\ f.written = c.written /\ f.asserted = c.asserted
        /\ SameConnection(c, f) /\ f.UEINTX = c.UEINTX
        /\ f.stall = c.stall /\ f.setup_req = c.setup_req
        /\ f.sync = c.sync /\ f.config = c.config /\ f.enabled = c.enabled
    BY <1>1, <2>1 DEF Device, SameConnection
  <2>5. QED
    BY <1>1, <1>4, <2>3, <2>4 DEF Sends, Accounted, Sending, SameEndpoint, SameConnection
<1>5. CASE d.ctrl_state # "DATA_ZLP" /\ c.left # 0
  <2> DEFINE s == IF c.left = 1 /\ c.zlp THEN "DATA_ZLP" ELSE c.ctrl_state
  <2>1. f = [c EXCEPT !.UEINTX = @ \ {TXIN}, !.written = 1, !.ctrl_state = s]
    BY <1>2, <1>5
  <2>2. c.active /\ c.ctrl_state \in {"DATA_IN", "DATA_ZLP"} /\ TXIN \in c.ueienx
    BY <1>1, <1>5 DEF Accounted, Sending, SameEndpoint
  <2>3. s \in {"DATA_IN", "DATA_ZLP"}
    BY <2>2
  <2> HIDE DEF s
  <2>4. c.UEINTX \ {TXIN} \in SUBSET {RXSTP, RXOUT, TXIN}
    BY <1>1 DEF Device
  <2>5. f \in Device
    <3> DEFINE b == [c EXCEPT !.UEINTX = c.UEINTX \ {TXIN}]
    <3>1. b \in Device
      BY <1>1, <2>4 DEF Device
    <3>2. f = [b EXCEPT !.written = 1, !.ctrl_state = s]
      BY <1>1, <2>1 DEF Device
    <3> HIDE DEF b
    <3>3. QED
      BY ZenonT(60), <2>3, <3>1, <3>2 DEF Device
  <2>6. /\ f.UEINTX = c.UEINTX \ {TXIN} /\ f.ctrl_state = s /\ f.address = c.address
        /\ f.active = c.active /\ f.left = c.left /\ f.written = 1 /\ f.asserted = c.asserted
        /\ SameConnection(c, f) /\ f.ueienx = c.ueienx
        /\ f.stall = c.stall /\ f.setup_req = c.setup_req
        /\ f.sync = c.sync /\ f.config = c.config /\ f.enabled = c.enabled
    BY <1>1, <2>1 DEF Device, SameConnection
  <2>7. QED
    BY <1>1, <1>5, <2>2, <2>3, <2>5, <2>6 DEF Sends, Accounted, Sending, SameEndpoint, SameConnection
<1>6. QED
  BY <1>3, <1>4, <1>5

(***************************************************************************)
(* A SETUP packet, when what is submitted shows in the copy of the mask.   *)
(***************************************************************************)
LEMMA SetupAnswers ==
    ASSUME NEW d \in Device, Accounted(d), Sending(d), NEW f, f = Setup(d, d.ueienx)
    PROVE  \E b \in Device :
             /\ b.ueienx = d.ueienx /\ b.UEIENX = d.UEIENX /\ SameConnection(d, b)
             /\ b.address = d.address /\ b.setup_req = d.setup /\ b.stall = d.stall
             /\ b.sync = d.sync /\ b.config = d.config /\ b.enabled = d.enabled
             /\ Answers(b, f, d.setup)
<1> DEFINE c == IF TXIN \in d.ueienx THEN at90usb_ep0_tx_flush(d) ELSE d
           b == [c EXCEPT !.setup_req = d.setup, !.UEINTX = {TXIN}]
<1>1. c \in Device /\ Accounted(c) /\ SameEndpoint(d, c) /\ ~ c.active
  <2>1. CASE TXIN \in d.ueienx
    BY <2>1, FlushAccounts
  <2>2. CASE TXIN \notin d.ueienx
    BY <2>2 DEF Sending, SameEndpoint, SameConnection
  <2>3. QED
    BY <2>1, <2>2
<1> HIDE DEF c
<1>2. d.setup \in Requests /\ {TXIN} \in SUBSET {RXSTP, RXOUT, TXIN}
  BY DEF Device
<1>3. b \in Device
  BY <1>1, <1>2 DEF Device
<1>4. /\ b.ueienx = c.ueienx /\ b.UEIENX = c.UEIENX /\ SameConnection(c, b)
      /\ b.address = c.address /\ b.setup_req = d.setup /\ b.stall = c.stall
      /\ b.sync = c.sync /\ b.config = c.config /\ b.enabled = c.enabled
      /\ b.UEINTX = {TXIN}
      /\ b.active = c.active /\ b.left = c.left /\ b.written = c.written /\ b.asserted = c.asserted
  BY <1>1 DEF Device, SameConnection
<1>5. f = udc_lib_process_setup_request(b, d.setup)
  BY <1>1 DEF Setup, Accounted, c
<1> HIDE DEF b
<1>6. Answers(b, f, d.setup)
  <2>1. Accounted(b) /\ ~ b.active
    BY <1>1, <1>4 DEF Accounted
  <2>2. QED
    BY <2>1, <1>2, <1>3, <1>4, <1>5, RequestAnswered
<1>7. QED
  BY <1>1, <1>3, <1>4, <1>6 DEF SameEndpoint, SameConnection

(***************************************************************************)
(* at90usb_udc_ep0_worker keeps the invariant.  A new address is the one   *)
(* that the host uses from now on.                                         *)
(***************************************************************************)
LEMMA SentGood ==
    ASSUME NEW c, NEW h, Good(c, h), Ep0Queued(c), ~ c.sync, TXIN \in c.ueienx \cap c.UEINTX,
           NEW d, d = [c EXCEPT !.tasks = Tail(@)], NEW f, Sends(d, f),
           NEW e, e = [f EXCEPT !.UEIENX = f.ueienx]
    PROVE  Good(e, h) /\ e.address = f.address
<1>1. /\ d \in Device /\ SameTransfer(c, d) /\ SameState(c, d) /\ d.UEIENX = c.UEIENX
      /\ d.tasks \in {<< >>, <<"device">>} /\ (DeviceQueued(d) <=> DeviceQueued(c))
  BY TaskTaken DEF Good
<1>2. /\ e \in Device /\ SameTransfer(f, e) /\ SameState(f, e) /\ e.tasks = f.tasks
      /\ e.UEIENX = f.ueienx
  BY MaskRestored DEF Sends
<1>3. /\ e.on = c.on /\ e.eorst = c.eorst /\ e.attached = c.attached /\ e.tasks = d.tasks
      /\ e.setup = c.setup /\ e.UEINTX \subseteq c.UEINTX /\ e.ueienx \subseteq c.ueienx
      /\ e.stall = c.stall /\ e.setup_req = c.setup_req
      /\ e.sync = FALSE /\ e.config = c.config /\ e.enabled = c.enabled
      /\ e.UEIENX = e.ueienx /\ e.ctrl_state # "STATUS_IN"
      /\ RXSTP \notin c.UEINTX /\ RXSTP \notin e.UEINTX
  <2>1. RXSTP \notin c.UEINTX
    BY DEF Good, MaskKept
  <2>2. c.sync = FALSE
    BY DEF Good, Device
  <2>3. QED
    BY <1>1, <1>2, <2>1, <2>2 DEF Sends, SameState, SameTransfer, SameConnection
<1>4. Accounted(e) /\ Sending(e)
  BY <1>2 DEF Sends, Accounted, Sending, SameState, SameTransfer
<1>5. ~ Ep0Queued(e) /\ (DeviceQueued(e) <=> DeviceQueued(c))
  <2>1. <<"ep0">> \notin {<< >>, <<"device">>} /\ <<"ep0", "device">> \notin {<< >>, <<"device">>}
    OBVIOUS
  <2>2. QED
    BY <1>1, <1>3, <2>1 DEF Ep0Queued, DeviceQueued
<1>6. MaskKept(e) /\ Waiting(e)
  BY <1>3, <1>5 DEF Good, MaskKept, Waiting
<1>7. Resetting(e, h) /\ Configured(e, h) /\ SameRequest(e, h) /\ StatusSeen(e, h)
  BY <1>3, <1>5 DEF Good, Resetting, Configured, SameRequest, StatusSeen
<1>8. QED
  BY <1>2, <1>4, <1>6, <1>7 DEF Good, SameState

\* What a request handled by the task leaves of the device c it was taken from.
Handled(c, f) ==
    /\ f \in Device /\ Accounted(f)
    /\ f.on = c.on /\ f.eorst = c.eorst /\ f.attached = c.attached
    /\ f.tasks = << >> /\ f.setup = c.setup /\ f.address = c.address /\ f.setup_req = c.setup
    /\ f.UEINTX \in {{}, {TXIN}}
    /\ f.UEIENX = IF f.sync THEN {} ELSE f.ueienx
    /\ \/ /\ c.setup.req = "get_descriptor"
          /\ TXIN \in f.ueienx /\ f.ctrl_state = "DATA_IN"
          /\ ~ f.sync /\ f.stall = c.stall /\ f.config = c.config /\ f.enabled = c.enabled
       \/ /\ c.setup.req \notin {"get_descriptor", "get_status"}
          /\ ~ f.active /\ f.UEINTX = {} /\ ~ f.sync /\ f.stall = c.stall
          /\ IF c.setup.req = "set_configuration"
             THEN c.address # 0 /\ f.config = c.setup.value /\ (f.enabled <=> c.setup.value # 0)
             ELSE f.config = c.config /\ f.enabled = c.enabled
       \/ /\ c.setup.req = "get_status"
          /\ ~ f.active /\ f.UEINTX = {} /\ f.sync /\ f.ueienx = c.ueienx
          /\ f.stall = c.stall /\ f.config = c.config /\ f.enabled = c.enabled
       \/ /\ ~ f.active /\ f.stall /\ TXIN \notin f.ueienx
          /\ ~ f.sync /\ f.config = c.config /\ f.enabled = c.enabled

LEMMA HandledGood ==
    ASSUME NEW c, NEW h, Good(c, h), RXSTP \in c.UEINTX, NEW e, Handled(c, e)
    PROVE  Good(e, h)
<1>1. /\ RXSTP \notin e.UEINTX /\ TXIN \notin c.UEINTX /\ ~ Ep0Queued(e) /\ ~ DeviceQueued(e)
  <2>1. << >> # <<"ep0">> /\ << >> # <<"device">> /\ << >> # <<"ep0", "device">>
    OBVIOUS
  <2>2. QED
    BY <2>1, Flags DEF Handled, Good, MaskKept, Ep0Queued, DeviceQueued
<1>2. c.on /\ ~ c.eorst
  BY DEF Good, MaskKept, Resetting
<1>3. h.stage # "gone" => c.setup = h.r /\ h.stage \in {"data", "status"} /\ ~ c.stall
  BY DEF Good, SameRequest
<1>4. Sending(e)
  BY DEF Handled, Sending
<1>5. MaskKept(e)
  BY <1>1, <1>2 DEF Handled, MaskKept
<1>6. Waiting(e)
  BY <1>1, <1>2 DEF Good, Handled, Waiting
<1>7. Resetting(e, h)
  BY <1>1, <1>2 DEF Handled, Resetting
<1>8. h.stage = "data" => h.r.req \in {"get_descriptor", "get_status"}
  BY DEF Good, SameRequest
<1>9. /\ c.enabled <=> c.config # 0
      /\ ~ c.attached => h.stage = "gone"
      /\ h.stage = "gone" => c.config = 0 /\ c.address = 0
      /\ h.stage # "gone" => c.config = h.config
  BY <1>2 DEF Good, Configured
<1>10. Configured(e, h)
  BY <1>1, <1>2, <1>3, <1>8, <1>9 DEF Handled, Configured
<1>11. SameRequest(e, h)
  <2>1. c.setup.req = "get_status" => TXIN \notin c.ueienx
    BY DEF Good, Waiting
  <2>2. QED
    BY <1>1, <1>3, <1>8, <2>1 DEF Handled, SameRequest
<1>12. StatusSeen(e, h)
  <2>1. TXIN \notin e.UEINTX \/ TXIN \notin e.ueienx \/ e.ctrl_state = "DATA_IN"
    BY DEF Handled
  <2>2. QED
    BY <2>1 DEF StatusSeen
<1>13. QED
  BY <1>4, <1>5, <1>6, <1>7, <1>10, <1>11, <1>12 DEF Good, Handled

LEMMA SetupHandled ==
    ASSUME NEW c, NEW h, Good(c, h), Ep0Queued(c), ~ c.sync, RXSTP \in c.UEINTX,
           NEW d, d = [c EXCEPT !.tasks = Tail(@)], NEW f, f = Setup(d, d.ueienx),
           NEW e, e = IF f.sync THEN f ELSE [f EXCEPT !.UEIENX = f.ueienx]
    PROVE  Handled(c, e)
<1>1. /\ d \in Device /\ SameTransfer(c, d) /\ SameState(c, d) /\ d.UEIENX = c.UEIENX
      /\ d.tasks \in {<< >>, <<"device">>} /\ (DeviceQueued(d) <=> DeviceQueued(c))
  BY TaskTaken DEF Good
<1>2. d.tasks = << >>
  BY <1>1 DEF Good, MaskKept, Resetting, DeviceQueued
<1>3. Accounted(d) /\ Sending(d)
  BY <1>1 DEF Good, Accounted, Sending, SameTransfer, SameState
<1>4. PICK b \in Device :
             /\ b.ueienx = d.ueienx /\ b.UEIENX = d.UEIENX /\ SameConnection(d, b)
             /\ b.address = d.address /\ b.setup_req = d.setup /\ b.stall = d.stall
             /\ b.sync = d.sync /\ b.config = d.config /\ b.enabled = d.enabled
             /\ Answers(b, f, d.setup)
  BY <1>1, <1>3, SetupAnswers
<1>5. f \in Device /\ Accounted(f) /\ f.sync \in BOOLEAN
  BY <1>4 DEF Answers, Device
<1>6. /\ e \in Device /\ SameTransfer(f, e) /\ SameState(f, e) /\ e.tasks = f.tasks
      /\ e.UEIENX = IF f.sync THEN f.UEIENX ELSE f.ueienx
  <2>1. CASE f.sync
    BY <2>1, <1>5 DEF SameTransfer, SameState
  <2>2. CASE ~ f.sync
    <3>1. e = [f EXCEPT !.UEIENX = f.ueienx]
      BY <2>2
    <3>2. QED
      BY <3>1, <2>2, <1>5, MaskRestored
  <2>3. QED
    BY <2>1, <2>2
<1>7. c.UEIENX = {} \/ TXIN \in c.ueienx
  BY DEF Good, MaskKept, Device
<1>8. /\ f.on = c.on /\ f.eorst = c.eorst /\ f.attached = c.attached /\ f.tasks = << >>
      /\ f.setup = c.setup /\ f.address = c.address /\ f.setup_req = c.setup
  BY <1>1, <1>2, <1>4 DEF Answers, SameConnection, SameState
<1>9. /\ b.stall = c.stall /\ b.sync = FALSE /\ b.config = c.config /\ b.enabled = c.enabled
      /\ b.address = c.address /\ b.ueienx = c.ueienx /\ b.UEIENX = c.UEIENX /\ d.setup = c.setup
  <2>1. c.sync = FALSE
    BY DEF Good, Device
  <2>2. QED
    BY <1>1, <1>4, <2>1 DEF SameState
<1>10. Accounted(e)
  BY <1>5, <1>6 DEF Accounted, SameTransfer
<1>11. /\ e.on = c.on /\ e.eorst = c.eorst /\ e.attached = c.attached /\ e.tasks = << >>
       /\ e.setup = c.setup /\ e.address = c.address /\ e.setup_req = c.setup
       /\ e.UEINTX = f.UEINTX /\ e.ueienx = f.ueienx /\ e.stall = f.stall /\ e.sync = f.sync
       /\ e.config = f.config /\ e.enabled = f.enabled
       /\ e.active = f.active /\ e.ctrl_state = f.ctrl_state
  BY <1>6, <1>8 DEF SameTransfer, SameState
<1>12. CASE c.setup.req = "get_descriptor" /\ Submits(b, f)
  <2>1. /\ TXIN \in f.ueienx /\ f.ctrl_state = "DATA_IN" /\ f.UEINTX = {TXIN}
        /\ ~ f.sync /\ f.stall = c.stall /\ f.config = c.config /\ f.enabled = c.enabled
    BY ONLY <1>9, <1>12 DEF Submits
  <2>2. QED
    BY ONLY <1>6, <1>10, <1>11, <1>12, <2>1 DEF Handled
<1>13. CASE c.setup.req \notin {"get_descriptor", "get_status"} /\ SendsStatus(b, f, c.setup)
  <2>1. /\ ~ f.active /\ f.UEINTX = {} /\ ~ f.sync /\ f.stall = c.stall
        /\ IF c.setup.req = "set_configuration"
           THEN c.address # 0 /\ f.config = c.setup.value /\ (f.enabled <=> c.setup.value # 0)
           ELSE f.config = c.config /\ f.enabled = c.enabled
    BY ONLY <1>9, <1>13 DEF SendsStatus
  <2>2. QED
    BY ONLY <1>6, <1>10, <1>11, <1>13, <2>1 DEF Handled
<1>14. CASE c.setup.req = "get_status" /\ Waits(b, f)
  <2>1. c.UEIENX = {}
    BY <1>7, <1>14 DEF Good, Waiting
  <2>2. QED
    BY ZenonT(60), <1>6, <1>9, <1>10, <1>11, <1>14, <2>1 DEF Handled, Waits
<1>15. CASE Stalls(b, f)
  <2>1. /\ ~ f.active /\ f.stall /\ TXIN \notin f.ueienx /\ f.UEINTX = {TXIN}
        /\ ~ f.sync /\ f.config = c.config /\ f.enabled = c.enabled
    BY ONLY <1>9, <1>15 DEF Stalls
  <2>2. QED
    BY ONLY <1>6, <1>10, <1>11, <2>1 DEF Handled
<1>16. QED
  BY <1>4, <1>9, <1>12, <1>13, <1>14, <1>15 DEF Answers

LEMMA NothingPending ==
    ASSUME NEW c, NEW h, Good(c, h), Ep0Queued(c), ~ c.sync,
           NEW d, d = [c EXCEPT !.tasks = Tail(@)], NEW e \in Device,
           SameTransfer(d, e), SameState(d, e), e.tasks = d.tasks, e.UEIENX = d.ueienx
    PROVE  Good(e, h) /\ e.address = c.address
<1>1. /\ d \in Device /\ SameTransfer(c, d) /\ SameState(c, d) /\ d.UEIENX = c.UEIENX
      /\ d.tasks \in {<< >>, <<"device">>} /\ (DeviceQueued(d) <=> DeviceQueued(c))
  BY TaskTaken DEF Good
<1>2. SameTransfer(c, e) /\ SameState(c, e) /\ e.UEIENX = e.ueienx
  BY <1>1 DEF SameTransfer, SameState
<1>3. ~ Ep0Queued(e) /\ (DeviceQueued(e) <=> DeviceQueued(c))
  <2>1. <<"ep0">> \notin {<< >>, <<"device">>} /\ <<"ep0", "device">> \notin {<< >>, <<"device">>}
    OBVIOUS
  <2>2. QED
    BY <1>1, <2>1 DEF Ep0Queued, DeviceQueued
<1>4. Accounted(e) /\ Sending(e)
  BY <1>2 DEF Good, Accounted, Sending, SameTransfer, SameState
<1>5. MaskKept(e) /\ Waiting(e)
  BY <1>2, <1>3 DEF Good, MaskKept, Waiting, SameState
<1>6. Resetting(e, h) /\ Configured(e, h)
  BY <1>2, <1>3 DEF Good, Resetting, Configured, SameState
<1>7. SameRequest(e, h) /\ StatusSeen(e, h)
  BY <1>2 DEF Good, SameRequest, StatusSeen, SameState, SameTransfer
<1>8. QED
  BY <1>2, <1>4, <1>5, <1>6, <1>7 DEF Good, SameState

LEMMA Ep0WorkerGood ==
    ASSUME NEW c, NEW h, Good(c, h), Ep0Queued(c), ~ c.sync,
           NEW e, e = at90usb_udc_ep0_worker([c EXCEPT !.tasks = Tail(@)])
    PROVE  /\ Good(e, h)
           /\ e.address # c.address /\ h.stage # "gone"
                => h.stage = "idle" /\ e.address = h.address
<1> DEFINE d == [c EXCEPT !.tasks = Tail(@)]
           pending == d.ueienx \cap d.UEINTX
           f == IF TXIN \in pending
                THEN IF d.ctrl_state = "STATUS_IN" THEN StatusSent(d) ELSE SendData(d)
                ELSE IF RXSTP \in pending THEN Setup(d, d.ueienx) ELSE d
<1>1. /\ e = IF f.sync THEN f ELSE [f EXCEPT !.UEIENX = f.ueienx]
      /\ d = [c EXCEPT !.tasks = Tail(@)]
  BY DEF at90usb_udc_ep0_worker
<1>2. /\ d \in Device /\ SameTransfer(c, d) /\ SameState(c, d) /\ d.UEIENX = c.UEIENX
  BY TaskTaken DEF Good
<1>3. Accounted(d) /\ Sending(d) /\ ~ d.sync
  BY <1>2 DEF Good, Accounted, Sending, SameTransfer, SameState
<1>4. pending = c.ueienx \cap c.UEINTX
  BY <1>2 DEF SameState
<1>5. CASE TXIN \in pending /\ d.ctrl_state = "STATUS_IN"
  <2>1. f = StatusSent(d)
    BY <1>5
  <2> HIDE DEF d, f, pending
  <2>2. /\ Sends(d, f)
        /\ f.address = IF d.setup_req.req = "set_address" THEN d.setup_req.value ELSE d.address
    BY <1>2, <1>3, <1>5, <2>1, StatusSentSends
  <2>3. e = [f EXCEPT !.UEIENX = f.ueienx]
    BY <1>1, <1>3, <2>2 DEF Sends
  <2>4. /\ Good(c, h) /\ Ep0Queued(c) /\ ~ c.sync /\ TXIN \in c.ueienx \cap c.UEINTX
         /\ d = [c EXCEPT !.tasks = Tail(@)] /\ Sends(d, f)
    BY <1>1, <1>4, <1>5, <2>2
  <2>5. Good(e, h) /\ e.address = f.address
    BY ONLY <2>3, <2>4, SentGood
  <2>6. c.ctrl_state = "STATUS_IN" /\ d.setup_req = c.setup_req /\ d.address = c.address
    BY <1>2, <1>5 DEF SameTransfer, SameState
  <2>7. h.stage # "gone" => h.stage = "idle"
                            /\ (c.setup_req.req = "set_address" => h.address = c.setup_req.value)
    BY <1>4, <1>5, <2>6 DEF Good, StatusSeen
  <2>8. QED
    BY <2>2, <2>5, <2>6, <2>7
<1>6. CASE TXIN \in pending /\ d.ctrl_state # "STATUS_IN"
  <2>1. f = SendData(d)
    BY <1>6
  <2> HIDE DEF d, f, pending
  <2>2. Sends(d, f) /\ f.address = d.address
    BY <1>2, <1>3, <1>6, <2>1, SendDataSends
  <2>3. e = [f EXCEPT !.UEIENX = f.ueienx]
    BY <1>1, <1>3, <2>2 DEF Sends
  <2>4. /\ Good(c, h) /\ Ep0Queued(c) /\ ~ c.sync /\ TXIN \in c.ueienx \cap c.UEINTX
         /\ d = [c EXCEPT !.tasks = Tail(@)] /\ Sends(d, f)
    BY <1>1, <1>4, <1>6, <2>2
  <2>5. Good(e, h) /\ e.address = f.address
    BY ONLY <2>3, <2>4, SentGood
  <2>6. d.address = c.address
    BY <1>2 DEF SameState
  <2>7. QED
    BY <2>2, <2>5, <2>6
<1>7. CASE TXIN \notin pending /\ RXSTP \in pending
  <2>1. f = Setup(d, d.ueienx)
    BY <1>7
  <2> HIDE DEF d, f, pending
  <2>2. RXSTP \in c.UEINTX
    BY <1>4, <1>7
  <2>3. Handled(c, e)
    BY <1>1, <2>1, <2>2, SetupHandled
  <2>4. Good(e, h)
    BY <2>2, <2>3, HandledGood
  <2>5. QED
    BY <2>3, <2>4 DEF Handled
<1>8. CASE TXIN \notin pending /\ RXSTP \notin pending
  <2>1. f = d
    BY <1>8
  <2> HIDE DEF d, f, pending
  <2>2. e = [d EXCEPT !.UEIENX = d.ueienx]
    BY <1>1, <1>3, <2>1
  <2>3. Good(c, h) /\ Ep0Queued(c) /\ ~ c.sync /\ d = [c EXCEPT !.tasks = Tail(@)]
    BY <1>1
  <2>4. /\ e \in Device /\ SameTransfer(d, e) /\ SameState(d, e) /\ e.tasks = d.tasks
        /\ e.UEIENX = d.ueienx
    BY <1>2, <2>2, MaskRestored
  <2>5. Good(e, h) /\ e.address = c.address
    BY ONLY <2>3, <2>4, NothingPending
  <2>6. QED
    BY <2>5
<1>9. QED
  BY <1>5, <1>6, <1>7, <1>8

(***************************************************************************)
(* at90usb_udc_device_worker: after a bus reset nothing is submitted, and  *)
(* the device is not configured.                                           *)
(***************************************************************************)
LEMMA ResetDevice ==
    ASSUME NEW d \in Device, d.enabled <=> d.config # 0, NEW e, e = usb_dev_reset(d)
    PROVE  /\ e \in Device /\ e.config = 0 /\ ~ e.enabled /\ SameTransfer(d, e)
           /\ SameConnection(d, e) /\ e.address = d.address
           /\ e.UEINTX = d.UEINTX /\ e.UEIENX = d.UEIENX /\ e.ueienx = d.ueienx
           /\ e.stall = d.stall /\ e.setup_req = d.setup_req /\ e.sync = d.sync
<1>1. CASE d.config = 0
  BY <1>1 DEF usb_dev_reset, SameTransfer, SameConnection
<1>2. CASE d.config # 0
  <2>1. e = [d EXCEPT !.config = 0, !.enabled = FALSE]
    BY <1>2 DEF usb_dev_reset, usb_dev_set_configuration
  <2>2. e \in Device
    <3> DEFINE a == [d EXCEPT !.config = 0]
    <3>1. a \in Device
      BY DEF Device
    <3>2. e = [a EXCEPT !.enabled = FALSE]
      BY <2>1 DEF Device
    <3> HIDE DEF a
    <3>3. QED
      BY ZenonT(60), <3>1, <3>2 DEF Device
  <2>3. e.config = 0 /\ ~ e.enabled /\ SameTransfer(d, e) /\ SameConnection(d, e)
    BY <2>1 DEF Device, SameTransfer, SameConnection
  <2>4. /\ e.UEINTX = d.UEINTX /\ e.UEIENX = d.UEIENX /\ e.ueienx = d.ueienx
        /\ e.address = d.address
        /\ e.stall = d.stall /\ e.setup_req = d.setup_req /\ e.sync = d.sync
    BY <2>1 DEF Device
  <2>5. QED
    BY <2>2, <2>3, <2>4
<1>3. QED
  BY <1>1, <1>2

LEMMA DeviceWorkerGood ==
    ASSUME NEW c, NEW h, Good(c, h), c.tasks = <<"device">>, ~ c.sync,
           NEW e, e = at90usb_udc_device_worker([c EXCEPT !.tasks = Tail(@)])
    PROVE  Good(e, h) /\ e.address = 0
<1> DEFINE d == [[c EXCEPT !.tasks = Tail(@)] EXCEPT !.address = 0]
           b == usb_dev_reset(at90usb_ep0_tx_flush(d))
<1>1. c.eorst /\ ~ c.on /\ h.stage \in {"idle", "gone"} /\ (h.stage = "idle" => h.config = 0)
  BY DEF Good, Resetting, DeviceQueued
<1>2. /\ d \in Device /\ SameTransfer(c, d) /\ d.tasks = << >> /\ d.address = 0
      /\ d.attached = c.attached /\ d.setup = c.setup /\ d.setup_req = c.setup_req
      /\ d.ueienx = c.ueienx /\ d.sync = c.sync
      /\ d.config = c.config /\ d.enabled = c.enabled
  <2>1. Tail(c.tasks) = << >>
    OBVIOUS
  <2>2. << >> \in Queues
    BY DEF Queues
  <2>3. QED
    BY <2>1, <2>2 DEF Good, Device, SameTransfer
<1>3. e = [[b EXCEPT !.eorst = FALSE, !.on = TRUE, !.ctrl_state = "SETUP",
                     !.UEINTX = {TXIN}, !.stall = FALSE, !.udien = TRUE]
             EXCEPT !.ueienx = @ \cup {RXSTP},
                    !.UEIENX = [b EXCEPT !.eorst = FALSE, !.on = TRUE, !.ctrl_state = "SETUP",
                                         !.UEINTX = {TXIN}, !.stall = FALSE,
                                         !.udien = TRUE].ueienx \cup {RXSTP}]
  <2>1. [c EXCEPT !.tasks = Tail(@)].eorst
    BY <1>1 DEF Good, Device
  <2>2. QED
    BY <2>1 DEF at90usb_udc_device_worker, Enable
<1> HIDE DEF d
<1>4. /\ b \in Device /\ Accounted(b) /\ ~ b.active /\ b.config = 0 /\ ~ b.enabled
      /\ b.tasks = << >> /\ b.address = 0 /\ b.attached = c.attached
      /\ b.setup = c.setup /\ b.setup_req = c.setup_req /\ b.ueienx = c.ueienx /\ ~ b.sync
  <2> DEFINE a == at90usb_ep0_tx_flush(d)
  <2>1. Accounted(d) /\ (d.enabled <=> d.config # 0)
    BY <1>2 DEF Good, Configured, Accounted, SameTransfer
  <2>2. a \in Device /\ Accounted(a) /\ SameEndpoint(d, a) /\ ~ a.active
    BY <1>2, <2>1, FlushAccounts
  <2> HIDE DEF a
  <2>3. a.enabled <=> a.config # 0
    BY <2>1, <2>2 DEF SameEndpoint
  <2>4. b = usb_dev_reset(a)
    BY DEF a
  <2> HIDE DEF b
  <2>5. /\ b \in Device /\ b.config = 0 /\ ~ b.enabled /\ SameTransfer(a, b)
        /\ SameConnection(a, b) /\ b.address = a.address
        /\ b.ueienx = a.ueienx /\ b.setup_req = a.setup_req /\ b.sync = a.sync
    BY <2>2, <2>3, <2>4, ResetDevice
  <2>6. QED
    BY <1>2, <2>2, <2>5 DEF SameTransfer, SameEndpoint, SameConnection, Accounted
<1> HIDE DEF b
<1> DEFINE g == [b EXCEPT !.eorst = FALSE, !.on = TRUE, !.ctrl_state = "SETUP",
                          !.UEINTX = {TXIN}, !.stall = FALSE, !.udien = TRUE]
<1>5. {TXIN} \in SUBSET {RXSTP, RXOUT, TXIN}
  OBVIOUS
<1>6. g \in Device
  <2> DEFINE i == [b EXCEPT !.eorst = FALSE, !.on = TRUE, !.ctrl_state = "SETUP"]
  <2>1. i \in Device
    BY <1>4 DEF Device
  <2>2. g = [i EXCEPT !.UEINTX = {TXIN}, !.stall = FALSE, !.udien = TRUE]
    BY <1>4 DEF Device
  <2> HIDE DEF i, g
  <2>3. QED
    BY ZenonT(60), <1>5, <2>1, <2>2 DEF Device
<1>7. /\ ~ g.eorst /\ g.on /\ g.ctrl_state = "SETUP" /\ g.UEINTX = {TXIN} /\ ~ g.stall
      /\ g.active = b.active /\ g.left = b.left /\ g.written = b.written /\ g.asserted = b.asserted
      /\ g.config = b.config /\ g.enabled = b.enabled /\ g.tasks = b.tasks
      /\ g.address = b.address /\ g.attached = b.attached
      /\ g.setup = b.setup /\ g.setup_req = b.setup_req /\ g.ueienx = b.ueienx /\ g.sync = b.sync
  BY <1>4 DEF Device, SameTransfer
<1> DEFINE m == g.ueienx \cup {RXSTP}
<1>8. m \in SUBSET {RXSTP, TXIN}
  BY <1>6 DEF Device
<1>9. e = [g EXCEPT !.ueienx = m, !.UEIENX = m]
  BY <1>3
<1> HIDE DEF g, m
<1>10. e \in Device
  BY ONLY <1>6, <1>8, <1>9 DEF Device
<1>11. /\ e.ueienx = m /\ e.UEIENX = m
       /\ ~ e.eorst /\ e.on /\ e.ctrl_state = "SETUP" /\ e.UEINTX = {TXIN} /\ ~ e.stall
       /\ e.active = g.active /\ e.left = g.left /\ e.written = g.written
       /\ e.asserted = g.asserted
       /\ e.config = g.config /\ e.enabled = g.enabled /\ e.tasks = g.tasks
       /\ e.address = g.address /\ e.attached = g.attached /\ e.sync = g.sync
  <2> DEFINE a == [g EXCEPT !.ueienx = m]
  <2>1. a \in Device /\ a.ueienx = m
    BY <1>6, <1>8 DEF Device
  <2>2. /\ ~ a.eorst /\ a.on /\ a.ctrl_state = "SETUP" /\ a.UEINTX = {TXIN} /\ ~ a.stall
        /\ a.active = g.active /\ a.left = g.left /\ a.written = g.written
        /\ a.asserted = g.asserted
        /\ a.config = g.config /\ a.enabled = g.enabled /\ a.tasks = g.tasks
        /\ a.address = g.address /\ a.attached = g.attached /\ a.sync = g.sync
    BY <1>6, <1>7 DEF Device
  <2> HIDE DEF a
  <2>3. e = [a EXCEPT !.UEIENX = m]
    BY <1>9 DEF a
  <2>4. e.UEIENX = m /\ e.ueienx = a.ueienx
    BY <2>1, <2>3 DEF Device
  <2>5. /\ e.eorst = a.eorst /\ e.on = a.on /\ e.ctrl_state = a.ctrl_state
        /\ e.UEINTX = a.UEINTX /\ e.stall = a.stall
        /\ e.active = a.active /\ e.left = a.left /\ e.written = a.written
        /\ e.asserted = a.asserted
        /\ e.config = a.config /\ e.enabled = a.enabled /\ e.tasks = a.tasks
        /\ e.address = a.address /\ e.attached = a.attached /\ e.sync = a.sync
    BY <2>1, <2>3 DEF Device
  <2>6. QED
    BY ZenonT(60), <2>1, <2>2, <2>4, <2>5
<1>12. ~ Ep0Queued(e) /\ ~ DeviceQueued(e)
  <2>1. << >> # <<"ep0">> /\ << >> # <<"device">> /\ << >> # <<"ep0", "device">>
    OBVIOUS
  <2>2. QED
    BY <2>1, <1>4, <1>7, <1>11 DEF Ep0Queued, DeviceQueued
<1>13. Accounted(e) /\ Sending(e)
  BY <1>4, <1>7, <1>11 DEF Accounted, Sending
<1>14. MaskKept(e) /\ Waiting(e)
  BY <1>4, <1>7, <1>11, <1>12, Flags DEF MaskKept, Waiting
<1>15. Resetting(e, h)
  BY <1>1, <1>11, <1>12 DEF Resetting
<1>16. Configured(e, h)
  <2>1. ~ c.attached => h.stage = "gone"
    BY DEF Good, Configured
  <2>2. QED
    BY <2>1, <1>1, <1>4, <1>7, <1>11, Flags DEF Configured
<1>17. SameRequest(e, h) /\ StatusSeen(e, h)
  BY <1>1, <1>11, Flags DEF SameRequest, StatusSeen
<1>18. QED
  BY <1>4, <1>7, <1>10, <1>11, <1>13, <1>14, <1>15, <1>16, <1>17 DEF Good

-----------------------------------------------------------------------------
(* The interrupts, the host and the cable.                                 *)

LEMMA EpInterruptGood ==
    ASSUME NEW c, NEW h, Good(c, h), c.UEIENX \cap c.UEINTX # {},
           NEW e, e = at90usb_ep_interrupt(c)
    PROVE  Good(e, h) /\ e.address = c.address
<1> DEFINE m == c.UEIENX \ c.UEINTX
           b == [c EXCEPT !.ueienx = c.UEIENX, !.UEIENX = m]
<1>1. /\ c.on /\ ~ c.eorst /\ ~ c.sync /\ ~ Ep0Queued(c) /\ ~ DeviceQueued(c)
      /\ c.UEIENX = c.ueienx
  BY DEF Good, MaskKept, Waiting, Resetting
<1>2. c.tasks = << >>
  BY <1>1 DEF Good, Device, Queues, Ep0Queued, DeviceQueued
<1>3. c \in Device /\ c.UEIENX \in SUBSET {RXSTP, TXIN} /\ m \in SUBSET {RXSTP, TXIN}
  BY DEF Good, Device
<1> HIDE DEF m
<1>4. /\ b \in Device /\ b.UEIENX = m /\ b.tasks = << >>
      /\ SameTransfer(c, b) /\ SameState(c, b)
  <2>1. b.ueienx = c.ueienx
    BY <1>1, <1>3 DEF Device
  <2>2. QED
    BY <2>1, <1>2, <1>3 DEF Device, SameTransfer, SameState
<1> HIDE DEF b
<1>5. e = [b EXCEPT !.tasks = <<"ep0">>]
  <2>1. e = QueueTask(b, "ep0")
    BY DEF at90usb_ep_interrupt, b, m
  <2>2. Append(<< >>, "ep0") = <<"ep0">> /\ DOMAIN << >> = {}
    OBVIOUS
  <2>3. e = [b EXCEPT !.tasks = IF \E i \in DOMAIN b.tasks : b.tasks[i] = "ep0"
                                THEN b.tasks ELSE Append(b.tasks, "ep0")]
    BY <2>1 DEF QueueTask
  <2>4. QED
    BY <2>2, <2>3, <1>4
<1>6. /\ e \in Device /\ e.UEIENX = m /\ e.tasks = <<"ep0">>
      /\ SameTransfer(c, e) /\ SameState(c, e)
  <2>1. <<"ep0">> \in Queues
    BY DEF Queues
  <2>2. QED
    BY <2>1, <1>4, <1>5 DEF Device, SameTransfer, SameState
<1>7. Ep0Queued(e) /\ ~ DeviceQueued(e)
  <2>1. <<"ep0">> # <<"device">> /\ <<"ep0">> # <<"ep0", "device">>
    OBVIOUS
  <2>2. QED
    BY <2>1, <1>6 DEF Ep0Queued, DeviceQueued
<1>8. Accounted(e) /\ Sending(e)
  BY <1>6 DEF Good, Accounted, Sending, SameTransfer, SameState
<1>9. MaskKept(e)
  <2>1. c.UEINTX \cap {RXSTP, TXIN} # {} /\ m \cap c.UEINTX = {} /\ m \subseteq c.ueienx
    BY <1>1, <1>3 DEF m
  <2>2. QED
    BY <2>1, <1>1, <1>6, <1>7 DEF Good, MaskKept, SameState
<1>10. Waiting(e) /\ Resetting(e, h) /\ Configured(e, h)
  BY <1>1, <1>6, <1>7 DEF Good, Waiting, Resetting, Configured, SameState
<1>11. SameRequest(e, h) /\ StatusSeen(e, h)
  BY <1>6 DEF Good, SameRequest, StatusSeen, SameState, SameTransfer
<1>12. QED
  BY <1>6, <1>8, <1>9, <1>10, <1>11 DEF Good, SameState

LEMMA BothTasks == Append(<<"ep0">>, "device") = <<"ep0", "device">>
<1> DEFINE S == {"ep0", "device"}
           s == Append(<<"ep0">>, "device")
           u == <<"ep0", "device">>
<1>1. <<"ep0">> \in Seq(S) /\ "device" \in S
  OBVIOUS
<1>2. s \in Seq(S) /\ Len(s) = 2 /\ s[1] = "ep0" /\ s[2] = "device"
  BY <1>1
<1>3. u \in Seq(S) /\ Len(u) = 2 /\ u[1] = "ep0" /\ u[2] = "device"
  OBVIOUS
<1> HIDE DEF S, s, u
<1>4. \A i \in 1 .. Len(s) : s[i] = u[i]
  BY <1>2, <1>3
<1>5. s = u
  BY <1>2, <1>3, <1>4, SeqEqual
<1>6. QED
  BY <1>5 DEF s, u

LEMMA GenericInterruptGood ==
    ASSUME NEW c, NEW h, Good(c, h), c.eorst, NEW e, e = at90usb_generic_interrupt(c)
    PROVE  Good(e, h) /\ e.address = c.address
<1> DEFINE b == [c EXCEPT !.udien = FALSE]
           q == IF \E i \in DOMAIN c.tasks : c.tasks[i] = "device"
                THEN c.tasks ELSE Append(c.tasks, "device")
<1>1. c \in Device
  BY DEF Good
<1>2. /\ q \in Queues
      /\ q \in {<<"ep0">>, <<"ep0", "device">>} <=> Ep0Queued(c)
  <2>1. /\ <<"ep0">> \notin {<< >>, <<"device">>} /\ <<"ep0", "device">> \notin {<< >>, <<"device">>}
        /\ <<"device">> \notin {<<"ep0">>, <<"ep0", "device">>}
        /\ << >> \notin {<<"ep0">>, <<"ep0", "device">>}
    OBVIOUS
  <2>2. CASE c.tasks = << >>
    <3>1. q = <<"device">>
      BY <2>2
    <3>2. QED
      BY <2>1, <2>2, <3>1 DEF Queues, Ep0Queued
  <2>3. CASE c.tasks = <<"device">>
    <3>1. q = <<"device">>
      BY <2>3
    <3>2. QED
      BY <2>1, <2>3, <3>1 DEF Queues, Ep0Queued
  <2>4. CASE c.tasks = <<"ep0">>
    <3>1. q = <<"ep0", "device">>
      <4>1. \A i \in DOMAIN <<"ep0">> : <<"ep0">>[i] # "device"
        OBVIOUS
      <4>2. QED
        BY <2>4, <4>1, BothTasks
    <3>2. QED
      BY <2>1, <2>4, <3>1 DEF Queues, Ep0Queued
  <2>5. CASE c.tasks = <<"ep0", "device">>
    <3>1. q = <<"ep0", "device">>
      BY <2>5
    <3>2. QED
      BY <2>1, <2>5, <3>1 DEF Queues, Ep0Queued
  <2>6. QED
    BY <1>1, <2>2, <2>3, <2>4, <2>5 DEF Device, Queues
<1>3. b \in Device /\ SameTransfer(c, b) /\ SameState(c, b) /\ b.UEIENX = c.UEIENX
      /\ b.tasks = c.tasks
  BY ZenonT(60), <1>1 DEF Device, SameTransfer, SameState
<1>4. e = [b EXCEPT !.tasks = q]
  <2> HIDE DEF b, q
  <2>1. e = QueueTask(b, "device")
    BY DEF at90usb_generic_interrupt, b
  <2>2. e = [b EXCEPT !.tasks = IF \E i \in DOMAIN b.tasks : b.tasks[i] = "device"
                                THEN b.tasks ELSE Append(b.tasks, "device")]
    BY <2>1 DEF QueueTask
  <2>3. QED
    BY <1>3, <2>2 DEF q
<1> HIDE DEF b, q
<1>5. /\ e \in Device /\ SameTransfer(c, e) /\ SameState(c, e) /\ e.UEIENX = c.UEIENX
      /\ e.tasks = q
  <2>1. e \in Device
    BY <1>2, <1>3, <1>4 DEF Device
  <2>2. SameTransfer(b, e) /\ SameState(b, e) /\ e.UEIENX = b.UEIENX /\ e.tasks = q
    BY ZenonT(60), <1>3, <1>4 DEF Device, SameTransfer, SameState
  <2>3. QED
    BY <1>3, <2>1, <2>2 DEF SameTransfer, SameState
<1>6. Ep0Queued(e) <=> Ep0Queued(c)
  BY <1>2, <1>5 DEF Ep0Queued
<1>7. Accounted(e) /\ Sending(e)
  BY <1>5 DEF Good, Accounted, Sending, SameTransfer, SameState
<1>8. ~ c.sync
  BY DEF Good, Waiting
<1>9. MaskKept(e) /\ Waiting(e)
  BY <1>5, <1>6, <1>8 DEF Good, MaskKept, Waiting, SameState
<1>10. Resetting(e, h) /\ Configured(e, h)
  BY <1>5 DEF Good, Resetting, Configured, SameState
<1>11. SameRequest(e, h) /\ StatusSeen(e, h)
  BY <1>5 DEF Good, SameRequest, StatusSeen, SameState, SameTransfer
<1>12. QED
  BY <1>5, <1>7, <1>9, <1>10, <1>11 DEF Good, SameState

LEMMA SyncDoneGood ==
    ASSUME NEW c, NEW h, Good(c, h), c.sync,
           NEW e, e = [udc_ep0_expect_status(c) EXCEPT !.sync = FALSE, !.UEIENX = c.ueienx]
    PROVE  Good(e, h) /\ e.address = c.address
<1> DEFINE b == [c EXCEPT !.ctrl_state = "STATUS_OUT"]
           a == [b EXCEPT !.sync = FALSE]
<1>1. /\ c \in Device /\ ~ c.active /\ c.tasks = << >> /\ ~ c.eorst /\ c.on
      /\ TXIN \notin c.ueienx /\ RXSTP \notin c.UEINTX
      /\ c.ueienx \in SUBSET {RXSTP, TXIN}
  BY DEF Good, Waiting, Device
<1>2. /\ b \in Device /\ SameState(c, b)
      /\ b.active = c.active /\ b.left = c.left /\ b.written = c.written
      /\ b.asserted = c.asserted /\ b.ctrl_state = "STATUS_OUT" /\ b.tasks = c.tasks
  BY <1>1 DEF Device, SameState, SameTransfer
<1>3. e = [b EXCEPT !.sync = FALSE, !.UEIENX = c.ueienx]
  BY <1>1 DEF udc_ep0_expect_status
<1> HIDE DEF b
<1>4. /\ a \in Device /\ SameTransfer(b, a) /\ a.tasks = b.tasks /\ ~ a.sync
      /\ a.on = b.on /\ a.eorst = b.eorst /\ a.attached = b.attached /\ a.setup = b.setup
      /\ a.address = b.address /\ a.UEINTX = b.UEINTX /\ a.ueienx = b.ueienx
      /\ a.stall = b.stall /\ a.setup_req = b.setup_req
      /\ a.config = b.config /\ a.enabled = b.enabled
  BY ZenonT(60), <1>2 DEF Device, SameTransfer
<1>5. e = [a EXCEPT !.UEIENX = c.ueienx]
  BY <1>3
<1> HIDE DEF a
<1>6. /\ e \in Device /\ SameTransfer(a, e) /\ SameState(a, e) /\ e.tasks = a.tasks
      /\ e.UEIENX = c.ueienx
  <2>1. e \in Device
    BY <1>1, <1>4, <1>5 DEF Device
  <2>2. SameTransfer(a, e) /\ SameState(a, e) /\ e.tasks = a.tasks /\ e.UEIENX = c.ueienx
    BY ZenonT(60), <1>4, <1>5 DEF Device, SameTransfer, SameState
  <2>3. QED
    BY <2>1, <2>2
<1>7. /\ e.on = c.on /\ e.eorst = c.eorst /\ e.attached = c.attached /\ e.setup = c.setup
      /\ e.address = c.address /\ e.UEINTX = c.UEINTX /\ e.ueienx = c.ueienx
      /\ e.stall = c.stall /\ e.setup_req = c.setup_req /\ ~ e.sync
      /\ e.config = c.config /\ e.enabled = c.enabled /\ e.tasks = << >>
      /\ e.active = c.active /\ e.left = c.left /\ e.written = c.written
      /\ e.asserted = c.asserted /\ e.ctrl_state = "STATUS_OUT"
  <2>1. /\ e.active = c.active /\ e.left = c.left /\ e.written = c.written
        /\ e.asserted = c.asserted /\ e.ctrl_state = "STATUS_OUT" /\ e.tasks = << >>
    BY ONLY <1>1, <1>2, <1>4, <1>6 DEF SameTransfer
  <2>2. /\ e.on = c.on /\ e.eorst = c.eorst /\ e.attached = c.attached /\ e.setup = c.setup
        /\ e.address = c.address /\ e.UEINTX = c.UEINTX /\ e.ueienx = c.ueienx
        /\ e.stall = c.stall /\ e.setup_req = c.setup_req /\ ~ e.sync
        /\ e.config = c.config /\ e.enabled = c.enabled
    BY ONLY <1>2, <1>4, <1>6 DEF SameState
  <2>3. QED
    BY <2>1, <2>2
<1>8. ~ Ep0Queued(e) /\ ~ DeviceQueued(e)
  <2>1. << >> # <<"ep0">> /\ << >> # <<"device">> /\ << >> # <<"ep0", "device">>
    OBVIOUS
  <2>2. QED
    BY <2>1, <1>7 DEF Ep0Queued, DeviceQueued
<1>9. Accounted(e) /\ Sending(e)
  BY <1>1, <1>7 DEF Good, Accounted, Sending
<1>10. MaskKept(e) /\ Waiting(e)
  BY <1>1, <1>6, <1>7, <1>8 DEF Good, MaskKept, Waiting
<1>11. Resetting(e, h) /\ Configured(e, h)
  BY <1>1, <1>7, <1>8 DEF Good, Resetting, Configured
<1>12. SameRequest(e, h) /\ StatusSeen(e, h)
  BY <1>1, <1>7 DEF Good, SameRequest, StatusSeen
<1>13. QED
  BY <1>6, <1>7, <1>9, <1>10, <1>11, <1>12 DEF Good

\* All but where the power comes from and whether the device is attached.
SameBut(c, e) ==
    /\ e.on = c.on /\ e.eorst = c.eorst /\ e.setup = c.setup
    /\ e.UEINTX = c.UEINTX /\ e.ueienx = c.ueienx /\ e.UEIENX = c.UEIENX
    /\ e.stall = c.stall /\ e.setup_req = c.setup_req /\ e.sync = c.sync
    /\ e.tasks = c.tasks

LEMMA GoneIsAHost == Gone \in Host /\ Gone.stage = "gone" /\ Gone.r = NoRequest
BY RequestFacts DEF Gone, Host, Requests

LEMMA AttachedGood ==
    ASSUME NEW c, NEW h, Good(c, h), NEW e \in Device, SameTransfer(c, e), SameBut(c, e),
           e.address = c.address, e.config = c.config, e.enabled = c.enabled,
           e.attached \/ ~ c.attached
    PROVE  Good(e, IF e.attached THEN h ELSE Gone)
<1>1. Accounted(e) /\ Sending(e) /\ MaskKept(e) /\ Waiting(e)
  BY DEF Good, Accounted, Sending, MaskKept, Waiting, SameTransfer, SameBut, Ep0Queued
<1>2. CASE e.attached
  <2>1. Resetting(e, h) /\ Configured(e, h)
    BY <1>2 DEF Good, Resetting, Configured, SameBut, DeviceQueued
  <2>2. SameRequest(e, h) /\ StatusSeen(e, h)
    BY DEF Good, SameRequest, StatusSeen, SameBut, SameTransfer
  <2>3. QED
    BY <1>1, <1>2, <2>1, <2>2 DEF Good
<1>3. CASE ~ e.attached
  <2>1. h.stage = "gone" /\ c.config = 0 /\ (RXSTP \in c.UEINTX => c.address = 0)
        /\ (c.enabled <=> c.config # 0)
    BY <1>3 DEF Good, Configured
  <2>2. Resetting(e, Gone)
    BY GoneIsAHost DEF Good, Resetting, SameBut, DeviceQueued
  <2>3. Configured(e, Gone) /\ SameRequest(e, Gone) /\ StatusSeen(e, Gone)
    BY <2>1, GoneIsAHost DEF Configured, SameRequest, StatusSeen, SameBut
  <2>4. QED
    BY <1>1, <1>3, <2>2, <2>3, GoneIsAHost DEF Good
<1>4. QED
  BY <1>2, <1>3

LEMMA DetachedGood ==
    ASSUME NEW c, NEW h, Good(c, h), NEW e \in Device, SameTransfer(c, e), SameBut(c, e),
           e.address = 0, e.config = 0, ~ e.enabled, ~ e.attached
    PROVE  Good(e, Gone)
<1>1. Accounted(e) /\ Sending(e) /\ MaskKept(e) /\ Waiting(e)
  BY DEF Good, Accounted, Sending, MaskKept, Waiting, SameTransfer, SameBut, Ep0Queued
<1>2. Resetting(e, Gone)
  BY GoneIsAHost DEF Good, Resetting, SameBut, DeviceQueued
<1>3. Configured(e, Gone) /\ SameRequest(e, Gone) /\ StatusSeen(e, Gone)
  BY GoneIsAHost DEF Configured, SameRequest, StatusSeen
<1>4. QED
  BY <1>1, <1>2, <1>3, GoneIsAHost DEF Good

LEMMA MaybeAttachGood ==
    ASSUME NEW c, NEW h, Good(c, h), NEW d \in Device, SameTransfer(c, d), SameBut(c, d),
           d.address = c.address, d.config = c.config, d.enabled = c.enabled,
           d.attached = c.attached, NEW e, e = at90usb_udc_maybe_attach(d)
    PROVE  Good(e, IF e.attached THEN h ELSE Gone) /\ e.address = c.address
<1>1. /\ e \in Device /\ SameTransfer(d, e) /\ SameBut(d, e) /\ e.address = d.address
      /\ e.config = d.config /\ e.enabled = d.enabled /\ (e.attached \/ ~ d.attached)
  <2>1. CASE d.HAS_POWER /\ d.AUTOATTACH
    <3>1. e = [d EXCEPT !.attached = TRUE, !.udien = TRUE]
      BY <2>1 DEF at90usb_udc_maybe_attach
    <3>2. e \in Device
      BY ZenonT(60), <3>1 DEF Device
    <3>3. QED
      BY <3>1, <3>2 DEF Device, SameTransfer, SameBut
  <2>2. CASE ~ (d.HAS_POWER /\ d.AUTOATTACH)
    <3>1. e = d
      BY <2>2 DEF at90usb_udc_maybe_attach
    <3>2. QED
      BY <3>1 DEF SameTransfer, SameBut
  <2>3. QED
    BY <2>1, <2>2
<1>2. /\ SameTransfer(c, e) /\ SameBut(c, e) /\ e.address = c.address
      /\ e.config = c.config /\ e.enabled = c.enabled /\ (e.attached \/ ~ c.attached)
  BY <1>1 DEF SameTransfer, SameBut
<1>3. QED
  BY <1>1, <1>2, AttachedGood

LEMMA DetachGood ==
    ASSUME NEW c, NEW h, Good(c, h), NEW d \in Device, SameTransfer(c, d), SameBut(c, d),
           d.config = c.config, d.enabled = c.enabled, d.attached = c.attached,
           NEW e, e = at90usb_udc_detach(d)
    PROVE  Good(e, Gone) /\ ~ e.attached /\ e.address = 0
<1> DEFINE a == [d EXCEPT !.address = 0]
<1>1. /\ a \in Device /\ SameTransfer(c, a) /\ SameBut(c, a) /\ a.address = 0
      /\ a.config = c.config /\ a.enabled = c.enabled /\ a.attached = c.attached
  <2>1. a \in Device
    BY DEF Device
  <2>2. QED
    BY <2>1 DEF Device, SameTransfer, SameBut
<1>2. /\ c.enabled <=> c.config # 0
      /\ ~ c.attached => c.config = 0
  BY DEF Good, Configured
<1>3. e = IF d.attached THEN [usb_dev_reset(a) EXCEPT !.attached = FALSE, !.udien = FALSE] ELSE a
  BY DEF at90usb_udc_detach
<1> HIDE DEF a
<1>4. CASE d.attached
  <2> DEFINE b == usb_dev_reset(a)
  <2>1. /\ b \in Device /\ b.config = 0 /\ ~ b.enabled /\ SameTransfer(a, b)
        /\ SameConnection(a, b) /\ b.address = a.address
        /\ b.UEINTX = a.UEINTX /\ b.UEIENX = a.UEIENX /\ b.ueienx = a.ueienx
        /\ b.stall = a.stall /\ b.setup_req = a.setup_req /\ b.sync = a.sync
    BY <1>1, <1>2, ResetDevice
  <2>2. SameTransfer(c, b) /\ SameBut(c, b) /\ b.address = 0
    BY <1>1, <2>1 DEF SameTransfer, SameBut, SameConnection
  <2> HIDE DEF b
  <2>3. e = [b EXCEPT !.attached = FALSE, !.udien = FALSE]
    BY <1>3, <1>4 DEF b
  <2>4. e \in Device
    <3> DEFINE g == [b EXCEPT !.attached = FALSE]
    <3>1. g \in Device
      BY ZenonT(60), <2>1 DEF Device
    <3>2. e = [g EXCEPT !.udien = FALSE]
      BY <2>1, <2>3 DEF Device
    <3> HIDE DEF g
    <3>3. QED
      BY ZenonT(60), <3>1, <3>2 DEF Device
  <2>5. e.address = b.address /\ e.config = b.config /\ e.enabled = b.enabled /\ ~ e.attached
        /\ SameTransfer(b, e) /\ SameBut(b, e)
    BY <2>1, <2>3 DEF Device, SameTransfer, SameBut
  <2>6. SameTransfer(c, e) /\ SameBut(c, e)
    BY <2>2, <2>5 DEF SameTransfer, SameBut
  <2>7. QED
    BY <2>1, <2>2, <2>4, <2>5, <2>6, DetachedGood
<1>5. CASE ~ d.attached
  <2>1. e = a
    BY <1>3, <1>5
  <2>2. a.config = 0 /\ ~ a.enabled /\ ~ a.attached
    BY <1>1, <1>2, <1>5
  <2>3. QED
    BY <1>1, <2>1, <2>2, DetachedGood
<1>6. QED
  BY <1>4, <1>5

LEMMA ConnectionGood ==
    ASSUME NEW c, NEW h, Good(c, h), NEW e, e \in {Vbus(c), udc_attach(c), udc_detach(c)}
    PROVE  /\ Good(e, IF e.attached THEN h ELSE Gone)
           /\ e.address \in {c.address, 0}
<1> DEFINE Flag(d) == /\ d \in Device /\ SameTransfer(c, d) /\ SameBut(c, d)
                      /\ d.address = c.address /\ d.config = c.config
                      /\ d.enabled = c.enabled /\ d.attached = c.attached
<1>1. c \in Device
  BY DEF Good
<1>2. /\ Flag([c EXCEPT !.HAS_POWER = FALSE]) /\ Flag([c EXCEPT !.HAS_POWER = TRUE])
      /\ Flag([c EXCEPT !.AUTOATTACH = TRUE]) /\ Flag([c EXCEPT !.AUTOATTACH = FALSE])
      /\ Flag(c)
  BY ZenonT(60), <1>1 DEF Device, SameTransfer, SameBut
<1>3. ASSUME NEW d, Flag(d), e = at90usb_udc_maybe_attach(d)
      PROVE  Good(e, IF e.attached THEN h ELSE Gone) /\ e.address \in {c.address, 0}
  BY <1>3, MaybeAttachGood
<1>4. ASSUME NEW d, Flag(d), e = at90usb_udc_detach(d)
      PROVE  Good(e, IF e.attached THEN h ELSE Gone) /\ e.address \in {c.address, 0}
  BY <1>4, DetachGood
<1> HIDE DEF Flag
<1>5. CASE e = c
  <2>1. c.attached \/ ~ c.attached
    OBVIOUS
  <2>2. SameTransfer(c, c) /\ SameBut(c, c)
    BY DEF SameTransfer, SameBut
  <2>3. QED
    BY <1>1, <1>5, <2>2, AttachedGood
<1>6. CASE e = Vbus(c)
  BY <1>2, <1>3, <1>4, <1>6 DEF Vbus
<1>7. CASE e = udc_attach(c)
  BY <1>2, <1>3, <1>5, <1>7 DEF udc_attach
<1>8. CASE e = udc_detach(c)
  BY <1>2, <1>4, <1>5, <1>8 DEF udc_detach
<1>9. QED
  BY <1>6, <1>7, <1>8

(***************************************************************************)
(* What the host does.                                                     *)
(***************************************************************************)

\* What the device keeps when the host acts on endpoint 0.
SameDevice(c, e) ==
    /\ e.on = c.on /\ e.eorst = c.eorst /\ e.attached = c.attached /\ e.tasks = c.tasks
    /\ e.address = c.address /\ e.ueienx = c.ueienx /\ e.UEIENX = c.UEIENX
    /\ e.setup_req = c.setup_req /\ e.sync = c.sync
    /\ e.config = c.config /\ e.enabled = c.enabled

LEMMA HostResetGood ==
    ASSUME IInv, HostReset
    PROVE  IInv' /\ dev'.address = 0
<1> DEFINE b == [dev EXCEPT !.eorst = TRUE, !.on = FALSE]
           a == [b EXCEPT !.UEINTX = {}, !.UEIENX = {}]
<1>1. /\ dev \in Device /\ dev.attached /\ ~ dev.sync /\ (dev.enabled <=> dev.config # 0)
      /\ Accounted(dev) /\ Sending(dev)
  BY DEF IInv, Good, HostReset, Configured
<1>2. /\ b \in Device /\ b.eorst /\ ~ b.on /\ SameTransfer(dev, b) /\ b.attached = dev.attached
      /\ b.setup_req = dev.setup_req /\ b.ueienx = dev.ueienx /\ b.sync = dev.sync
      /\ b.config = dev.config /\ b.enabled = dev.enabled
  BY ZenonT(60), <1>1 DEF Device, SameTransfer
<1>3. dev' = [a EXCEPT !.address = 0]
  BY DEF HostReset
<1> HIDE DEF b
<1>4. /\ a \in Device /\ a.UEINTX = {} /\ a.UEIENX = {} /\ a.eorst /\ ~ a.on
      /\ SameTransfer(dev, a) /\ a.attached = dev.attached
      /\ a.setup_req = dev.setup_req /\ a.ueienx = dev.ueienx /\ a.sync = dev.sync
      /\ a.config = dev.config /\ a.enabled = dev.enabled
  <2>1. {} \in SUBSET {RXSTP, RXOUT, TXIN} /\ {} \in SUBSET {RXSTP, TXIN}
    OBVIOUS
  <2>2. a \in Device
    BY ZenonT(60), <1>2, <2>1 DEF Device
  <2>3. QED
    BY <1>2, <2>2 DEF Device, SameTransfer
<1> HIDE DEF a
<1>5. /\ dev' \in Device /\ dev'.address = 0
      /\ dev'.UEINTX = {} /\ dev'.UEIENX = {} /\ dev'.eorst /\ ~ dev'.on
      /\ SameTransfer(dev, dev') /\ dev'.attached = dev.attached
      /\ dev'.setup_req = dev.setup_req /\ dev'.ueienx = dev.ueienx /\ dev'.sync = dev.sync
      /\ dev'.config = dev.config /\ dev'.enabled = dev.enabled
  <2>1. dev' \in Device
    BY <1>3, <1>4 DEF Device
  <2>2. QED
    BY <1>3, <1>4, <2>1 DEF Device, SameTransfer
<1>6. /\ host' \in Host /\ host'.stage = "idle" /\ host'.config = 0 /\ host'.r = NoRequest
  <2>1. host' = [Gone EXCEPT !.stage = "idle"]
    BY DEF HostReset
  <2>2. QED
    BY <2>1, RequestFacts DEF Gone, Host, Requests
<1>7. Accounted(dev') /\ Sending(dev')
  BY <1>1, <1>5 DEF Accounted, Sending, SameTransfer
<1>8. MaskKept(dev') /\ Waiting(dev')
  BY <1>1, <1>5 DEF MaskKept, Waiting
<1>9. Resetting(dev', host') /\ Configured(dev', host')
  BY <1>1, <1>5, <1>6 DEF Resetting, Configured
<1>10. SameRequest(dev', host') /\ StatusSeen(dev', host')
  BY <1>5, <1>6 DEF SameRequest, StatusSeen
<1>11. QED
  BY <1>5, <1>6, <1>7, <1>8, <1>9, <1>10 DEF IInv, Good

LEMMA HostSetupGood ==
    ASSUME IInv, DeviceKeepsUp, NEW r \in Request, HostSetup(r)
    PROVE  IInv' /\ dev'.address = dev.address
<1>1. /\ dev \in Device /\ host \in Host /\ dev.attached /\ dev.on /\ ~ dev.sync
      /\ host.stage \in {"idle", "data"} /\ RXSTP \notin dev.UEINTX
      /\ TXIN \in dev.UEIENX => r.req # "get_status"
  BY DEF IInv, Good, HostSetup, Addressed, OnTheWire, CaughtUp
<1>2. ~ Ep0Queued(dev)
  <2>1. \A i \in DOMAIN dev.tasks : dev.tasks[i] # "ep0"
    BY DEF HostSetup, CaughtUp
  <2>2. /\ 1 \in DOMAIN <<"ep0">> /\ <<"ep0">>[1] = "ep0"
        /\ 1 \in DOMAIN <<"ep0", "device">> /\ <<"ep0", "device">>[1] = "ep0"
    OBVIOUS
  <2>3. QED
    BY <2>1, <2>2 DEF Ep0Queued
<1>3. ~ dev.eorst /\ ~ DeviceQueued(dev) /\ dev.UEIENX = dev.ueienx
  BY <1>1, <1>2 DEF IInv, Good, Resetting, MaskKept
<1>4. /\ dev' \in Device /\ SameDevice(dev, dev') /\ SameTransfer(dev, dev')
      /\ dev'.UEINTX = {RXSTP} /\ ~ dev'.stall /\ dev'.setup = r
  <2>1. dev' = [dev EXCEPT !.UEINTX = {RXSTP}, !.stall = FALSE, !.setup = r]
    BY DEF HostSetup
  <2>2. {RXSTP} \in SUBSET {RXSTP, RXOUT, TXIN} /\ r \in Requests
    BY DEF Requests
  <2>3. dev' \in Device
    <3> DEFINE b == [dev EXCEPT !.UEINTX = {RXSTP}]
    <3>1. b \in Device
      BY <1>1, <2>2 DEF Device
    <3>2. dev' = [b EXCEPT !.stall = FALSE, !.setup = r]
      BY <1>1, <2>1 DEF Device
    <3> HIDE DEF b
    <3>3. QED
      BY ZenonT(60), <3>1, <3>2, <2>2 DEF Device
  <2>4. dev'.UEINTX = {RXSTP} /\ ~ dev'.stall /\ dev'.setup = r
    BY <1>1, <2>1 DEF Device
  <2>5. SameDevice(dev, dev') /\ SameTransfer(dev, dev')
    BY <1>1, <2>1 DEF Device, SameDevice, SameTransfer
  <2>6. QED
    BY <2>3, <2>4, <2>5
<1>5. /\ host' \in Host /\ host'.r = r /\ host'.config = host.config
      /\ host'.stage = IF r.req \in {"get_descriptor", "get_status"} THEN "data" ELSE "status"
  <2> DEFINE s == IF r.req \in {"get_descriptor", "get_status"} THEN "data" ELSE "status"
             g == (host.stage = "data")
  <2>1. host' = [host EXCEPT !.r = r, !.got = 0, !.gaveUp = g, !.stage = s]
    BY DEF HostSetup
  <2>2. s \in {"data", "status"} /\ g \in BOOLEAN /\ r \in Requests
    BY DEF Requests
  <2> HIDE DEF s, g
  <2>3. host' \in Host /\ host'.r = r /\ host'.config = host.config /\ host'.stage = s
    BY <1>1, <2>1, <2>2 DEF Host
  <2>4. QED
    BY <2>3 DEF s
<1>6. Accounted(dev') /\ Sending(dev')
  BY <1>4 DEF IInv, Good, Accounted, Sending, SameTransfer, SameDevice
<1>7. ~ Ep0Queued(dev') /\ ~ DeviceQueued(dev')
  BY <1>2, <1>3, <1>4 DEF Ep0Queued, DeviceQueued, SameDevice
<1>8. MaskKept(dev') /\ Waiting(dev')
  BY <1>1, <1>3, <1>4, <1>7, Flags DEF MaskKept, Waiting, SameDevice
<1>9. Resetting(dev', host')
  BY <1>3, <1>4, <1>7 DEF Resetting, SameDevice
<1>10. Configured(dev', host')
  <2>1. (dev.enabled <=> dev.config # 0) /\ dev.config = host.config
    BY <1>1, <1>3 DEF IInv, Good, Configured
  <2>2. QED
    BY <2>1, <1>1, <1>4, <1>5 DEF Configured, SameDevice
<1>11. SameRequest(dev', host') /\ StatusSeen(dev', host')
  BY <1>4, <1>5, Flags DEF SameRequest, StatusSeen
<1>12. QED
  BY <1>4, <1>5, <1>6, <1>8, <1>9, <1>10, <1>11 DEF IInv, Good, SameDevice

LEMMA HostInGood ==
    ASSUME IInv, HostIn
    PROVE  IInv' /\ dev'.address = dev.address
<1>1. /\ dev \in Device /\ host \in Host /\ dev.attached /\ dev.on /\ ~ dev.stall
      /\ host.stage \in {"data", "status"}
      /\ RXSTP \notin dev.UEINTX /\ TXIN \notin dev.UEINTX
  BY DEF IInv, Good, HostIn, Addressed, OnTheWire
<1>2. ~ dev.eorst /\ ~ DeviceQueued(dev) /\ ~ Ep0Queued(dev)
  BY <1>1 DEF IInv, Good, Resetting, MaskKept
<1>3. /\ dev' \in Device /\ SameDevice(dev, dev') /\ SameTransfer(dev, dev')
      /\ RXSTP \notin dev'.UEINTX /\ dev'.stall = dev.stall /\ dev'.setup = dev.setup
  <2> DEFINE x == dev.UEINTX \cup {TXIN}
  <2>1. dev' = [dev EXCEPT !.UEINTX = x]
    BY DEF HostIn
  <2>2. x \in SUBSET {RXSTP, RXOUT, TXIN} /\ RXSTP \notin x
    BY <1>1, Flags DEF Device
  <2> HIDE DEF x
  <2>3. dev' \in Device
    BY <1>1, <2>1, <2>2 DEF Device
  <2>4. dev'.UEINTX = x
    BY <1>1, <2>1 DEF Device
  <2>5. QED
    BY ZenonT(60), <1>1, <2>1, <2>2, <2>3, <2>4 DEF Device, SameDevice, SameTransfer
<1>4. /\ host' \in Host /\ host'.r = host.r
      /\ \/ host.stage = "data" /\ host'.stage \in {"data", "out"} /\ host'.config = host.config
         \/ /\ host.stage = "status" /\ host'.stage = "idle"
            /\ host'.address = IF host.r.req = "set_address" THEN host.r.value ELSE host.address
            /\ host'.config = IF host.r.req = "set_configuration" THEN host.r.value
                              ELSE host.config
  <2>1. CASE host.stage = "data"
    <3> DEFINE s == IF host.got + 1 = Packets(host.r) THEN "out" ELSE host.stage
    <3>1. host' = [host EXCEPT !.got = host.got + 1, !.stage = s]
      BY <2>1 DEF HostIn
    <3>2. s \in {"data", "out"} /\ host.got + 1 \in Nat
      BY <1>1, <2>1 DEF Host
    <3> HIDE DEF s
    <3>3. QED
      BY <1>1, <2>1, <3>1, <3>2 DEF Host
  <2>2. CASE host.stage = "status"
    <3> DEFINE a == IF host.r.req = "set_address" THEN host.r.value ELSE host.address
               g == IF host.r.req = "set_configuration" THEN host.r.value ELSE host.config
    <3>1. host' = [host EXCEPT !.stage = "idle", !.address = a, !.config = g]
      BY <2>2 DEF HostIn
    <3>2. a \in Nat /\ g \in Nat
      BY <1>1, RequestFacts DEF Host
    <3> HIDE DEF a, g
    <3>3. /\ host' \in Host /\ host'.r = host.r /\ host'.stage = "idle"
          /\ host'.address = a /\ host'.config = g
      BY <1>1, <3>1, <3>2 DEF Host
    <3>4. QED
      BY <2>2, <3>3 DEF a, g
  <2>3. QED
    BY <1>1, <2>1, <2>2
<1>5. Accounted(dev') /\ Sending(dev')
  BY <1>3 DEF IInv, Good, Accounted, Sending, SameTransfer, SameDevice
<1>6. ~ Ep0Queued(dev') /\ ~ DeviceQueued(dev')
  BY <1>2, <1>3 DEF Ep0Queued, DeviceQueued, SameDevice
<1>7. MaskKept(dev') /\ Waiting(dev')
  <2>1. MaskKept(dev')
    BY <1>1, <1>2, <1>3, <1>6 DEF IInv, Good, MaskKept, SameDevice
  <2>2. Waiting(dev')
    BY <1>1, <1>2, <1>3 DEF IInv, Good, Waiting, SameDevice, SameTransfer
  <2>3. QED
    BY <2>1, <2>2
<1>8. Resetting(dev', host')
  BY <1>2, <1>3, <1>6 DEF Resetting, SameDevice
<1>9. Configured(dev', host')
  <2>1. /\ dev.enabled <=> dev.config # 0
        /\ dev.config = IF host.stage = "status" /\ host.r.req = "set_configuration"
                        THEN host.r.value ELSE host.config
    BY <1>1, <1>2 DEF IInv, Good, Configured
  <2>2. host'.stage \in {"data", "out", "idle"} /\ dev.config = host'.config
    BY <1>4, <2>1
  <2>3. QED
    BY <2>1, <2>2, <1>1, <1>3 DEF Configured, SameDevice
<1>10. SameRequest(dev', host')
  BY <1>1, <1>3, <1>4 DEF IInv, Good, SameRequest, SameDevice, SameTransfer
<1>11. StatusSeen(dev', host')
  <2>1. /\ host.stage = "status" => dev.setup_req = host.r
        /\ host.stage = "data" => dev.ctrl_state # "STATUS_IN" \/ TXIN \notin dev.ueienx
    BY <1>1 DEF IInv, Good, SameRequest
  <2>2. QED
    BY <2>1, <1>3, <1>4 DEF StatusSeen, SameDevice, SameTransfer
<1>12. QED
  BY <1>3, <1>4, <1>5, <1>7, <1>8, <1>9, <1>10, <1>11 DEF IInv, Good, SameDevice

LEMMA HostStatusOutGood ==
    ASSUME IInv, HostStatusOut
    PROVE  IInv' /\ dev'.address = dev.address
<1>1. /\ dev \in Device /\ host \in Host /\ dev.attached /\ dev.on
      /\ host.stage = "out" /\ RXSTP \notin dev.UEINTX
  BY DEF IInv, Good, HostStatusOut, Addressed, OnTheWire
<1>2. /\ dev' \in Device /\ SameDevice(dev, dev') /\ SameTransfer(dev, dev')
      /\ dev'.UEINTX = dev.UEINTX \cup {RXOUT}
  <2> DEFINE x == dev.UEINTX \cup {RXOUT}
  <2>1. dev' = [dev EXCEPT !.UEINTX = x]
    BY DEF HostStatusOut
  <2>2. x \in SUBSET {RXSTP, RXOUT, TXIN}
    BY <1>1 DEF Device
  <2> HIDE DEF x
  <2>3. dev' \in Device
    BY <1>1, <2>1, <2>2 DEF Device
  <2>4. dev'.UEINTX = x
    BY <1>1, <2>1 DEF Device
  <2>5. SameDevice(dev, dev') /\ SameTransfer(dev, dev')
    BY <1>1, <2>1 DEF Device, SameDevice, SameTransfer
  <2>6. QED
    BY <2>3, <2>4, <2>5 DEF x
<1>3. host' \in Host /\ host'.stage = "idle" /\ host'.config = host.config
  BY <1>1 DEF HostStatusOut, Host
<1>4. Accounted(dev') /\ Sending(dev')
  BY <1>2 DEF IInv, Good, Accounted, Sending, SameTransfer, SameDevice
<1>5. (Ep0Queued(dev') <=> Ep0Queued(dev)) /\ (DeviceQueued(dev') <=> DeviceQueued(dev))
  BY <1>2 DEF Ep0Queued, DeviceQueued, SameDevice
<1>6. ~ dev.eorst /\ ~ DeviceQueued(dev)
  BY <1>1 DEF IInv, Good, Resetting
<1>7. /\ RXSTP \notin dev'.UEINTX /\ dev.UEINTX \subseteq dev'.UEINTX
      /\ dev.UEIENX \cap dev'.UEINTX = dev.UEIENX \cap dev.UEINTX
      /\ TXIN \in dev'.UEINTX <=> TXIN \in dev.UEINTX
  BY <1>1, <1>2, Flags DEF Device
<1>8. MaskKept(dev')
  BY <1>1, <1>2, <1>5, <1>7 DEF IInv, Good, MaskKept, SameDevice
<1>9. Waiting(dev')
  BY <1>2, <1>7 DEF IInv, Good, Waiting, SameTransfer, SameDevice
<1>10. Resetting(dev', host')
  BY <1>2, <1>5, <1>6 DEF Resetting, SameDevice
<1>11. Configured(dev', host')
  <2>1. (dev.enabled <=> dev.config # 0) /\ dev.config = host.config
    BY <1>1, <1>6 DEF IInv, Good, Configured
  <2>2. QED
    BY <2>1, <1>1, <1>2, <1>3 DEF Configured, SameDevice
<1>12. SameRequest(dev', host')
  BY <1>3, <1>7 DEF SameRequest
<1>13. StatusSeen(dev', host')
  <2>1. ~ (dev.ctrl_state = "STATUS_IN" /\ TXIN \in dev.ueienx /\ TXIN \in dev.UEINTX)
    BY <1>1 DEF IInv, Good, StatusSeen
  <2>2. QED
    BY <2>1, <1>2, <1>7 DEF StatusSeen, SameDevice, SameTransfer
<1>14. QED
  BY <1>2, <1>3, <1>4, <1>8, <1>9, <1>10, <1>11, <1>12, <1>13 DEF IInv, Good, SameDevice

LEMMA HostStalledGood ==
    ASSUME IInv, HostStalled
    PROVE  IInv' /\ dev'.address = dev.address
<1>1. /\ dev' = dev /\ dev \in Device /\ host \in Host /\ dev.attached /\ dev.on /\ dev.stall
      /\ host.stage \in {"data", "status"} /\ RXSTP \notin dev.UEINTX
  BY DEF IInv, Good, HostStalled, Addressed, OnTheWire
<1>2. host' \in Host /\ host'.stage = "idle" /\ host'.config = host.config
  BY <1>1 DEF HostStalled, Host
<1>3. Resetting(dev, host')
  BY <1>1, <1>2 DEF IInv, Good, Resetting
<1>4. Configured(dev, host')
  <2>1. /\ dev.enabled <=> dev.config # 0
        /\ ~ dev.eorst => dev.config = host.config
    BY <1>1 DEF IInv, Good, Configured
  <2>2. QED
    BY <2>1, <1>1, <1>2 DEF Configured
<1>5. SameRequest(dev, host')
  BY <1>1, <1>2 DEF SameRequest
<1>6. StatusSeen(dev, host')
  BY <1>1 DEF IInv, Good, StatusSeen
<1>7. QED
  BY <1>1, <1>2, <1>3, <1>4, <1>5, <1>6 DEF IInv, Good

-----------------------------------------------------------------------------
(* The theorems.                                                           *)

LEMMA InitGood == Init => IInv
<1> SUFFICES ASSUME Init PROVE IInv
  OBVIOUS
<1>1. dev \in Device
  <2>1. NoRequest \in Requests /\ << >> \in Queues
    BY RequestFacts DEF Queues
  <2>2. {} \in SUBSET {RXSTP, RXOUT, TXIN} /\ {} \in SUBSET {RXSTP, TXIN}
    OBVIOUS
  <2>3. QED
    BY <2>1, <2>2 DEF Init, Device
<1>2. /\ dev.UEINTX = {} /\ dev.UEIENX = {} /\ ~ dev.on /\ dev.ueienx = {}
      /\ dev.ctrl_state = "SETUP" /\ ~ dev.active /\ dev.left = 0 /\ dev.written = 0
      /\ ~ dev.sync /\ dev.config = 0 /\ ~ dev.enabled /\ ~ dev.attached /\ ~ dev.eorst
      /\ dev.tasks = << >> /\ ~ dev.asserted
  BY DEF Init
<1>3. host \in Host /\ host.stage = "gone"
  BY GoneIsAHost DEF Init
<1>4. ~ Ep0Queued(dev) /\ ~ DeviceQueued(dev)
  <2>1. << >> # <<"ep0">> /\ << >> # <<"device">> /\ << >> # <<"ep0", "device">>
    OBVIOUS
  <2>2. QED
    BY <2>1, <1>2 DEF Ep0Queued, DeviceQueued
<1>5. Accounted(dev) /\ Sending(dev) /\ MaskKept(dev) /\ Waiting(dev)
  BY <1>2, <1>4 DEF Accounted, Sending, MaskKept, Waiting
<1>6. Resetting(dev, host) /\ Configured(dev, host)
  BY <1>2, <1>3, <1>4 DEF Resetting, Configured
<1>7. SameRequest(dev, host) /\ StatusSeen(dev, host)
  BY <1>2, <1>3 DEF SameRequest, StatusSeen
<1>8. QED
  BY <1>1, <1>3, <1>5, <1>6, <1>7 DEF IInv, Good

\* What a step does to the address.
AddressStep ==
    dev'.address # dev.address /\ dev'.address # 0 /\ host.stage # "gone"
        => host.stage = "idle" /\ dev'.address = host.address

LEMMA RunTaskGood ==
    ASSUME IInv, RunTask
    PROVE  IInv' /\ AddressStep
<1>1. host' = host /\ ~ dev.sync /\ dev.tasks # << >>
  BY DEF RunTask
<1>2. CASE Ep0Queued(dev)
  <2>1. Head(<<"ep0">>) = "ep0" /\ Head(<<"ep0", "device">>) = "ep0"
    OBVIOUS
  <2>2. Head(dev.tasks) = "ep0"
    BY <1>2, <2>1 DEF Ep0Queued
  <2>3. dev' = at90usb_udc_ep0_worker([dev EXCEPT !.tasks = Tail(@)])
    BY <2>2 DEF RunTask
  <2>4. /\ Good(dev', host)
        /\ dev'.address # dev.address /\ host.stage # "gone"
             => host.stage = "idle" /\ dev'.address = host.address
    BY <1>1, <1>2, <2>3, Ep0WorkerGood DEF IInv
  <2>5. QED
    BY <1>1, <2>4 DEF IInv, AddressStep
<1>3. CASE ~ Ep0Queued(dev)
  <2>1. dev.tasks = <<"device">>
    BY <1>1, <1>3 DEF IInv, Good, Device, Queues, Ep0Queued
  <2>2. Head(<<"device">>) # "ep0"
    OBVIOUS
  <2>3. dev' = at90usb_udc_device_worker([dev EXCEPT !.tasks = Tail(@)])
    BY <2>1, <2>2 DEF RunTask
  <2>4. Good(dev', host) /\ dev'.address = 0
    BY <1>1, <2>1, <2>3, DeviceWorkerGood DEF IInv
  <2>5. QED
    BY <1>1, <2>4 DEF IInv, AddressStep
<1>4. QED
  BY <1>2, <1>3

LEMMA Step ==
    ASSUME DeviceKeepsUp, IInv, [Next]_vars
    PROVE  IInv' /\ AddressStep
<1>1. CASE EpInterrupt
  <2>1. host' = host /\ dev.UEIENX \cap dev.UEINTX # {} /\ dev' = at90usb_ep_interrupt(dev)
    BY <1>1 DEF EpInterrupt
  <2>2. Good(dev', host) /\ dev'.address = dev.address
    BY <2>1, EpInterruptGood DEF IInv
  <2>3. QED
    BY <2>1, <2>2 DEF IInv, AddressStep
<1>2. CASE GenericInterrupt
  <2>1. host' = host /\ dev.eorst /\ dev' = at90usb_generic_interrupt(dev)
    BY <1>2 DEF GenericInterrupt
  <2>2. Good(dev', host) /\ dev'.address = dev.address
    BY <2>1, GenericInterruptGood DEF IInv
  <2>3. QED
    BY <2>1, <2>2 DEF IInv, AddressStep
<1>3. CASE RunTask
  BY <1>3, RunTaskGood
<1>4. CASE SyncDone
  <2>1. /\ host' = host /\ dev.sync
        /\ dev' = [udc_ep0_expect_status(dev) EXCEPT !.sync = FALSE, !.UEIENX = dev.ueienx]
    BY <1>4 DEF SyncDone
  <2>2. Good(dev', host) /\ dev'.address = dev.address
    BY <2>1, SyncDoneGood DEF IInv
  <2>3. QED
    BY <2>1, <2>2 DEF IInv, AddressStep
<1>5. CASE Connection
  <2>1. /\ dev' \in {Vbus(dev), udc_attach(dev), udc_detach(dev)}
        /\ host' = IF dev'.attached THEN host ELSE Gone
    BY <1>5 DEF Connection
  <2>2. /\ Good(dev', IF dev'.attached THEN host ELSE Gone)
        /\ dev'.address \in {dev.address, 0}
    BY <2>1, ConnectionGood DEF IInv
  <2>3. QED
    BY <2>1, <2>2 DEF IInv, AddressStep
<1>6. CASE HostReset
  BY <1>6, HostResetGood DEF AddressStep
<1>7. CASE HostGoesOn
  BY <1>7, HostInGood, HostStatusOutGood, HostStalledGood DEF HostGoesOn, AddressStep
<1>8. ASSUME NEW r \in Request, HostSetup(r) PROVE IInv' /\ AddressStep
  BY <1>8, HostSetupGood DEF AddressStep
<1>9. CASE UNCHANGED vars
  BY <1>9 DEF vars, IInv, AddressStep
<1>10. QED
  BY <1>1, <1>2, <1>3, <1>4, <1>5, <1>6, <1>7, <1>8, <1>9 DEF Next

(***************************************************************************)
(* Type correctness and the inductive invariant.  The assumption is the    *)
(* first of the two runs': the host sends a SETUP packet when the task of  *)
(* endpoint 0 has handled what came before.                                *)
(***************************************************************************)
THEOREM DeviceAndHostAgree ==
    ASSUME DeviceKeepsUp
    PROVE  Spec => [](TypeOK /\ IInv)
<1>1. IInv => TypeOK
  BY DEF IInv, Good, TypeOK
<1>2. IInv /\ [Next]_vars => IInv'
  BY Step
<1>3. QED
  BY <1>1, <1>2, InitGood, PTL DEF Spec

\* No assertion of the driver fails: no request is left on endpoint 0 when a SETUP packet
\* is handled, udc_ep0_submit_in_req, udc_ep0_send_status, udc_ep0_write_sync and
\* udc_ep0_expect_status find none, and the bank is free when they need it.
THEOREM SetupCompletesRequests ==
    ASSUME DeviceKeepsUp
    PROVE  Spec => []AllCompletedBySetup
<1>1. IInv => AllCompletedBySetup
  BY DEF IInv, Good, Accounted, AllCompletedBySetup
<1>2. IInv /\ [Next]_vars => IInv'
  BY Step
<1>3. QED
  BY <1>1, <1>2, InitGood, PTL DEF Spec

\* Between transfers usb_dev_set_configuration has left the device in the configuration
\* that the host put it in, through resets, detaching and transfers given up.
THEOREM HostAndDeviceConfigured ==
    ASSUME DeviceKeepsUp
    PROVE  Spec => []ConfigurationAgreed
<1>1. IInv => ConfigurationAgreed
  BY DEF IInv, Good, Configured, ConfigurationAgreed
<1>2. IInv /\ [Next]_vars => IInv'
  BY Step
<1>3. QED
  BY <1>1, <1>2, InitGood, PTL DEF Spec

\* at90usb_udc_ep0_worker sets a new address when the host has had the status of
\* SET_ADDRESS, and to the address that the host uses from then on.
THEOREM AddressChangesAfterStatus ==
    ASSUME DeviceKeepsUp
    PROVE  Spec => AddressAgreed
<1>1. IInv /\ [Next]_vars => IInv'
  BY Step
<1>2. IInv /\ [Next]_vars => [AddressStep]_vars
  BY Step
<1>3. QED
  BY <1>1, <1>2, InitGood, PTL DEF Spec, AddressAgreed, AddressStep

-----------------------------------------------------------------------------
(* The states of the mass storage function m and of its host h.            *)

UsbRequest == [kind : {"cbw", "csw", "data", "short"}, data : Seq(Nat)]

BlockReq == [st : {"idle", "transfer", "sleep", "page"}, op : {"read", "write", "verify"},
             lba : Nat, remaining : Nat, pos : Nat, list : Seq(Nat), current : Seq(Nat)]

Status == [tag : 0 .. 2, residue : Nat, status : {"pass", "fail", "phase"}]

MscState ==
    [inq : Seq(UsbRequest), outq : Seq(UsbRequest), halted : SUBSET {"in", "out"},
     wedged : BOOLEAN, cbw : Command \cup {NoCommand}, tag : 0 .. 2,
     csw : Status,
     total : Nat, queued : Nat, blk_pending : Nat, usb_pending : Nat,
     queue_locked : BOOLEAN, xfer_in_progress : BOOLEAN, not_ready : BOOLEAN,
     busy_cb : BOOLEAN, told : BOOLEAN, breq : BlockReq, free : Nat, enabled : BOOLEAN]

HostState ==
    [phase : {"idle", "data", "status", "recover"}, cmd : Command \cup {NoCommand}, tag : 0 .. 2,
     moved : Nat, got : Seq(Nat), stored : SUBSET (Nat \X Nat)]

-----------------------------------------------------------------------------
(* No blocks are moved, and all buffers are in the pool.                   *)
Quiet(m) == m.breq = NoBlockRequest /\ m.free = NrLargeObjs /\ m.usb_pending = 0

EndpointOf(c) == IF c.in THEN "in" ELSE "out"

\* The host may send a command, or the device has been disabled.
AtRest(m, h) ==
    /\ h.phase = "idle" /\ Quiet(m) /\ m.inq = << >> /\ m.halted = {} /\ ~ m.wedged
    /\ m.outq = IF m.enabled THEN <<Cbw>> ELSE << >>

Recovering(m, h) ==
    /\ h.phase = "recover" /\ m.enabled /\ Quiet(m) /\ m.inq = << >> /\ m.outq \in {<< >>, <<Cbw>>}

\* The n blocks from a on, in order.
Run(a, n) == [i \in 1 .. n |-> a + i - 1]

\* What the status says is true.
Passed(m, h) ==
    m.csw.status = "pass" =>
        /\ ~ LongAnswer(h.cmd) => m.csw.residue + h.moved = h.cmd.len
        /\ h.cmd.op = "read" => h.got = Run(h.cmd.lba, h.cmd.count)
        /\ h.cmd.op = "write" =>
             h.stored = {<<h.cmd.lba + i - 1, i>> : i \in 1 .. h.cmd.count}

\* The status is on the IN endpoint, and the host gets to it.
Ending(m, h) ==
    /\ h.phase \in {"data", "status"} /\ Quiet(m) /\ m.inq = <<Csw>> /\ m.outq = << >>
    /\ h.phase = "data" => m.halted = {EndpointOf(h.cmd)}
    /\ h.phase = "status" => m.halted \subseteq {"in"}
    /\ Passed(m, h)

\* The status follows at once when there is no residue.
StatusBehind(m) == IF m.csw.residue = 0 THEN <<Csw>> ELSE << >>

\* An answer of n bytes is on its way.
Answering(m, h) ==
    /\ h.phase = "data" /\ h.cmd.in /\ Quiet(m) /\ m.outq = << >> /\ m.halted = {}
    /\ h.moved = 0 /\ h.cmd.op \notin {"read", "write"}
    /\ \E n \in 1 .. h.cmd.len :
        /\ m.inq = <<Answer(n)>> \o StatusBehind(m)
        /\ ~ LongAnswer(h.cmd) => m.csw.residue + n = h.cmd.len

-----------------------------------------------------------------------------
(* Blocks are moved.                                                       *)

\* Blocks the block request has taken buffers for.
Taken(m, c) == c.count - m.breq.remaining + m.breq.pos

\* The block request is where it should be in its page.
Paged(b) ==
    /\ b.st # "idle" /\ b.pos <= EndOf(b) /\ (b.st = "page" <=> b.pos = EndOf(b))
    /\ b.st = "sleep" => b.list = << >> /\ b.current = << >>
    /\ b.st = "page" => b.current # << >>

Active(m, c) ==
    /\ m.xfer_in_progress
    /\ Paged(m.breq) /\ m.breq.op = c.op
    /\ m.total = c.count /\ m.breq.remaining \in 1 .. c.count
    /\ m.breq.lba = c.lba + c.count - m.breq.remaining
    /\ m.queued <= c.count

AllData(q) == \A i \in DOMAIN q : q[i].kind = "data" /\ q[i].data # << >> /\ Len(q[i].data) <= NrLargeObjs

\* Requests q carry the blocks from a on, up to x.
Carries(q, a, x) ==
    /\ \A i \in DOMAIN q : q[i].data = Run(q[i].data[1], Len(q[i].data))
    /\ \A i \in DOMAIN q : i + 1 \in DOMAIN q => q[i + 1].data[1] = q[i].data[1] + Len(q[i].data)
    /\ IF q = << >> THEN a = x
       ELSE q[1].data[1] = a /\ q[Len(q)].data[1] + Len(q[Len(q)].data) = x

\* The books of a read, of which the requests q are on the endpoint.
ReadBooks(m, h, q) ==
    /\ h.phase = "data" /\ h.cmd.op = "read" /\ h.cmd.in /\ h.cmd.count <= h.cmd.len
    /\ m.halted = {} /\ m.outq = << >> /\ AllData(q)
    /\ m.total = h.cmd.count /\ m.usb_pending = InFlight(q)
    /\ m.csw.residue = h.cmd.len - h.cmd.count
    /\ m.csw.status = "pass" /\ h.moved < h.cmd.count
    /\ h.got = Run(h.cmd.lba, h.moved)
    /\ m.free + Blocks(q) + Len(m.breq.list) + Len(m.breq.current) = NrLargeObjs

\* A read in progress: blocks are taken to the endpoint in order.
Reading(m, h) ==
    LET c == h.cmd  n == h.moved + Blocks(m.inq)
    IN  /\ ReadBooks(m, h, m.inq) /\ Active(m, c)
        /\ Carries(m.inq, c.lba + h.moved, c.lba + n)
        /\ m.breq.current = Run(c.lba + n, Len(m.breq.current))
        /\ n + Len(m.breq.current) = Taken(m, c)
        /\ Taken(m, c) + Len(m.breq.list) = m.queued
        /\ m.blk_pending = Len(m.breq.list) + Len(m.breq.current)

\* All blocks are read, and wait for the host.
Draining(m, h) ==
    LET c == h.cmd
    IN  /\ m.breq = NoBlockRequest /\ m.queued = m.total
        /\ \E q \in Seq(UsbRequest) :
            /\ q # << >> /\ m.inq = q \o StatusBehind(m)
            /\ ReadBooks(m, h, q) /\ Carries(q, c.lba + h.moved, c.lba + c.count)
            /\ h.moved + Blocks(q) = c.count

\* A read that moves less than the host asks for does so in one request.
OneRequest(m, h) ==
    h.cmd.count < h.cmd.len =>
        /\ h.moved = 0 /\ m.queued = m.total
        /\ m.breq.st # "idle" =>
             /\ m.breq.remaining = h.cmd.count /\ m.inq = << >> /\ EndOf(m.breq) = h.cmd.count
             /\ m.breq.st = "page" \/ (m.breq.pos = 0 /\ m.breq.st = "transfer")
        /\ m.breq.st = "idle" => Len(m.inq) = 1

Writing(m, h) ==
    LET c == h.cmd
    IN  /\ h.phase = (IF h.moved = c.len THEN "status" ELSE "data")
        /\ c.op = "write" /\ ~ c.in /\ c.count <= c.len
        /\ m.halted = {} /\ m.inq = << >> /\ AllData(m.outq) /\ Active(m, c)
        /\ m.usb_pending = InFlight(m.outq) /\ m.csw.residue = c.len - c.count
        /\ m.csw.status = "pass"
        /\ m.free + Blocks(m.outq) + Len(m.breq.list) + Len(m.breq.current) = NrLargeObjs
        /\ Taken(m, c) + Len(m.breq.list) = h.moved
        /\ h.moved + Blocks(m.outq) = m.queued
        /\ m.breq.list = Run(Taken(m, c) + 1, Len(m.breq.list))
        /\ h.stored = {<<c.lba + i - 1, i>> : i \in 1 .. Taken(m, c)}

Verifying(m, h) ==
    /\ h.phase = (IF h.cmd.len = 0 THEN "status" ELSE "data")
    /\ h.cmd.op = "verify" /\ ~ h.cmd.in
    /\ m.halted = {} /\ m.inq = << >> /\ m.outq = << >> /\ Active(m, h.cmd)
    /\ h.moved = 0 /\ m.usb_pending = 0 /\ m.csw.residue = h.cmd.len
    /\ Taken(m, h.cmd) + Len(m.breq.list) = m.queued
    /\ m.csw.status = "pass"
    /\ m.free + Len(m.breq.list) + Len(m.breq.current) = NrLargeObjs

\* The device serves the host's command.
Served(m, h) ==
    /\ m.enabled /\ ~ m.wedged
    /\ h.cmd \in Command /\ m.cbw = h.cmd /\ m.tag = h.tag /\ m.csw.tag = h.tag

Serving(m, h) ==
    /\ Served(m, h)
    /\ \/ Ending(m, h) \/ Answering(m, h) \/ Writing(m, h) \/ Verifying(m, h)
       \/ (Reading(m, h) \/ Draining(m, h)) /\ OneRequest(m, h)

\* What holds at rest and throughout a command.
Always(m, h) ==
    /\ m \in MscState /\ h \in HostState
    /\ ~ m.queue_locked
    /\ m.told => m.not_ready /\ m.breq = NoBlockRequest

Inv(m, h) == Always(m, h) /\ (AtRest(m, h) \/ Recovering(m, h) \/ Serving(m, h))

MscInv == Inv(msc, initiator)

-----------------------------------------------------------------------------
(* The constants, and sets of positions.                                   *)

LEMMA Constants ==
    /\ NrLargeObjs \in Nat /\ NrLargeObjs >= 2 /\ PageBlocks \in {1, 2}
    /\ MSC_MAX_NR_BUFFERS \in Nat \ {0} /\ MSC_MAX_NR_BUFFERS <= NrLargeObjs
BY MassStorageAssumption DEF MSC_MAX_NR_BUFFERS

LEMMA IntervalSize ==
    ASSUME NEW n \in Nat
    PROVE  IsFiniteSet(1 .. n) /\ Cardinality(1 .. n) = n
<1>1. n \in Int /\ 1 \in Int
  OBVIOUS
<1>2. IsFiniteSet(1 .. n) /\ Cardinality(1 .. n) = IF 1 > n THEN 0 ELSE n - 1 + 1
  BY ONLY <1>1, FS_Interval
<1>3. QED
  BY <1>2

-----------------------------------------------------------------------------
(* Counting the requests of a queue, and their blocks.                     *)

\* A request of the queue with no more blocks than there are buffers.
Fits(r) == r \in UsbRequest /\ Len(r.data) <= NrLargeObjs

LEMMA CountsAreNumbers ==
    ASSUME NEW q \in Seq(UsbRequest)
    PROVE  /\ IsFiniteSet(DataRequests(q)) /\ IsFiniteSet(Slots(q))
           /\ InFlight(q) \in Nat /\ Blocks(q) \in Nat
<1>1. IsFiniteSet(1 .. Len(q)) /\ DataRequests(q) \subseteq 1 .. Len(q)
  BY IntervalSize DEF DataRequests
<1>2. IsFiniteSet(DataRequests(q))
  BY <1>1, FS_Subset
<1>3. IsFiniteSet(1 .. NrLargeObjs)
  BY IntervalSize, Constants
<1>4. IsFiniteSet(DataRequests(q) \X (1 .. NrLargeObjs))
  BY <1>2, <1>3, FS_Product
<1>5. Slots(q) \in SUBSET (DataRequests(q) \X (1 .. NrLargeObjs))
  BY DEF Slots
<1>6. IsFiniteSet(Slots(q))
  BY <1>4, <1>5, FS_Subset
<1>7. QED
  BY <1>2, <1>6, FS_CardinalityType DEF InFlight, Blocks

LEMMA EmptyQueue == InFlight(<< >>) = 0 /\ Blocks(<< >>) = 0
<1>1. DataRequests(<< >>) = {}
  BY DEF DataRequests
<1>2. Slots(<< >>) = {}
  BY <1>1 DEF Slots
<1>3. QED
  BY <1>1, <1>2, FS_EmptySet DEF InFlight, Blocks

LEMMA QueueWithOne ==
    ASSUME NEW q \in Seq(UsbRequest), NEW r \in UsbRequest, Fits(r)
    PROVE  /\ Append(q, r) \in Seq(UsbRequest)
           /\ InFlight(Append(q, r)) = InFlight(q) + (IF r.kind = "data" THEN 1 ELSE 0)
           /\ Blocks(Append(q, r)) = Blocks(q) + (IF r.kind = "data" THEN Len(r.data) ELSE 0)
<1> DEFINE p == Append(q, r)  n == Len(q)
<1>1. /\ p \in Seq(UsbRequest) /\ n \in Nat /\ DOMAIN p = 1 .. n + 1 /\ DOMAIN q = 1 .. n
      /\ \A i \in 1 .. n : p[i] = q[i]
      /\ p[n + 1] = r
  OBVIOUS
<1> HIDE DEF p
<1>2. n + 1 \notin 1 .. n /\ 1 .. n + 1 = (1 .. n) \cup {n + 1}
  BY <1>1
<1> HIDE DEF n
<1>3. CASE r.kind # "data"
  <2>1. DataRequests(p) = DataRequests(q) /\ DataRequests(q) \subseteq 1 .. n
    BY <1>1, <1>2, <1>3 DEF DataRequests
  <2>2. Slots(p) = Slots(q)
    BY <1>1, <2>1 DEF Slots
  <2>3. QED
    BY <1>1, <1>3, <2>1, <2>2, CountsAreNumbers DEF p, InFlight, Blocks
<1>4. CASE r.kind = "data"
  <2> DEFINE k == Len(r.data)  N == {n + 1} \X (1 .. k)
  <2>0. k \in Nat /\ k <= NrLargeObjs
    BY DEF Fits, UsbRequest
  <2>1. DataRequests(p) = DataRequests(q) \cup {n + 1} /\ DataRequests(q) \subseteq 1 .. n
    BY <1>1, <1>2, <1>4 DEF DataRequests
  <2>2. InFlight(p) = InFlight(q) + 1
    BY ZenonT(60), <1>2, <2>1, CountsAreNumbers, FS_AddElement DEF InFlight
  <2>3. Slots(p) = Slots(q) \cup N
    <3>1. ASSUME NEW s \in Slots(p) PROVE s \in Slots(q) \cup N
      <4>1. /\ s[1] \in DataRequests(p) /\ s[2] \in 1 .. NrLargeObjs /\ s[2] <= Len(p[s[1]].data)
            /\ s = <<s[1], s[2]>>
        BY DEF Slots
      <4>2. CASE s[1] = n + 1
        <5>1. s[2] \in 1 .. k
          BY <1>1, <2>0, <4>1, <4>2
        <5>2. QED
          BY <4>1, <4>2, <5>1
      <4>3. CASE s[1] # n + 1
        <5>1. s[1] \in DataRequests(q) /\ p[s[1]] = q[s[1]]
          BY <1>1, <2>1, <4>1, <4>3
        <5>2. s \in DataRequests(q) \X (1 .. NrLargeObjs)
          BY <4>1, <5>1
        <5>3. QED
          BY <4>1, <5>1, <5>2 DEF Slots
      <4>4. QED
        BY <4>2, <4>3
    <3>2. ASSUME NEW s \in Slots(q) PROVE s \in Slots(p)
      BY <1>1, <2>1 DEF Slots
    <3>3. ASSUME NEW s \in N PROVE s \in Slots(p)
      <4>1. s[1] = n + 1 /\ s[2] \in 1 .. k /\ s = <<s[1], s[2]>>
        OBVIOUS
      <4>2. s[2] \in 1 .. NrLargeObjs /\ s[2] <= k
        BY <2>0, <4>1, Constants
      <4>3. p[s[1]] = r /\ s[1] \in DataRequests(p)
        BY <1>1, <2>1, <4>1
      <4>4. s \in DataRequests(p) \X (1 .. NrLargeObjs)
        BY <4>1, <4>2, <4>3
      <4>5. QED
        BY <4>2, <4>3, <4>4 DEF Slots
    <3>4. QED
      BY <3>1, <3>2, <3>3
  <2>4. IsFiniteSet(N) /\ Cardinality(N) = k
    <3>1. IsFiniteSet(1 .. k) /\ Cardinality(1 .. k) = k
      BY <2>0, IntervalSize
    <3>2. IsFiniteSet({n + 1}) /\ Cardinality({n + 1}) = 1
      BY FS_Singleton
    <3> HIDE DEF k
    <3>3. IsFiniteSet(N) /\ Cardinality(N) = Cardinality({n + 1}) * Cardinality(1 .. k)
      BY <3>1, <3>2, FS_Product
    <3>4. QED
      BY <2>0, <3>1, <3>2, <3>3
  <2>5. Slots(q) \cap N = {}
    BY <1>2, <2>1 DEF Slots
  <2> HIDE DEF N, k
  <2>6. Cardinality(Slots(q) \cup N) = Cardinality(Slots(q)) + Cardinality(N) - Cardinality(Slots(q) \cap N)
    BY <2>4, CountsAreNumbers, FS_Union
  <2>7. Blocks(p) = Blocks(q) + k
    <3>1. Cardinality(Slots(q) \cap N) = 0
      BY <2>5, FS_EmptySet
    <3>2. QED
      BY <2>0, <2>3, <2>4, <2>6, <3>1, CountsAreNumbers DEF Blocks
  <2>8. QED
    BY <1>1, <1>4, <2>2, <2>7 DEF p, k
<1>5. QED
  BY <1>3, <1>4

\* A queue without its first request has the requests and the blocks of the others.
LEMMA ShiftedByOne ==
    ASSUME NEW S, NEW T, IsFiniteSet(S),
           \A s \in S : s[1] \in Nat /\ s = <<s[1], s[2]>>,
           T = {<<s[1] + 1, s[2]>> : s \in S}
    PROVE  IsFiniteSet(T) /\ Cardinality(T) = Cardinality(S)
<1> DEFINE f == [s \in S |-> <<s[1] + 1, s[2]>>]
<1>1. f \in [S -> T]
  OBVIOUS
<1>2. ASSUME NEW a \in S, NEW b \in S, f[a] = f[b] PROVE a = b
  <2>1. f[a] = <<a[1] + 1, a[2]>> /\ f[b] = <<b[1] + 1, b[2]>>
    OBVIOUS
  <2>2. a[1] + 1 = b[1] + 1 /\ a[2] = b[2]
    BY <1>2, <2>1
  <2>3. a[1] = b[1]
    BY <2>2
  <2>4. QED
    BY <2>2, <2>3
<1>3. ASSUME NEW t \in T PROVE \E s \in S : f[s] = t
  OBVIOUS
<1>4. f \in Bijection(S, T)
  BY <1>1, <1>2, <1>3, Fun_IsBij
<1> HIDE DEF f
<1>5. ExistsBijection(S, T)
  BY <1>4 DEF ExistsBijection
<1>6. QED
  BY <1>5, FS_Bijection

LEMMA QueueWithoutFirst ==
    ASSUME NEW q \in Seq(UsbRequest), q # << >>, Fits(Head(q))
    PROVE  /\ Head(q) = q[1] /\ Tail(q) \in Seq(UsbRequest) /\ Len(Tail(q)) = Len(q) - 1
           /\ \A i \in 1 .. Len(q) - 1 : Tail(q)[i] = q[i + 1]
           /\ InFlight(q) = InFlight(Tail(q)) + (IF Head(q).kind = "data" THEN 1 ELSE 0)
           /\ Blocks(q) = Blocks(Tail(q)) + (IF Head(q).kind = "data" THEN Len(Head(q).data) ELSE 0)
<1> DEFINE t == Tail(q)  n == Len(q)  r == q[1]  k == Len(r.data)
<1>1. /\ t \in Seq(UsbRequest) /\ n \in Nat \ {0} /\ Len(t) = n - 1 /\ r = Head(q)
      /\ \A i \in 1 .. n - 1 : t[i] = q[i + 1]
      /\ DOMAIN q = 1 .. n /\ DOMAIN t = 1 .. n - 1
  OBVIOUS
<1>2. k \in Nat /\ k <= NrLargeObjs
  BY <1>1 DEF Fits, UsbRequest
<1> HIDE DEF t, n, r, k
<1> DEFINE A == DataRequests(q)  B == DataRequests(t)
           first == IF r.kind = "data" THEN {1} ELSE {}
           C == {i + 1 : i \in B}
<1>3. A = first \cup C /\ first \cap C = {}
  <2>1. ASSUME NEW i \in A PROVE i \in first \cup C
    <3>1. i \in 1 .. n /\ q[i].kind = "data"
      BY <1>1 DEF DataRequests
    <3>2. CASE i = 1
      BY <3>1, <3>2 DEF r
    <3>3. CASE i # 1
      <4>1. i - 1 \in 1 .. n - 1 /\ i = (i - 1) + 1
        BY <1>1, <3>1, <3>3
      <4>2. i - 1 \in B
        BY <1>1, <3>1, <4>1 DEF DataRequests
      <4>3. QED
        BY <4>1, <4>2
    <3>4. QED
      BY <3>2, <3>3
  <2>2. ASSUME NEW i \in B PROVE i \in Nat \ {0} /\ i + 1 \in A
    <3>1. i \in 1 .. n - 1 /\ i + 1 \in 1 .. n /\ t[i].kind = "data"
      BY <1>1 DEF DataRequests
    <3>2. QED
      BY <1>1, <3>1 DEF DataRequests
  <2>3. r.kind = "data" => 1 \in A
    BY <1>1 DEF DataRequests, r
  <2>4. QED
    BY <2>1, <2>2, <2>3
<1>4. IsFiniteSet(C) /\ Cardinality(C) = Cardinality(B)
  <2> DEFINE f == [i \in B |-> i + 1]
  <2>0. IsFiniteSet(B)
    BY <1>1, CountsAreNumbers
  <2>1. B \subseteq Nat /\ IsFiniteSet(B)
    BY <1>1, <2>0 DEF DataRequests
  <2>2. f \in [B -> C] /\ (\A a, b \in B : f[a] = f[b] => a = b) /\ \A c \in C : \E a \in B : f[a] = c
    BY <2>1
  <2>3. f \in Bijection(B, C)
    BY <2>2, Fun_IsBij
  <2> HIDE DEF f
  <2>4. ExistsBijection(B, C)
    BY <2>3 DEF ExistsBijection
  <2>5. QED
    BY <2>1, <2>4, FS_Bijection
<1>5. InFlight(q) = InFlight(t) + (IF r.kind = "data" THEN 1 ELSE 0)
  <2>1. CASE r.kind # "data"
    BY <1>1, <1>3, <1>4, <2>1, CountsAreNumbers DEF InFlight
  <2>2. CASE r.kind = "data"
    <3>1. A = C \cup {1} /\ 1 \notin C
      BY <1>3, <2>2
    <3>2. Cardinality(C \cup {1}) = Cardinality(C) + 1
      BY <1>4, <3>1, FS_AddElement
    <3>3. QED
      BY <1>4, <2>2, <3>1, <3>2 DEF InFlight
  <2>3. QED
    BY <2>1, <2>2
<1> DEFINE D == {<<s[1] + 1, s[2]>> : s \in Slots(t)}  N == first \X (1 .. k)
<1>6. IsFiniteSet(D) /\ Cardinality(D) = Blocks(t)
  <2>1. \A s \in Slots(t) : s[1] \in Nat /\ s = <<s[1], s[2]>>
    BY <1>1 DEF Slots, DataRequests
  <2>2. IsFiniteSet(Slots(t))
    BY <1>1, CountsAreNumbers
  <2>3. QED
    BY <2>1, <2>2, ShiftedByOne DEF Blocks
<1>7. Slots(q) = D \cup N
  <2>1. ASSUME NEW s \in Slots(q) PROVE s \in D \cup N
    <3>1. /\ s[1] \in A /\ s[2] \in 1 .. NrLargeObjs /\ s[2] <= Len(q[s[1]].data)
          /\ s = <<s[1], s[2]>>
      BY DEF Slots
    <3>2. CASE s[1] = 1
      <4>1. first = {1}
        BY <3>1, <3>2 DEF DataRequests, r
      <4>2. s[2] \in 1 .. k
        BY <1>2, <3>1, <3>2 DEF k, r
      <4>3. QED
        BY <3>1, <3>2, <4>1, <4>2
    <3>3. CASE s[1] # 1
      <4>1. PICK i \in B : s[1] = i + 1
        BY <1>3, <3>1, <3>3
      <4>2. i \in 1 .. n - 1 /\ t[i] = q[s[1]]
        BY <1>1, <4>1 DEF DataRequests
      <4>3. <<i, s[2]>> \in Slots(t)
        BY <3>1, <4>2 DEF Slots
      <4>4. s = <<<<i, s[2]>>[1] + 1, <<i, s[2]>>[2]>>
        BY <3>1, <4>1
      <4>5. QED
        BY <4>3, <4>4
    <3>4. QED
      BY <3>2, <3>3
  <2>2. ASSUME NEW s \in Slots(t) PROVE <<s[1] + 1, s[2]>> \in Slots(q)
    <3>1. s[1] \in B /\ s[2] \in 1 .. NrLargeObjs /\ s[2] <= Len(t[s[1]].data)
      BY DEF Slots
    <3>2. s[1] \in 1 .. n - 1 /\ t[s[1]] = q[s[1] + 1] /\ s[1] + 1 \in A
      BY <1>1, <1>3, <3>1 DEF DataRequests
    <3>3. <<s[1] + 1, s[2]>> \in DataRequests(q) \X (1 .. NrLargeObjs)
      BY <3>1, <3>2
    <3>4. QED
      BY <3>1, <3>2, <3>3 DEF Slots
  <2>3. ASSUME NEW s \in N PROVE s \in Slots(q)
    <3>1. r.kind = "data" /\ s[1] = 1 /\ s[2] \in 1 .. k /\ s = <<s[1], s[2]>>
      OBVIOUS
    <3>2. s[2] \in 1 .. NrLargeObjs /\ s[2] <= k /\ 1 \in A
      BY <1>2, <1>3, <3>1, Constants
    <3>3. s \in DataRequests(q) \X (1 .. NrLargeObjs)
      BY <3>1, <3>2
    <3>4. QED
      BY <3>1, <3>2, <3>3 DEF Slots, k, r
  <2>4. QED
    BY <2>1, <2>2, <2>3
<1>8. D \cap N = {}
  <2>1. ASSUME NEW s \in Slots(t) PROVE s[1] + 1 # 1
    BY <1>1 DEF Slots, DataRequests
  <2>2. QED
    BY <2>1
<1>9. IsFiniteSet(N) /\ Cardinality(N) = IF r.kind = "data" THEN k ELSE 0
  <2>1. CASE r.kind # "data"
    <3>1. N = {}
      BY <2>1
    <3>2. QED
      BY <2>1, <3>1, FS_EmptySet
  <2>2. CASE r.kind = "data"
    <3>1. IsFiniteSet(1 .. k) /\ Cardinality(1 .. k) = k
      BY <1>2, IntervalSize
    <3>2. first = {1} /\ IsFiniteSet(first) /\ Cardinality(first) = 1
      BY <2>2, FS_Singleton
    <3> HIDE DEF first
    <3>3. IsFiniteSet(N) /\ Cardinality(N) = Cardinality(first) * Cardinality(1 .. k)
      BY <3>1, <3>2, FS_Product
    <3>4. QED
      BY <1>2, <2>2, <3>1, <3>2, <3>3
  <2>3. QED
    BY <2>1, <2>2
<1> HIDE DEF N, D, A, B, C, first
<1>10. Blocks(q) = Blocks(t) + (IF r.kind = "data" THEN k ELSE 0)
  <2>1. Cardinality(D \cup N) = Cardinality(D) + Cardinality(N) - Cardinality(D \cap N)
    BY <1>6, <1>9, FS_Union
  <2>2. Cardinality(D \cap N) = 0
    BY <1>8, FS_EmptySet
  <2>3. Blocks(t) \in Nat
    BY <1>1, CountsAreNumbers
  <2>4. QED
    BY <1>2, <1>6, <1>7, <1>9, <2>1, <2>2, <2>3 DEF Blocks
<1>11. QED
  BY <1>1, <1>5, <1>10 DEF t, r, n, k

-----------------------------------------------------------------------------
(* What the functions change.                                              *)

\* What the callbacks of a command in progress leave alone.
Kept(d, e) ==
    /\ e.wedged = d.wedged /\ e.cbw = d.cbw /\ e.tag = d.tag /\ e.total = d.total
    /\ e.queue_locked = d.queue_locked /\ e.xfer_in_progress = d.xfer_in_progress
    /\ e.not_ready = d.not_ready /\ e.busy_cb = d.busy_cb /\ e.told = d.told
    /\ e.enabled = d.enabled

SameBooks(d, e) ==
    /\ e.queued = d.queued /\ e.blk_pending = d.blk_pending /\ e.usb_pending = d.usb_pending
    /\ e.free = d.free /\ e.breq = d.breq

\* The queues and the halts of the endpoints are the same, or all but one of them is.
SameEnds(d, e) == e.inq = d.inq /\ e.outq = d.outq /\ e.halted = d.halted

QueuedIn(d, e, r) ==
    e.inq = Append(d.inq, r) /\ e.outq = d.outq /\ e.halted = d.halted /\ e.csw = d.csw

QueuedOut(d, e, r) ==
    e.inq = d.inq /\ e.outq = Append(d.outq, r) /\ e.halted = d.halted /\ e.csw = d.csw

HaltsAre(d, e, eps) == e.inq = d.inq /\ e.outq = d.outq /\ e.halted = eps /\ e.csw = d.csw

\* What the status is to say.
Reports(e, tag, residue, status) ==
    e.csw.tag = tag /\ e.csw.residue = residue /\ e.csw.status = status

LEMMA SubmitInDoes ==
    ASSUME NEW d \in MscState, NEW r \in UsbRequest, NEW e, e = SubmitIn(d, r)
    PROVE  e \in MscState /\ Kept(d, e) /\ SameBooks(d, e) /\ QueuedIn(d, e, r)
<1>1. d.inq \in Seq(UsbRequest) /\ Append(d.inq, r) \in Seq(UsbRequest)
  BY DEF MscState
<1>2. QED
  BY <1>1 DEF SubmitIn, MscState, Kept, SameBooks, QueuedIn

LEMMA SubmitOutDoes ==
    ASSUME NEW d \in MscState, NEW r \in UsbRequest, NEW e, e = SubmitOut(d, r)
    PROVE  e \in MscState /\ Kept(d, e) /\ SameBooks(d, e) /\ QueuedOut(d, e, r)
<1>1. d.outq \in Seq(UsbRequest) /\ Append(d.outq, r) \in Seq(UsbRequest)
  BY DEF MscState
<1>2. QED
  BY <1>1 DEF SubmitOut, MscState, Kept, SameBooks, QueuedOut

LEMMA HaltDataEpDoes ==
    ASSUME NEW d \in MscState, NEW e, e = HaltDataEp(d)
    PROVE  /\ e \in MscState /\ Kept(d, e) /\ SameBooks(d, e)
           /\ HaltsAre(d, e, d.halted \cup {EndpointOf(d.cbw)})
BY DEF HaltDataEp, EndpointOf, MscState, Kept, SameBooks, HaltsAre

LEMMA ClearHaltDoes ==
    ASSUME NEW d \in MscState, NEW ep \in {"in", "out"}, NEW e, e = ClearHalt(d, ep)
    PROVE  /\ e \in MscState /\ Kept(d, e) /\ SameBooks(d, e)
           /\ HaltsAre(d, e, IF d.wedged THEN d.halted ELSE d.halted \ {ep})
BY DEF ClearHalt, MscState, Kept, SameBooks, HaltsAre

LEMMA PrepareCswDoes ==
    ASSUME NEW d \in MscState, NEW residue \in Nat, NEW status \in {"pass", "fail", "phase"},
           NEW e, e = msc_prepare_csw(d, residue, status)
    PROVE  /\ e \in MscState /\ Kept(d, e) /\ SameBooks(d, e) /\ SameEnds(d, e)
           /\ Reports(e, d.tag, residue, status)
<1> DEFINE s == [tag |-> d.tag, residue |-> residue, status |-> status]
<1>1. s \in Status /\ s.tag = d.tag /\ s.residue = residue /\ s.status = status
  BY DEF MscState, Status
<1>2. e = [d EXCEPT !.csw = s]
  BY DEF msc_prepare_csw
<1> HIDE DEF s
<1>3. e \in MscState
  BY ZenonT(60), <1>1, <1>2 DEF MscState
<1>4. Kept(d, e) /\ SameBooks(d, e) /\ SameEnds(d, e) /\ e.csw = s
  BY <1>2 DEF MscState, Kept, SameBooks, SameEnds
<1>5. QED
  BY <1>1, <1>3, <1>4 DEF Reports

\* The transfer has ended, and an application that waits for that has been told.
Emptied(d, e) ==
    /\ SameEnds(d, e) /\ e.csw = d.csw
    /\ e.wedged = d.wedged /\ e.cbw = d.cbw /\ e.tag = d.tag
    /\ e.queue_locked = d.queue_locked /\ e.enabled = d.enabled
    /\ e.not_ready = d.not_ready /\ e.xfer_in_progress = FALSE
    /\ e.told => d.told \/ d.not_ready

LEMMA QueueEmptyDoes ==
    ASSUME NEW d \in MscState, NEW e, e = msc_queue_empty(d)
    PROVE  e \in MscState /\ SameBooks(d, e) /\ Emptied(d, e)
<1> DEFINE x == d.busy_cb /\ ~ d.not_ready  y == d.told \/ (d.not_ready /\ d.busy_cb)
<1>1. x \in BOOLEAN /\ y \in BOOLEAN /\ (y => d.told \/ d.not_ready)
  OBVIOUS
<1>2. e = [d EXCEPT !.xfer_in_progress = FALSE, !.busy_cb = x, !.told = y]
  BY DEF msc_queue_empty, MscState
<1> HIDE DEF x, y
<1>3. e \in MscState
  BY ZenonT(60), <1>1, <1>2 DEF MscState
<1>4. /\ SameBooks(d, e) /\ SameEnds(d, e) /\ e.csw = d.csw
      /\ e.wedged = d.wedged /\ e.cbw = d.cbw /\ e.tag = d.tag
      /\ e.queue_locked = d.queue_locked /\ e.enabled = d.enabled
      /\ e.not_ready = d.not_ready /\ e.xfer_in_progress = FALSE
      /\ e.told = y
  BY <1>2 DEF MscState, SameBooks, SameEnds
<1>5. QED
  BY <1>1, <1>3, <1>4 DEF Emptied

\* The block request has more blocks to fill, and is awake.
GivesBlocks(d, e, blocks) ==
    /\ e.breq.list = d.breq.list \o blocks
    /\ e.breq.st = (IF d.breq.st = "sleep" THEN "transfer" ELSE d.breq.st)
    /\ e.breq.op = d.breq.op /\ e.breq.lba = d.breq.lba /\ e.breq.remaining = d.breq.remaining
    /\ e.breq.pos = d.breq.pos /\ e.breq.current = d.breq.current
    /\ e.queued = d.queued /\ e.blk_pending = d.blk_pending
    /\ e.usb_pending = d.usb_pending /\ e.free = d.free
    /\ SameEnds(d, e) /\ e.csw = d.csw

LEMMA SubmitBufListDoes ==
    ASSUME NEW d \in MscState, NEW blocks \in Seq(Nat), NEW e, e = SubmitBufList(d, blocks)
    PROVE  e \in MscState /\ Kept(d, e) /\ GivesBlocks(d, e, blocks)
<1> DEFINE st == IF d.breq.st = "sleep" THEN "transfer" ELSE d.breq.st
           c == [d.breq EXCEPT !.list = @ \o blocks]
           b == [c EXCEPT !.st = st]
<1>1. d.breq \in BlockReq /\ d.breq.list \o blocks \in Seq(Nat) /\ st \in {"idle", "transfer", "sleep", "page"}
  BY DEF MscState, BlockReq
<1>2. /\ c \in BlockReq /\ c.list = d.breq.list \o blocks
      /\ c.op = d.breq.op /\ c.lba = d.breq.lba /\ c.remaining = d.breq.remaining
      /\ c.pos = d.breq.pos /\ c.current = d.breq.current
  BY <1>1 DEF BlockReq
<1> HIDE DEF c
<1>3. /\ b \in BlockReq /\ b.list = d.breq.list \o blocks /\ b.st = st
      /\ b.op = d.breq.op /\ b.lba = d.breq.lba /\ b.remaining = d.breq.remaining
      /\ b.pos = d.breq.pos /\ b.current = d.breq.current
  BY <1>1, <1>2 DEF BlockReq
<1>4. e = [d EXCEPT !.breq = b]
  BY DEF SubmitBufList, c, MscState, BlockReq
<1> HIDE DEF b
<1>5. e \in MscState
  BY ZenonT(60), <1>3, <1>4 DEF MscState
<1>6. /\ Kept(d, e) /\ e.breq = b
      /\ e.queued = d.queued /\ e.blk_pending = d.blk_pending
      /\ e.usb_pending = d.usb_pending /\ e.free = d.free
      /\ SameEnds(d, e) /\ e.csw = d.csw
  BY <1>4 DEF MscState, Kept, SameEnds
<1>7. QED
  BY <1>3, <1>5, <1>6 DEF GivesBlocks

\* The block request of the command is queued, with no blocks to fill yet.
StartsBlocks(d, e) ==
    /\ e.breq.st = "transfer" /\ e.breq.op = d.cbw.op /\ e.breq.lba = d.cbw.lba
    /\ e.breq.remaining = d.cbw.count /\ e.breq.pos = 0
    /\ e.breq.list = << >> /\ e.breq.current = << >>
    /\ e.queued = d.queued /\ e.blk_pending = d.blk_pending
    /\ e.usb_pending = d.usb_pending /\ e.free = d.free
    /\ SameEnds(d, e) /\ e.csw = d.csw

LEMMA QueueBlockRequestDoes ==
    ASSUME NEW d \in MscState, d.cbw \in Command, d.cbw.op \in {"read", "write", "verify"},
           NEW e, e = QueueBlockRequest(d)
    PROVE  e \in MscState /\ Kept(d, e) /\ StartsBlocks(d, e)
<1> DEFINE b == BlockRequest("transfer", d.cbw.op, d.cbw.lba, d.cbw.count)
<1>1. d.cbw.lba \in Nat /\ d.cbw.count \in Nat
  BY MassStorageAssumption
<1>2. /\ b \in BlockReq /\ b.st = "transfer" /\ b.op = d.cbw.op /\ b.lba = d.cbw.lba
      /\ b.remaining = d.cbw.count /\ b.pos = 0 /\ b.list = << >> /\ b.current = << >>
  BY <1>1 DEF BlockReq, BlockRequest
<1>3. e = [d EXCEPT !.breq = b]
  BY DEF QueueBlockRequest
<1> HIDE DEF b
<1>4. e \in MscState
  BY ZenonT(60), <1>2, <1>3 DEF MscState
<1>5. /\ Kept(d, e) /\ e.breq = b
      /\ e.queued = d.queued /\ e.blk_pending = d.blk_pending
      /\ e.usb_pending = d.usb_pending /\ e.free = d.free
      /\ SameEnds(d, e) /\ e.csw = d.csw
  BY <1>3 DEF MscState, Kept, SameEnds
<1>6. QED
  BY <1>2, <1>4, <1>5 DEF StartsBlocks

-----------------------------------------------------------------------------
(* Numbers, blocks in order and the queues that carry them.                *)

LEMMA CommandFields ==
    ASSUME NEW c \in Command
    PROVE  /\ c.op \in {"read", "write", "verify", "info", "mode", "ready", "bad"}
           /\ c.in \in BOOLEAN
           /\ c.len \in Nat /\ c.lba \in Nat /\ c.count \in Nat /\ c.resp \in Nat
BY MassStorageAssumption

LEMMA LeastOfTwo ==
    ASSUME NEW a \in Nat, NEW b \in Nat
    PROVE  Min({a, b}) \in Nat /\ Min({a, b}) <= a /\ Min({a, b}) <= b /\ Min({a, b}) \in {a, b}
<1>1. \E x \in {a, b} : \A y \in {a, b} : x <= y
  <2>1. CASE a <= b
    BY <2>1
  <2>2. CASE b <= a
    BY <2>2
  <2>3. QED
    BY <2>1, <2>2
<1>2. Min({a, b}) \in {a, b} /\ \A y \in {a, b} : Min({a, b}) <= y
  BY <1>1 DEF Min
<1>3. QED
  BY <1>2

LEMMA LeastOfThree ==
    ASSUME NEW a \in Nat, NEW b \in Nat, NEW c \in Nat, NEW m, m = Min({a, b, c})
    PROVE  m \in Nat /\ m <= a /\ m <= b /\ m <= c /\ m \in {a, b, c}
<1>1. \E x \in {a, b, c} : \A y \in {a, b, c} : x <= y
  <2>1. CASE a <= b /\ a <= c
    BY <2>1
  <2>2. CASE b <= a /\ b <= c
    BY <2>2
  <2>3. CASE c <= a /\ c <= b
    BY <2>3
  <2>4. QED
    BY <2>1, <2>2, <2>3
<1>2. m \in {a, b, c} /\ \A y \in {a, b, c} : m <= y
  BY <1>1 DEF Min
<1>3. QED
  BY <1>2

LEMMA LengthOfBoth ==
    ASSUME NEW s \in Seq(Nat), NEW t \in Seq(Nat)
    PROVE  s \o t \in Seq(Nat) /\ Len(s \o t) = Len(s) + Len(t)
OBVIOUS

LEMMA RunIsSequence ==
    ASSUME NEW a \in Nat, NEW n \in Nat
    PROVE  /\ Run(a, n) \in Seq(Nat) /\ Len(Run(a, n)) = n
           /\ \A i \in 1 .. n : Run(a, n)[i] = a + i - 1
           /\ Run(a, 0) = << >>
<1>1. \A i \in 1 .. n : a + i - 1 \in Nat
  OBVIOUS
<1>2. QED
  BY <1>1 DEF Run

LEMMA RunThenRun ==
    ASSUME NEW a \in Nat, NEW n \in Nat, NEW k \in Nat
    PROVE  Run(a, n) \o Run(a + n, k) = Run(a, n + k)
<1> DEFINE s == Run(a, n)  t == Run(a + n, k)  u == Run(a, n + k)
<1>1. /\ s \in Seq(Nat) /\ t \in Seq(Nat) /\ u \in Seq(Nat)
      /\ Len(s) = n /\ Len(t) = k /\ Len(u) = n + k
      /\ \A i \in 1 .. n : s[i] = a + i - 1
      /\ \A i \in 1 .. k : t[i] = a + n + i - 1
      /\ \A i \in 1 .. n + k : u[i] = a + i - 1
  <2>1. a + n \in Nat /\ n + k \in Nat
    OBVIOUS
  <2>2. s \in Seq(Nat) /\ Len(s) = n /\ \A i \in 1 .. n : s[i] = a + i - 1
    BY RunIsSequence
  <2>3. t \in Seq(Nat) /\ Len(t) = k /\ \A i \in 1 .. k : t[i] = a + n + i - 1
    BY <2>1, RunIsSequence
  <2>4. u \in Seq(Nat) /\ Len(u) = n + k /\ \A i \in 1 .. n + k : u[i] = a + i - 1
    BY <2>1, RunIsSequence
  <2>5. QED
    BY <2>2, <2>3, <2>4
<1> HIDE DEF s, t, u
<1>2. /\ s \o t \in Seq(Nat) /\ Len(s \o t) = n + k
      /\ \A i \in 1 .. n + k : (s \o t)[i] = IF i <= n THEN s[i] ELSE t[i - n]
  BY ZenonT(60), <1>1, ConcatProperties
<1>3. \A i \in 1 .. n + k : (s \o t)[i] = u[i]
  BY SMTT(60), <1>1, <1>2
<1>4. s \o t = u
  BY <1>1, <1>2, <1>3, SeqEqual
<1>5. QED
  BY <1>4 DEF s, t, u

LEMMA RunCut ==
    ASSUME NEW a \in Nat, NEW n \in Nat, NEW k \in 0 .. n
    PROVE  /\ SubSeq(Run(a, n), 1, k) = Run(a, k)
           /\ SubSeq(Run(a, n), k + 1, Len(Run(a, n))) = Run(a + k, n - k)
<1> DEFINE s == Run(a, n)  t == Run(a, k)  u == Run(a + k, n - k)
           v == SubSeq(s, 1, k)  w == SubSeq(s, k + 1, n)
<1>1. /\ s \in Seq(Nat) /\ t \in Seq(Nat) /\ u \in Seq(Nat)
      /\ Len(s) = n /\ Len(t) = k /\ Len(u) = n - k
      /\ \A i \in 1 .. n : s[i] = a + i - 1
      /\ \A i \in 1 .. k : t[i] = a + i - 1
      /\ \A i \in 1 .. n - k : u[i] = a + k + i - 1
  <2>1. a + k \in Nat /\ n - k \in Nat /\ k \in Nat
    OBVIOUS
  <2>2. s \in Seq(Nat) /\ Len(s) = n /\ \A i \in 1 .. n : s[i] = a + i - 1
    BY RunIsSequence
  <2>3. t \in Seq(Nat) /\ Len(t) = k /\ \A i \in 1 .. k : t[i] = a + i - 1
    BY <2>1, RunIsSequence
  <2>4. u \in Seq(Nat) /\ Len(u) = n - k /\ \A i \in 1 .. n - k : u[i] = a + k + i - 1
    BY <2>1, RunIsSequence
  <2>5. QED
    BY <2>2, <2>3, <2>4
<1> HIDE DEF s, t, u
<1>2. /\ v \in Seq(Nat) /\ Len(v) = k /\ \A i \in 1 .. k : v[i] = s[i]
      /\ w \in Seq(Nat) /\ Len(w) = n - k /\ \A i \in 1 .. n - k : w[i] = s[k + i]
  BY SMTT(60), <1>1, SubSeqProperties
<1> HIDE DEF v, w
<1>3. v = t
  BY <1>1, <1>2, SeqEqual
<1>4. \A i \in 1 .. n - k : w[i] = u[i]
  BY <1>1, <1>2
<1>5. w = u
  BY <1>1, <1>2, <1>4, SeqEqual
<1>6. QED
  BY <1>1, <1>3, <1>5 DEF s, t, u, v, w

LEMMA DataHasNoHole ==
    ASSUME NEW q \in Seq(UsbRequest), AllData(q), q # << >>
    PROVE  /\ Fits(Head(q)) /\ Head(q) = q[1] /\ Head(q).kind = "data"
           /\ Len(Head(q).data) \in 1 .. NrLargeObjs /\ Head(q).data \in Seq(Nat)
           /\ Tail(q) \in Seq(UsbRequest) /\ AllData(Tail(q))
           /\ InFlight(q) = InFlight(Tail(q)) + 1
           /\ Blocks(q) = Blocks(Tail(q)) + Len(Head(q).data)
<1>1. 1 \in DOMAIN q /\ Head(q) = q[1] /\ q[1] \in UsbRequest
  OBVIOUS
<1>2. q[1].data \in Seq(Nat) /\ q[1].data # << >> /\ q[1].kind = "data" /\ Len(q[1].data) <= NrLargeObjs
  BY <1>1 DEF AllData, UsbRequest
<1>3. Len(q[1].data) \in 1 .. NrLargeObjs
  <2>1. Len(q[1].data) \in Nat /\ Len(q[1].data) # 0
    BY <1>2
  <2>2. QED
    BY <1>2, <2>1, Constants
<1>4. Fits(Head(q))
  BY <1>1, <1>2 DEF Fits
<1>5. /\ Tail(q) \in Seq(UsbRequest) /\ Len(Tail(q)) = Len(q) - 1
      /\ \A i \in 1 .. Len(q) - 1 : Tail(q)[i] = q[i + 1]
      /\ InFlight(q) = InFlight(Tail(q)) + 1
      /\ Blocks(q) = Blocks(Tail(q)) + Len(Head(q).data)
  BY <1>1, <1>2, <1>4, QueueWithoutFirst
<1>6. AllData(Tail(q))
  <2> SUFFICES ASSUME NEW i \in DOMAIN Tail(q)
               PROVE  Tail(q)[i].kind = "data" /\ Tail(q)[i].data # << >> /\ Len(Tail(q)[i].data) <= NrLargeObjs
    BY DEF AllData
  <2>1. i \in 1 .. Len(q) - 1 /\ i + 1 \in DOMAIN q
    BY <1>5
  <2>2. Tail(q)[i] = q[i + 1]
    BY <1>5, <2>1
  <2>3. QED
    BY <2>1, <2>2 DEF AllData
<1>7. QED
  BY <1>1, <1>2, <1>3, <1>4, <1>5, <1>6

LEMMA DataOfNothing ==
    ASSUME NEW q \in Seq(UsbRequest), AllData(q), Blocks(q) = 0
    PROVE  q = << >>
<1>1. SUFFICES ASSUME q # << >> PROVE FALSE
  OBVIOUS
<1>2. Blocks(Tail(q)) \in Nat
  BY <1>1, DataHasNoHole, CountsAreNumbers
<1>3. QED
  BY <1>1, <1>2, DataHasNoHole

LEMMA OneMoreData ==
    ASSUME NEW q \in Seq(UsbRequest), AllData(q), NEW s \in Seq(Nat),
           Len(s) \in 1 .. NrLargeObjs
    PROVE  /\ Data(s) \in UsbRequest /\ Append(q, Data(s)) \in Seq(UsbRequest)
           /\ AllData(Append(q, Data(s)))
           /\ InFlight(Append(q, Data(s))) = InFlight(q) + 1
           /\ Blocks(Append(q, Data(s))) = Blocks(q) + Len(s)
<1> DEFINE r == Data(s)
<1>1. r \in UsbRequest /\ r.kind = "data" /\ r.data = s
  BY DEF Data, UsbRequest
<1>2. s # << >> /\ Len(s) <= NrLargeObjs
  <2>1. Len(s) # 0
    OBVIOUS
  <2>2. QED
    BY <2>1, Constants
<1> HIDE DEF r
<1>3. Fits(r)
  BY <1>1, <1>2 DEF Fits
<1>4. /\ Append(q, r) \in Seq(UsbRequest) /\ InFlight(Append(q, r)) = InFlight(q) + 1
      /\ Blocks(Append(q, r)) = Blocks(q) + Len(s)
  BY <1>1, <1>3, QueueWithOne
<1>5. AllData(Append(q, r))
  <2> SUFFICES ASSUME NEW i \in DOMAIN Append(q, r)
               PROVE  Append(q, r)[i].kind = "data" /\ Append(q, r)[i].data # << >> /\ Len(Append(q, r)[i].data) <= NrLargeObjs
    BY DEF AllData
  <2>1. CASE i = Len(q) + 1
    <3>1. Append(q, r)[i] = r
      BY <2>1
    <3>2. QED
      BY <1>1, <1>2, <3>1
  <2>2. CASE i # Len(q) + 1
    <3>1. i \in DOMAIN q /\ Append(q, r)[i] = q[i]
      BY <2>2
    <3>2. QED
      BY <3>1 DEF AllData
  <2>3. QED
    BY <2>1, <2>2
<1>6. QED
  BY <1>1, <1>4, <1>5 DEF r

LEMMA StatusIsNoData ==
    ASSUME NEW q \in Seq(UsbRequest)
    PROVE  /\ Csw \in UsbRequest /\ Append(q, Csw) \in Seq(UsbRequest)
           /\ InFlight(Append(q, Csw)) = InFlight(q) /\ Blocks(Append(q, Csw)) = Blocks(q)
<1>1. Csw \in UsbRequest /\ Csw.kind = "csw" /\ Csw.data = << >>
  BY DEF Csw, UsbRequest
<1>2. Fits(Csw)
  BY <1>1, Constants DEF Fits
<1>3. Blocks(q) \in Nat /\ InFlight(q) \in Nat
  BY CountsAreNumbers
<1>4. QED
  BY <1>1, <1>2, <1>3, QueueWithOne

LEMMA AnswerIsNoData ==
    ASSUME NEW n \in Nat
    PROVE  /\ Answer(n) \in UsbRequest /\ Answer(n).kind = "short"
           /\ Answer(n).data \in Seq(Nat) /\ Len(Answer(n).data) = n
<1>1. [i \in 1 .. n |-> i] \in Seq(Nat) /\ Len([i \in 1 .. n |-> i]) = n
  OBVIOUS
<1>2. QED
  BY <1>1 DEF Answer, UsbRequest

\* Buffers that hold nothing yet.
Empties(k) == [i \in 1 .. k |-> 0]

LEMMA EmptiesAreBlocks ==
    ASSUME NEW k \in Nat
    PROVE  Empties(k) \in Seq(Nat) /\ Len(Empties(k)) = k
BY DEF Empties

LEMMA FirstOfBoth ==
    ASSUME NEW S, NEW q \in Seq(S), q # << >>, NEW t \in Seq(S)
    PROVE  /\ q \o t \in Seq(S) /\ q \o t # << >> /\ Head(q \o t) = Head(q)
           /\ Tail(q \o t) = Tail(q) \o t
<1> DEFINE n == Len(q)  l == Len(t)  u == Tail(q)  p == q \o t
<1>1. /\ n \in Nat \ {0} /\ l \in Nat /\ u \in Seq(S) /\ Len(u) = n - 1 /\ Head(q) = q[1]
      /\ \A i \in 1 .. n - 1 : u[i] = q[i + 1]
  OBVIOUS
<1>2. /\ p \in Seq(S) /\ Len(p) = n + l
      /\ \A i \in 1 .. n + l : p[i] = IF i <= n THEN q[i] ELSE t[i - n]
  BY ConcatProperties
<1>3. /\ u \o t \in Seq(S) /\ Len(u \o t) = n - 1 + l
      /\ \A i \in 1 .. n - 1 + l : (u \o t)[i] = IF i <= n - 1 THEN u[i] ELSE t[i - (n - 1)]
  BY <1>1, ConcatProperties
<1> HIDE DEF p, n, l, u
<1>4. Len(p) # 0
  BY <1>1, <1>2
<1>5. p # << >>
  BY <1>4
<1> DEFINE v == u \o t  w == Tail(p)
<1>6. w \in Seq(S) /\ Len(w) = n - 1 + l /\ \A i \in 1 .. n - 1 + l : w[i] = p[i + 1]
  <2>1. w \in Seq(S) /\ Len(w) = Len(p) - 1 /\ \A i \in 1 .. Len(p) - 1 : w[i] = p[i + 1]
    BY <1>2, <1>5
  <2>2. Len(p) - 1 = n - 1 + l
    BY <1>1, <1>2
  <2>3. QED
    BY <2>1, <2>2
<1>7. /\ v \in Seq(S) /\ Len(v) = n - 1 + l
      /\ \A i \in 1 .. n - 1 + l : v[i] = IF i <= n - 1 THEN u[i] ELSE t[i - (n - 1)]
  BY <1>3
<1> HIDE DEF v, w
<1>8. ASSUME NEW i \in 1 .. n - 1 + l PROVE w[i] = v[i]
  <2>1. i + 1 \in 1 .. n + l /\ i \in Nat
    BY <1>1
  <2>2. w[i] = IF i + 1 <= n THEN q[i + 1] ELSE t[(i + 1) - n]
    BY <1>2, <1>6, <2>1
  <2>3. CASE i <= n - 1
    <3>1. i \in 1 .. n - 1 /\ i + 1 <= n
      BY <1>1, <2>1, <2>3
    <3>2. QED
      BY <1>1, <1>7, <2>2, <2>3, <3>1
  <2>4. CASE ~ (i <= n - 1)
    <3>1. ~ (i + 1 <= n) /\ (i + 1) - n = i - (n - 1)
      BY <1>1, <2>1, <2>4
    <3>2. QED
      BY <1>7, <2>2, <2>4, <3>1
  <2>5. QED
    BY <2>3, <2>4
<1>9. v = w
  BY <1>6, <1>7, <1>8, SeqEqual
<1>10. Head(p) = Head(q)
  <2>1. 1 \in 1 .. n + l /\ 1 <= n
    BY <1>1
  <2>2. p[1] = q[1]
    BY <1>2, <2>1
  <2>3. Head(p) = p[1]
    BY <1>2, <1>5
  <2>4. QED
    BY <1>1, <2>2, <2>3
<1>11. QED
  BY <1>2, <1>5, <1>9, <1>10 DEF p, v, w, u

\* The queue carries blocks in order: more behind, or the first ones gone.
LEMMA CarriesMore ==
    ASSUME NEW q \in Seq(UsbRequest), AllData(q), NEW a \in Nat, NEW x \in Nat,
           Carries(q, a, x), NEW k \in 1 .. NrLargeObjs
    PROVE  Carries(Append(q, Data(Run(x, k))), a, x + k)
<1> DEFINE r == Data(Run(x, k))  p == Append(q, r)  n == Len(q)
<1>1. k \in Nat /\ Run(x, k) \in Seq(Nat) /\ Len(Run(x, k)) = k /\ Run(x, k)[1] = x
  <2>1. k \in Nat /\ 1 \in 1 .. k
    BY Constants
  <2>2. /\ Run(x, k) \in Seq(Nat) /\ Len(Run(x, k)) = k
        /\ \A i \in 1 .. k : Run(x, k)[i] = x + i - 1
    BY <2>1, RunIsSequence
  <2>3. QED
    BY <2>1, <2>2
<1>2. r.data = Run(x, k) /\ r \in UsbRequest
  BY <1>1 DEF Data, UsbRequest
<1> HIDE DEF r
<1>3. /\ n \in Nat /\ p # << >> /\ Len(p) = n + 1 /\ DOMAIN p = 1 .. n + 1 /\ DOMAIN q = 1 .. n
      /\ p[n + 1] = r /\ \A i \in 1 .. n : p[i] = q[i]
  BY <1>2
<1> HIDE DEF p, n
<1>4. \A i \in 1 .. n : q[i].data = Run(q[i].data[1], Len(q[i].data))
  BY <1>3 DEF Carries
<1>5. \A i \in 1 .. n + 1 : p[i].data = Run(p[i].data[1], Len(p[i].data))
  <2> TAKE i \in 1 .. n + 1
  <2>1. CASE i = n + 1
    BY <1>1, <1>2, <1>3, <2>1
  <2>2. CASE i # n + 1
    <3>1. i \in 1 .. n
      BY <1>3, <2>2
    <3>2. QED
      BY <1>3, <1>4, <3>1
  <2>3. QED
    BY <2>1, <2>2
<1>6. n # 0 => q[1].data[1] = a /\ q[n].data[1] + Len(q[n].data) = x
  BY <1>3 DEF Carries, n
<1>7. \A i \in 1 .. n + 1 : i + 1 \in 1 .. n + 1 => p[i + 1].data[1] = p[i].data[1] + Len(p[i].data)
  <2> SUFFICES ASSUME NEW i \in 1 .. n + 1, i + 1 \in 1 .. n + 1
               PROVE  p[i + 1].data[1] = p[i].data[1] + Len(p[i].data)
    OBVIOUS
  <2>1. i \in 1 .. n /\ p[i] = q[i]
    BY <1>3
  <2>2. CASE i = n
    BY <1>1, <1>2, <1>3, <1>6, <2>1, <2>2
  <2>3. CASE i # n
    <3>1. i + 1 \in 1 .. n
      BY <1>3, <2>1, <2>3
    <3>2. QED
      BY <1>3, <2>1, <3>1 DEF Carries
  <2>4. QED
    BY <2>2, <2>3
<1>8. p[1].data[1] = a /\ p[n + 1].data[1] + Len(p[n + 1].data) = x + k
  <2>1. p[n + 1].data[1] = x /\ Len(p[n + 1].data) = k
    BY <1>1, <1>2, <1>3
  <2>2. CASE n = 0
    <3>1. a = x
      BY <1>3, <2>2 DEF Carries, n
    <3>2. QED
      BY <2>1, <2>2, <3>1
  <2>3. CASE n # 0
    <3>1. p[1] = q[1]
      BY <1>3, <2>3
    <3>2. QED
      BY <1>6, <2>1, <2>3, <3>1
  <2>4. QED
    BY <2>2, <2>3
<1>9. QED
  BY <1>3, <1>5, <1>7, <1>8 DEF Carries, p, r

LEMMA CarriesLess ==
    ASSUME NEW q \in Seq(UsbRequest), AllData(q), q # << >>, NEW a \in Nat, NEW x \in Nat,
           Carries(q, a, x)
    PROVE  /\ Head(q).data = Run(a, Len(Head(q).data))
           /\ Carries(Tail(q), a + Len(Head(q).data), x)
<1> DEFINE t == Tail(q)  n == Len(q)  k == Len(Head(q).data)
<1>1. /\ n \in Nat \ {0} /\ DOMAIN q = 1 .. n /\ DOMAIN t = 1 .. n - 1 /\ Len(t) = n - 1
      /\ \A i \in 1 .. n - 1 : t[i] = q[i + 1]
      /\ Head(q) = q[1]
      /\ t = << >> <=> n = 1
  <2>1. t \in Seq(UsbRequest) /\ n \in Nat \ {0} /\ Len(t) = n - 1
    OBVIOUS
  <2>2. t = << >> <=> Len(t) = 0
    BY <2>1, EmptySeq
  <2>3. t = << >> <=> n = 1
    BY <2>1, <2>2
  <2>4. /\ DOMAIN q = 1 .. n /\ DOMAIN t = 1 .. n - 1 /\ Head(q) = q[1]
        /\ \A i \in 1 .. n - 1 : t[i] = q[i + 1]
    OBVIOUS
  <2>5. QED
    BY <2>1, <2>3, <2>4
<1>2. k \in Nat
  BY DataHasNoHole, Constants
<1>3. /\ \A i \in 1 .. n : q[i].data = Run(q[i].data[1], Len(q[i].data))
      /\ \A i \in 1 .. n : i + 1 \in 1 .. n => q[i + 1].data[1] = q[i].data[1] + Len(q[i].data)
      /\ q[1].data[1] = a /\ q[n].data[1] + Len(q[n].data) = x
  BY <1>1 DEF Carries, n
<1> HIDE DEF t, n, k
<1>4. Head(q).data = Run(a, k)
  BY <1>1, <1>3 DEF k
<1>5. \A i \in 1 .. n - 1 : t[i].data = Run(t[i].data[1], Len(t[i].data))
  <2> TAKE i \in 1 .. n - 1
  <2>1. i + 1 \in 1 .. n /\ t[i] = q[i + 1]
    BY <1>1
  <2>2. QED
    BY <1>3, <2>1
<1>6. \A i \in 1 .. n - 1 : i + 1 \in 1 .. n - 1 => t[i + 1].data[1] = t[i].data[1] + Len(t[i].data)
  <2> SUFFICES ASSUME NEW i \in 1 .. n - 1, i + 1 \in 1 .. n - 1
               PROVE  t[i + 1].data[1] = t[i].data[1] + Len(t[i].data)
    OBVIOUS
  <2>1. i + 1 \in 1 .. n /\ (i + 1) + 1 \in 1 .. n /\ t[i] = q[i + 1] /\ t[i + 1] = q[(i + 1) + 1]
    BY <1>1
  <2>2. QED
    BY <1>3, <2>1
<1>7. IF t = << >> THEN a + k = x
      ELSE t[1].data[1] = a + k /\ t[n - 1].data[1] + Len(t[n - 1].data) = x
  <2>1. CASE n = 1
    BY <1>1, <1>3, <2>1 DEF k
  <2>2. CASE n # 1
    <3>1. 1 \in 1 .. n /\ 1 + 1 \in 1 .. n /\ 1 \in 1 .. n - 1 /\ n - 1 \in 1 .. n - 1
      BY <1>1, <2>2
    <3>2. t[1] = q[1 + 1] /\ t[n - 1] = q[n]
      <4>1. t[1] = q[1 + 1] /\ t[n - 1] = q[(n - 1) + 1] /\ (n - 1) + 1 = n
        BY <1>1, <3>1
      <4>2. QED
        BY <4>1
    <3>3. q[1 + 1].data[1] = a + k
      BY <1>1, <1>3, <3>1 DEF k
    <3>4. QED
      BY <1>1, <1>3, <2>2, <3>2, <3>3
  <2>3. QED
    BY <2>1, <2>2
<1>8. QED
  BY <1>1, <1>4, <1>5, <1>6, <1>7 DEF Carries, t, k

-----------------------------------------------------------------------------
(* A command has arrived.                                                  *)

Received(d, h) ==
    /\ d \in MscState /\ h \in HostState
    /\ Quiet(d) /\ d.inq = << >> /\ d.outq = << >> /\ d.halted = {}
    /\ ~ d.wedged /\ ~ d.queue_locked /\ d.enabled
    /\ h.cmd \in Command /\ d.cbw = h.cmd /\ d.tag = h.tag
    /\ h.phase = (IF h.cmd.len > 0 THEN "data" ELSE "status")
    /\ h.moved = 0 /\ h.got = << >> /\ h.stored = {}
    /\ d.told => d.not_ready

\* A status alone, and all of what the host asked for left: the command is ending.
LEMMA StatusAlone ==
    ASSUME NEW d, NEW h, Received(d, h), NEW status \in {"pass", "fail", "phase"},
           status = "pass" => h.cmd.op \notin {"read", "write"} \/ h.cmd.count = 0
    PROVE  Inv(msc_request_failed(d, h.cmd.len, status), h)
<1> DEFINE c == h.cmd
<1>0. PICK n \in Nat : n = c.len
  BY CommandFields DEF Received
<1> DEFINE e == msc_prepare_csw(d, n, status)
           f == IF n # 0 THEN HaltDataEp(e) ELSE e
           g == SubmitIn(f, Csw)
<1>1. /\ d \in MscState /\ h \in HostState /\ c \in Command /\ d.cbw = c
      /\ c.len \in Nat /\ c.lba \in Nat
  BY CommandFields DEF Received
<1>2. /\ e \in MscState /\ Kept(d, e) /\ SameBooks(d, e)
      /\ SameEnds(d, e) /\ Reports(e, d.tag, n, status)
  BY <1>1, PrepareCswDoes
<1> HIDE DEF e
<1>3. /\ f \in MscState /\ Kept(e, f) /\ SameBooks(e, f)
      /\ HaltsAre(e, f, IF n # 0 THEN e.halted \cup {EndpointOf(e.cbw)} ELSE e.halted)
  <2>1. CASE n # 0
    BY <1>2, <2>1, HaltDataEpDoes
  <2>2. CASE n = 0
    BY <1>2, <2>2 DEF Kept, SameBooks, HaltsAre
  <2>3. QED
    BY <2>1, <2>2
<1> HIDE DEF f
<1>4. Csw \in UsbRequest
  BY DEF Csw, UsbRequest
<1>5. /\ g \in MscState /\ Kept(f, g) /\ SameBooks(f, g) /\ QueuedIn(f, g, Csw)
  BY <1>3, <1>4, SubmitInDoes
<1>6. g = msc_request_failed(d, c.len, status)
  BY <1>0 DEF msc_request_failed, msc_request_done_nodata, g, f, e
<1> HIDE DEF g
<1>7. Append(<< >>, Csw) = <<Csw>>
  OBVIOUS
<1>8. g.inq = <<Csw>> /\ g.outq = << >> /\ Quiet(g)
  BY <1>2, <1>3, <1>5, <1>7 DEF Received, Quiet, SameBooks, SameEnds, HaltsAre, QueuedIn
<1>9. /\ g.halted = IF n # 0 THEN {EndpointOf(c)} ELSE {}
      /\ g.csw.tag = h.tag /\ g.csw.residue = n /\ g.csw.status = status
      /\ g.enabled /\ ~ g.wedged /\ ~ g.queue_locked /\ g.cbw = c /\ g.tag = h.tag
      /\ g.told => g.not_ready
  BY <1>1, <1>2, <1>3, <1>5 DEF Received, Kept, SameEnds, HaltsAre, QueuedIn, Reports
<1>10. Passed(g, h)
  <2> SUFFICES ASSUME status = "pass"
               PROVE  /\ n + 0 = c.len
                      /\ c.op = "read" => << >> = Run(c.lba, c.count)
                      /\ c.op = "write" => {} = {<<c.lba + i - 1, i>> : i \in 1 .. c.count}
    BY <1>9 DEF Passed, Received
  <2>1. Run(c.lba, 0) = << >> /\ 1 .. 0 = {}
    BY <1>1, RunIsSequence
  <2>2. QED
    BY <1>0, <1>1, <2>1
<1>11. Ending(g, h)
  BY <1>0, <1>1, <1>8, <1>9, <1>10 DEF Ending, Received
<1>12. Always(g, h)
  BY <1>1, <1>5, <1>8, <1>9 DEF Always, Quiet
<1>13. QED
  BY <1>1, <1>6, <1>9, <1>11, <1>12 DEF Inv, Serving, Served

\* An answer of total bytes is on its way.
LEMMA AnswerSent ==
    ASSUME CommandsFit, NEW d, NEW h, Received(d, h), h.cmd.op \in {"info", "mode"},
           NEW total, total = (IF h.cmd.op = "info" THEN Min({h.cmd.count, h.cmd.resp})
                               ELSE IF h.cmd.count > 0 THEN h.cmd.resp ELSE 0)
    PROVE  Inv(Answered(d, total), h)
<1> DEFINE c == h.cmd
           asked == Min({c.count, c.resp})
<1>1. /\ d \in MscState /\ h \in HostState /\ c \in Command /\ d.cbw = c
      /\ c.len \in Nat /\ c.lba \in Nat /\ c.count \in Nat /\ c.resp \in Nat /\ c.in \in BOOLEAN
  BY CommandFields DEF Received
<1>2. asked \in Nat /\ asked <= c.count /\ asked <= c.resp /\ asked \in {c.count, c.resp}
  BY <1>1, LeastOfTwo
<1>3. CASE Invalid(d, c.count, TRUE)
  <2>1. Answered(d, total) = msc_request_failed(d, c.len, "phase")
    BY <1>1, <1>3 DEF Answered, msc_phase_error
  <2>2. QED
    BY <2>1, StatusAlone
<1>4. CASE ~ Invalid(d, c.count, TRUE) /\ total = 0
  <2>1. asked = 0
    BY <1>1, <1>2, <1>4
  <2>2. c.op \notin {"read", "write"} /\ ~ (total > 0) /\ c.len - asked = c.len
    BY <1>1, <1>4, <2>1
  <2>3. Answered(d, total) = msc_request_done_nodata(msc_prepare_csw(d, c.len, "pass"), c.len)
    BY <1>1, <1>4, <2>2 DEF Answered
  <2>4. Answered(d, total) = msc_request_failed(d, c.len, "pass")
    BY <2>2, <2>3 DEF msc_request_failed
  <2>5. QED
    BY <2>2, <2>4, StatusAlone
<1>5. CASE ~ Invalid(d, c.count, TRUE) /\ total # 0
  <2> DEFINE residue == c.len - asked
  <2>1. c.in /\ c.count <= c.len
    <3>1. c.in = TRUE /\ ~ (c.len < c.count)
      BY <1>1, <1>5, Zenon DEF Invalid
    <3>2. QED
      BY <1>1, <3>1
  <2>2. /\ total \in 1 .. c.len /\ residue \in Nat /\ c.len \in Nat \ {0}
        /\ ~ LongAnswer(c) => residue + total = c.len
    <3>1. CASE c.op = "info"
      BY <1>1, <1>2, <1>5, <2>1, <3>1
    <3>2. CASE c.op = "mode"
      <4>1. total = c.resp /\ c.count # 0
        BY <1>1, <1>5, <3>2
      <4>2. c.resp <= c.len
        BY <1>1, <3>2, <4>1 DEF CommandsFit
      <4>3. c.resp \in 1 .. c.len /\ residue \in Nat
        BY <1>1, <1>2, <1>5, <2>1, <4>1, <4>2
      <4>4. ~ LongAnswer(c) => asked = c.resp
        BY <1>1, <1>2, <3>2, <4>1 DEF LongAnswer
      <4>5. QED
        BY <1>1, <4>1, <4>3, <4>4
    <3>3. QED
      BY <3>1, <3>2
  <2>3. total > 0
    BY <1>1, <2>2
  <2> DEFINE e == msc_prepare_csw(d, residue, "pass")
             f == SubmitIn(e, Answer(total))
             g == IF residue = 0 THEN SubmitIn(f, Csw) ELSE f
  <2>4. Answered(d, total) = g
    BY <1>1, <1>5, <2>3 DEF Answered, msc_request_done
  <2> HIDE DEF residue
  <2>5. /\ e \in MscState /\ Kept(d, e) /\ SameBooks(d, e)
        /\ SameEnds(d, e) /\ Reports(e, d.tag, residue, "pass")
    BY <1>1, <2>2, PrepareCswDoes
  <2>6. Answer(total) \in UsbRequest /\ Csw \in UsbRequest
    <3>1. total \in Nat
      BY <1>1, <2>2
    <3>2. QED
      BY SMTT(60), <3>1, AnswerIsNoData DEF Csw, UsbRequest
  <2> HIDE DEF e
  <2>7. /\ f \in MscState /\ Kept(e, f) /\ SameBooks(e, f) /\ QueuedIn(e, f, Answer(total))
    BY <2>5, <2>6, SubmitInDoes
  <2> HIDE DEF f
  <2>8. /\ g \in MscState /\ Kept(f, g) /\ SameBooks(f, g)
        /\ g.inq = (IF residue = 0 THEN Append(f.inq, Csw) ELSE f.inq)
        /\ g.outq = f.outq /\ g.halted = f.halted /\ g.csw = f.csw
    <3>1. CASE residue = 0
      <4>1. g = SubmitIn(f, Csw)
        BY <3>1
      <4>2. Kept(f, g) /\ SameBooks(f, g) /\ QueuedIn(f, g, Csw) /\ g \in MscState
        BY <2>6, <2>7, <4>1, SubmitInDoes
      <4>3. QED
        BY <3>1, <4>2 DEF QueuedIn
    <3>2. CASE residue # 0
      BY <2>7, <3>2 DEF Kept, SameBooks
    <3>3. QED
      BY <3>1, <3>2
  <2> HIDE DEF g
  <2>9. /\ g.outq = << >> /\ g.halted = {} /\ Quiet(g)
        /\ g.csw.tag = h.tag /\ g.csw.residue = residue
        /\ g.enabled /\ ~ g.wedged /\ ~ g.queue_locked /\ g.cbw = c /\ g.tag = h.tag
        /\ g.told => g.not_ready
    BY <1>1, <2>5, <2>7, <2>8 DEF Received, Kept, SameBooks, Quiet, SameEnds, QueuedIn, Reports
  <2>10. g.inq = <<Answer(total)>> \o StatusBehind(g)
    <3>1. f.inq = <<Answer(total)>>
      BY <2>5, <2>7 DEF Received, SameEnds, QueuedIn
    <3>2. CASE residue = 0
      BY <2>8, <2>9, <3>1, <3>2 DEF StatusBehind
    <3>3. CASE residue # 0
      BY <2>8, <2>9, <3>1, <3>3 DEF StatusBehind
    <3>4. QED
      BY <3>2, <3>3
  <2>11. h.phase = "data" /\ h.moved = 0 /\ c.op \notin {"read", "write"}
    BY <1>1, <2>2 DEF Received
  <2>12. Answering(g, h)
    BY <2>1, <2>2, <2>9, <2>10, <2>11 DEF Answering
  <2>13. Always(g, h)
    BY <1>1, <2>8, <2>9 DEF Always, Quiet
  <2>14. QED
    BY <1>1, <2>4, <2>9, <2>12, <2>13 DEF Inv, Serving, Served
<1>6. QED
  BY <1>3, <1>4, <1>5

-----------------------------------------------------------------------------
(* Buffers are taken from the pool.                                        *)

\* What is taken for n blocks at most.
Fills(d, n, k) ==
    k <= n /\ k <= MSC_MAX_NR_BUFFERS /\ k <= d.free /\ k \in {n, MSC_MAX_NR_BUFFERS, d.free}

LEMMA FillFits ==
    ASSUME NEW d \in MscState, NEW n \in Nat
    PROVE  \E k \in Nat : k = Fill(d, n) /\ Fills(d, n, k)
<1>1. d.free \in Nat
  BY DEF MscState
<1>2. MSC_MAX_NR_BUFFERS \in Nat
  BY Constants
<1>3. PICK x \in Nat : x = d.free
  BY <1>1
<1>4. PICK y \in Nat : y = MSC_MAX_NR_BUFFERS
  BY <1>2
<1> DEFINE k == Min({n, y, x})
<1>5. k \in Nat /\ k <= n /\ k <= y /\ k <= x /\ k \in {n, y, x}
  BY LeastOfThree
<1>6. k = Fill(d, n)
  BY <1>3, <1>4 DEF Fill
<1> HIDE DEF k
<1>7. Fills(d, n, k)
  BY <1>3, <1>4, <1>5 DEF Fills
<1>8. QED
  BY <1>5, <1>6, <1>7

\* All but the list and the state of the block request.
SameBlockRequest(d, e) ==
    /\ e.breq.op = d.breq.op /\ e.breq.lba = d.breq.lba /\ e.breq.remaining = d.breq.remaining
    /\ e.breq.pos = d.breq.pos /\ e.breq.current = d.breq.current

\* k buffers have gone to the block device.
TakesToRead(d, e, k) ==
    /\ Kept(d, e) /\ SameBlockRequest(d, e) /\ SameEnds(d, e) /\ e.csw = d.csw
    /\ Len(e.breq.list) = Len(d.breq.list) + k
    /\ e.breq.st = (IF d.breq.st = "sleep" THEN "transfer" ELSE d.breq.st)
    /\ e.queued = d.queued + k /\ e.blk_pending = d.blk_pending + k
    /\ e.free = d.free - k /\ e.usb_pending = d.usb_pending

LEMMA ReadBuffersDo ==
    ASSUME NEW d \in MscState, d.queued <= d.total, NEW e, e = msc_submit_read_buffers(d)
    PROVE  /\ e \in MscState
           /\ \E k \in Nat : /\ Fills(d, d.total - d.queued, k)
                             /\ IF k = 0 THEN e = d ELSE TakesToRead(d, e, k)
<1>1. d.free \in Nat /\ d.blk_pending \in Nat /\ d.queued \in Nat /\ d.total \in Nat
  BY DEF MscState
<1>2. PICK n \in Nat : n = d.total - d.queued
  BY <1>1
<1>3. PICK k \in Nat : k = Fill(d, n) /\ Fills(d, n, k)
  BY FillFits
<1>4. CASE k = 0
  <2>1. e = d
    BY <1>2, <1>3, <1>4 DEF msc_submit_read_buffers
  <2>2. QED
    BY <1>2, <1>3, <1>4, <2>1
<1>5. CASE k # 0
  <2>1. PICK x \in Nat : x = d.free - k
    BY <1>1, <1>3 DEF Fills
  <2>2. PICK y \in Nat : y = d.blk_pending + k
    BY <1>1
  <2>3. PICK z \in Nat : z = d.queued + k
    BY <1>1
  <2> DEFINE f == [d EXCEPT !.free = x, !.blk_pending = y, !.queued = z]
  <2>4. e = SubmitBufList(f, Empties(k))
    BY <1>2, <1>3, <1>5, <2>1, <2>2, <2>3 DEF msc_submit_read_buffers, Empties
  <2>5. f \in MscState
    BY DEF MscState
  <2>6. /\ Kept(d, f) /\ SameEnds(d, f) /\ f.csw = d.csw /\ f.breq = d.breq
        /\ f.free = x /\ f.blk_pending = y /\ f.queued = z /\ f.usb_pending = d.usb_pending
    BY DEF MscState, Kept, SameEnds
  <2> HIDE DEF f
  <2>7. e \in MscState /\ Kept(f, e) /\ GivesBlocks(f, e, Empties(k))
    BY <2>4, <2>5, EmptiesAreBlocks, SubmitBufListDoes
  <2>8. Len(d.breq.list \o Empties(k)) = Len(d.breq.list) + k
    <3>1. d.breq.list \in Seq(Nat)
      BY DEF MscState, BlockReq
    <3>2. Empties(k) \in Seq(Nat) /\ Len(Empties(k)) = k
      BY EmptiesAreBlocks
    <3>3. QED
      BY <3>1, <3>2, LengthOfBoth
  <2>9. Kept(d, e) /\ SameBlockRequest(d, e) /\ SameEnds(d, e) /\ e.csw = d.csw
    BY <2>6, <2>7 DEF Kept, SameBlockRequest, SameEnds, GivesBlocks
  <2>10. /\ Len(e.breq.list) = Len(d.breq.list) + k
         /\ e.breq.st = (IF d.breq.st = "sleep" THEN "transfer" ELSE d.breq.st)
         /\ e.queued = z /\ e.blk_pending = y /\ e.free = x /\ e.usb_pending = d.usb_pending
    BY <2>6, <2>7, <2>8 DEF GivesBlocks
  <2>11. TakesToRead(d, e, k)
    BY <2>1, <2>2, <2>3, <2>9, <2>10 DEF TakesToRead
  <2>12. QED
    BY <1>2, <1>3, <1>5, <2>7, <2>11
<1>6. QED
  BY <1>4, <1>5

\* k buffers wait for data from the host.
TakesToWrite(d, e, k) ==
    /\ Kept(d, e) /\ e.breq = d.breq /\ e.csw = d.csw
    /\ e.inq = d.inq /\ e.outq = Append(d.outq, Data(Empties(k))) /\ e.halted = d.halted
    /\ e.queued = d.queued + k /\ e.blk_pending = d.blk_pending
    /\ e.free = d.free - k /\ e.usb_pending = d.usb_pending + 1

LEMMA WriteRequestDoes ==
    ASSUME NEW d \in MscState, d.queued <= d.total, NEW e, e = msc_submit_write_data_req(d)
    PROVE  /\ e \in MscState
           /\ \E k \in Nat : /\ Fills(d, d.total - d.queued, k)
                             /\ IF k = 0 THEN e = d ELSE TakesToWrite(d, e, k)
<1>1. d.free \in Nat /\ d.usb_pending \in Nat /\ d.queued \in Nat /\ d.total \in Nat
  BY DEF MscState
<1>2. PICK n \in Nat : n = d.total - d.queued
  BY <1>1
<1>3. PICK k \in Nat : k = Fill(d, n) /\ Fills(d, n, k)
  BY FillFits
<1>4. CASE k = 0
  <2>1. e = d
    BY <1>2, <1>3, <1>4 DEF msc_submit_write_data_req
  <2>2. QED
    BY <1>2, <1>3, <1>4, <2>1
<1>5. CASE k # 0
  <2>1. PICK x \in Nat : x = d.free - k
    BY <1>1, <1>3 DEF Fills
  <2>2. PICK y \in Nat : y = d.usb_pending + 1
    BY <1>1
  <2>3. PICK z \in Nat : z = d.queued + k
    BY <1>1
  <2> DEFINE f == [d EXCEPT !.free = x, !.usb_pending = y, !.queued = z]
  <2>4. e = SubmitOut(f, Data(Empties(k)))
    BY <1>2, <1>3, <1>5, <2>1, <2>2, <2>3 DEF msc_submit_write_data_req, Empties
  <2>5. f \in MscState
    BY DEF MscState
  <2>6. /\ Kept(d, f) /\ SameEnds(d, f) /\ f.csw = d.csw /\ f.breq = d.breq
        /\ f.free = x /\ f.usb_pending = y /\ f.queued = z /\ f.blk_pending = d.blk_pending
    BY DEF MscState, Kept, SameEnds
  <2> HIDE DEF f
  <2>7. Data(Empties(k)) \in UsbRequest
    BY EmptiesAreBlocks DEF Data, UsbRequest
  <2>8. e \in MscState /\ Kept(f, e) /\ SameBooks(f, e) /\ QueuedOut(f, e, Data(Empties(k)))
    BY <2>4, <2>5, <2>7, SubmitOutDoes
  <2>9. /\ Kept(d, e) /\ e.breq = d.breq /\ e.csw = d.csw
        /\ e.inq = d.inq /\ e.outq = Append(d.outq, Data(Empties(k))) /\ e.halted = d.halted
        /\ e.queued = z /\ e.blk_pending = d.blk_pending /\ e.free = x /\ e.usb_pending = y
    BY <2>6, <2>8 DEF Kept, SameBooks, SameEnds, QueuedOut
  <2>10. TakesToWrite(d, e, k)
    BY <2>1, <2>2, <2>3, <2>9 DEF TakesToWrite
  <2>11. QED
    BY <1>2, <1>3, <1>5, <2>8, <2>10
<1>6. QED
  BY <1>4, <1>5

-----------------------------------------------------------------------------
(* Commands that move blocks begin.                                        *)

\* Everything but the flag that a transfer is in progress.
LEMMA InProgressDoes ==
    ASSUME NEW d, NEW h, Received(d, h), NEW e, e = [d EXCEPT !.xfer_in_progress = TRUE]
    PROVE  /\ Received(e, h) /\ e.xfer_in_progress /\ e.not_ready = d.not_ready
           /\ e.csw = d.csw /\ e.queued = d.queued /\ e.total = d.total /\ e.told = d.told
<1>1. d \in MscState
  BY DEF Received
<1>2. e \in MscState
  BY <1>1 DEF MscState
<1>3. /\ SameBooks(d, e) /\ SameEnds(d, e) /\ e.csw = d.csw /\ e.total = d.total
      /\ e.wedged = d.wedged /\ e.cbw = d.cbw /\ e.tag = d.tag /\ e.xfer_in_progress = TRUE
      /\ e.queue_locked = d.queue_locked /\ e.enabled = d.enabled
      /\ e.not_ready = d.not_ready /\ e.told = d.told
  BY <1>1 DEF MscState, SameBooks, SameEnds
<1>4. QED
  BY <1>2, <1>3 DEF Received, Quiet, SameBooks, SameEnds

\* The status is prepared, and the block request of the command is queued.
Begun(d, h, residue) ==
    /\ d \in MscState /\ h \in HostState
    /\ d.breq.st = "transfer" /\ d.breq.op = h.cmd.op /\ d.breq.lba = h.cmd.lba
    /\ d.breq.remaining = h.cmd.count /\ d.breq.pos = 0
    /\ d.breq.list = << >> /\ d.breq.current = << >>
    /\ d.free = NrLargeObjs /\ d.usb_pending = 0 /\ d.total = h.cmd.count
    /\ Reports(d, h.tag, residue, "pass")
    /\ d.inq = << >> /\ d.outq = << >> /\ d.halted = {}
    /\ ~ d.wedged /\ d.enabled /\ d.xfer_in_progress /\ ~ d.told
    /\ h.cmd \in Command /\ d.cbw = h.cmd /\ d.tag = h.tag
    /\ h.phase = (IF h.cmd.len > 0 THEN "data" ELSE "status")
    /\ h.moved = 0 /\ h.got = << >> /\ h.stored = {}

LEMMA TransferBegins ==
    ASSUME NEW d, NEW h, Received(d, h), ~ d.not_ready, h.cmd.op \in {"read", "write"},
           NEW residue \in Nat, NEW e,
           e = QueueBlockRequest([msc_prepare_csw([d EXCEPT !.xfer_in_progress = TRUE], residue, "pass")
                                    EXCEPT !.total = d.cbw.count, !.queued = 0, !.queue_locked = TRUE,
                                           !.blk_pending = 0, !.usb_pending = 0])
    PROVE  Begun(e, h, residue) /\ e.queued = 0 /\ e.blk_pending = 0
<1> DEFINE x == [d EXCEPT !.xfer_in_progress = TRUE]
           y == msc_prepare_csw(x, residue, "pass")
           z == [y EXCEPT !.total = d.cbw.count, !.queued = 0, !.queue_locked = TRUE,
                          !.blk_pending = 0, !.usb_pending = 0]
<1>1. e = QueueBlockRequest(z)
  OBVIOUS
<1>2. Received(x, h) /\ x.xfer_in_progress /\ x.not_ready = d.not_ready
  BY InProgressDoes
<1> HIDE DEF x
<1>3. x \in MscState /\ d.cbw = h.cmd /\ h.cmd \in Command /\ h.cmd.count \in Nat
  BY <1>2, CommandFields DEF Received
<1>4. /\ y \in MscState /\ Kept(x, y) /\ SameBooks(x, y) /\ SameEnds(x, y)
      /\ Reports(y, x.tag, residue, "pass")
  BY <1>3, PrepareCswDoes
<1> HIDE DEF y
<1>5. PICK n \in Nat : n = d.cbw.count
  BY <1>3
<1>6. z = [y EXCEPT !.total = n, !.queued = 0, !.queue_locked = TRUE, !.blk_pending = 0, !.usb_pending = 0]
  BY <1>5
<1> HIDE DEF z
<1>7. z \in MscState
  BY <1>4, <1>6 DEF MscState
<1>8. /\ SameEnds(y, z) /\ z.csw = y.csw /\ z.total = n /\ z.queued = 0 /\ z.blk_pending = 0
      /\ z.usb_pending = 0 /\ z.free = y.free /\ z.breq = y.breq
      /\ z.wedged = y.wedged /\ z.cbw = y.cbw /\ z.tag = y.tag
      /\ z.xfer_in_progress = y.xfer_in_progress /\ z.told = y.told /\ z.enabled = y.enabled
  BY <1>4, <1>6 DEF MscState, SameEnds
<1>9. z.cbw = h.cmd /\ z.tag = h.tag
  BY <1>2, <1>4, <1>8 DEF Received, Kept
<1>10. z.cbw \in Command /\ z.cbw.op \in {"read", "write", "verify"}
  BY <1>3, <1>9
<1>11. e \in MscState /\ Kept(z, e) /\ StartsBlocks(z, e)
  BY <1>1, <1>7, <1>10, QueueBlockRequestDoes
<1>12. /\ e.breq.st = "transfer" /\ e.breq.op = h.cmd.op /\ e.breq.lba = h.cmd.lba
       /\ e.breq.remaining = h.cmd.count /\ e.breq.pos = 0
       /\ e.breq.list = << >> /\ e.breq.current = << >>
  BY <1>9, <1>11 DEF StartsBlocks
<1>13. /\ e.free = NrLargeObjs /\ e.usb_pending = 0 /\ e.total = h.cmd.count
       /\ e.queued = 0 /\ e.blk_pending = 0
  BY <1>2, <1>3, <1>4, <1>5, <1>8, <1>11 DEF StartsBlocks, Kept, SameBooks, Received, Quiet
<1>14. /\ Reports(e, h.tag, residue, "pass")
       /\ e.inq = << >> /\ e.outq = << >> /\ e.halted = {}
  BY <1>2, <1>4, <1>8, <1>11 DEF Reports, StartsBlocks, SameEnds, Received
<1>15. ~ e.wedged /\ e.enabled /\ e.xfer_in_progress /\ ~ e.told /\ e.cbw = h.cmd /\ e.tag = h.tag
  BY ZenonT(60), <1>2, <1>4, <1>8, <1>9, <1>11 DEF Kept, Received
<1>16. QED
  BY <1>11, <1>12, <1>13, <1>14, <1>15 DEF Begun, Received

\* The queue of the block request is unlocked again.
Unlocked(d, e) ==
    /\ SameBooks(d, e) /\ SameEnds(d, e) /\ e.csw = d.csw /\ e.total = d.total
    /\ e.wedged = d.wedged /\ e.cbw = d.cbw /\ e.tag = d.tag
    /\ e.xfer_in_progress = d.xfer_in_progress /\ e.told = d.told /\ e.enabled = d.enabled
    /\ ~ e.queue_locked

LEMMA UnlockDoes ==
    ASSUME NEW d \in MscState, NEW e, e = [d EXCEPT !.queue_locked = FALSE]
    PROVE  e \in MscState /\ Unlocked(d, e)
<1>1. e \in MscState
  BY DEF MscState
<1>2. Unlocked(d, e)
  BY DEF MscState, Unlocked, SameBooks, SameEnds
<1>3. QED
  BY <1>1, <1>2

LEMMA EndOfPage ==
    ASSUME NEW b \in BlockReq
    PROVE  EndOf(b) \in Nat /\ EndOf(b) >= 1 /\ (b.remaining >= 1 => EndOf(b) <= b.remaining)
BY Constants DEF EndOf, BlockReq

\* A block request that has just begun is where it should be.
LEMMA ActiveFromStart ==
    ASSUME NEW m \in MscState, NEW c \in Command, c.count # 0,
           m.xfer_in_progress, m.breq.st = "transfer", m.breq.op = c.op, m.breq.lba = c.lba,
           m.breq.remaining = c.count, m.breq.pos = 0, m.total = c.count, m.queued <= c.count
    PROVE  Active(m, c) /\ Taken(m, c) = 0
<1>1. c.count \in Nat /\ c.lba \in Nat /\ m.breq \in BlockReq
  BY CommandFields DEF MscState
<1>2. EndOf(m.breq) \in Nat /\ EndOf(m.breq) >= 1
  BY <1>1, EndOfPage
<1>3. Paged(m.breq)
  BY <1>2 DEF Paged
<1>4. /\ m.breq.remaining \in 1 .. c.count
      /\ m.breq.lba = c.lba + c.count - m.breq.remaining
      /\ Taken(m, c) = 0
  BY <1>1 DEF Taken
<1>5. QED
  BY <1>3, <1>4 DEF Active

LEMMA ReadStarts ==
    ASSUME CommandsFit, NEW f, NEW h, NEW residue \in Nat, Begun(f, h, residue),
           f.queued = 0, f.blk_pending = 0,
           h.cmd.op = "read", h.cmd.in, h.cmd.count # 0, h.cmd.count <= h.cmd.len,
           residue = h.cmd.len - h.cmd.count,
           NEW g, g = msc_submit_read_buffers(f), NEW e, e = [g EXCEPT !.queue_locked = FALSE]
    PROVE  g # f /\ Inv(e, h)
<1> DEFINE c == h.cmd
<1>1. f \in MscState /\ h \in HostState /\ c \in Command
  BY DEF Begun
<1>2. c.len \in Nat /\ c.lba \in Nat /\ c.count \in Nat
  BY <1>1, CommandFields
<1>3. f.total = c.count /\ f.free = NrLargeObjs
  BY DEF Begun
<1>4. f.queued <= f.total
  BY <1>2, <1>3
<1>5. g \in MscState
  BY <1>1, <1>4, ReadBuffersDo
<1>6. PICK k \in Nat : Fills(f, f.total - f.queued, k) /\ IF k = 0 THEN g = f ELSE TakesToRead(f, g, k)
  BY <1>1, <1>4, ReadBuffersDo
<1>7. k <= c.count /\ k <= MSC_MAX_NR_BUFFERS /\ k \in {c.count, MSC_MAX_NR_BUFFERS, NrLargeObjs} /\ k # 0
  BY <1>2, <1>3, <1>6, Constants DEF Fills
<1>8. TakesToRead(f, g, k)
  BY <1>6, <1>7
<1>9. g.queued = k /\ g.blk_pending = k /\ g.free = NrLargeObjs - k /\ g.usb_pending = 0
  BY <1>3, <1>8 DEF TakesToRead, Begun
<1>10. /\ Len(g.breq.list) = k /\ g.breq.current = << >> /\ g.breq.st = "transfer" /\ g.breq.op = c.op
       /\ g.breq.lba = c.lba /\ g.breq.remaining = c.count /\ g.breq.pos = 0
  <2>1. Len(g.breq.list) = Len(f.breq.list) + k /\ Len(f.breq.list) = 0
    BY <1>8 DEF TakesToRead, Begun
  <2>2. QED
    BY <1>8, <2>1 DEF TakesToRead, SameBlockRequest, Begun
<1>11. /\ g.inq = << >> /\ g.outq = << >> /\ g.halted = {} /\ Reports(g, h.tag, residue, "pass")
       /\ g.total = c.count /\ g.xfer_in_progress
       /\ ~ g.wedged /\ g.enabled /\ ~ g.told /\ g.cbw = c /\ g.tag = h.tag
  BY <1>8 DEF TakesToRead, Kept, SameEnds, Begun, Reports
<1>12. e \in MscState /\ Unlocked(g, e)
  BY <1>5, UnlockDoes
<1>13. /\ e.queued = k /\ e.blk_pending = k /\ e.free = NrLargeObjs - k /\ e.usb_pending = 0
       /\ Len(e.breq.list) = k /\ e.breq.current = << >> /\ e.breq.st = "transfer" /\ e.breq.op = c.op
       /\ e.breq.lba = c.lba /\ e.breq.remaining = c.count /\ e.breq.pos = 0
  BY <1>9, <1>10, <1>12 DEF Unlocked, SameBooks
<1>14. /\ e.inq = << >> /\ e.outq = << >> /\ e.halted = {} /\ Reports(e, h.tag, residue, "pass")
       /\ e.total = c.count /\ e.xfer_in_progress
       /\ ~ e.wedged /\ e.enabled /\ ~ e.told /\ e.cbw = c /\ e.tag = h.tag /\ ~ e.queue_locked
  BY <1>11, <1>12 DEF Unlocked, SameEnds, Reports
<1>15. h.phase = "data" /\ h.moved = 0 /\ h.got = << >>
  BY <1>2 DEF Begun
<1>16. Active(e, c) /\ Taken(e, c) = 0
  BY ZenonT(60), <1>1, <1>7, <1>12, <1>13, <1>14, ActiveFromStart
<1>17. AllData(<< >>) /\ Blocks(<< >>) = 0 /\ InFlight(<< >>) = 0 /\ Len(<< >>) = 0
  BY EmptyQueue DEF AllData
<1>18. Run(c.lba, 0) = << >> /\ c.lba + 0 = c.lba
  BY <1>2, RunIsSequence
<1>19. Carries(<< >>, c.lba, c.lba)
  BY DEF Carries
<1>20. ReadBooks(e, h, << >>)
  <2>1. e.free + Blocks(<< >>) + Len(e.breq.list) + Len(e.breq.current) = NrLargeObjs
    BY <1>7, <1>13, <1>17, Constants
  <2>2. h.moved < c.count
    BY <1>2, <1>15
  <2>3. QED
    BY <1>13, <1>14, <1>15, <1>17, <1>18, <2>1, <2>2 DEF ReadBooks, Reports
<1>21. Reading(e, h)
  <2> DEFINE n == h.moved + Blocks(e.inq)  l == Len(e.breq.current)
  <2>1. n = 0 /\ l = 0
    BY <1>13, <1>14, <1>15, <1>17
  <2>2. ReadBooks(e, h, e.inq)
    BY <1>14, <1>20
  <2>3. Carries(e.inq, c.lba + h.moved, c.lba + n)
    BY <1>14, <1>15, <1>18, <1>19, <2>1
  <2>4. e.breq.current = Run(c.lba + n, l)
    BY <1>13, <1>18, <2>1
  <2> HIDE DEF n, l
  <2>5. /\ n + l = Taken(e, c) /\ Taken(e, c) + Len(e.breq.list) = e.queued
        /\ e.blk_pending = Len(e.breq.list) + l
    BY <1>13, <1>16, <2>1
  <2>6. QED
    BY <1>16, <2>2, <2>3, <2>4, <2>5 DEF Reading, n, l
<1>22. OneRequest(e, h)
  <2> SUFFICES ASSUME c.count < c.len
               PROVE  /\ h.moved = 0 /\ e.queued = e.total
                      /\ e.breq.remaining = c.count /\ e.inq = << >> /\ EndOf(e.breq) = c.count
                      /\ e.breq.pos = 0 /\ e.breq.st = "transfer"
    BY <1>13 DEF OneRequest
  <2>1. /\ c.count <= MSC_MAX_NR_BUFFERS
        /\ c.count = 1 \/ (c.count = PageBlocks /\ c.lba % PageBlocks = 0)
    BY <1>1 DEF CommandsFit
  <2>2. k = c.count
    BY <1>2, <1>7, <2>1, Constants
  <2>3. EndOf(e.breq) = c.count
    <3>1. EndOf(e.breq) = IF c.lba % PageBlocks = 0 /\ c.count >= PageBlocks THEN PageBlocks ELSE 1
      BY <1>13 DEF EndOf
    <3>2. CASE c.count = PageBlocks /\ c.lba % PageBlocks = 0
      BY <1>2, <3>1, <3>2
    <3>3. CASE c.count = 1
      BY <1>2, <3>1, <3>3, Constants
    <3>4. QED
      BY <2>1, <3>2, <3>3
  <2>4. QED
    BY <1>13, <1>14, <1>15, <2>2, <2>3
<1>23. Always(e, h)
  BY <1>1, <1>12, <1>14 DEF Always
<1>24. Served(e, h)
  BY <1>1, <1>14 DEF Served, Reports
<1>25. g # f
  BY <1>7, <1>9, Constants
<1>26. QED
  BY <1>21, <1>22, <1>23, <1>24, <1>25 DEF Inv, Serving

LEMMA WriteStarts ==
    ASSUME NEW f, NEW h, NEW residue \in Nat, Begun(f, h, residue),
           f.queued = 0,
           h.cmd.op = "write", ~ h.cmd.in, h.cmd.count # 0, h.cmd.count <= h.cmd.len,
           residue = h.cmd.len - h.cmd.count,
           NEW g, g = msc_submit_write_data_req(f), NEW e, e = [g EXCEPT !.queue_locked = FALSE]
    PROVE  g # f /\ Inv(e, h)
<1> DEFINE c == h.cmd
<1>1. f \in MscState /\ h \in HostState /\ c \in Command
  BY DEF Begun
<1>2. c.len \in Nat /\ c.lba \in Nat /\ c.count \in Nat
  BY <1>1, CommandFields
<1>3. f.total = c.count /\ f.free = NrLargeObjs /\ f.outq = << >>
  BY DEF Begun
<1>4. f.queued <= f.total
  BY <1>2, <1>3
<1>5. g \in MscState
  BY <1>1, <1>4, WriteRequestDoes
<1>6. PICK k \in Nat : Fills(f, f.total - f.queued, k) /\ IF k = 0 THEN g = f ELSE TakesToWrite(f, g, k)
  BY <1>1, <1>4, WriteRequestDoes
<1>7. k <= c.count /\ k <= MSC_MAX_NR_BUFFERS /\ k # 0
  BY <1>2, <1>3, <1>6, Constants DEF Fills
<1>8. TakesToWrite(f, g, k)
  BY <1>6, <1>7
<1>9. g.queued = k /\ g.free = NrLargeObjs - k /\ g.usb_pending = 1 /\ g.breq = f.breq
  BY <1>3, <1>8 DEF TakesToWrite, Begun
<1>10. /\ g.inq = << >> /\ g.outq = Append(<< >>, Data(Empties(k))) /\ g.halted = {}
       /\ Reports(g, h.tag, residue, "pass") /\ g.total = c.count /\ g.xfer_in_progress
       /\ ~ g.wedged /\ g.enabled /\ ~ g.told /\ g.cbw = c /\ g.tag = h.tag
  BY <1>3, <1>8 DEF TakesToWrite, Kept, Begun, Reports
<1>11. AllData(g.outq) /\ InFlight(g.outq) = 1 /\ Blocks(g.outq) = k
  <2>1. << >> \in Seq(UsbRequest) /\ AllData(<< >>) /\ InFlight(<< >>) = 0 /\ Blocks(<< >>) = 0
    BY EmptyQueue DEF AllData
  <2>2. Empties(k) \in Seq(Nat) /\ Len(Empties(k)) = k /\ k \in 1 .. NrLargeObjs
    BY SMTT(60), <1>7, EmptiesAreBlocks, Constants
  <2>3. /\ AllData(Append(<< >>, Data(Empties(k))))
        /\ InFlight(Append(<< >>, Data(Empties(k)))) = 0 + 1
        /\ Blocks(Append(<< >>, Data(Empties(k)))) = 0 + k
    BY <2>1, <2>2, OneMoreData
  <2>4. QED
    BY <1>10, <2>3
<1>12. e \in MscState /\ Unlocked(g, e)
  BY <1>5, UnlockDoes
<1>13. /\ e.queued = k /\ e.free = NrLargeObjs - k /\ e.usb_pending = 1
       /\ e.breq.list = << >> /\ e.breq.current = << >> /\ e.breq.st = "transfer" /\ e.breq.op = c.op
       /\ e.breq.lba = c.lba /\ e.breq.remaining = c.count /\ e.breq.pos = 0
  BY <1>9, <1>12 DEF Unlocked, SameBooks, Begun
<1>14. /\ e.inq = << >> /\ e.outq = g.outq /\ e.halted = {} /\ Reports(e, h.tag, residue, "pass")
       /\ e.total = c.count /\ e.xfer_in_progress
       /\ ~ e.wedged /\ e.enabled /\ ~ e.told /\ e.cbw = c /\ e.tag = h.tag /\ ~ e.queue_locked
  BY <1>10, <1>12 DEF Unlocked, SameEnds, Reports
<1>15. h.moved = 0 /\ h.stored = {} /\ h.phase = (IF h.moved = c.len THEN "status" ELSE "data")
  BY <1>2 DEF Begun
<1>16. Active(e, c) /\ Taken(e, c) = 0
  BY <1>1, <1>7, <1>12, <1>13, <1>14, ActiveFromStart
<1>17. Writing(e, h)
  <2>1. Len(e.breq.list) = 0 /\ Len(e.breq.current) = 0
    BY <1>13
  <2>2. e.breq.list = Run(0 + 1, 0)
    BY SMTT(60), <1>13, RunIsSequence
  <2>3. {} = {<<c.lba + i - 1, i>> : i \in 1 .. 0}
    <3>1. 1 .. 0 = {}
      OBVIOUS
    <3>2. QED
      BY <3>1
  <2>4. e.free + Blocks(e.outq) + Len(e.breq.list) + Len(e.breq.current) = NrLargeObjs
    BY <1>7, <1>11, <1>13, <1>14, <2>1, Constants
  <2>5. /\ Taken(e, c) + Len(e.breq.list) = h.moved
        /\ h.moved + Blocks(e.outq) = e.queued
        /\ e.usb_pending = InFlight(e.outq) /\ AllData(e.outq)
    BY <1>11, <1>13, <1>14, <1>15, <1>16, <2>1
  <2>6. e.csw.residue = c.len - c.count /\ e.csw.status = "pass"
    BY <1>14 DEF Reports
  <2>7. e.breq.list = Run(Taken(e, c) + 1, Len(e.breq.list))
    BY <1>16, <2>1, <2>2
  <2>8. h.stored = {<<c.lba + i - 1, i>> : i \in 1 .. Taken(e, c)}
    BY <1>15, <1>16, <2>3
  <2>9. QED
    BY <1>14, <1>15, <1>16, <2>4, <2>5, <2>6, <2>7, <2>8 DEF Writing
<1>18. Always(e, h)
  BY <1>1, <1>12, <1>14 DEF Always
<1>19. Served(e, h)
  BY <1>1, <1>14 DEF Served, Reports
<1>20. g # f
  BY <1>7, <1>9, Constants DEF Begun
<1>21. QED
  BY <1>17, <1>18, <1>19, <1>20 DEF Inv, Serving

\* The block request of a verification is queued, and k buffers are taken for it.
VerifyBegun(f, h, k) ==
    /\ f \in MscState /\ h \in HostState
    /\ f.breq.st = "transfer" /\ f.breq.op = "verify" /\ f.breq.lba = h.cmd.lba
    /\ f.breq.remaining = h.cmd.count /\ f.breq.pos = 0
    /\ f.breq.list = << >> /\ f.breq.current = << >>
    /\ f.free = NrLargeObjs - k /\ f.usb_pending = 0 /\ f.total = h.cmd.count /\ f.queued = k
    /\ k <= h.cmd.count /\ k <= NrLargeObjs
    /\ Reports(f, h.tag, h.cmd.len, "pass")
    /\ f.inq = << >> /\ f.outq = << >> /\ f.halted = {} /\ ~ f.queue_locked
    /\ ~ f.wedged /\ f.enabled /\ f.xfer_in_progress /\ ~ f.told
    /\ h.cmd \in Command /\ f.cbw = h.cmd /\ f.tag = h.tag
    /\ h.cmd.op = "verify" /\ ~ h.cmd.in /\ h.cmd.count # 0
    /\ h.phase = (IF h.cmd.len > 0 THEN "data" ELSE "status") /\ h.moved = 0

LEMMA VerifyStarts ==
    ASSUME NEW f, NEW h, NEW k \in Nat, k # 0, VerifyBegun(f, h, k),
           NEW e, e = SubmitBufList(f, Empties(k))
    PROVE  Inv(e, h)
<1> DEFINE c == h.cmd
<1>0. f \in MscState /\ h \in HostState
  BY DEF VerifyBegun
<1>1. c \in Command /\ c.len \in Nat /\ c.lba \in Nat /\ c.count \in Nat
  BY CommandFields DEF VerifyBegun
<1>2. Empties(k) \in Seq(Nat) /\ Len(Empties(k)) = k
  BY EmptiesAreBlocks
<1>3. e \in MscState /\ Kept(f, e) /\ GivesBlocks(f, e, Empties(k))
  BY <1>0, <1>2, SubmitBufListDoes
<1>4. Len(e.breq.list) = k
  <2>1. << >> \o Empties(k) = Empties(k)
    BY <1>2
  <2>2. e.breq.list = Empties(k)
    BY <1>3, <2>1 DEF GivesBlocks, VerifyBegun
  <2>3. QED
    BY <1>2, <2>2
<1>5. /\ e.breq.st = "transfer" /\ e.breq.op = c.op /\ e.breq.lba = c.lba
      /\ e.breq.remaining = c.count /\ e.breq.pos = 0 /\ e.breq.current = << >>
      /\ e.queued = k /\ e.free = NrLargeObjs - k /\ e.usb_pending = 0
  BY <1>3 DEF GivesBlocks, VerifyBegun
<1>6. /\ e.inq = << >> /\ e.outq = << >> /\ e.halted = {} /\ Reports(e, h.tag, c.len, "pass")
      /\ e.total = c.count /\ e.xfer_in_progress /\ ~ e.wedged /\ e.enabled /\ ~ e.told
      /\ e.cbw = c /\ e.tag = h.tag /\ ~ e.queue_locked
  BY <1>3 DEF GivesBlocks, Kept, SameEnds, Reports, VerifyBegun
<1>7. Active(e, c) /\ Taken(e, c) = 0
  <2>1. c.count # 0 /\ k <= c.count
    BY DEF VerifyBegun
  <2>2. QED
    BY <1>1, <1>3, <1>5, <1>6, <2>1, ActiveFromStart
<1>8. Verifying(e, h)
  <2>1. h.phase = (IF c.len = 0 THEN "status" ELSE "data")
    BY <1>1 DEF VerifyBegun
  <2>2. Len(e.breq.current) = 0
    BY <1>5
  <2>3. Taken(e, c) + Len(e.breq.list) = e.queued
    BY <1>4, <1>5, <1>7
  <2>4. e.free + Len(e.breq.list) + Len(e.breq.current) = NrLargeObjs
    BY <1>4, <1>5, <2>2, Constants DEF VerifyBegun
  <2>5. e.csw.residue = c.len /\ e.csw.status = "pass"
    BY <1>6 DEF Reports
  <2>6. QED
    BY <1>5, <1>6, <1>7, <2>1, <2>3, <2>4, <2>5 DEF Verifying, VerifyBegun
<1>9. Always(e, h)
  BY <1>0, <1>3, <1>6 DEF Always
<1>10. Served(e, h)
  BY <1>1, <1>6 DEF Served, Reports
<1>11. QED
  BY <1>8, <1>9, <1>10 DEF Inv, Serving

LEMMA VerifyHandled ==
    ASSUME NEW d, NEW h, Received(d, h), h.cmd.op = "verify"
    PROVE  Inv(msc_do_verify(d), h)
<1> DEFINE c == h.cmd
           x == [d EXCEPT !.xfer_in_progress = TRUE]
<1>1. /\ d \in MscState /\ h \in HostState /\ c \in Command /\ d.cbw = c
      /\ c.len \in Nat /\ c.lba \in Nat /\ c.count \in Nat /\ c.in \in BOOLEAN
  BY CommandFields DEF Received
<1>2. CASE Invalid(d, 0, FALSE)
  <2>1. msc_do_verify(d) = msc_request_failed(d, c.len, "phase")
    BY <1>1, <1>2 DEF msc_do_verify, msc_phase_error
  <2>2. QED
    BY <2>1, StatusAlone
<1>3. CASE ~ Invalid(d, 0, FALSE) /\ d.not_ready
  <2>1. msc_do_verify(d) = msc_request_failed(d, c.len, "fail")
    BY <1>1, <1>3 DEF msc_do_verify
  <2>2. QED
    BY <2>1, StatusAlone
<1>4. CASE ~ Invalid(d, 0, FALSE) /\ ~ d.not_ready /\ c.count = 0
  <2>1. Received(x, h)
    BY InProgressDoes
  <2>2. msc_do_verify(d) = msc_request_failed(x, c.len, "pass")
    BY <1>1, <1>4 DEF msc_do_verify, msc_request_failed
  <2> HIDE DEF x
  <2>3. c.op \notin {"read", "write"}
    OBVIOUS
  <2>4. QED
    BY <2>1, <2>2, <2>3, StatusAlone
<1>5. CASE ~ Invalid(d, 0, FALSE) /\ ~ d.not_ready /\ c.count # 0
  <2>1. c.in = FALSE
    BY <1>1, <1>5, Zenon DEF Invalid
  <2>2. Received(x, h) /\ x.xfer_in_progress /\ ~ x.told
    BY <1>5, InProgressDoes DEF Received
  <2>3. PICK n \in Nat : n = c.len
    BY <1>1
  <2>4. PICK t \in Nat : t = c.count
    BY <1>1
  <2>5. PICK k \in Nat : k = Fill(d, t) /\ Fills(d, t, k)
    BY <1>1, FillFits
  <2>6. k <= t /\ k # 0 /\ k <= NrLargeObjs
    BY <1>5, <2>4, <2>5, Constants DEF Fills, Received, Quiet
  <2> DEFINE y == msc_prepare_csw(x, n, "pass")
             z == [y EXCEPT !.total = t, !.queued = k, !.free = @ - k]
             f == QueueBlockRequest(z)
  <2>7. msc_do_verify(d) = SubmitBufList(f, Empties(k))
    BY <1>1, <1>5, <2>3, <2>4, <2>5, <2>6 DEF msc_do_verify, Empties
  <2> HIDE DEF x
  <2>8. x \in MscState
    BY <2>2 DEF Received
  <2>9. /\ y \in MscState /\ Kept(x, y) /\ SameBooks(x, y) /\ SameEnds(x, y)
        /\ Reports(y, x.tag, n, "pass")
    BY <2>8, PrepareCswDoes
  <2> HIDE DEF y
  <2>10. PICK r \in Nat : r = y.free - k
    BY <2>2, <2>6, <2>9, Constants DEF SameBooks, Received, Quiet
  <2>11. z = [y EXCEPT !.total = t, !.queued = k, !.free = r]
    BY <2>9, <2>10 DEF MscState
  <2> HIDE DEF z
  <2>12. z \in MscState
    BY <2>9, <2>11 DEF MscState
  <2>13. /\ SameEnds(y, z) /\ z.csw = y.csw /\ z.total = t /\ z.queued = k /\ z.free = r
         /\ z.usb_pending = y.usb_pending
         /\ z.wedged = y.wedged /\ z.cbw = y.cbw /\ z.tag = y.tag /\ z.queue_locked = y.queue_locked
         /\ z.xfer_in_progress = y.xfer_in_progress /\ z.told = y.told /\ z.enabled = y.enabled
    BY <2>9, <2>11 DEF MscState, SameEnds
  <2>14. z.cbw = c /\ z.tag = h.tag /\ z.free = NrLargeObjs - k /\ z.usb_pending = 0
    BY <2>2, <2>9, <2>10, <2>13 DEF Received, Quiet, Kept, SameBooks
  <2>15. f \in MscState /\ Kept(z, f) /\ StartsBlocks(z, f)
    BY <1>1, <2>12, <2>14, QueueBlockRequestDoes
  <2> HIDE DEF f
  <2>16. /\ f.breq.st = "transfer" /\ f.breq.op = "verify" /\ f.breq.lba = c.lba
         /\ f.breq.remaining = c.count /\ f.breq.pos = 0
         /\ f.breq.list = << >> /\ f.breq.current = << >>
         /\ f.free = NrLargeObjs - k /\ f.usb_pending = 0 /\ f.queued = k
    BY <2>13, <2>14, <2>15 DEF StartsBlocks
  <2>17. /\ Reports(f, h.tag, c.len, "pass") /\ f.inq = << >> /\ f.outq = << >> /\ f.halted = {}
    BY <2>2, <2>3, <2>9, <2>13, <2>15 DEF Reports, StartsBlocks, SameEnds, Received
  <2>18. /\ f.total = c.count /\ ~ f.queue_locked /\ ~ f.wedged /\ f.enabled /\ f.xfer_in_progress
         /\ ~ f.told /\ f.cbw = c /\ f.tag = h.tag
    BY <2>2, <2>4, <2>9, <2>13, <2>14, <2>15 DEF Kept, Received
  <2>19. VerifyBegun(f, h, k)
    BY <1>1, <1>5, <2>1, <2>2, <2>4, <2>6, <2>15, <2>16, <2>17, <2>18 DEF VerifyBegun, Received
  <2>20. QED
    BY <2>6, <2>7, <2>19, VerifyStarts
<1>6. QED
  BY <1>2, <1>3, <1>4, <1>5

LEMMA TransferHandled ==
    ASSUME CommandsFit, NEW d, NEW h, Received(d, h), h.cmd.op \in {"read", "write"}
    PROVE  Inv(Transfer(d), h)
<1> DEFINE c == h.cmd
           x == [d EXCEPT !.xfer_in_progress = TRUE]
           in == c.op = "read"
<1>1. /\ d \in MscState /\ h \in HostState /\ c \in Command /\ d.cbw = c
      /\ c.len \in Nat /\ c.lba \in Nat /\ c.count \in Nat /\ c.in \in BOOLEAN
  BY CommandFields DEF Received
<1>2. CASE Invalid(d, c.count, in)
  <2>1. Transfer(d) = msc_request_failed(d, c.len, "phase")
    BY <1>1, <1>2 DEF Transfer, msc_phase_error
  <2>2. QED
    BY <2>1, StatusAlone
<1>3. CASE ~ Invalid(d, c.count, in) /\ d.not_ready
  <2>1. Transfer(d) = msc_request_failed(d, c.len, "fail")
    BY <1>1, <1>3 DEF Transfer
  <2>2. QED
    BY <2>1, StatusAlone
<1>4. CASE ~ Invalid(d, c.count, in) /\ ~ d.not_ready /\ c.count = 0
  <2>1. Received(x, h)
    BY InProgressDoes
  <2>2. Transfer(d) = msc_request_failed(x, c.len, "pass")
    <3>1. c.len - c.count = c.len
      BY <1>1, <1>4
    <3>2. Transfer(d) = msc_request_done_nodata(msc_prepare_csw(x, c.len - c.count, "pass"), c.len - c.count)
      BY <1>1, <1>4 DEF Transfer
    <3>3. QED
      BY <3>1, <3>2 DEF msc_request_failed
  <2> HIDE DEF x
  <2>3. QED
    BY <1>4, <2>1, <2>2, StatusAlone
<1>5. CASE ~ Invalid(d, c.count, in) /\ ~ d.not_ready /\ c.count # 0
  <2>1. c.in = in /\ c.count <= c.len
    <3>1. c.in = in /\ ~ (c.len < c.count)
      BY <1>1, <1>5, Zenon DEF Invalid
    <3>2. QED
      BY <1>1, <3>1
  <2>2. PICK residue \in Nat : residue = c.len - c.count
    BY <1>1, <2>1
  <2> DEFINE f == QueueBlockRequest([msc_prepare_csw(x, residue, "pass")
                                        EXCEPT !.total = d.cbw.count, !.queued = 0, !.queue_locked = TRUE,
                                               !.blk_pending = 0, !.usb_pending = 0])
             g == IF in THEN msc_submit_read_buffers(f) ELSE msc_submit_write_data_req(f)
  <2>3. Begun(f, h, residue) /\ f.queued = 0 /\ f.blk_pending = 0
    BY <1>5, TransferBegins
  <2>4. Transfer(d) = [IF g = f THEN msc_phase_error(f) ELSE g EXCEPT !.queue_locked = FALSE]
    BY <1>1, <1>5, <2>2 DEF Transfer
  <2> HIDE DEF f
  <2>5. g # f => Transfer(d) = [g EXCEPT !.queue_locked = FALSE]
    BY <2>4
  <2>6. CASE in
    <3>1. c.in /\ g = msc_submit_read_buffers(f)
      BY <2>1, <2>6
    <3>2. g # f /\ Inv([g EXCEPT !.queue_locked = FALSE], h)
      BY <1>5, <2>1, <2>2, <2>3, <2>6, <3>1, ReadStarts
    <3>3. QED
      BY <2>5, <3>2
  <2>7. CASE ~ in
    <3>1. ~ c.in /\ g = msc_submit_write_data_req(f) /\ c.op = "write"
      BY <2>1, <2>7
    <3>2. g # f /\ Inv([g EXCEPT !.queue_locked = FALSE], h)
      BY <1>5, <2>1, <2>2, <2>3, <3>1, WriteStarts
    <3>3. QED
      BY <2>5, <3>2
  <2>8. QED
    BY <2>6, <2>7
<1>6. QED
  BY <1>2, <1>3, <1>4, <1>5

LEMMA CommandHandled ==
    ASSUME CommandsFit, NEW d, NEW h, Received(d, h)
    PROVE  Inv(Handle(d), h)
<1> DEFINE c == h.cmd
<1>1. /\ c \in Command /\ d.cbw = c
      /\ c.op \in {"read", "write", "verify", "info", "mode", "ready", "bad"}
  BY CommandFields DEF Received
<1>2. CASE c.op \in {"read", "write"}
  <2>1. Handle(d) = Transfer(d)
    BY <1>1, <1>2 DEF Handle
  <2>2. QED
    BY <1>2, <2>1, TransferHandled
<1>3. CASE c.op = "verify"
  <2>1. Handle(d) = msc_do_verify(d)
    BY <1>1, <1>3 DEF Handle
  <2>2. QED
    BY <1>3, <2>1, VerifyHandled
<1>4. CASE c.op = "info"
  <2>1. Handle(d) = Answered(d, Min({c.count, c.resp}))
    BY <1>1, <1>4 DEF Handle, Inform
  <2>2. QED
    BY <1>4, <2>1, AnswerSent
<1>5. CASE c.op = "mode"
  <2>1. Handle(d) = Answered(d, IF c.count > 0 THEN c.resp ELSE 0)
    BY <1>1, <1>5 DEF Handle, msc_mode_sense
  <2>2. QED
    BY <1>5, <2>1, AnswerSent
<1>6. CASE c.op = "ready"
  <2>1. Handle(d) = msc_request_failed(d, c.len, IF d.not_ready THEN "fail" ELSE "pass")
    BY <1>1, <1>6 DEF Handle, msc_test_unit_ready
  <2>2. QED
    BY <1>6, <2>1, StatusAlone
<1>7. CASE c.op = "bad"
  <2>1. Handle(d) = msc_request_failed(d, c.len, "fail")
    BY <1>1, <1>7 DEF Handle
  <2>2. QED
    BY <2>1, StatusAlone
<1>8. QED
  BY <1>1, <1>2, <1>3, <1>4, <1>5, <1>6, <1>7

-----------------------------------------------------------------------------
(* The host sends a command, recovers, or the application is busy.         *)

LEMMA PhaseTells ==
    ASSUME NEW m, NEW h, Inv(m, h)
    PROVE  /\ h.phase = "idle" => AtRest(m, h)
           /\ h.phase = "recover" => Recovering(m, h)
           /\ h.phase \in {"data", "status"} => Serving(m, h)
           /\ ~ m.enabled => AtRest(m, h)
<1>1. ASSUME Serving(m, h) PROVE h.phase \in {"data", "status"} /\ m.enabled
  <2>1. m.enabled
    BY <1>1 DEF Serving, Served
  <2>2. CASE Ending(m, h)
    BY <2>1, <2>2 DEF Ending
  <2>3. CASE Answering(m, h)
    BY <2>1, <2>3 DEF Answering
  <2>4. CASE Writing(m, h)
    BY <2>1, <2>4 DEF Writing
  <2>5. CASE Verifying(m, h)
    BY <2>1, <2>5 DEF Verifying
  <2>6. CASE Reading(m, h)
    BY <2>1, <2>6 DEF Reading, ReadBooks
  <2>7. CASE Draining(m, h)
    BY <2>1, <2>7 DEF Draining, ReadBooks
  <2>8. QED
    BY <1>1, <2>2, <2>3, <2>4, <2>5, <2>6, <2>7 DEF Serving
<1>2. CASE AtRest(m, h)
  BY <1>2 DEF AtRest
<1>3. CASE Recovering(m, h)
  BY <1>3 DEF Recovering
<1>4. CASE Serving(m, h)
  BY <1>1, <1>4
<1>5. QED
  BY <1>2, <1>3, <1>4 DEF Inv

LEMMA HostCommandKeeps ==
    ASSUME CommandsFit, MscInv, NEW c \in Command, NEW tag \in {1, 2}, HostCommand(c, tag)
    PROVE  MscInv'
<1> DEFINE d == [msc EXCEPT !.outq = Tail(@), !.cbw = c, !.tag = tag]
<1>1. /\ initiator.phase = "idle" /\ msc.outq # << >>
      /\ initiator' = [phase |-> IF c.len > 0 THEN "data" ELSE "status",
                       cmd |-> c, tag |-> tag, moved |-> 0, got |-> << >>, stored |-> {}]
      /\ msc' = Handle(d)
  BY DEF HostCommand
<1>2. msc \in MscState /\ AtRest(msc, initiator) /\ ~ msc.queue_locked /\ (msc.told => msc.not_ready)
  BY <1>1, PhaseTells DEF MscInv, Inv, Always
<1>3. msc.enabled /\ msc.outq = <<Cbw>>
  BY <1>1, <1>2 DEF AtRest
<1>4. Tail(msc.outq) = << >> /\ << >> \in Seq(UsbRequest)
  BY <1>3
<1>5. d = [msc EXCEPT !.outq = << >>, !.cbw = c, !.tag = tag]
  BY <1>4
<1> HIDE DEF d
<1>6. d \in MscState
  <2>1. c \in Command \cup {NoCommand} /\ tag \in 0 .. 2 /\ msc \in MscState
    BY <1>2
  <2>2. QED
    BY ONLY <1>4, <1>5, <2>1 DEF MscState
<1>7. /\ SameBooks(msc, d) /\ d.inq = msc.inq /\ d.outq = << >> /\ d.halted = msc.halted
      /\ d.wedged = msc.wedged /\ d.queue_locked = msc.queue_locked /\ d.enabled = msc.enabled
      /\ d.told = msc.told /\ d.not_ready = msc.not_ready /\ d.cbw = c /\ d.tag = tag
  BY <1>2, <1>5 DEF MscState, SameBooks
<1> DEFINE ph == IF c.len > 0 THEN "data" ELSE "status"
<1>8. initiator' = [phase |-> ph, cmd |-> c, tag |-> tag, moved |-> 0, got |-> << >>, stored |-> {}]
  BY <1>1
<1>9. ph \in {"data", "status"}
  OBVIOUS
<1> HIDE DEF ph
<1>10. initiator' \in HostState
  BY <1>8, <1>9 DEF HostState
<1>11. /\ initiator'.phase = ph /\ initiator'.cmd = c /\ initiator'.tag = tag
       /\ initiator'.moved = 0 /\ initiator'.got = << >> /\ initiator'.stored = {}
  BY <1>8
<1>12. Received(d, initiator')
  BY <1>2, <1>3, <1>6, <1>7, <1>10, <1>11 DEF Received, AtRest, Quiet, SameBooks, ph
<1>13. Inv(msc', initiator')
  BY <1>1, <1>12, CommandHandled
<1>14. QED
  BY <1>13 DEF MscInv

\* Only where the host is has changed.
Elsewhere(h, k, phase) ==
    /\ k.phase = phase /\ k.cmd = h.cmd /\ k.tag = h.tag /\ k.moved = h.moved
    /\ k.got = h.got /\ k.stored = h.stored

LEMMA PhaseDoes ==
    ASSUME NEW h \in HostState, NEW phase \in {"idle", "data", "status", "recover"},
           NEW k, k = [h EXCEPT !.phase = phase]
    PROVE  k \in HostState /\ Elsewhere(h, k, phase)
<1>1. k \in HostState
  BY DEF HostState
<1>2. Elsewhere(h, k, phase)
  BY DEF HostState, Elsewhere
<1>3. QED
  BY <1>1, <1>2

LEMMA HostInvalidCommandKeeps ==
    ASSUME MscInv, HostInvalidCommand
    PROVE  MscInv'
<1>1. /\ initiator.phase = "idle" /\ msc.outq # << >>
      /\ initiator' = [initiator EXCEPT !.phase = "recover"]
      /\ msc' = [msc EXCEPT !.outq = Tail(@), !.halted = {"in", "out"}, !.wedged = TRUE]
  BY DEF HostInvalidCommand
<1>2. /\ msc \in MscState /\ initiator \in HostState /\ AtRest(msc, initiator)
      /\ ~ msc.queue_locked /\ (msc.told => msc.not_ready /\ msc.breq = NoBlockRequest)
  BY <1>1, PhaseTells DEF MscInv, Inv, Always
<1>3. msc.enabled /\ msc.outq = <<Cbw>>
  BY <1>1, <1>2 DEF AtRest
<1>4. Tail(msc.outq) = << >> /\ << >> \in Seq(UsbRequest) /\ {"in", "out"} \in SUBSET {"in", "out"}
  BY <1>3
<1>5. msc' = [msc EXCEPT !.outq = << >>, !.halted = {"in", "out"}, !.wedged = TRUE]
  BY <1>1, <1>4
<1>6. msc' \in MscState
  BY <1>2, <1>4, <1>5 DEF MscState
<1>7. /\ SameBooks(msc, msc') /\ msc'.inq = msc.inq /\ msc'.outq = << >>
      /\ msc'.queue_locked = msc.queue_locked /\ msc'.enabled = msc.enabled
      /\ msc'.told = msc.told /\ msc'.not_ready = msc.not_ready
  BY <1>2, <1>5 DEF MscState, SameBooks
<1>8. initiator' \in HostState /\ initiator'.phase = "recover"
  BY <1>1, <1>2, PhaseDoes DEF Elsewhere
<1>9. Recovering(msc', initiator')
  BY <1>2, <1>3, <1>7, <1>8 DEF Recovering, AtRest, Quiet, SameBooks
<1>10. Always(msc', initiator')
  BY <1>2, <1>6, <1>7, <1>8 DEF Always, SameBooks
<1>11. QED
  BY <1>9, <1>10 DEF MscInv, Inv

LEMMA DataStalledKeeps ==
    ASSUME MscInv, DataStalled
    PROVE  MscInv'
<1> DEFINE c == initiator.cmd  ep == EndpointOf(c)
<1>1. /\ initiator.phase = "data" /\ ep \in msc.halted /\ msc' = ClearHalt(msc, ep)
      /\ initiator' = [initiator EXCEPT !.phase = "status"]
  BY DEF DataStalled, EndpointOf
<1>2. /\ msc \in MscState /\ initiator \in HostState /\ Serving(msc, initiator)
      /\ ~ msc.queue_locked /\ (msc.told => msc.not_ready /\ msc.breq = NoBlockRequest)
  BY <1>1, PhaseTells DEF MscInv, Inv, Always
<1>3. Served(msc, initiator) /\ Ending(msc, initiator)
  <2>1. msc.halted # {}
    BY <1>1
  <2>2. ~ Answering(msc, initiator) /\ ~ Writing(msc, initiator) /\ ~ Verifying(msc, initiator)
    BY <2>1 DEF Answering, Writing, Verifying
  <2>3. ~ Reading(msc, initiator) /\ ~ Draining(msc, initiator)
    BY <2>1 DEF Reading, Draining, ReadBooks
  <2>4. QED
    BY <1>2, <2>2, <2>3 DEF Serving
<1>4. ep \in {"in", "out"} /\ msc.halted = {ep} /\ ~ msc.wedged
  BY <1>1, <1>3 DEF Ending, EndpointOf, Served
<1>5. /\ msc' \in MscState /\ Kept(msc, msc') /\ SameBooks(msc, msc')
      /\ HaltsAre(msc, msc', IF msc.wedged THEN msc.halted ELSE msc.halted \ {ep})
  BY <1>1, <1>2, <1>4, ClearHaltDoes
<1>6. initiator' \in HostState /\ Elsewhere(initiator, initiator', "status")
  BY <1>1, <1>2, PhaseDoes
<1>7. msc'.halted = {}
  BY <1>4, <1>5 DEF HaltsAre
<1>8. Passed(msc', initiator')
  BY <1>3, <1>5, <1>6 DEF Ending, Passed, HaltsAre, Elsewhere
<1>9. Ending(msc', initiator')
  BY <1>3, <1>5, <1>6, <1>7, <1>8 DEF Ending, Elsewhere, HaltsAre, SameBooks, Quiet
<1>10. Served(msc', initiator')
  BY <1>3, <1>5, <1>6 DEF Served, Kept, HaltsAre, Elsewhere
<1>11. Always(msc', initiator')
  BY <1>2, <1>5, <1>6 DEF Always, Kept, SameBooks
<1>12. QED
  BY <1>9, <1>10, <1>11 DEF MscInv, Inv, Serving

LEMMA StatusStalledKeeps ==
    ASSUME MscInv, StatusStalled
    PROVE  MscInv'
<1>1. /\ initiator.phase = "status" /\ "in" \in msc.halted /\ msc' = ClearHalt(msc, "in")
      /\ initiator' = [initiator EXCEPT !.phase = IF msc.wedged THEN "recover" ELSE @]
  BY DEF StatusStalled
<1>2. /\ msc \in MscState /\ initiator \in HostState /\ Serving(msc, initiator)
      /\ ~ msc.queue_locked /\ (msc.told => msc.not_ready /\ msc.breq = NoBlockRequest)
  BY <1>1, PhaseTells DEF MscInv, Inv, Always
<1>3. Served(msc, initiator) /\ Ending(msc, initiator)
  <2>1. msc.halted # {}
    BY <1>1
  <2>2. ~ Answering(msc, initiator) /\ ~ Writing(msc, initiator) /\ ~ Verifying(msc, initiator)
    BY <2>1 DEF Answering, Writing, Verifying
  <2>3. ~ Reading(msc, initiator) /\ ~ Draining(msc, initiator)
    BY <2>1 DEF Reading, Draining, ReadBooks
  <2>4. QED
    BY <1>2, <2>2, <2>3 DEF Serving
<1>4. ~ msc.wedged /\ msc.halted \subseteq {"in"} /\ initiator' = [initiator EXCEPT !.phase = "status"]
  BY <1>1, <1>2, <1>3 DEF Ending, Served, HostState
<1>5. /\ msc' \in MscState /\ Kept(msc, msc') /\ SameBooks(msc, msc')
      /\ HaltsAre(msc, msc', IF msc.wedged THEN msc.halted ELSE msc.halted \ {"in"})
  BY <1>1, <1>2, ClearHaltDoes
<1>6. initiator' \in HostState /\ Elsewhere(initiator, initiator', "status")
  BY <1>2, <1>4, PhaseDoes
<1>7. msc'.halted = {}
  BY <1>4, <1>5 DEF HaltsAre
<1>8. Passed(msc', initiator')
  BY <1>3, <1>5, <1>6 DEF Ending, Passed, HaltsAre, Elsewhere
<1>9. Ending(msc', initiator')
  BY <1>3, <1>5, <1>6, <1>7, <1>8 DEF Ending, Elsewhere, HaltsAre, SameBooks, Quiet
<1>10. Served(msc', initiator')
  BY <1>3, <1>5, <1>6 DEF Served, Kept, HaltsAre, Elsewhere
<1>11. Always(msc', initiator')
  BY <1>2, <1>5, <1>6 DEF Always, Kept, SameBooks
<1>12. QED
  BY <1>9, <1>10, <1>11 DEF MscInv, Inv, Serving

\* The queues are empty, and the buffers that were on the IN endpoint are in the pool.
Drained(d, e) ==
    /\ Kept(d, e) /\ e.inq = << >> /\ e.outq = << >> /\ e.halted = d.halted /\ e.csw = d.csw
    /\ e.breq = d.breq /\ e.queued = d.queued /\ e.blk_pending = d.blk_pending
    /\ e.free = d.free + Blocks(d.inq) /\ e.usb_pending = d.usb_pending - InFlight(d.inq)

LEMMA FlushedDoes ==
    ASSUME NEW d \in MscState, InFlight(d.inq) <= d.usb_pending, NEW e, e = Flushed(d)
    PROVE  e \in MscState /\ Drained(d, e)
<1>1. d.inq \in Seq(UsbRequest) /\ d.free \in Nat /\ d.usb_pending \in Nat
  BY DEF MscState
<1>2. InFlight(d.inq) \in Nat /\ Blocks(d.inq) \in Nat
  BY <1>1, CountsAreNumbers
<1>3. PICK x \in Nat : x = d.free + Blocks(d.inq)
  BY <1>1, <1>2
<1>4. PICK y \in Nat : y = d.usb_pending - InFlight(d.inq)
  BY <1>1, <1>2
<1>5. e = [d EXCEPT !.free = x, !.usb_pending = y, !.inq = << >>, !.outq = << >>]
  BY <1>3, <1>4 DEF Flushed
<1>6. << >> \in Seq(UsbRequest)
  OBVIOUS
<1>7. e \in MscState
  BY ZenonT(60), <1>5, <1>6 DEF MscState
<1>8. /\ Kept(d, e) /\ e.inq = << >> /\ e.outq = << >> /\ e.halted = d.halted /\ e.csw = d.csw
      /\ e.breq = d.breq /\ e.queued = d.queued /\ e.blk_pending = d.blk_pending
      /\ e.free = x /\ e.usb_pending = y
  BY <1>5 DEF MscState, Kept
<1>9. QED
  BY <1>3, <1>4, <1>7, <1>8 DEF Drained

\* When no block request is in progress, the buffers that are not in the pool are on the
\* IN endpoint.
LEMMA BuffersAtRest ==
    ASSUME NEW m, NEW h, Inv(m, h), m.breq.st = "idle"
    PROVE  /\ m.breq = NoBlockRequest
           /\ m.free + Blocks(m.inq) = NrLargeObjs /\ m.usb_pending = InFlight(m.inq)
<1>1. m \in MscState /\ m.free \in Nat
  BY DEF Inv, Always, MscState
<1>2. Blocks(<< >>) = 0 /\ InFlight(<< >>) = 0 /\ << >> \in Seq(UsbRequest)
  BY EmptyQueue
<1>3. CASE AtRest(m, h) \/ Recovering(m, h)
  BY <1>1, <1>2, <1>3, Constants DEF AtRest, Recovering, Quiet
<1>4. CASE Ending(m, h)
  <2>1. m.inq = Append(<< >>, Csw)
    BY <1>4 DEF Ending
  <2>2. Blocks(m.inq) = 0 /\ InFlight(m.inq) = 0
    BY <1>2, <2>1, StatusIsNoData
  <2>3. QED
    BY <1>1, <1>4, <2>2, Constants DEF Ending, Quiet
<1>5. CASE Answering(m, h)
  <2>1. PICK n \in 1 .. h.cmd.len : m.inq = <<Answer(n)>> \o StatusBehind(m)
    BY <1>5 DEF Answering
  <2>2. n \in Nat
    OBVIOUS
  <2>3. Answer(n) \in UsbRequest /\ Answer(n).kind = "short"
    BY <2>2, AnswerIsNoData
  <2>4. <<Answer(n)>> \in Seq(UsbRequest)
    BY <2>3
  <2>5. InFlight(<<Answer(n)>>) = 0 /\ Blocks(<<Answer(n)>>) = 0
    <3>1. DataRequests(<<Answer(n)>>) = {}
      BY <2>3 DEF DataRequests
    <3>2. Slots(<<Answer(n)>>) = {}
      BY <3>1 DEF Slots
    <3>3. QED
      BY <3>1, <3>2, FS_EmptySet DEF InFlight, Blocks
  <2>6. m.inq = <<Answer(n)>> \/ m.inq = Append(<<Answer(n)>>, Csw)
    <3>1. PICK q \in Seq(UsbRequest) : q = <<Answer(n)>>
      BY <2>4
    <3>2. q \o StatusBehind(m) = q \/ q \o StatusBehind(m) = Append(q, Csw)
      BY DEF StatusBehind
    <3>3. QED
      BY <2>1, <3>1, <3>2
  <2>7. Blocks(m.inq) = 0 /\ InFlight(m.inq) = 0
    BY <2>4, <2>5, <2>6, StatusIsNoData
  <2>8. QED
    BY <1>1, <1>5, <2>7, Constants DEF Answering, Quiet
<1>6. CASE Draining(m, h)
  <2>1. PICK q \in Seq(UsbRequest) : m.inq = q \o StatusBehind(m) /\ ReadBooks(m, h, q)
    BY <1>6 DEF Draining
  <2>2. m.inq = q \/ m.inq = Append(q, Csw)
    BY <2>1 DEF StatusBehind
  <2>3. Blocks(m.inq) = Blocks(q) /\ InFlight(m.inq) = InFlight(q)
    BY <2>2, StatusIsNoData
  <2>4. m.breq.list = << >> /\ m.breq.current = << >> /\ m.breq = NoBlockRequest
    BY <1>6 DEF Draining, NoBlockRequest, BlockRequest
  <2>5. m.free + Blocks(q) + Len(m.breq.list) + Len(m.breq.current) = NrLargeObjs /\ m.usb_pending = InFlight(q)
    BY <2>1 DEF ReadBooks
  <2>6. Blocks(q) \in Nat
    BY CountsAreNumbers
  <2>7. QED
    BY <1>1, <2>3, <2>4, <2>5, <2>6, Constants
<1>7. ~ Reading(m, h) /\ ~ Writing(m, h) /\ ~ Verifying(m, h)
  BY DEF Reading, Writing, Verifying, Active, Paged
<1>8. QED
  BY <1>3, <1>4, <1>5, <1>6, <1>7 DEF Inv, Serving

LEMMA BulkResetKeeps ==
    ASSUME CommandsFit, MscInv, BulkReset
    PROVE  MscInv'
<1> DEFINE x == Flushed(msc)
           y == [x EXCEPT !.wedged = FALSE]
           z == msc_queue_empty(y)
           u == SubmitOut(z, Cbw)
           v == ClearHalt(u, "in")
<1>1. /\ initiator.phase = "recover" /\ msc' = ClearHalt(v, "out")
      /\ initiator' = [initiator EXCEPT !.phase = IF msc'.halted = {} THEN "idle" ELSE "recover"]
  BY DEF BulkReset, msc_bulk_reset, CommandsFit
<1>2. /\ msc \in MscState /\ initiator \in HostState /\ Recovering(msc, initiator)
      /\ ~ msc.queue_locked /\ (msc.told => msc.not_ready /\ msc.breq = NoBlockRequest)
  BY <1>1, PhaseTells DEF MscInv, Inv, Always
<1>3. msc.breq = NoBlockRequest /\ msc.breq.st = "idle" /\ msc.enabled
  BY <1>2 DEF Recovering, Quiet, NoBlockRequest, BlockRequest
<1>4. msc.free + Blocks(msc.inq) = NrLargeObjs /\ msc.usb_pending = InFlight(msc.inq)
  BY <1>3, BuffersAtRest DEF MscInv
<1>5. InFlight(msc.inq) <= msc.usb_pending
  BY <1>2, <1>4 DEF MscState
<1>6. x \in MscState /\ Drained(msc, x)
  BY <1>2, <1>5, FlushedDoes
<1> HIDE DEF x
<1>7. y \in MscState
  BY <1>6 DEF MscState
<1>8. /\ SameBooks(x, y) /\ SameEnds(x, y) /\ y.csw = x.csw /\ y.wedged = FALSE
      /\ y.queue_locked = x.queue_locked /\ y.enabled = x.enabled
      /\ y.not_ready = x.not_ready /\ y.told = x.told
  BY <1>6 DEF MscState, SameBooks, SameEnds
<1> HIDE DEF y
<1>9. z \in MscState /\ SameBooks(y, z) /\ Emptied(y, z)
  BY <1>7, QueueEmptyDoes
<1> HIDE DEF z
<1>10. Cbw \in UsbRequest
  BY DEF Cbw, UsbRequest
<1>11. u \in MscState /\ Kept(z, u) /\ SameBooks(z, u) /\ QueuedOut(z, u, Cbw)
  BY <1>9, <1>10, SubmitOutDoes
<1> HIDE DEF u
<1>12. ~ z.wedged /\ ~ u.wedged
  BY <1>8, <1>9, <1>11 DEF Emptied, Kept
<1>13. /\ v \in MscState /\ Kept(u, v) /\ SameBooks(u, v)
       /\ HaltsAre(u, v, IF u.wedged THEN u.halted ELSE u.halted \ {"in"})
  BY <1>11, ClearHaltDoes
<1> HIDE DEF v
<1>14. ~ v.wedged
  BY <1>12, <1>13 DEF Kept
<1>15. /\ msc' \in MscState /\ Kept(v, msc') /\ SameBooks(v, msc')
       /\ HaltsAre(v, msc', IF v.wedged THEN v.halted ELSE v.halted \ {"out"})
  BY <1>1, <1>13, ClearHaltDoes
<1>16. msc'.halted = {}
  <2>1. v.halted = u.halted \ {"in"} /\ msc'.halted = v.halted \ {"out"}
    BY <1>12, <1>13, <1>14, <1>15 DEF HaltsAre
  <2>2. u.halted \subseteq {"in", "out"}
    BY <1>11 DEF MscState
  <2>3. QED
    BY <2>1, <2>2
<1>17. initiator' \in HostState /\ initiator'.phase = "idle"
  BY <1>1, <1>2, <1>16, PhaseDoes DEF Elsewhere
<1>18. msc'.inq = << >> /\ msc'.outq = <<Cbw>>
  <2>1. z.inq = << >> /\ z.outq = << >>
    BY <1>6, <1>8, <1>9 DEF Drained, SameEnds, Emptied
  <2>2. u.inq = << >> /\ u.outq = <<Cbw>>
    BY <1>11, <2>1 DEF QueuedOut
  <2>3. QED
    BY <1>13, <1>15, <2>2 DEF HaltsAre
<1>19. Quiet(msc')
  <2>1. x.breq = NoBlockRequest /\ x.free = NrLargeObjs /\ x.usb_pending = 0
    BY <1>2, <1>3, <1>4, <1>6 DEF Drained, MscState
  <2>2. QED
    BY <1>8, <1>9, <1>11, <1>13, <1>15, <2>1 DEF SameBooks, Quiet
<1>20. ~ msc'.wedged /\ msc'.enabled /\ ~ msc'.queue_locked /\ (msc'.told => msc'.not_ready)
  <2>1. x.enabled /\ ~ x.queue_locked /\ (x.told => x.not_ready)
    BY <1>2, <1>3, <1>6 DEF Drained, Kept
  <2>2. z.enabled /\ ~ z.queue_locked /\ (z.told => z.not_ready)
    BY <1>8, <1>9, <2>1 DEF Emptied
  <2>3. QED
    BY <1>11, <1>12, <1>13, <1>14, <1>15, <2>2 DEF Kept
<1>21. AtRest(msc', initiator')
  BY <1>16, <1>17, <1>18, <1>19, <1>20 DEF AtRest
<1>22. Always(msc', initiator')
  BY <1>15, <1>17, <1>19, <1>20 DEF Always, Quiet
<1>23. QED
  BY <1>21, <1>22 DEF MscInv, Inv

LEMMA DisableKeeps ==
    ASSUME CommandsFit, MscInv, udi_msc_disable
    PROVE  MscInv'
<1> DEFINE x == msc_queue_empty(msc)
           y == Flushed(x)
<1>1. /\ msc.breq.st = "idle"
      /\ msc' = [y EXCEPT !.enabled = FALSE, !.halted = {}, !.wedged = FALSE]
      /\ initiator' = [initiator EXCEPT !.phase = "idle"]
  BY DEF udi_msc_disable, CommandsFit, Resting
<1>2. /\ msc \in MscState /\ initiator \in HostState
      /\ ~ msc.queue_locked /\ (msc.told => msc.not_ready)
  BY DEF MscInv, Inv, Always
<1>3. /\ msc.breq = NoBlockRequest
      /\ msc.free + Blocks(msc.inq) = NrLargeObjs /\ msc.usb_pending = InFlight(msc.inq)
  BY <1>1, BuffersAtRest DEF MscInv
<1>4. x \in MscState /\ SameBooks(msc, x) /\ Emptied(msc, x)
  BY <1>2, QueueEmptyDoes
<1> HIDE DEF x
<1>5. /\ x.breq = NoBlockRequest
      /\ x.free + Blocks(x.inq) = NrLargeObjs /\ x.usb_pending = InFlight(x.inq)
      /\ ~ x.queue_locked /\ (x.told => x.not_ready)
  BY <1>2, <1>3, <1>4 DEF SameBooks, Emptied, SameEnds
<1>6. InFlight(x.inq) <= x.usb_pending
  BY <1>4, <1>5 DEF MscState
<1>7. y \in MscState /\ Drained(x, y)
  BY <1>4, <1>6, FlushedDoes
<1> HIDE DEF y
<1>8. /\ y.breq = NoBlockRequest /\ y.free = NrLargeObjs /\ y.usb_pending = 0
      /\ ~ y.queue_locked /\ (y.told => y.not_ready) /\ y.inq = << >> /\ y.outq = << >>
  BY <1>4, <1>5, <1>7 DEF Drained, Kept, MscState
<1>9. {} \in SUBSET {"in", "out"}
  OBVIOUS
<1>10. msc' \in MscState
  BY <1>1, <1>7, <1>9 DEF MscState
<1>11. /\ SameBooks(y, msc') /\ msc'.inq = y.inq /\ msc'.outq = y.outq /\ msc'.halted = {}
       /\ msc'.wedged = FALSE /\ msc'.enabled = FALSE /\ msc'.queue_locked = y.queue_locked
       /\ msc'.told = y.told /\ msc'.not_ready = y.not_ready
  BY <1>1, <1>7 DEF MscState, SameBooks
<1>12. initiator' \in HostState /\ initiator'.phase = "idle"
  BY <1>1, <1>2, PhaseDoes DEF Elsewhere
<1>13. AtRest(msc', initiator')
  BY <1>8, <1>11, <1>12 DEF AtRest, Quiet, SameBooks
<1>14. Always(msc', initiator')
  BY <1>8, <1>10, <1>11, <1>12 DEF Always, SameBooks
<1>15. QED
  BY <1>13, <1>14 DEF MscInv, Inv

LEMMA EnableKeeps ==
    ASSUME MscInv, udi_msc_enable
    PROVE  MscInv'
<1> DEFINE x == msc_queue_empty(msc)
           y == [x EXCEPT !.enabled = TRUE]
<1>1. ~ msc.enabled /\ msc' = SubmitOut(y, Cbw) /\ initiator' = initiator
  BY DEF udi_msc_enable
<1>2. /\ msc \in MscState /\ initiator \in HostState /\ AtRest(msc, initiator)
      /\ ~ msc.queue_locked /\ (msc.told => msc.not_ready)
  BY <1>1, PhaseTells DEF MscInv, Inv, Always
<1>3. x \in MscState /\ SameBooks(msc, x) /\ Emptied(msc, x)
  BY <1>2, QueueEmptyDoes
<1> HIDE DEF x
<1>4. y \in MscState
  BY <1>3 DEF MscState
<1>5. /\ SameBooks(x, y) /\ SameEnds(x, y) /\ y.wedged = x.wedged /\ y.enabled = TRUE
      /\ y.queue_locked = x.queue_locked /\ y.told = x.told /\ y.not_ready = x.not_ready
  BY <1>3 DEF MscState, SameBooks, SameEnds
<1> HIDE DEF y
<1>6. Cbw \in UsbRequest
  BY DEF Cbw, UsbRequest
<1>7. msc' \in MscState /\ Kept(y, msc') /\ SameBooks(y, msc') /\ QueuedOut(y, msc', Cbw)
  BY <1>1, <1>4, <1>6, SubmitOutDoes
<1>8. /\ x.outq = << >> /\ x.inq = << >> /\ x.halted = {} /\ ~ x.wedged /\ Quiet(x)
      /\ ~ x.queue_locked /\ (x.told => x.not_ready)
  BY <1>1, <1>2, <1>3 DEF AtRest, Quiet, SameBooks, Emptied, SameEnds
<1>9. msc'.outq = <<Cbw>>
  BY <1>5, <1>7, <1>8 DEF QueuedOut, SameEnds
<1>10. Quiet(msc') /\ msc'.inq = << >> /\ msc'.halted = {}
  BY <1>5, <1>7, <1>8 DEF Quiet, SameBooks, SameEnds, QueuedOut
<1>11. ~ msc'.wedged /\ msc'.enabled /\ ~ msc'.queue_locked /\ (msc'.told => msc'.not_ready)
  BY <1>5, <1>7, <1>8 DEF Kept
<1>12. AtRest(msc', initiator')
  BY <1>1, <1>2, <1>9, <1>10, <1>11 DEF AtRest
<1>13. Always(msc', initiator')
  BY <1>1, <1>2, <1>7, <1>10, <1>11 DEF Always, Quiet
<1>14. QED
  BY <1>12, <1>13 DEF MscInv, Inv

\* Only what the application says, and what it is told, has changed.
SameButFlags(m, e) ==
    /\ SameBooks(m, e) /\ SameEnds(m, e) /\ e.csw = m.csw /\ e.total = m.total
    /\ e.wedged = m.wedged /\ e.cbw = m.cbw /\ e.tag = m.tag /\ e.enabled = m.enabled
    /\ e.queue_locked = m.queue_locked /\ e.xfer_in_progress = m.xfer_in_progress

LEMMA FlagsKeep ==
    ASSUME NEW m, NEW e, NEW h, Inv(m, h), e \in MscState, SameButFlags(m, e),
           e.told => e.not_ready /\ m.breq = NoBlockRequest
    PROVE  Inv(e, h)
<1>1. Quiet(m) => Quiet(e)
  BY DEF SameButFlags, Quiet, SameBooks
<1>2. AtRest(m, h) => AtRest(e, h)
  BY <1>1 DEF SameButFlags, AtRest, SameEnds
<1>3. Recovering(m, h) => Recovering(e, h)
  BY <1>1 DEF SameButFlags, Recovering, SameEnds
<1>4. Ending(m, h) => Ending(e, h)
  BY <1>1 DEF SameButFlags, Ending, SameEnds, Passed
<1>5. StatusBehind(e) = StatusBehind(m)
  BY DEF SameButFlags, StatusBehind
<1>6. Answering(m, h) => Answering(e, h)
  BY <1>1, <1>5 DEF SameButFlags, Answering, SameEnds
<1>7. Taken(e, h.cmd) = Taken(m, h.cmd) /\ (Active(m, h.cmd) => Active(e, h.cmd))
  BY DEF SameButFlags, SameBooks, Taken, Active
<1>8. ASSUME NEW q, ReadBooks(m, h, q) PROVE ReadBooks(e, h, q)
  BY <1>8 DEF SameButFlags, SameBooks, SameEnds, ReadBooks
<1>9. Reading(m, h) => Reading(e, h)
  BY <1>7, <1>8 DEF SameButFlags, SameBooks, SameEnds, Reading
<1>10. Draining(m, h) => Draining(e, h)
  BY <1>5, <1>8 DEF SameButFlags, SameBooks, SameEnds, Draining
<1>11. OneRequest(m, h) => OneRequest(e, h)
  BY DEF SameButFlags, SameBooks, SameEnds, OneRequest
<1>12. Writing(m, h) => Writing(e, h)
  BY <1>7 DEF SameButFlags, SameBooks, SameEnds, Writing
<1>13. Verifying(m, h) => Verifying(e, h)
  BY <1>7 DEF SameButFlags, SameBooks, SameEnds, Verifying
<1>14. Serving(m, h) => Serving(e, h)
  BY <1>4, <1>6, <1>9, <1>10, <1>11, <1>12, <1>13 DEF SameButFlags, Serving, Served
<1>15. Always(e, h)
  BY DEF Inv, Always, SameButFlags, SameBooks
<1>16. QED
  BY <1>2, <1>3, <1>14, <1>15 DEF Inv

LEMMA SetBusyKeeps ==
    ASSUME MscInv, udi_msc_set_busy
    PROVE  MscInv'
<1> DEFINE x == msc.busy_cb \/ msc.xfer_in_progress  y == ~ msc.xfer_in_progress
<1>1. msc' = [msc EXCEPT !.not_ready = TRUE, !.busy_cb = x, !.told = y] /\ initiator' = initiator
  BY DEF udi_msc_set_busy, MscInv, Inv, Always, MscState
<1>2. msc \in MscState /\ x \in BOOLEAN /\ y \in BOOLEAN
  BY DEF MscInv, Inv, Always, MscState
<1>3. y => msc.breq = NoBlockRequest
  <2> SUFFICES ASSUME ~ msc.xfer_in_progress PROVE msc.breq = NoBlockRequest
    OBVIOUS
  <2>1. ~ Reading(msc, initiator) /\ ~ Writing(msc, initiator) /\ ~ Verifying(msc, initiator)
    BY DEF Reading, Writing, Verifying, Active
  <2>2. QED
    BY <2>1 DEF MscInv, Inv, AtRest, Recovering, Serving, Ending, Answering, Draining, Quiet
<1> HIDE DEF x, y
<1>4. msc' \in MscState
  BY ZenonT(60), <1>1, <1>2 DEF MscState
<1>5. SameButFlags(msc, msc') /\ msc'.not_ready = TRUE /\ msc'.told = y
  BY <1>1, <1>2 DEF MscState, SameButFlags, SameBooks, SameEnds
<1>6. Inv(msc', initiator)
  BY <1>3, <1>4, <1>5, FlagsKeep DEF MscInv
<1>7. QED
  BY <1>1, <1>6 DEF MscInv

LEMMA SetReadyKeeps ==
    ASSUME MscInv, udi_msc_set_ready
    PROVE  MscInv'
<1>1. msc' = [msc EXCEPT !.not_ready = FALSE, !.told = FALSE] /\ initiator' = initiator
  BY DEF udi_msc_set_ready
<1>2. msc \in MscState
  BY DEF MscInv, Inv, Always
<1>3. msc' \in MscState
  BY <1>1, <1>2 DEF MscState
<1>4. SameButFlags(msc, msc') /\ msc'.told = FALSE
  BY <1>1, <1>2 DEF MscState, SameButFlags, SameBooks, SameEnds
<1>5. Inv(msc', initiator)
  BY <1>3, <1>4, FlagsKeep DEF MscInv
<1>6. QED
  BY <1>1, <1>5 DEF MscInv

-----------------------------------------------------------------------------
(* The host takes what is on the IN endpoint.                              *)

\* The first request of the IN endpoint is done.
TakenFrom(m, d) ==
    /\ d.inq = Tail(m.inq) /\ d.outq = m.outq /\ d.halted = m.halted /\ d.csw = m.csw

LEMMA TakeDoes ==
    ASSUME NEW m \in MscState, m.inq # << >>, NEW d, d = [m EXCEPT !.inq = Tail(@)]
    PROVE  d \in MscState /\ Kept(m, d) /\ SameBooks(m, d) /\ TakenFrom(m, d)
<1>0. PICK p \in Seq(UsbRequest) : p = m.inq
  BY DEF MscState
<1>1. PICK q \in Seq(UsbRequest) : q = Tail(m.inq)
  <2>1. Tail(p) \in Seq(UsbRequest)
    BY <1>0
  <2>2. QED
    BY <1>0, <2>1
<1>2. d = [m EXCEPT !.inq = q]
  BY <1>1
<1>3. d \in MscState
  BY <1>2 DEF MscState
<1>4. Kept(m, d) /\ SameBooks(m, d) /\ d.inq = q /\ d.outq = m.outq /\ d.halted = m.halted /\ d.csw = m.csw
  BY <1>2 DEF MscState, Kept, SameBooks
<1>5. QED
  BY <1>1, <1>3, <1>4 DEF TakenFrom

\* n more bytes or blocks of the command have moved.
MovedBy(h, k, n, phase) ==
    /\ k.moved = h.moved + n /\ k.phase = phase /\ k.cmd = h.cmd /\ k.tag = h.tag
    /\ k.got = h.got /\ k.stored = h.stored

LEMMA MovedDoes ==
    ASSUME initiator \in HostState, initiator.cmd \in Command, NEW n \in Nat, NEW more \in BOOLEAN,
           initiator.moved + n <= initiator.cmd.len, NEW k, k = Moved(n, more)
    PROVE  /\ k \in HostState
           /\ MovedBy(initiator, k, n, IF initiator.moved + n = initiator.cmd.len \/ ~ more THEN "status" ELSE "data")
<1>1. initiator.moved \in Nat /\ initiator.cmd.len \in Nat
  BY CommandFields DEF HostState
<1>2. PICK x \in Nat : x = initiator.moved + n
  BY <1>1
<1> DEFINE ph == IF x = initiator.cmd.len \/ ~ more THEN "status" ELSE "data"
<1>3. ~ (x > initiator.cmd.len)
  BY <1>1, <1>2
<1>4. k = [initiator EXCEPT !.moved = x, !.phase = ph]
  BY <1>2, <1>3 DEF Moved
<1>5. ph \in {"idle", "data", "status", "recover"}
  OBVIOUS
<1>6. ph = (IF initiator.moved + n = initiator.cmd.len \/ ~ more THEN "status" ELSE "data")
  BY <1>2
<1> HIDE DEF ph
<1>7. k \in HostState
  BY <1>4, <1>5 DEF HostState
<1>8. /\ k.moved = x /\ k.phase = ph /\ k.cmd = initiator.cmd /\ k.tag = initiator.tag
      /\ k.got = initiator.got /\ k.stored = initiator.stored
  BY <1>4 DEF HostState
<1>9. QED
  BY <1>2, <1>6, <1>7, <1>8 DEF MovedBy

\* The status has gone: the next command, or a recovery, can begin.
LEMMA StatusTaken ==
    ASSUME MscInv, InTransfer, Served(msc, initiator), Ending(msc, initiator)
    PROVE  MscInv'
<1> DEFINE d == [msc EXCEPT !.inq = Tail(@)]
           x == msc_queue_empty(d)
<1>1. /\ msc \in MscState /\ initiator \in HostState /\ ~ msc.queue_locked
      /\ (msc.told => msc.not_ready /\ msc.breq = NoBlockRequest)
  BY DEF MscInv, Inv, Always
<1>2. msc.inq = <<Csw>> /\ msc.inq # << >> /\ Tail(msc.inq) = << >> /\ Head(msc.inq).kind = "csw"
  BY DEF Ending, Csw
<1>3. /\ msc' = msc_csw_sent(d)
      /\ initiator' = [initiator EXCEPT !.phase =
                            IF @ # "status" \/ d.csw.tag # initiator.tag THEN "confused"
                            ELSE IF d.csw.status = "phase" THEN "recover"
                            ELSE "idle"]
  BY <1>2 DEF InTransfer
<1>4. initiator.phase = "status" /\ msc.halted = {}
  BY DEF InTransfer, Ending, EndpointOf
<1>5. d \in MscState /\ Kept(msc, d) /\ SameBooks(msc, d) /\ TakenFrom(msc, d)
  BY <1>1, <1>2, TakeDoes
<1> HIDE DEF d
<1>6. d.csw.tag = initiator.tag
  BY <1>5 DEF TakenFrom, Served
<1> DEFINE ph == IF d.csw.status = "phase" THEN "recover" ELSE "idle"
<1>7. initiator' = [initiator EXCEPT !.phase = ph]
  BY <1>1, <1>3, <1>4, <1>6 DEF HostState
<1>8. initiator' \in HostState /\ initiator'.phase = ph
  BY <1>1, <1>7, PhaseDoes DEF Elsewhere
<1>9. x \in MscState /\ SameBooks(d, x) /\ Emptied(d, x)
  BY <1>5, QueueEmptyDoes
<1>10. Cbw \in UsbRequest /\ msc' = SubmitOut(x, Cbw)
  BY <1>3 DEF Cbw, UsbRequest, msc_csw_sent
<1> HIDE DEF x
<1>11. msc' \in MscState /\ Kept(x, msc') /\ SameBooks(x, msc') /\ QueuedOut(x, msc', Cbw)
  BY <1>9, <1>10, SubmitOutDoes
<1>12. Quiet(msc') /\ msc'.breq = NoBlockRequest
  BY <1>5, <1>9, <1>11 DEF Ending, Quiet, SameBooks
<1>13. x.inq = << >> /\ x.outq = << >> /\ x.halted = {}
  BY <1>2, <1>4, <1>5, <1>9 DEF Ending, TakenFrom, Emptied, SameEnds
<1>14. msc'.inq = << >> /\ msc'.outq = <<Cbw>> /\ msc'.halted = {}
  BY <1>11, <1>13 DEF QueuedOut
<1>15. ~ msc'.wedged /\ msc'.enabled /\ ~ msc'.queue_locked /\ (msc'.told => msc'.not_ready)
  <2>1. ~ d.wedged /\ d.enabled /\ ~ d.queue_locked /\ (d.told => d.not_ready)
    BY <1>1, <1>5 DEF Kept, Served
  <2>2. ~ x.wedged /\ x.enabled /\ ~ x.queue_locked /\ (x.told => x.not_ready)
    BY <1>9, <2>1 DEF Emptied
  <2>3. QED
    BY <1>11, <2>2 DEF Kept
<1>16. AtRest(msc', initiator') \/ Recovering(msc', initiator')
  BY <1>8, <1>12, <1>14, <1>15 DEF AtRest, Recovering
<1>17. Always(msc', initiator')
  BY <1>8, <1>11, <1>12, <1>15 DEF Always
<1>18. QED
  BY <1>16, <1>17 DEF MscInv, Inv

\* What the end of the data does.
LEMMA DataDoneDoes ==
    ASSUME NEW d \in MscState, NEW e, e = msc_request_data_done(d)
    PROVE  /\ e \in MscState /\ Kept(d, e) /\ SameBooks(d, e)
           /\ e.outq = d.outq /\ e.csw = d.csw
           /\ e.inq = (IF d.csw.residue = 0 THEN d.inq ELSE Append(d.inq, Csw))
           /\ e.halted = (IF d.csw.residue = 0 THEN d.halted ELSE d.halted \cup {EndpointOf(d.cbw)})
<1> DEFINE f == HaltDataEp(d)
<1>1. CASE d.csw.residue = 0
  <2>1. e = d
    BY <1>1 DEF msc_request_data_done
  <2>2. QED
    BY <1>1, <2>1 DEF Kept, SameBooks
<1>2. CASE d.csw.residue # 0
  <2>1. e = SubmitIn(f, Csw)
    BY <1>2 DEF msc_request_data_done
  <2>2. f \in MscState /\ Kept(d, f) /\ SameBooks(d, f) /\ HaltsAre(d, f, d.halted \cup {EndpointOf(d.cbw)})
    BY HaltDataEpDoes
  <2> HIDE DEF f
  <2>3. Csw \in UsbRequest
    BY DEF Csw, UsbRequest
  <2>4. e \in MscState /\ Kept(f, e) /\ SameBooks(f, e) /\ QueuedIn(f, e, Csw)
    BY <2>1, <2>2, <2>3, SubmitInDoes
  <2>5. Kept(d, e) /\ SameBooks(d, e)
    BY <2>2, <2>4 DEF Kept, SameBooks
  <2>6. /\ e.outq = d.outq /\ e.csw = d.csw /\ e.inq = Append(d.inq, Csw)
        /\ e.halted = d.halted \cup {EndpointOf(d.cbw)}
    BY <2>2, <2>4 DEF HaltsAre, QueuedIn
  <2>7. QED
    BY <1>2, <2>4, <2>5, <2>6
<1>3. QED
  BY <1>1, <1>2

\* The answer has gone: the status is next.
LEMMA AnswerTaken ==
    ASSUME MscInv, InTransfer, Served(msc, initiator), Answering(msc, initiator)
    PROVE  MscInv'
<1> DEFINE c == initiator.cmd
           d == [msc EXCEPT !.inq = Tail(@)]
<1>1. /\ msc \in MscState /\ initiator \in HostState /\ ~ msc.queue_locked
      /\ (msc.told => msc.not_ready /\ msc.breq = NoBlockRequest)
      /\ c \in Command /\ c.len \in Nat
  BY CommandFields DEF MscInv, Inv, Always, Served
<1>2. PICK n \in 1 .. c.len : /\ msc.inq = <<Answer(n)>> \o StatusBehind(msc)
                              /\ ~ LongAnswer(c) => msc.csw.residue + n = c.len
  BY DEF Answering
<1>3. n \in Nat
  BY <1>2
<1>4. Answer(n).kind = "short" /\ Len(Answer(n).data) = n /\ Answer(n) \in UsbRequest
  BY <1>3, AnswerIsNoData
<1>5. msc.inq # << >> /\ Head(msc.inq) = Answer(n) /\ Tail(msc.inq) = StatusBehind(msc)
  <2> DEFINE q == <<Answer(n)>>
  <2>1. /\ q \in Seq(UsbRequest) /\ q # << >> /\ Head(q) = Answer(n) /\ Tail(q) = << >>
        /\ StatusBehind(msc) \in Seq(UsbRequest) /\ << >> \o StatusBehind(msc) = StatusBehind(msc)
    <3>1. q \in Seq(UsbRequest) /\ q # << >> /\ Head(q) = Answer(n) /\ Tail(q) = << >>
      BY <1>4
    <3>2. Csw \in UsbRequest
      BY DEF Csw, UsbRequest
    <3>3. StatusBehind(msc) \in Seq(UsbRequest)
      BY <3>2 DEF StatusBehind
    <3>4. << >> \o StatusBehind(msc) = StatusBehind(msc)
      BY <3>3
    <3>5. QED
      BY <3>1, <3>3, <3>4
  <2>2. msc.inq = q \o StatusBehind(msc)
    BY <1>2
  <2> HIDE DEF q
  <2>3. /\ q \o StatusBehind(msc) # << >> /\ Head(q \o StatusBehind(msc)) = Head(q)
        /\ Tail(q \o StatusBehind(msc)) = Tail(q) \o StatusBehind(msc)
    BY SMTT(60), <2>1, FirstOfBoth
  <2>4. QED
    BY <2>1, <2>2, <2>3
<1>6. /\ initiator.phase = "data" /\ initiator.moved = 0
  BY SMTT(60) DEF Answering
<1>7. msc' = msc_request_data_done(d) /\ initiator' = Moved(n, FALSE)
  BY <1>4, <1>5, <1>6 DEF InTransfer
<1>8. d \in MscState /\ Kept(msc, d) /\ SameBooks(msc, d) /\ TakenFrom(msc, d)
  BY <1>1, <1>5, TakeDoes
<1> HIDE DEF d
<1>9. initiator.moved + n <= c.len
  BY <1>1, <1>2, <1>6
<1>10. initiator' \in HostState /\ MovedBy(initiator, initiator', n, "status")
  BY <1>1, <1>3, <1>7, <1>9, MovedDoes
<1>11. /\ msc' \in MscState /\ Kept(d, msc') /\ SameBooks(d, msc')
       /\ msc'.outq = d.outq /\ msc'.csw = d.csw
       /\ msc'.inq = (IF d.csw.residue = 0 THEN d.inq ELSE Append(d.inq, Csw))
       /\ msc'.halted = (IF d.csw.residue = 0 THEN d.halted ELSE d.halted \cup {EndpointOf(d.cbw)})
  BY <1>7, <1>8, DataDoneDoes
<1>12. d.inq = StatusBehind(msc) /\ d.csw = msc.csw /\ d.halted = {} /\ d.outq = << >> /\ d.cbw = c
  BY <1>5, <1>8 DEF TakenFrom, Kept, Answering, Served
<1>13. msc'.inq = <<Csw>>
  BY <1>11, <1>12 DEF StatusBehind
<1>14. msc'.halted \subseteq {"in"}
  BY <1>11, <1>12 DEF Answering, EndpointOf
<1>15. Passed(msc', initiator')
  <2>1. initiator'.moved = n /\ initiator'.cmd = c
    BY <1>3, <1>6, <1>10 DEF MovedBy
  <2>2. c.op \notin {"read", "write"}
    BY DEF Answering
  <2>3. QED
    BY <1>2, <1>11, <1>12, <2>1, <2>2 DEF Passed
<1>16. Ending(msc', initiator')
  <2>1. Quiet(msc')
    BY <1>8, <1>11 DEF Answering, Quiet, SameBooks
  <2>2. initiator'.phase = "status"
    BY <1>10 DEF MovedBy
  <2>3. QED
    BY <1>11, <1>12, <1>13, <1>14, <1>15, <2>1, <2>2 DEF Ending
<1>17. Served(msc', initiator')
  BY <1>8, <1>10, <1>11 DEF Served, Kept, TakenFrom, MovedBy
<1>18. Always(msc', initiator')
  BY <1>1, <1>8, <1>10, <1>11 DEF Always, Kept, SameBooks
<1>19. QED
  BY <1>16, <1>17, <1>18 DEF MscInv, Inv, Serving

-----------------------------------------------------------------------------
(* A read in progress.                                                     *)

LEMMA QueuesAndLists ==
    ASSUME NEW m \in MscState
    PROVE  /\ m.inq \in Seq(UsbRequest) /\ m.outq \in Seq(UsbRequest)
           /\ InFlight(m.inq) \in Nat /\ Blocks(m.inq) \in Nat
           /\ InFlight(m.outq) \in Nat /\ Blocks(m.outq) \in Nat
           /\ m.breq \in BlockReq /\ m.breq.list \in Seq(Nat) /\ m.breq.current \in Seq(Nat)
           /\ Len(m.breq.list) \in Nat /\ Len(m.breq.current) \in Nat
           /\ m.free \in Nat /\ m.queued \in Nat /\ m.total \in Nat
           /\ m.blk_pending \in Nat /\ m.usb_pending \in Nat
<1>1. /\ m.inq \in Seq(UsbRequest) /\ m.outq \in Seq(UsbRequest) /\ m.breq \in BlockReq
      /\ m.free \in Nat /\ m.queued \in Nat /\ m.total \in Nat
      /\ m.blk_pending \in Nat /\ m.usb_pending \in Nat
  BY DEF MscState
<1>2. /\ InFlight(m.inq) \in Nat /\ Blocks(m.inq) \in Nat
      /\ InFlight(m.outq) \in Nat /\ Blocks(m.outq) \in Nat
  BY <1>1, CountsAreNumbers
<1>3. m.breq.list \in Seq(Nat) /\ m.breq.current \in Seq(Nat)
  BY <1>1 DEF BlockReq
<1>4. Len(m.breq.list) \in Nat /\ Len(m.breq.current) \in Nat
  BY <1>3
<1>5. QED
  BY <1>1, <1>2, <1>3, <1>4

LEMMA TakenSoFar ==
    ASSUME NEW m \in MscState, NEW c \in Command, Active(m, c)
    PROVE  /\ Taken(m, c) \in Nat /\ Taken(m, c) <= c.count
           /\ m.breq.st # "page" => Taken(m, c) < c.count
           /\ EndOf(m.breq) \in Nat /\ m.breq.pos <= EndOf(m.breq) /\ EndOf(m.breq) <= m.breq.remaining
           /\ m.breq.pos \in Nat /\ m.breq.remaining \in Nat /\ m.breq.remaining <= c.count
<1>1. m.breq \in BlockReq /\ m.breq.pos \in Nat /\ c.count \in Nat
  BY CommandFields DEF MscState, BlockReq
<1>2. m.breq.remaining \in 1 .. c.count /\ Paged(m.breq)
  BY DEF Active
<1>3. EndOf(m.breq) \in Nat /\ EndOf(m.breq) <= m.breq.remaining
  BY <1>1, <1>2, EndOfPage
<1>4. m.breq.pos <= EndOf(m.breq) /\ (m.breq.st # "page" => m.breq.pos # EndOf(m.breq))
  BY <1>2 DEF Paged
<1>5. QED
  BY <1>1, <1>2, <1>3, <1>4 DEF Taken

\* Fills of a block request in progress leave it where it is.
LEMMA ActiveWithMore ==
    ASSUME NEW m, NEW e, NEW c \in Command, Active(m, c), SameBlockRequest(m, e),
           e.breq.st = (IF m.breq.st = "sleep" THEN "transfer" ELSE m.breq.st),
           e.xfer_in_progress = m.xfer_in_progress, e.total = m.total, e.queued <= c.count
    PROVE  Active(e, c) /\ Taken(e, c) = Taken(m, c)
<1>1. EndOf(e.breq) = EndOf(m.breq)
  BY DEF EndOf, SameBlockRequest
<1>2. Paged(e.breq)
  BY <1>1 DEF Paged, SameBlockRequest, Active
<1>3. Taken(e, c) = Taken(m, c)
  BY DEF Taken, SameBlockRequest
<1>4. QED
  BY <1>2, <1>3 DEF Active, SameBlockRequest

\* A read in progress, of a command that is served.
InRead(m, h) == Always(m, h) /\ Served(m, h) /\ Reading(m, h) /\ OneRequest(m, h)

LEMMA ReadRoundKeeps ==
    ASSUME NEW m, NEW h, InRead(m, h), NEW e, e = ReadWorkerRound(m)
    PROVE  InRead(e, h)
<1> DEFINE c == h.cmd
<1>1. /\ m \in MscState /\ c \in Command /\ c.count \in Nat /\ c.len \in Nat
      /\ Reading(m, h) /\ ReadBooks(m, h, m.inq) /\ Active(m, c)
  BY CommandFields DEF InRead, Always, Served, Reading
<1>2. m.queued \in Nat /\ m.total = c.count /\ m.queued <= c.count /\ m.blk_pending \in Nat /\ m.free \in Nat
  BY <1>1 DEF Active, MscState
<1>3. e = m \/ e = msc_submit_read_buffers(m)
  BY DEF ReadWorkerRound
<1>4. CASE e = m
  BY <1>4
<1>5. CASE e = msc_submit_read_buffers(m)
  <2>1. m.queued <= m.total
    BY <1>2
  <2>2. e \in MscState
    BY <1>1, <1>5, <2>1, ReadBuffersDo
  <2>3. PICK k \in Nat : Fills(m, m.total - m.queued, k) /\ IF k = 0 THEN e = m ELSE TakesToRead(m, e, k)
    BY <1>1, <1>5, <2>1, ReadBuffersDo
  <2>4. CASE k = 0
    BY <2>3, <2>4
  <2>5. CASE k # 0
    <3>1. TakesToRead(m, e, k) /\ k <= c.count - m.queued /\ k <= m.free
      BY <1>2, <2>3, <2>5 DEF Fills
    <3>2. /\ Kept(m, e) /\ SameBlockRequest(m, e) /\ SameEnds(m, e) /\ e.csw = m.csw
          /\ Len(e.breq.list) = Len(m.breq.list) + k
          /\ e.queued = m.queued + k /\ e.blk_pending = m.blk_pending + k
          /\ e.free = m.free - k /\ e.usb_pending = m.usb_pending
      BY <3>1 DEF TakesToRead
    <3>3. /\ e.queued <= c.count /\ e.total = m.total /\ e.xfer_in_progress = m.xfer_in_progress
          /\ e.breq.st = (IF m.breq.st = "sleep" THEN "transfer" ELSE m.breq.st)
      <4>1. e.queued <= c.count
        BY <1>1, <1>2, <3>1, <3>2
      <4>2. e.total = m.total /\ e.xfer_in_progress = m.xfer_in_progress
        BY <3>2 DEF Kept
      <4>3. QED
        BY <3>1, <4>1, <4>2 DEF TakesToRead
    <3>4. Active(e, c) /\ Taken(e, c) = Taken(m, c)
      BY <1>1, <3>2, <3>3, ActiveWithMore
    <3>5. e.inq = m.inq /\ e.outq = m.outq /\ e.halted = m.halted /\ e.breq.current = m.breq.current
      BY <3>2 DEF SameEnds, SameBlockRequest
    <3> DEFINE l == Len(m.breq.list)  u == Len(m.breq.current)  b == Blocks(m.inq)
    <3>6. l \in Nat /\ u \in Nat /\ b \in Nat
      BY <1>1, QueuesAndLists
    <3>7. m.free + b + l + u = NrLargeObjs
      BY <1>1 DEF ReadBooks
    <3> HIDE DEF l, u, b
    <3>8. e.free + b + (l + k) + u = NrLargeObjs
      BY <1>2, <3>1, <3>2, <3>6, <3>7, Constants
    <3>9. e.free + Blocks(e.inq) + Len(e.breq.list) + Len(e.breq.current) = NrLargeObjs
      BY <3>2, <3>5, <3>8 DEF l, u, b
    <3>10. ReadBooks(e, h, e.inq)
      BY <1>1, <3>2, <3>3, <3>5, <3>9 DEF ReadBooks
    <3>11. Taken(m, c) \in Nat /\ Taken(m, c) + l = m.queued /\ m.blk_pending = l + u
      BY <1>1, TakenSoFar DEF Reading, l, u
    <3>12. Taken(e, c) + (l + k) = e.queued /\ e.blk_pending = (l + k) + u
      BY SMTT(60), <1>2, <3>2, <3>4, <3>6, <3>11
    <3>13. Taken(e, c) + Len(e.breq.list) = e.queued /\ e.blk_pending = Len(e.breq.list) + Len(e.breq.current)
      BY <3>2, <3>5, <3>12 DEF l, u
    <3>14. Reading(e, h)
      BY <1>1, <3>4, <3>5, <3>10, <3>13 DEF Reading
    <3>15. ~ (c.count < c.len)
      BY <1>2, <2>5, <3>1 DEF OneRequest, InRead
    <3>16. OneRequest(e, h)
      BY <3>15 DEF OneRequest
    <3>17. m.breq # NoBlockRequest
      BY <1>1 DEF Active, Paged, NoBlockRequest, BlockRequest
    <3>18. Always(e, h) /\ Served(e, h)
      BY <2>2, <3>2, <3>17 DEF InRead, Always, Served, Kept
    <3>19. QED
      BY <3>14, <3>16, <3>18 DEF InRead
  <2>6. QED
    BY <2>4, <2>5
<1>6. QED
  BY <1>3, <1>4, <1>5

LEMMA ReadWorkerKeeps ==
    ASSUME NEW m, NEW h, InRead(m, h)
    PROVE  InRead(msc_read_worker(m), h)
<1>1. InRead(ReadWorkerRound(m), h)
  BY ReadRoundKeeps
<1>2. InRead(ReadWorkerRound(ReadWorkerRound(m)), h)
  BY <1>1, ReadRoundKeeps
<1>3. QED
  BY <1>2 DEF msc_read_worker

\* The buffers of a request that the host has taken are free again.
Freed(d, x, y) == [d EXCEPT !.free = x, !.usb_pending = y]

FreesOnly(d, e, x, y) ==
    /\ Kept(d, e) /\ SameEnds(d, e) /\ e.csw = d.csw /\ e.breq = d.breq
    /\ e.queued = d.queued /\ e.blk_pending = d.blk_pending
    /\ e.free = x /\ e.usb_pending = y

LEMMA FreedDoes ==
    ASSUME NEW d \in MscState, NEW x \in Nat, NEW y \in Nat,
           NEW e, e = Freed(d, x, y)
    PROVE  e \in MscState /\ FreesOnly(d, e, x, y)
<1>1. e \in MscState
  BY DEF Freed, MscState
<1>2. FreesOnly(d, e, x, y)
  BY DEF Freed, FreesOnly, MscState, Kept, SameEnds
<1>3. QED
  BY <1>1, <1>2

\* The host has got the blocks s.
GotBy(h, k, s, phase) ==
    /\ k.moved = h.moved + Len(s) /\ k.phase = phase /\ k.got = h.got \o s
    /\ k.cmd = h.cmd /\ k.tag = h.tag /\ k.stored = h.stored

LEMMA GotDoes ==
    ASSUME initiator \in HostState, initiator.cmd \in Command, NEW s \in Seq(Nat),
           initiator.moved + Len(s) <= initiator.cmd.len,
           NEW k, k = [Moved(Len(s), TRUE) EXCEPT !.got = @ \o s]
    PROVE  /\ k \in HostState
           /\ GotBy(initiator, k, s,
                    IF initiator.moved + Len(s) = initiator.cmd.len THEN "status" ELSE "data")
<1> DEFINE j == Moved(Len(s), TRUE)
           ph == IF initiator.moved + Len(s) = initiator.cmd.len THEN "status" ELSE "data"
<1>1. PICK n \in Nat : n = Len(s)
  OBVIOUS
<1>2. /\ j \in HostState
      /\ MovedBy(initiator, j, n, IF initiator.moved + n = initiator.cmd.len \/ ~ TRUE THEN "status" ELSE "data")
  BY <1>1, MovedDoes
<1>3. MovedBy(initiator, j, n, ph)
  BY <1>1, <1>2
<1> HIDE DEF j, ph
<1>4. PICK t \in Seq(Nat) : t = j.got
  BY <1>2 DEF HostState
<1>5. PICK u \in Seq(Nat) : u = t \o s
  <2>1. t \o s \in Seq(Nat)
    BY LengthOfBoth
  <2>2. QED
    BY <2>1
<1>6. k = [j EXCEPT !.got = u]
  BY <1>4, <1>5 DEF j
<1>7. k \in HostState
  BY <1>2, <1>6 DEF HostState
<1>8. /\ k.moved = j.moved /\ k.phase = j.phase /\ k.got = u
      /\ k.cmd = j.cmd /\ k.tag = j.tag /\ k.stored = j.stored
  BY <1>2, <1>6 DEF HostState
<1>9. GotBy(initiator, k, s, ph)
  BY <1>1, <1>3, <1>4, <1>5, <1>8 DEF MovedBy, GotBy
<1>10. QED
  BY <1>7, <1>9 DEF ph

\* The host takes blocks while more are read.
LEMMA ReadDataTaken ==
    ASSUME MscInv, InTransfer, InRead(msc, initiator)
    PROVE  MscInv'
<1> DEFINE c == initiator.cmd
           q == msc.inq
           r == Head(q)
           d == [msc EXCEPT !.inq = Tail(@)]
           e == [d EXCEPT !.free = @ + Len(r.data), !.usb_pending = @ - 1]
<1>1. /\ msc \in MscState /\ initiator \in HostState /\ c \in Command
      /\ Reading(msc, initiator) /\ ReadBooks(msc, initiator, q) /\ Active(msc, c)
  BY DEF InRead, Always, Served, Reading
<1>2. /\ c.len \in Nat /\ c.lba \in Nat /\ c.count \in Nat /\ initiator.moved \in Nat
      /\ c.count <= c.len /\ initiator.phase = "data"
  BY SMTT(60), <1>1, CommandFields DEF HostState, ReadBooks
<1>3. q \in Seq(UsbRequest) /\ q # << >> /\ AllData(q)
  BY <1>1 DEF InTransfer, ReadBooks, MscState
<1>4. /\ r.kind = "data" /\ Len(r.data) \in 1 .. NrLargeObjs /\ r.data \in Seq(Nat)
      /\ Tail(q) \in Seq(UsbRequest) /\ AllData(Tail(q))
      /\ InFlight(q) = InFlight(Tail(q)) + 1
      /\ Blocks(q) = Blocks(Tail(q)) + Len(r.data)
  BY <1>3, DataHasNoHole
<1>5. PICK k \in Nat : k = Len(r.data) /\ k >= 1
  BY <1>4, Constants
<1> DEFINE b == Blocks(Tail(q))  u == Len(msc.breq.current)  l == Len(msc.breq.list)
           t == Taken(msc, c)
<1>6. b \in Nat /\ u \in Nat /\ l \in Nat /\ InFlight(Tail(q)) \in Nat
  BY <1>1, <1>4, CountsAreNumbers, QueuesAndLists
<1>7. t \in Nat /\ t <= c.count /\ (msc.breq.st # "page" => t < c.count)
  BY <1>1, TakenSoFar
<1>8. msc.breq.st = "page" => u # 0
  <2>1. msc.breq.st = "page" => msc.breq.current # << >>
    BY <1>1 DEF Active, Paged
  <2>2. msc.breq.current \in Seq(Nat)
    BY <1>1, QueuesAndLists
  <2>3. QED
    BY <2>1, <2>2, EmptySeq
<1>9. initiator.moved + (b + k) + u = t
  BY <1>1, <1>4, <1>5 DEF Reading
<1> HIDE DEF b, u, l, t
<1>10. initiator.moved + k < c.count
  <2>1. PICK w \in Nat : w = initiator.moved
    BY <1>2
  <2>2. PICK x \in Nat : x = c.count
    BY <1>2
  <2>3. t <= x /\ w + (b + k) + u = t
    BY <1>7, <1>9, <2>1, <2>2
  <2>4. t < x \/ u # 0
    BY <1>7, <1>8, <2>2
  <2>5. w + k < x
    <3>1. b \in Nat /\ u \in Nat /\ t \in Nat /\ k >= 1 /\ k \in Nat
      BY <1>5, <1>6, <1>7
    <3>2. QED
      BY <2>3, <2>4, <3>1
  <2>6. QED
    BY <2>1, <2>2, <2>5
<1>11. /\ msc' = msc_read_data_sent(d, Len(r.data))
       /\ initiator' = [Moved(Len(r.data), TRUE) EXCEPT !.got = @ \o r.data]
  BY <1>2, <1>4 DEF InTransfer
<1>12. d \in MscState /\ Kept(msc, d) /\ SameBooks(msc, d) /\ TakenFrom(msc, d)
  BY <1>1, <1>3, TakeDoes
<1>13. msc.usb_pending = InFlight(Tail(q)) + 1
  BY <1>1, <1>4 DEF ReadBooks
<1>14. d.usb_pending >= 1
  BY <1>6, <1>12, <1>13 DEF SameBooks
<1>15. msc' = (IF e.queued = e.total THEN msc_request_data_done(e) ELSE msc_read_worker(e))
  BY <1>11 DEF msc_read_data_sent
<1> HIDE DEF d
<1>16. /\ e \in MscState /\ Kept(d, e) /\ SameEnds(d, e) /\ e.csw = d.csw /\ e.breq = d.breq
       /\ e.queued = d.queued /\ e.blk_pending = d.blk_pending
       /\ e.free = d.free + k /\ e.usb_pending = d.usb_pending - 1
  <2>1. d.free \in Nat /\ d.usb_pending \in Nat
    BY <1>12, QueuesAndLists
  <2>2. PICK x \in Nat : x = d.free + k
    BY <1>5, <2>1
  <2>3. PICK y \in Nat : y = d.usb_pending - 1
    BY <1>14, <2>1
  <2>4. e = Freed(d, x, y)
    BY <1>5, <2>2, <2>3 DEF Freed
  <2> HIDE DEF e
  <2>5. e \in MscState /\ FreesOnly(d, e, x, y)
    <3>1. d \in MscState
      BY <1>12
    <3>2. QED
      BY <2>4, <3>1, FreedDoes
  <2>6. QED
    BY <2>2, <2>3, <2>5 DEF FreesOnly
<1> HIDE DEF e
<1>17. /\ Kept(msc, e) /\ e.inq = Tail(q) /\ e.outq = msc.outq /\ e.halted = msc.halted
       /\ e.csw = msc.csw /\ e.breq = msc.breq /\ e.queued = msc.queued
       /\ e.blk_pending = msc.blk_pending /\ e.free = msc.free + k
       /\ e.usb_pending = msc.usb_pending - 1
  BY SMTT(60), <1>12, <1>16 DEF Kept, SameBooks, SameEnds, TakenFrom
<1>18. /\ initiator' \in HostState
       /\ GotBy(initiator, initiator', r.data,
                IF initiator.moved + Len(r.data) = c.len THEN "status" ELSE "data")
  <2>1. initiator.moved + Len(r.data) <= c.len
    BY SMTT(60), <1>2, <1>5, <1>10
  <2>2. QED
    BY <1>1, <1>4, <1>11, <2>1, GotDoes
<1>19. initiator.moved + Len(r.data) # c.len
  BY <1>2, <1>5, <1>10
<1>20. /\ initiator'.moved = initiator.moved + k /\ initiator'.phase = "data"
       /\ initiator'.got = initiator.got \o r.data
       /\ initiator'.cmd = c /\ initiator'.tag = initiator.tag
  BY <1>5, <1>18, <1>19 DEF GotBy
<1>21. /\ r.data = Run(c.lba + initiator.moved, k)
       /\ Carries(Tail(q), c.lba + initiator.moved + k, c.lba + (initiator.moved + (b + k)))
  <2>1. PICK a \in Nat : a = c.lba + initiator.moved
    BY <1>2
  <2>2. PICK x \in Nat : x = c.lba + (initiator.moved + (b + k))
    BY SMTT(60), <1>2, <1>5, <1>6
  <2>3. Blocks(q) = b + k
    BY <1>4, <1>5 DEF b
  <2>4. Carries(q, a, x)
    BY <1>1, <2>1, <2>2, <2>3 DEF Reading
  <2>5. /\ r.data = Run(a, Len(r.data))
        /\ Carries(Tail(q), a + Len(r.data), x)
    BY <1>3, <2>4, CarriesLess
  <2>6. QED
    BY <1>5, <2>1, <2>2, <2>5
<1>22. initiator'.got = Run(c.lba, initiator.moved + k)
  <2>1. PICK w \in Nat : w = initiator.moved
    BY <1>2
  <2>2. PICK x \in Nat : x = c.lba
    BY <1>2
  <2>3. initiator.got = Run(x, w)
    BY <1>1, <2>1, <2>2 DEF ReadBooks
  <2>4. r.data = Run(x + w, k)
    BY <1>21, <2>1, <2>2
  <2>5. Run(x, w) \o Run(x + w, k) = Run(x, w + k)
    BY <1>5, RunThenRun
  <2>6. initiator'.got = Run(x, w + k)
    BY <1>20, <2>3, <2>4, <2>5
  <2>7. QED
    BY <2>1, <2>2, <2>6
<1>23. Active(e, c) /\ Taken(e, c) = t
  BY <1>1, <1>17 DEF Active, Kept, Taken, t
<1> DEFINE n == initiator'.moved + b
<1>24. n = initiator.moved + (b + k)
  BY SMTT(60), <1>2, <1>5, <1>6, <1>20
<1>25. e.free + b + l + u = NrLargeObjs
  <2>1. msc.free + (b + k) + l + u = NrLargeObjs
    BY <1>1, <1>4, <1>5 DEF ReadBooks, b, l, u
  <2>2. QED
    <3>1. PICK f \in Nat : f = msc.free
      BY <1>1, QueuesAndLists
    <3>2. f + (b + k) + l + u = NrLargeObjs
      BY <2>1, <3>1
    <3>3. f + k + b + l + u = NrLargeObjs
      <4>1. b \in Nat /\ u \in Nat /\ l \in Nat /\ k \in Nat
        BY <1>5, <1>6
      <4>2. QED
        BY <3>2, <4>1, Constants
    <3>4. QED
      BY <1>17, <3>1, <3>3
<1>26. ReadBooks(e, initiator', Tail(q))
  <2>1. e.usb_pending = InFlight(Tail(q))
    BY <1>6, <1>13, <1>17
  <2>2. initiator'.moved < c.count
    BY <1>10, <1>20
  <2>3. e.free + Blocks(Tail(q)) + Len(e.breq.list) + Len(e.breq.current) = NrLargeObjs
    BY <1>17, <1>25 DEF b, l, u
  <2>4. e.total = msc.total
    BY <1>17 DEF Kept
  <2>5. QED
    BY ZenonT(60), <1>1, <1>4, <1>17, <1>20, <1>22, <2>1, <2>2, <2>3, <2>4 DEF ReadBooks
<1>27. Reading(e, initiator')
  <2>1. Carries(Tail(q), c.lba + initiator'.moved, c.lba + n)
    <3>1. c.lba + initiator'.moved = c.lba + initiator.moved + k
      <4>1. PICK y \in Nat : y = c.lba
        BY <1>2
      <4>2. PICK w \in Nat : w = initiator.moved
        BY <1>2
      <4>3. y + (w + k) = y + w + k
        OBVIOUS
      <4>4. QED
        BY <1>20, <4>1, <4>2, <4>3
    <3>2. QED
      BY <1>21, <1>24, <3>1
  <2>2. e.breq.current = Run(c.lba + n, Len(e.breq.current))
    <3>1. initiator.moved + Blocks(q) = n
      BY <1>4, <1>5, <1>24 DEF b
    <3>2. QED
      BY <1>1, <1>17, <3>1 DEF Reading
  <2>3. n + Len(e.breq.current) = Taken(e, c)
    BY <1>9, <1>17, <1>23, <1>24 DEF u
  <2>4. Taken(e, c) + Len(e.breq.list) = e.queued /\ e.blk_pending = Len(e.breq.list) + Len(e.breq.current)
    BY <1>1, <1>17, <1>23 DEF Reading, t
  <2>5. initiator'.moved + Blocks(e.inq) = n
    BY <1>17 DEF b
  <2> HIDE DEF n
  <2>6. QED
    BY <1>17, <1>20, <1>23, <1>26, <2>1, <2>2, <2>3, <2>4, <2>5 DEF Reading
<1>28. ~ (c.count < c.len)
  <2>1. msc.breq.st # "idle"
    BY <1>1 DEF Active, Paged
  <2>2. QED
    BY <1>3, <2>1 DEF InRead, OneRequest
<1>29. OneRequest(e, initiator')
  BY <1>20, <1>28 DEF OneRequest
<1>30. InRead(e, initiator')
  <2>1. Always(e, initiator')
    BY <1>16, <1>17, <1>18 DEF InRead, Always, Kept
  <2>2. Served(e, initiator')
    BY <1>17, <1>20 DEF InRead, Served, Kept
  <2>3. QED
    BY <1>27, <1>29, <2>1, <2>2 DEF InRead
<1>31. InRead(msc', initiator')
  <2>1. CASE e.queued = e.total
    <3>1. e.csw.residue = 0
      BY <1>1, <1>2, <1>17, <1>28 DEF ReadBooks
    <3>2. msc_request_data_done(e) = e
      BY <3>1 DEF msc_request_data_done
    <3>3. QED
      BY <1>15, <1>30, <2>1, <3>2
  <2>2. CASE e.queued # e.total
    <3>1. InRead(msc_read_worker(e), initiator')
      BY <1>30, ReadWorkerKeeps
    <3>2. QED
      BY <1>15, <2>2, <3>1
  <2>3. QED
    BY <2>1, <2>2
<1>32. QED
  BY <1>31 DEF InRead, Always, MscInv, Inv, Serving

\* The host takes blocks when all have been read.
LEMMA DrainingTaken ==
    ASSUME MscInv, InTransfer, Served(msc, initiator), Draining(msc, initiator),
           OneRequest(msc, initiator)
    PROVE  MscInv'
<1> DEFINE c == initiator.cmd
           d == [msc EXCEPT !.inq = Tail(@)]
           s == StatusBehind(msc)
<1>1. /\ msc \in MscState /\ initiator \in HostState /\ c \in Command
      /\ Always(msc, initiator)
  BY DEF MscInv, Inv, Always, Served
<1>2. /\ c.len \in Nat /\ c.lba \in Nat /\ c.count \in Nat /\ initiator.moved \in Nat
      /\ msc.breq = NoBlockRequest /\ msc.queued = msc.total
  BY <1>1, CommandFields DEF HostState, Draining
<1>3. PICK q \in Seq(UsbRequest) :
         /\ q # << >> /\ msc.inq = q \o s
         /\ ReadBooks(msc, initiator, q) /\ Carries(q, c.lba + initiator.moved, c.lba + c.count)
         /\ initiator.moved + Blocks(q) = c.count
  BY DEF Draining
<1>4. /\ initiator.phase = "data" /\ c.op = "read" /\ c.in /\ c.count <= c.len
      /\ msc.halted = {} /\ msc.outq = << >> /\ AllData(q)
      /\ msc.usb_pending = InFlight(q) /\ msc.csw.residue = c.len - c.count
      /\ initiator.got = Run(c.lba, initiator.moved)
  BY <1>3 DEF ReadBooks
<1> DEFINE r == Head(q)
<1>5. /\ r.kind = "data" /\ Len(r.data) \in 1 .. NrLargeObjs /\ r.data \in Seq(Nat)
      /\ Tail(q) \in Seq(UsbRequest) /\ AllData(Tail(q))
      /\ InFlight(q) = InFlight(Tail(q)) + 1
      /\ Blocks(q) = Blocks(Tail(q)) + Len(r.data)
  BY <1>3, <1>4, DataHasNoHole
<1>6. PICK k \in Nat : k = Len(r.data) /\ k >= 1
  BY <1>5, Constants
<1> DEFINE b == Blocks(Tail(q))
<1>7. b \in Nat /\ InFlight(Tail(q)) \in Nat
  BY <1>5, CountsAreNumbers
<1>8. initiator.moved + k + b = c.count
  BY SMTT(60), <1>2, <1>3, <1>5, <1>6, <1>7
<1>9. s \in Seq(UsbRequest)
  <2>1. Csw \in UsbRequest
    BY DEF Csw, UsbRequest
  <2>2. QED
    BY <2>1 DEF StatusBehind
<1> HIDE DEF s, b
<1>10. msc.inq # << >> /\ Head(msc.inq) = r /\ Tail(msc.inq) = Tail(q) \o s
  BY SMTT(60), <1>3, <1>9, FirstOfBoth
<1>11. /\ msc' = msc_read_data_sent(d, Len(r.data))
       /\ initiator' = [Moved(Len(r.data), TRUE) EXCEPT !.got = @ \o r.data]
  BY <1>4, <1>5, <1>10 DEF InTransfer
<1>12. d \in MscState /\ Kept(msc, d) /\ SameBooks(msc, d) /\ TakenFrom(msc, d)
  BY <1>1, <1>10, TakeDoes
<1> HIDE DEF d
<1>13. PICK x \in Nat : x = d.free + k
  BY <1>6, <1>12, QueuesAndLists
<1>14. PICK y \in Nat : y = d.usb_pending - 1 /\ y = InFlight(Tail(q))
  BY <1>4, <1>5, <1>7, <1>12 DEF SameBooks
<1> DEFINE e == Freed(d, x, y)
<1>15. e \in MscState /\ FreesOnly(d, e, x, y)
  <2>1. d \in MscState /\ e = Freed(d, x, y)
    BY <1>12
  <2> HIDE DEF e
  <2>2. QED
    <3>1. d \in MscState
      BY <2>1
    <3>2. e = Freed(d, x, y)
      BY <2>1
    <3>3. QED
      BY <3>1, <3>2, FreedDoes
<1>16. msc' = (IF e.queued = e.total THEN msc_request_data_done(e) ELSE msc_read_worker(e))
  BY <1>6, <1>11, <1>13, <1>14 DEF msc_read_data_sent, Freed
<1> HIDE DEF e
<1>17. /\ Kept(msc, e) /\ e.inq = Tail(q) \o s /\ e.outq = << >> /\ e.halted = {}
       /\ e.csw = msc.csw /\ e.breq = NoBlockRequest /\ e.queued = msc.queued
       /\ e.free = msc.free + k /\ e.usb_pending = InFlight(Tail(q))
  BY ZenonT(60), <1>2, <1>4, <1>10, <1>12, <1>13, <1>14, <1>15 DEF FreesOnly, Kept, SameBooks, SameEnds, TakenFrom
<1>18. msc' = msc_request_data_done(e)
  BY <1>2, <1>16, <1>17 DEF Kept
<1>19. /\ msc' \in MscState /\ Kept(e, msc') /\ SameBooks(e, msc')
       /\ msc'.outq = e.outq /\ msc'.csw = e.csw
       /\ msc'.inq = (IF e.csw.residue = 0 THEN e.inq ELSE Append(e.inq, Csw))
       /\ msc'.halted = (IF e.csw.residue = 0 THEN e.halted ELSE e.halted \cup {EndpointOf(e.cbw)})
  BY <1>15, <1>18, DataDoneDoes
<1>20. /\ Kept(msc, msc') /\ msc'.csw = msc.csw /\ msc'.breq = NoBlockRequest
       /\ msc'.queued = msc.queued /\ msc'.outq = << >>
       /\ msc'.free = msc.free + k /\ msc'.usb_pending = InFlight(Tail(q))
  BY <1>17, <1>19 DEF Kept, SameBooks
<1>21. initiator.moved + k <= c.count
  BY <1>2, <1>6, <1>7, <1>8
<1>22. /\ initiator' \in HostState
       /\ GotBy(initiator, initiator', r.data,
                IF initiator.moved + Len(r.data) = c.len THEN "status" ELSE "data")
  <2>1. initiator.moved + Len(r.data) <= c.len
    BY <1>2, <1>4, <1>6, <1>21
  <2>2. QED
    BY <1>1, <1>5, <1>11, <2>1, GotDoes
<1>23. /\ initiator'.moved = initiator.moved + k
       /\ initiator'.phase = (IF initiator.moved + k = c.len THEN "status" ELSE "data")
       /\ initiator'.got = initiator.got \o r.data
       /\ initiator'.cmd = c /\ initiator'.tag = initiator.tag
  BY <1>6, <1>22 DEF GotBy
<1>24. PICK w \in Nat : w = initiator.moved
  BY <1>2
<1>25. PICK a \in Nat : a = c.lba
  BY <1>2
<1>26. PICK n \in Nat : n = c.count
  BY <1>2
<1>27. r.data = Run(a + w, k) /\ Carries(Tail(q), a + w + k, a + n)
  <2>1. Carries(q, a + w, a + n) /\ a + w \in Nat /\ a + n \in Nat
    BY SMTT(60), <1>3, <1>24, <1>25, <1>26
  <2>2. /\ r.data = Run(a + w, Len(r.data))
        /\ Carries(Tail(q), (a + w) + Len(r.data), a + n)
    BY <1>3, <1>4, <2>1, CarriesLess
  <2>3. QED
    BY <1>6, <2>2
<1>28. initiator'.got = Run(a, w + k)
  <2>1. Run(a, w) \o Run(a + w, k) = Run(a, w + k)
    BY ZenonT(60), <1>6, RunThenRun
  <2>2. QED
    BY <1>4, <1>23, <1>24, <1>25, <1>27, <2>1
<1>29. Always(msc', initiator') /\ Served(msc', initiator')
  <2>1. Always(msc', initiator')
    BY <1>1, <1>19, <1>20, <1>22 DEF Always, Kept
  <2>2. Served(msc', initiator')
    BY <1>20, <1>23 DEF Served, Kept
  <2>3. QED
    BY <2>1, <2>2
<1>30. msc.free + (b + k) = NrLargeObjs
  <2>1. msc.free + Blocks(q) + 0 + 0 = NrLargeObjs
    BY <1>2, <1>3 DEF ReadBooks, NoBlockRequest, BlockRequest
  <2>2. Blocks(q) = b + k /\ msc.free \in Nat
    BY <1>1, <1>5, <1>6, QueuesAndLists DEF b
  <2>3. QED
    BY <1>6, <1>7, <2>1, <2>2
<1>31. ASSUME Tail(q) = << >>
       PROVE  Quiet(msc') /\ initiator'.moved = c.count /\ initiator'.got = Run(c.lba, c.count)
  <2>1. b = 0 /\ InFlight(Tail(q)) = 0
    BY <1>31, EmptyQueue DEF b
  <2>2. msc'.free = NrLargeObjs
    <3>1. PICK f \in Nat : f = msc.free
      BY <1>1, QueuesAndLists
    <3>2. QED
      BY <1>6, <1>20, <1>30, <2>1, <3>1, Constants
  <2>3. w + k = n
    BY <1>6, <1>8, <1>24, <1>26, <2>1
  <2>4. QED
    BY <1>20, <1>23, <1>24, <1>25, <1>26, <1>28, <2>1, <2>2, <2>3 DEF Quiet
<1>32. CASE c.count < c.len
  <2>1. msc.csw.residue # 0
    BY <1>2, <1>4, <1>32
  <2>2. s = << >> /\ Tail(q) = << >> /\ msc'.inq = <<Csw>>
    <3>1. s = << >>
      BY <2>1 DEF s, StatusBehind
    <3>2. msc.inq = q
      BY <1>3, <3>1
    <3>3. Len(msc.inq) = 1
      BY <1>2, <1>32 DEF OneRequest, NoBlockRequest, BlockRequest
    <3>4. Tail(q) = << >>
      <4>1. Len(q) = 1
        BY <3>2, <3>3
      <4>2. Tail(q) \in Seq(UsbRequest) /\ Len(Tail(q)) = 0
        BY <1>3, <4>1
      <4>3. QED
        BY <4>2, EmptySeq
    <3>5. msc'.inq = Append(<< >> \o << >>, Csw)
      BY <1>17, <1>19, <2>1, <3>1, <3>4
    <3>6. QED
      BY <3>1, <3>4, <3>5
  <2>3. msc'.halted = {"in"}
    BY <1>4, <1>17, <1>19, <2>1 DEF EndpointOf, Served, Kept
  <2>4. /\ Quiet(msc') /\ initiator'.moved = c.count /\ initiator'.got = Run(c.lba, c.count)
    BY <1>31, <2>2
  <2>5. initiator'.phase = "data"
    BY <1>2, <1>21, <1>23, <1>32
  <2>6. msc'.csw.residue + initiator'.moved = c.len
    BY <1>2, <1>4, <1>20, <2>4
  <2>7. Passed(msc', initiator')
    BY <1>4, <1>23, <2>4, <2>6 DEF Passed
  <2>8. Ending(msc', initiator')
    BY <1>4, <1>20, <1>23, <2>2, <2>3, <2>4, <2>5, <2>7 DEF Ending, EndpointOf
  <2>9. QED
    BY <1>29, <2>8 DEF MscInv, Inv, Serving
<1>33. CASE c.count = c.len
  <2>1. msc.csw.residue = 0 /\ s = <<Csw>>
    BY <1>2, <1>4, <1>33 DEF s, StatusBehind
  <2>2. msc'.inq = Tail(q) \o s /\ msc'.halted = {}
    BY <1>17, <1>19, <2>1
  <2>3. CASE Tail(q) = << >>
    <3>1. msc'.inq = <<Csw>>
      <4>1. << >> \o s = s
        BY <1>9
      <4>2. QED
        BY <2>1, <2>2, <2>3, <4>1
    <3>2. /\ Quiet(msc') /\ initiator'.moved = c.count /\ initiator'.got = Run(c.lba, c.count)
      BY <1>31, <2>3
    <3>3. initiator'.phase = "status"
      BY <1>23, <1>33, <3>2
    <3>4. msc'.csw.residue + initiator'.moved = c.len
      BY <1>2, <1>20, <1>33, <2>1, <3>2
    <3>5. Passed(msc', initiator')
      BY <1>4, <1>23, <3>2, <3>4 DEF Passed
    <3>6. Ending(msc', initiator')
      BY <1>20, <2>2, <3>1, <3>2, <3>3, <3>5 DEF Ending
    <3>7. QED
      BY <1>29, <3>6 DEF MscInv, Inv, Serving
  <2>4. CASE Tail(q) # << >>
    <3>1. b >= 1
      <4>1. b # 0
        BY <1>5, <2>4, DataOfNothing DEF b
      <4>2. QED
        BY <1>7, <4>1
    <3>2. initiator'.moved < c.count /\ initiator'.moved + b = c.count
      <4>1. w + k + b = n
        BY <1>8, <1>24, <1>26
      <4>2. w + k < n
        BY <1>6, <1>7, <3>1, <4>1
      <4>3. QED
        BY <1>23, <1>24, <1>26, <4>1, <4>2
    <3>3. initiator'.phase = "data"
      BY <1>2, <1>23, <1>33, <3>2
    <3>4. msc'.free + Blocks(Tail(q)) + Len(msc'.breq.list) + Len(msc'.breq.current) = NrLargeObjs
      <4>1. Len(msc'.breq.list) = 0 /\ Len(msc'.breq.current) = 0
        BY <1>20 DEF NoBlockRequest, BlockRequest
      <4>2. PICK f \in Nat : f = msc.free
        BY <1>1, QueuesAndLists
      <4>3. f + k + b + 0 + 0 = NrLargeObjs
        BY <1>6, <1>7, <1>30, <4>2, Constants
      <4>4. QED
        BY <1>20, <4>1, <4>2, <4>3 DEF b
    <3>5. ReadBooks(msc', initiator', Tail(q))
      <4>1. initiator'.got = Run(c.lba, initiator'.moved)
        BY <1>23, <1>24, <1>25, <1>28
      <4>2. msc'.total = msc.total
        BY <1>20 DEF Kept
      <4>3. QED
        BY <1>3, <1>5, <1>20, <1>23, <2>2, <3>2, <3>3, <3>4, <4>1, <4>2 DEF ReadBooks
    <3>6. Carries(Tail(q), c.lba + initiator'.moved, c.lba + c.count)
      <4>1. a + (w + k) = a + w + k
        OBVIOUS
      <4>2. QED
        BY <1>23, <1>24, <1>25, <1>26, <1>27, <4>1
    <3>7. msc'.inq = Tail(q) \o StatusBehind(msc')
      BY <1>20, <2>2 DEF s, StatusBehind
    <3>8. msc'.queued = msc'.total
      BY <1>2, <1>20 DEF Kept
    <3>9. Draining(msc', initiator')
      BY <1>5, <1>20, <1>23, <2>4, <3>2, <3>5, <3>6, <3>7, <3>8 DEF Draining, b
    <3>10. OneRequest(msc', initiator')
      BY <1>2, <1>23, <1>33 DEF OneRequest
    <3>11. QED
      BY <1>29, <3>9, <3>10 DEF MscInv, Inv, Serving
  <2>5. QED
    BY <2>3, <2>4
<1>34. c.count < c.len \/ c.count = c.len
  BY <1>2, <1>4
<1>35. QED
  BY <1>32, <1>33, <1>34

LEMMA InTransferKeeps ==
    ASSUME MscInv, InTransfer
    PROVE  MscInv'
<1>1. msc.inq # << >> /\ initiator.phase \in {"data", "status"}
  BY DEF InTransfer
<1>2. Serving(msc, initiator)
  BY <1>1, PhaseTells DEF MscInv
<1>3. Served(msc, initiator) /\ Always(msc, initiator)
  BY <1>2 DEF Serving, MscInv, Inv
<1>4. CASE Ending(msc, initiator)
  BY <1>3, <1>4, StatusTaken
<1>5. CASE Answering(msc, initiator)
  BY <1>3, <1>5, AnswerTaken
<1>6. CASE Writing(msc, initiator) \/ Verifying(msc, initiator)
  BY <1>1, <1>6 DEF Writing, Verifying
<1>7. CASE Reading(msc, initiator) /\ OneRequest(msc, initiator)
  <2>1. InRead(msc, initiator)
    BY <1>3, <1>7 DEF InRead
  <2>2. QED
    BY <2>1, ReadDataTaken
<1>8. CASE Draining(msc, initiator) /\ OneRequest(msc, initiator)
  BY <1>3, <1>8, DrainingTaken
<1>9. QED
  BY <1>2, <1>4, <1>5, <1>6, <1>7, <1>8 DEF Serving

-----------------------------------------------------------------------------
(* The host fills the buffers of a write.                                  *)

\* The first request of the OUT endpoint is done, and its buffers are full.
Filled(d, q, x, y) == [d EXCEPT !.outq = q, !.blk_pending = x, !.usb_pending = y]

FillsOnly(d, e, q, x, y) ==
    /\ Kept(d, e) /\ e.inq = d.inq /\ e.outq = q /\ e.halted = d.halted /\ e.csw = d.csw
    /\ e.breq = d.breq /\ e.queued = d.queued /\ e.free = d.free
    /\ e.blk_pending = x /\ e.usb_pending = y

LEMMA FilledDoes ==
    ASSUME NEW d \in MscState, NEW q \in Seq(UsbRequest), NEW x \in Nat, NEW y \in Nat,
           NEW e, e = Filled(d, q, x, y)
    PROVE  e \in MscState /\ FillsOnly(d, e, q, x, y)
<1>1. e \in MscState
  BY DEF Filled, MscState
<1>2. FillsOnly(d, e, q, x, y)
  BY DEF Filled, FillsOnly, MscState, Kept
<1>3. QED
  BY <1>1, <1>2

\* The books of a write, and where it is.
LEMMA WritingFields ==
    ASSUME NEW m \in MscState, NEW h \in HostState, h.cmd \in Command, Writing(m, h)
    PROVE  /\ h.cmd.len \in Nat /\ h.cmd.count \in Nat /\ h.cmd.lba \in Nat /\ h.moved \in Nat
           /\ h.cmd.count <= h.cmd.len /\ h.moved <= h.cmd.count /\ m.queued <= h.cmd.count
           /\ Taken(m, h.cmd) \in Nat /\ m.total = h.cmd.count
           /\ Active(m, h.cmd) /\ m.breq.st # "idle" /\ m.breq # NoBlockRequest
<1>1. /\ h.cmd.len \in Nat /\ h.cmd.count \in Nat /\ h.cmd.lba \in Nat /\ h.moved \in Nat
      /\ Active(m, h.cmd) /\ m.total = h.cmd.count /\ h.cmd.count <= h.cmd.len
      /\ m.queued <= h.cmd.count
  BY CommandFields DEF HostState, Writing, Active
<1>2. m.breq.st # "idle" /\ m.breq # NoBlockRequest
  BY <1>1 DEF Active, Paged, NoBlockRequest, BlockRequest
<1>3. Taken(m, h.cmd) \in Nat
  BY <1>1, TakenSoFar
<1>4. h.moved + Blocks(m.outq) = m.queued /\ Blocks(m.outq) \in Nat /\ m.queued \in Nat
  BY QueuesAndLists DEF Writing
<1>5. h.moved <= h.cmd.count
  BY <1>1, <1>4
<1>6. QED
  BY <1>1, <1>2, <1>3, <1>5

LEMMA WriteDataReceived ==
    ASSUME MscInv, OutTransfer, Served(msc, initiator), Writing(msc, initiator)
    PROVE  MscInv'
<1> DEFINE c == initiator.cmd
           q == msc.outq
           r == Head(q)
           z == Taken(msc, c)
<1>1. /\ msc \in MscState /\ initiator \in HostState /\ c \in Command
      /\ Always(msc, initiator)
  BY DEF MscInv, Inv, Always, Served
<1>2. /\ c.len \in Nat /\ c.count \in Nat /\ c.lba \in Nat /\ initiator.moved \in Nat
      /\ c.count <= c.len /\ initiator.moved <= c.count /\ msc.queued <= c.count
      /\ z \in Nat /\ msc.total = c.count
      /\ Active(msc, c) /\ msc.breq.st # "idle" /\ msc.breq # NoBlockRequest
  BY <1>1, WritingFields
<1>3. q \in Seq(UsbRequest) /\ q # << >> /\ AllData(q)
  BY <1>1 DEF OutTransfer, Writing, MscState
<1>4. /\ r.kind = "data" /\ Len(r.data) \in 1 .. NrLargeObjs /\ r.data \in Seq(Nat)
      /\ Tail(q) \in Seq(UsbRequest) /\ AllData(Tail(q))
      /\ InFlight(q) = InFlight(Tail(q)) + 1
      /\ Blocks(q) = Blocks(Tail(q)) + Len(r.data)
  BY <1>3, DataHasNoHole
<1>5. PICK k \in Nat : k = Len(r.data) /\ k >= 1
  BY <1>4, Constants
<1>6. PICK w \in Nat : w = initiator.moved
  BY <1>2
<1> DEFINE b == Blocks(Tail(q))  u == Len(msc.breq.current)  l == Len(msc.breq.list)
<1>7. b \in Nat /\ u \in Nat /\ l \in Nat /\ InFlight(Tail(q)) \in Nat
  BY <1>1, <1>4, CountsAreNumbers, QueuesAndLists
<1>8. PICK o \in Nat : o = msc.queued
  BY <1>1, QueuesAndLists
<1>9. PICK n \in Nat : n = c.count
  BY <1>2
<1>10. w + (b + k) = o /\ z + l = w /\ o <= n
  BY <1>2, <1>4, <1>5, <1>6, <1>8, <1>9 DEF Writing
<1> HIDE DEF b, u, l, z
<1>11. w + k <= n /\ w + k + b = o /\ z + (l + k) = w + k
  BY <1>2, <1>7, <1>10
<1> DEFINE blocks == [i \in 1 .. k |-> initiator.moved + i]
<1>12. blocks = Run(w + 1, k)
  <2>1. ASSUME NEW i \in 1 .. k
        PROVE  w + i = (w + 1) + i - 1
    OBVIOUS
  <2>2. QED
    BY <1>6, <2>1 DEF Run
<1>13. /\ msc' = msc_write_data_received([msc EXCEPT !.outq = Tail(@)], blocks)
       /\ initiator' = Moved(k, TRUE)
  BY <1>5 DEF OutTransfer
<1> HIDE DEF blocks
<1>14. PICK x \in Nat : x = msc.blk_pending + k
  BY <1>1, QueuesAndLists
<1>15. PICK y \in Nat : y = msc.usb_pending - 1 /\ y = InFlight(Tail(q))
  BY <1>4, <1>7 DEF Writing
<1>16. blocks \in Seq(Nat) /\ Len(blocks) = k
  BY <1>12, RunIsSequence
<1> DEFINE d == Filled(msc, Tail(q), x, y)
<1>17. msc' = SubmitBufList(d, blocks)
  BY <1>13, <1>14, <1>15, <1>16 DEF Filled, msc_write_data_received
<1>18. d \in MscState /\ FillsOnly(msc, d, Tail(q), x, y)
  <2>1. d = Filled(msc, Tail(q), x, y)
    OBVIOUS
  <2> HIDE DEF d
  <2>2. QED
    BY <1>1, <1>4, <2>1, FilledDoes
<1> HIDE DEF d
<1>19. msc' \in MscState /\ Kept(d, msc') /\ GivesBlocks(d, msc', blocks)
  BY <1>16, <1>17, <1>18, SubmitBufListDoes
<1>20. /\ Kept(msc, msc') /\ msc'.inq = msc.inq /\ msc'.outq = Tail(q) /\ msc'.halted = msc.halted
       /\ msc'.csw = msc.csw /\ msc'.queued = msc.queued /\ msc'.free = msc.free
       /\ msc'.usb_pending = y /\ SameBlockRequest(msc, msc')
       /\ msc'.breq.st = (IF msc.breq.st = "sleep" THEN "transfer" ELSE msc.breq.st)
       /\ msc'.breq.list = msc.breq.list \o blocks
  BY <1>18, <1>19 DEF FillsOnly, GivesBlocks, SameEnds, SameBlockRequest, Kept
<1>21. Active(msc', c) /\ Taken(msc', c) = z
  <2>1. /\ msc'.xfer_in_progress = msc.xfer_in_progress /\ msc'.total = msc.total
        /\ msc'.queued <= c.count
    BY <1>2, <1>20 DEF Kept
  <2>2. Active(msc', c) /\ Taken(msc', c) = Taken(msc, c)
    BY <1>1, <1>2, <1>20, <2>1, ActiveWithMore
  <2>3. QED
    BY <2>2 DEF z
<1>22. initiator' \in HostState /\ MovedBy(initiator, initiator', k, IF w + k = c.len THEN "status" ELSE "data")
  <2>1. initiator.moved + k <= c.len
    BY <1>2, <1>6, <1>9, <1>11
  <2>2. /\ initiator' \in HostState
        /\ MovedBy(initiator, initiator', k, IF initiator.moved + k = c.len \/ ~ TRUE THEN "status" ELSE "data")
    BY <1>1, <1>13, <2>1, MovedDoes
  <2>3. QED
    BY <1>6, <2>2
<1>23. /\ initiator'.moved = w + k /\ initiator'.cmd = c /\ initiator'.tag = initiator.tag
       /\ initiator'.phase = (IF w + k = c.len THEN "status" ELSE "data")
       /\ initiator'.stored = initiator.stored
  BY <1>6, <1>22 DEF MovedBy
<1>24. msc'.breq.list = Run(z + 1, l + k) /\ Len(msc'.breq.list) = l + k
  <2>1. msc.breq.list = Run(z + 1, l)
    BY DEF Writing, z, l
  <2>2. blocks = Run((z + 1) + l, k)
    <3>1. w + 1 = (z + 1) + l
      BY <1>2, <1>7, <1>10
    <3>2. QED
      BY <1>12, <3>1
  <2>3. z + 1 \in Nat /\ l + k \in Nat
    BY <1>2, <1>7
  <2>4. Run(z + 1, l) \o Run((z + 1) + l, k) = Run(z + 1, l + k)
    <3>1. PICK v \in Nat : v = z + 1
      BY <2>3
    <3>2. PICK j \in Nat : j = l
      BY <1>7
    <3>3. Run(v, j) \o Run(v + j, k) = Run(v, j + k)
      BY ZenonT(60), RunThenRun
    <3>4. QED
      BY <3>1, <3>2, <3>3
  <2>5. msc'.breq.list = Run(z + 1, l + k)
    BY <1>20, <2>1, <2>2, <2>4
  <2>6. QED
    BY <2>3, <2>5, RunIsSequence
<1>25. msc'.free + Blocks(msc'.outq) + Len(msc'.breq.list) + Len(msc'.breq.current) = NrLargeObjs
  <2>1. PICK f \in Nat : f = msc.free
    BY <1>1, QueuesAndLists
  <2>2. f + (b + k) + l + u = NrLargeObjs
    BY <1>4, <1>5, <2>1 DEF Writing, b, l, u
  <2>3. f + b + (l + k) + u = NrLargeObjs
    BY <1>7, <2>2, Constants
  <2>4. msc'.free = f /\ Blocks(msc'.outq) = b /\ Len(msc'.breq.list) = l + k /\ Len(msc'.breq.current) = u
    BY <1>20, <1>24, <2>1 DEF SameBlockRequest, b, u
  <2>5. QED
    BY <2>3, <2>4
<1>26. Writing(msc', initiator')
  <2>1. initiator'.phase = (IF initiator'.moved = c.len THEN "status" ELSE "data")
    BY <1>23
  <2>2. /\ msc'.halted = {} /\ msc'.inq = << >> /\ AllData(msc'.outq) /\ Active(msc', c)
        /\ msc'.usb_pending = InFlight(msc'.outq) /\ msc'.csw.residue = c.len - c.count
        /\ msc'.csw.status = "pass" /\ c.op = "write" /\ ~ c.in
    BY <1>4, <1>15, <1>20, <1>21 DEF Writing
  <2>3. Taken(msc', c) + Len(msc'.breq.list) = initiator'.moved
    BY <1>11, <1>21, <1>23, <1>24
  <2>4. initiator'.moved + Blocks(msc'.outq) = msc'.queued
    BY <1>8, <1>11, <1>20, <1>23 DEF b
  <2>5. msc'.breq.list = Run(Taken(msc', c) + 1, Len(msc'.breq.list))
    BY <1>21, <1>24
  <2>6. initiator'.stored = {<<c.lba + i - 1, i>> : i \in 1 .. Taken(msc', c)}
    BY <1>21, <1>23 DEF Writing, z
  <2>7. QED
    BY <1>2, <1>23, <1>25, <2>1, <2>2, <2>3, <2>4, <2>5, <2>6 DEF Writing
<1>27. Served(msc', initiator')
  BY <1>20, <1>23 DEF Served, Kept
<1>28. Always(msc', initiator')
  BY <1>1, <1>2, <1>19, <1>20, <1>22 DEF Always, Kept
<1>29. QED
  BY <1>26, <1>27, <1>28 DEF MscInv, Inv, Serving

LEMMA OutTransferKeeps ==
    ASSUME MscInv, OutTransfer
    PROVE  MscInv'
<1>1. initiator.phase = "data" /\ ~ initiator.cmd.in /\ msc.outq # << >>
  BY DEF OutTransfer
<1>2. Serving(msc, initiator)
  BY <1>1, PhaseTells DEF MscInv
<1>3. Served(msc, initiator) /\ Writing(msc, initiator)
  BY <1>1, <1>2 DEF Serving, Ending, Answering, Verifying, Reading, Draining, ReadBooks
<1>4. QED
  BY <1>3, WriteDataReceived

-----------------------------------------------------------------------------
(* What the dataflash does with its block request.                         *)

\* All but the block request is the same.
AllButRequest(d, e) ==
    /\ Kept(d, e) /\ SameEnds(d, e) /\ e.csw = d.csw
    /\ e.queued = d.queued /\ e.blk_pending = d.blk_pending
    /\ e.usb_pending = d.usb_pending /\ e.free = d.free

LEMMA RequestDoes ==
    ASSUME NEW d \in MscState, NEW b \in BlockReq, NEW e, e = [d EXCEPT !.breq = b]
    PROVE  e \in MscState /\ AllButRequest(d, e) /\ e.breq = b
<1>1. e \in MscState
  BY DEF MscState
<1>2. AllButRequest(d, e) /\ e.breq = b
  BY DEF MscState, AllButRequest, Kept, SameEnds
<1>3. QED
  BY <1>1, <1>2

LEMMA NoRequestDoes ==
    ASSUME NEW d \in MscState, NEW e, e = [d EXCEPT !.breq = NoBlockRequest]
    PROVE  e \in MscState /\ AllButRequest(d, e) /\ e.breq = NoBlockRequest
<1>1. NoBlockRequest \in BlockReq
  BY DEF NoBlockRequest, BlockRequest, BlockReq
<1>2. QED
  BY <1>1, RequestDoes

\* The buffers it has filled are given back.
Clears(d, e) ==
    /\ e.breq.st = d.breq.st /\ e.breq.op = d.breq.op /\ e.breq.lba = d.breq.lba
    /\ e.breq.remaining = d.breq.remaining /\ e.breq.pos = d.breq.pos
    /\ e.breq.list = d.breq.list /\ e.breq.current = << >>

LEMMA ClearDoes ==
    ASSUME NEW d \in MscState, NEW e, e = [d EXCEPT !.breq.current = << >>]
    PROVE  e \in MscState /\ AllButRequest(d, e) /\ Clears(d, e)
<1> DEFINE b == [d.breq EXCEPT !.current = << >>]
<1>1. d.breq \in BlockReq
  BY DEF MscState
<1>2. /\ b \in BlockReq /\ b.st = d.breq.st /\ b.op = d.breq.op /\ b.lba = d.breq.lba
      /\ b.remaining = d.breq.remaining /\ b.pos = d.breq.pos
      /\ b.list = d.breq.list /\ b.current = << >>
  <2>0. << >> \in Seq(Nat)
    BY EmptySeq
  <2>1. PICK s \in Seq(Nat) : s = << >>
    BY <2>0
  <2>2. b = [d.breq EXCEPT !.current = s]
    BY <2>1
  <2> HIDE DEF b
  <2>3. QED
    BY <1>1, <2>1, <2>2 DEF BlockReq
<1>3. e = [d EXCEPT !.breq = b]
  BY DEF MscState, BlockReq
<1> HIDE DEF b
<1>4. e \in MscState /\ AllButRequest(d, e) /\ e.breq = b
  BY ZenonT(60), <1>2, <1>3, RequestDoes
<1>5. QED
  BY <1>2, <1>4 DEF Clears

\* The page is done.
PageTurned(d, x, y) ==
    [d EXCEPT !.breq.current = << >>, !.breq.pos = 0, !.breq.remaining = x, !.breq.lba = y]

Turns(d, e, x, y) ==
    /\ e.breq.st = d.breq.st /\ e.breq.op = d.breq.op /\ e.breq.list = d.breq.list
    /\ e.breq.lba = y /\ e.breq.remaining = x /\ e.breq.pos = 0 /\ e.breq.current = << >>

LEMMA TurnDoes ==
    ASSUME NEW d \in MscState, NEW x \in Nat, NEW y \in Nat, NEW e, e = PageTurned(d, x, y)
    PROVE  e \in MscState /\ AllButRequest(d, e) /\ Turns(d, e, x, y)
<1> DEFINE b == [d.breq EXCEPT !.current = << >>, !.pos = 0, !.remaining = x, !.lba = y]
<1>1. d.breq \in BlockReq
  BY DEF MscState
<1>2. /\ b \in BlockReq /\ b.st = d.breq.st /\ b.op = d.breq.op /\ b.lba = y
      /\ b.remaining = x /\ b.pos = 0
      /\ b.list = d.breq.list /\ b.current = << >>
  <2>0. << >> \in Seq(Nat)
    BY EmptySeq
  <2>1. PICK s \in Seq(Nat) : s = << >>
    BY <2>0
  <2>2. b = [d.breq EXCEPT !.current = s, !.pos = 0, !.remaining = x, !.lba = y]
    BY <2>1
  <2> HIDE DEF b
  <2>3. QED
    BY <1>1, <2>1, <2>2 DEF BlockReq
<1>3. e = [d EXCEPT !.breq = b]
  BY DEF PageTurned, MscState, BlockReq
<1> HIDE DEF b
<1>4. e \in MscState /\ AllButRequest(d, e) /\ e.breq = b
  BY <1>2, <1>3, RequestDoes
<1>5. QED
  BY <1>2, <1>4 DEF Turns

LEMMA RequestStateDoes ==
    ASSUME NEW d \in MscState, NEW st \in {"idle", "transfer", "sleep", "page"},
           NEW e, e = [d EXCEPT !.breq.st = st]
    PROVE  /\ e \in MscState /\ AllButRequest(d, e) /\ SameBlockRequest(d, e)
           /\ e.breq.list = d.breq.list /\ e.breq.st = st
<1> DEFINE b == [d.breq EXCEPT !.st = st]
<1>1. d.breq \in BlockReq
  BY DEF MscState
<1>2. /\ b \in BlockReq /\ b.st = st /\ b.op = d.breq.op /\ b.lba = d.breq.lba
      /\ b.remaining = d.breq.remaining /\ b.pos = d.breq.pos
      /\ b.list = d.breq.list /\ b.current = d.breq.current
  BY <1>1 DEF BlockReq
<1>3. e = [d EXCEPT !.breq = b]
  BY DEF MscState, BlockReq
<1> HIDE DEF b
<1>4. e \in MscState /\ AllButRequest(d, e) /\ e.breq = b
  BY ZenonT(60), <1>2, <1>3, RequestDoes
<1>5. QED
  BY <1>2, <1>4 DEF SameBlockRequest

\* Buffers are taken from the list and filled, or emptied.
BuffersTaken(d, rest, taken, p, st) ==
    [d EXCEPT !.breq.list = rest, !.breq.current = taken, !.breq.pos = p, !.breq.st = st]

Takes(d, e, rest, taken, p, st) ==
    /\ e.breq.op = d.breq.op /\ e.breq.lba = d.breq.lba /\ e.breq.remaining = d.breq.remaining
    /\ e.breq.list = rest /\ e.breq.current = taken /\ e.breq.pos = p /\ e.breq.st = st

LEMMA BuffersTakenDoes ==
    ASSUME NEW d \in MscState, NEW rest \in Seq(Nat), NEW taken \in Seq(Nat), NEW p \in Nat,
           NEW st \in {"idle", "transfer", "sleep", "page"},
           NEW e, e = BuffersTaken(d, rest, taken, p, st)
    PROVE  e \in MscState /\ AllButRequest(d, e) /\ Takes(d, e, rest, taken, p, st)
<1> DEFINE b == [d.breq EXCEPT !.list = rest, !.current = taken, !.pos = p, !.st = st]
<1>1. d.breq \in BlockReq
  BY DEF MscState
<1>2. /\ b \in BlockReq /\ b.st = st /\ b.op = d.breq.op /\ b.lba = d.breq.lba
      /\ b.remaining = d.breq.remaining /\ b.pos = p
      /\ b.list = rest /\ b.current = taken
  BY <1>1 DEF BlockReq
<1>3. e = [d EXCEPT !.breq = b]
  BY DEF BuffersTaken, MscState, BlockReq
<1> HIDE DEF b
<1>4. e \in MscState /\ AllButRequest(d, e) /\ e.breq = b
  BY <1>2, <1>3, RequestDoes
<1>5. QED
  BY <1>2, <1>4 DEF Takes

\* What a block request in progress depends on, besides itself.
SameCommand(m, e, c) ==
    e.xfer_in_progress = m.xfer_in_progress /\ e.total = m.total /\ e.queued <= c.count

LEMMA ActiveWhenCleared ==
    ASSUME NEW m, NEW e, NEW c \in Command, Active(m, c), m.breq.st = "transfer",
           Clears(m, e), SameCommand(m, e, c)
    PROVE  Active(e, c) /\ Taken(e, c) = Taken(m, c)
<1>1. EndOf(e.breq) = EndOf(m.breq)
  BY DEF EndOf, Clears
<1>2. Paged(e.breq)
  BY <1>1 DEF Paged, Clears, Active
<1>3. Taken(e, c) = Taken(m, c)
  BY DEF Taken, Clears
<1>4. QED
  BY <1>2, <1>3 DEF Active, Clears, SameCommand

LEMMA ActiveWhenAsleep ==
    ASSUME NEW m, NEW e, NEW c \in Command, Active(m, c), m.breq.st = "transfer",
           m.breq.list = << >>, m.breq.current = << >>,
           SameBlockRequest(m, e), e.breq.list = m.breq.list, e.breq.st = "sleep", SameCommand(m, e, c)
    PROVE  Active(e, c) /\ Taken(e, c) = Taken(m, c)
<1>1. EndOf(e.breq) = EndOf(m.breq)
  BY DEF EndOf, SameBlockRequest
<1>2. Paged(e.breq)
  BY <1>1 DEF Paged, SameBlockRequest, Active
<1>3. Taken(e, c) = Taken(m, c)
  BY DEF Taken, SameBlockRequest
<1>4. QED
  BY <1>2, <1>3 DEF Active, SameBlockRequest, SameCommand

\* From position p on, k more blocks are transferred.
MovesOn(m, k, p, st) ==
    /\ p = m.breq.pos + k /\ p <= EndOf(m.breq)
    /\ st = (IF p = EndOf(m.breq) THEN "page" ELSE "transfer")

TakenPlus(m, e, c, k) == Taken(e, c) = Taken(m, c) + k

LEMMA ActiveWhenTaking ==
    ASSUME NEW m \in MscState, NEW e, NEW c \in Command, Active(m, c),
           NEW k \in Nat, NEW p \in Nat, NEW st, MovesOn(m, k, p, st),
           NEW rest, NEW taken, taken # << >>,
           Takes(m, e, rest, taken, p, st), SameCommand(m, e, c)
    PROVE  Active(e, c) /\ TakenPlus(m, e, c, k)
<1>1. EndOf(e.breq) = EndOf(m.breq)
  BY DEF EndOf, Takes
<1>2. e.breq.pos = p /\ e.breq.st = (IF p = EndOf(m.breq) THEN "page" ELSE "transfer") /\ e.breq.current = taken
  BY DEF Takes, MovesOn
<1>3. Paged(e.breq)
  BY <1>1, <1>2 DEF Paged, MovesOn
<1>4. Taken(e, c) = Taken(m, c) + k
  <2>1. PICK a \in Nat : a = m.breq.pos
    BY TakenSoFar
  <2>2. PICK b \in Nat : b = m.breq.remaining
    BY TakenSoFar
  <2>3. PICK n \in Nat : n = c.count
    BY CommandFields
  <2>4. Taken(m, c) = n - b + a
    BY <2>1, <2>2, <2>3 DEF Taken
  <2>5. Taken(e, c) = n - b + (a + k)
    BY <1>2, <2>1, <2>2, <2>3 DEF Taken, Takes, MovesOn
  <2>6. QED
    BY <2>4, <2>5
<1>5. QED
  BY <1>3, <1>4 DEF Active, Takes, SameCommand, TakenPlus

LEMMA ActiveWhenTurned ==
    ASSUME NEW m \in MscState, NEW e, NEW c \in Command, Active(m, c), m.breq.st = "page",
           NEW x \in Nat, x = m.breq.remaining - m.breq.pos, x > 0,
           NEW y \in Nat, y = m.breq.lba + m.breq.pos,
           e.breq.st = "transfer", e.breq.op = m.breq.op, e.breq.lba = y,
           e.breq.remaining = x, e.breq.pos = 0, e.breq \in BlockReq, SameCommand(m, e, c)
    PROVE  Active(e, c) /\ Taken(e, c) = Taken(m, c)
<1>1. PICK a \in Nat : a = m.breq.pos
  BY TakenSoFar
<1>2. PICK b \in Nat : b = m.breq.remaining /\ b >= 1
  BY TakenSoFar DEF Active
<1>3. PICK n \in Nat : n = c.count
  BY CommandFields
<1>4. PICK f \in Nat : f = c.lba
  BY CommandFields
<1>5. x = b - a /\ b <= n
  BY <1>1, <1>2, <1>3, TakenSoFar
<1>6. Taken(e, c) = Taken(m, c)
  <2>1. Taken(m, c) = n - b + a
    BY <1>1, <1>2, <1>3 DEF Taken
  <2>2. Taken(e, c) = n - x + 0
    BY <1>3 DEF Taken
  <2>3. QED
    BY <1>5, <2>1, <2>2
<1>7. x \in 1 .. c.count
  BY <1>3, <1>5
<1>8. e.breq.lba = c.lba + c.count - e.breq.remaining
  <2>1. m.breq.lba = f + n - b
    BY <1>2, <1>3, <1>4 DEF Active
  <2>2. y = (f + n - b) + a
    BY <1>1, <2>1
  <2>3. y = f + n - x
    BY <1>5, <2>2
  <2>4. QED
    BY <1>3, <1>4, <2>3
<1>9. Paged(e.breq)
  <2>1. EndOf(e.breq) \in Nat /\ EndOf(e.breq) >= 1
    BY EndOfPage
  <2>2. QED
    BY <2>1 DEF Paged
<1>10. QED
  BY <1>6, <1>7, <1>8, <1>9 DEF Active, SameCommand

\* When the last page is done, buffers have been taken for all of the blocks.
LEMMA AllTaken ==
    ASSUME NEW m \in MscState, NEW c \in Command, Active(m, c),
           ~ (m.breq.remaining - m.breq.pos > 0)
    PROVE  Taken(m, c) = c.count
<1>1. PICK a \in Nat : a = m.breq.pos
  BY TakenSoFar
<1>2. PICK b \in Nat : b = m.breq.remaining
  BY TakenSoFar
<1>3. PICK n \in Nat : n = c.count
  BY CommandFields
<1>4. a <= b
  BY <1>1, <1>2, TakenSoFar
<1>5. a = b
  BY <1>1, <1>2, <1>4
<1>6. Taken(m, c) = n - b + a
  BY <1>1, <1>2, <1>3 DEF Taken
<1>7. QED
  BY <1>3, <1>5, <1>6

\* There is room in the page, and a page is never longer than what remains.
LEMMA PageHasRoom ==
    ASSUME NEW m \in MscState, NEW c \in Command, Active(m, c)
    PROVE  /\ m.breq.pos \in Nat /\ m.breq.remaining \in Nat /\ m.breq.lba \in Nat
           /\ EndOf(m.breq) \in Nat
           /\ m.breq.pos <= EndOf(m.breq) /\ EndOf(m.breq) <= m.breq.remaining
           /\ m.breq.st = "transfer" => m.breq.pos < EndOf(m.breq)
           /\ m.breq.remaining >= 1
           /\ m.breq.lba + m.breq.pos = c.lba + Taken(m, c)
<1>1. /\ m.breq.pos \in Nat /\ m.breq.remaining \in Nat /\ m.breq.lba \in Nat
      /\ EndOf(m.breq) \in Nat /\ m.breq.pos <= EndOf(m.breq) /\ EndOf(m.breq) <= m.breq.remaining
  <2>1. m.breq \in BlockReq
    BY DEF MscState
  <2>2. m.breq.lba \in Nat
    BY <2>1 DEF BlockReq
  <2>3. QED
    BY <2>2, TakenSoFar
<1>2. m.breq.st = "transfer" => m.breq.pos < EndOf(m.breq)
  <2>1. m.breq.st = "transfer" => m.breq.pos # EndOf(m.breq)
    BY DEF Active, Paged
  <2>2. QED
    BY <1>1, <2>1
<1>3. m.breq.remaining >= 1
  BY CommandFields DEF Active
<1>4. m.breq.lba + m.breq.pos = c.lba + Taken(m, c)
  <2>1. PICK a \in Nat : a = m.breq.pos
    BY <1>1
  <2>2. PICK b \in Nat : b = m.breq.remaining
    BY <1>1
  <2>3. PICK n \in Nat : n = c.count
    BY CommandFields
  <2>4. PICK f \in Nat : f = c.lba
    BY CommandFields
  <2>5. m.breq.lba = f + n - b
    BY <2>2, <2>3, <2>4 DEF Active
  <2>6. Taken(m, c) = n - b + a
    BY <2>1, <2>2, <2>3 DEF Taken
  <2>7. (f + n - b) + a = f + (n - b + a)
    OBVIOUS
  <2>8. QED
    BY <2>1, <2>4, <2>5, <2>6, <2>7
<1>5. QED
  BY <1>1, <1>2, <1>3, <1>4

-----------------------------------------------------------------------------
(* The dataflash reads.                                                    *)

ReadGaveBack(m, g) ==
    /\ Kept(m, g) /\ g.breq = m.breq /\ g.csw = m.csw
    /\ g.inq = Append(m.inq, Data(m.breq.current)) /\ g.outq = m.outq /\ g.halted = m.halted
    /\ g.queued = m.queued /\ g.free = m.free
    /\ g.usb_pending = m.usb_pending + 1
    /\ g.blk_pending = m.blk_pending - Len(m.breq.current)

LEMMA ReadGivesBack ==
    ASSUME NEW m \in MscState, m.breq.op = "read", Len(m.breq.current) <= m.blk_pending,
           NEW g, g = BufListDone(m, m.breq.current)
    PROVE  g \in MscState /\ ReadGaveBack(m, g)
<1>1. /\ m.breq.current \in Seq(Nat) /\ m.usb_pending \in Nat /\ m.blk_pending \in Nat
      /\ Len(m.breq.current) \in Nat
  BY QueuesAndLists
<1>2. PICK x \in Nat : x = m.usb_pending + 1
  BY <1>1
<1>3. PICK y \in Nat : y = m.blk_pending - Len(m.breq.current)
  BY <1>1
<1> DEFINE f == [m EXCEPT !.usb_pending = x, !.blk_pending = y]
           r == Data(m.breq.current)
<1>4. g = SubmitIn(f, r)
  BY <1>2, <1>3 DEF BufListDone, msc_block_read_buffers_done
<1>5. f \in MscState
  BY DEF MscState
<1>6. /\ Kept(m, f) /\ f.breq = m.breq /\ f.csw = m.csw /\ SameEnds(m, f)
      /\ f.queued = m.queued /\ f.free = m.free /\ f.usb_pending = x /\ f.blk_pending = y
  BY DEF MscState, Kept, SameEnds
<1>7. r \in UsbRequest
  BY <1>1 DEF Data, UsbRequest
<1> HIDE DEF f, r
<1>8. g \in MscState /\ Kept(f, g) /\ SameBooks(f, g) /\ QueuedIn(f, g, r)
  BY <1>4, <1>5, <1>7, SubmitInDoes
<1>9. /\ Kept(m, g) /\ g.breq = m.breq /\ g.csw = m.csw
      /\ g.inq = Append(m.inq, r) /\ g.outq = m.outq /\ g.halted = m.halted
      /\ g.queued = m.queued /\ g.free = m.free /\ g.usb_pending = x /\ g.blk_pending = y
  BY <1>6, <1>8 DEF Kept, SameBooks, SameEnds, QueuedIn
<1>10. QED
  BY <1>2, <1>3, <1>8, <1>9 DEF ReadGaveBack, r

\* The blocks that were read are in order behind the others.
LEMMA MoreOnTheWay ==
    ASSUME NEW m, NEW h, InRead(m, h), m.breq.current # << >>,
           NEW q, q = Append(m.inq, Data(m.breq.current))
    PROVE  /\ q \in Seq(UsbRequest) /\ AllData(q) /\ q # << >>
           /\ InFlight(q) = InFlight(m.inq) + 1
           /\ Blocks(q) = Blocks(m.inq) + Len(m.breq.current)
           /\ h.moved + Blocks(q) = Taken(m, h.cmd)
           /\ Carries(q, h.cmd.lba + h.moved, h.cmd.lba + Taken(m, h.cmd))
<1> DEFINE c == h.cmd
<1>1. /\ m \in MscState /\ h \in HostState /\ c \in Command
      /\ Reading(m, h) /\ ReadBooks(m, h, m.inq) /\ Active(m, c)
  BY DEF InRead, Always, Served, Reading
<1>2. c.lba \in Nat /\ h.moved \in Nat
  BY <1>1, CommandFields DEF HostState
<1>3. /\ m.inq \in Seq(UsbRequest) /\ m.breq.current \in Seq(Nat)
      /\ Blocks(m.inq) \in Nat /\ m.free \in Nat /\ Len(m.breq.list) \in Nat
      /\ Len(m.breq.current) \in Nat
  BY <1>1, QueuesAndLists
<1>4. PICK k \in Nat : k = Len(m.breq.current)
  BY <1>3
<1>5. k # 0
  BY <1>3, <1>4, EmptySeq
<1>6. k <= NrLargeObjs
  <2>1. m.free + Blocks(m.inq) + Len(m.breq.list) + k = NrLargeObjs
    BY <1>1, <1>4 DEF ReadBooks
  <2>2. QED
    BY <1>3, <2>1, Constants
<1>7. k \in 1 .. NrLargeObjs
  BY <1>5, <1>6, Constants
<1>8. PICK a \in Nat : a = c.lba + h.moved
  BY <1>2
<1>9. PICK x \in Nat : x = c.lba + (h.moved + Blocks(m.inq))
  BY <1>2, <1>3
<1>10. m.breq.current = Run(x, k)
  BY <1>1, <1>4, <1>9 DEF Reading
<1>11. AllData(m.inq) /\ Carries(m.inq, a, x)
  BY <1>1, <1>8, <1>9 DEF Reading, ReadBooks
<1>12. /\ q \in Seq(UsbRequest) /\ AllData(q) /\ InFlight(q) = InFlight(m.inq) + 1
       /\ Blocks(q) = Blocks(m.inq) + Len(m.breq.current)
  <2>1. Len(m.breq.current) \in 1 .. NrLargeObjs
    BY <1>4, <1>7
  <2>2. QED
    BY <1>3, <1>11, <2>1, OneMoreData
<1>13. Carries(q, a, x + k)
  BY <1>3, <1>7, <1>10, <1>11, CarriesMore
<1>14. h.moved + Blocks(q) = Taken(m, c)
  <2>1. h.moved + Blocks(m.inq) + k = Taken(m, c)
    BY <1>1, <1>4 DEF Reading
  <2>2. QED
    BY <1>2, <1>3, <1>4, <1>12, <2>1
<1>15. x + k = c.lba + Taken(m, c)
  <2>1. PICK f \in Nat : f = c.lba
    BY <1>2
  <2>2. PICK w \in Nat : w = h.moved
    BY <1>2
  <2>3. PICK b \in Nat : b = Blocks(m.inq)
    BY <1>3
  <2>4. x = f + (w + b)
    BY <1>9, <2>1, <2>2, <2>3
  <2>5. w + (b + k) = Taken(m, c)
    BY <1>4, <1>12, <1>14, <2>2, <2>3
  <2>6. x + k = f + (w + (b + k))
    BY <2>4
  <2>7. QED
    BY <2>1, <2>5, <2>6
<1>16. q # << >>
  BY <1>3, <1>12
<1>17. QED
  BY <1>8, <1>12, <1>13, <1>14, <1>15, <1>16

\* The request goes on after it has given its buffers back.
LEMMA ReadGoesOn ==
    ASSUME NEW m, NEW h, InRead(m, h), m.breq.current # << >>, NEW g, ReadGaveBack(m, g),
           NEW e \in MscState, AllButRequest(g, e), e.breq.list = g.breq.list,
           e.breq.current = << >>, Active(e, h.cmd), Taken(e, h.cmd) = Taken(m, h.cmd),
           ~ (h.cmd.count < h.cmd.len)
    PROVE  InRead(e, h)
<1> DEFINE c == h.cmd
           q == Append(m.inq, Data(m.breq.current))
<1>1. /\ m \in MscState /\ h \in HostState /\ c \in Command
      /\ Reading(m, h) /\ ReadBooks(m, h, m.inq) /\ Active(m, c)
  BY DEF InRead, Always, Served, Reading
<1>2. /\ q \in Seq(UsbRequest) /\ AllData(q) /\ q # << >>
      /\ InFlight(q) = InFlight(m.inq) + 1
      /\ Blocks(q) = Blocks(m.inq) + Len(m.breq.current)
      /\ h.moved + Blocks(q) = Taken(m, c)
      /\ Carries(q, c.lba + h.moved, c.lba + Taken(m, c))
  BY MoreOnTheWay
<1>3. /\ Kept(m, e) /\ e.csw = m.csw /\ e.inq = q /\ e.outq = m.outq /\ e.halted = m.halted
      /\ e.queued = m.queued /\ e.free = m.free /\ e.usb_pending = m.usb_pending + 1
      /\ e.blk_pending = m.blk_pending - Len(m.breq.current)
      /\ e.breq.list = m.breq.list
  BY DEF ReadGaveBack, AllButRequest, Kept, SameEnds
<1> HIDE DEF q
<1> DEFINE b == Blocks(m.inq)  u == Len(m.breq.current)  l == Len(m.breq.list)
<1>4. /\ b \in Nat /\ u \in Nat /\ l \in Nat /\ InFlight(m.inq) \in Nat /\ m.free \in Nat
  BY <1>1, QueuesAndLists
<1>5. Len(e.breq.current) = 0
  OBVIOUS
<1>6. e.free + Blocks(q) + Len(e.breq.list) + Len(e.breq.current) = NrLargeObjs
  <2>1. PICK f \in Nat : f = m.free
    BY <1>4
  <2>2. f + b + l + u = NrLargeObjs
    BY <1>1, <2>1 DEF ReadBooks
  <2>3. e.free = f /\ Blocks(q) = b + u /\ Len(e.breq.list) = l
    BY <1>2, <1>3, <2>1
  <2> HIDE DEF b, u, l
  <2>4. f + (b + u) + l + 0 = NrLargeObjs
    BY <1>4, <2>2, Constants
  <2>5. QED
    BY <1>5, <2>3, <2>4
<1>7. e.usb_pending = InFlight(q)
  BY <1>1, <1>2, <1>3 DEF ReadBooks
<1>8. ReadBooks(e, h, q)
  <2>1. e.total = m.total
    BY <1>3 DEF Kept
  <2>2. QED
    BY <1>1, <1>2, <1>3, <1>6, <1>7, <2>1 DEF ReadBooks
<1>9. e.blk_pending = Len(e.breq.list) + Len(e.breq.current)
  <2>1. m.blk_pending = l + u
    BY <1>1 DEF Reading
  <2>2. e.blk_pending = (l + u) - u /\ Len(e.breq.list) = l
    BY <1>3, <2>1
  <2> HIDE DEF u, l
  <2>3. (l + u) - u = l + 0
    BY <1>4
  <2>4. QED
    BY <1>5, <2>2, <2>3
<1>10. Taken(m, c) \in Nat
  BY <1>1, TakenSoFar
<1>11. e.breq.current = Run(c.lba + Taken(m, c), Len(e.breq.current))
  <2>1. PICK x \in Nat : x = c.lba + Taken(m, c)
    BY <1>1, <1>10, CommandFields
  <2>2. Run(x, 0) = << >>
    BY RunIsSequence
  <2>3. QED
    BY <1>5, <2>1, <2>2
<1>12. Reading(e, h)
  <2>1. Taken(e, c) + Len(e.breq.list) = e.queued
    BY <1>1, <1>3 DEF Reading
  <2>2. h.moved + Blocks(e.inq) + Len(e.breq.current) = Taken(e, c)
    BY <1>2, <1>3, <1>5, <1>10
  <2>3. h.moved + Blocks(e.inq) = Taken(m, c)
    BY <1>2, <1>3
  <2>4. ReadBooks(e, h, e.inq) /\ Carries(e.inq, c.lba + h.moved, c.lba + (h.moved + Blocks(e.inq)))
    BY <1>2, <1>3, <1>8, <2>3
  <2>5. e.breq.current = Run(c.lba + (h.moved + Blocks(e.inq)), Len(e.breq.current))
    BY <1>11, <2>3
  <2>6. QED
    BY <1>9, <2>1, <2>2, <2>4, <2>5 DEF Reading
<1>13. Always(e, h) /\ Served(e, h)
  <2>1. m.breq # NoBlockRequest
    BY <1>1 DEF Active, Paged, NoBlockRequest, BlockRequest
  <2>2. Always(e, h)
    BY <1>1, <1>3, <2>1 DEF InRead, Always, Kept
  <2>3. Served(e, h)
    BY <1>3 DEF InRead, Served, Kept
  <2>4. QED
    BY <2>2, <2>3
<1>14. OneRequest(e, h)
  BY DEF OneRequest
<1>15. QED
  BY <1>12, <1>13, <1>14 DEF InRead

\* The last blocks are read: the status follows at once when there is no residue.
LEMMA ReadEnds ==
    ASSUME NEW m, NEW h, InRead(m, h), m.breq.st = "page", ~ (m.breq.remaining - m.breq.pos > 0),
           NEW g, ReadGaveBack(m, g),
           NEW e \in MscState, AllButRequest(g, e), e.breq.op = "read",
           NEW x, x = ReqDone(e), NEW f, f = [x EXCEPT !.breq = NoBlockRequest]
    PROVE  Inv(f, h)
<1> DEFINE c == h.cmd
           q == Append(m.inq, Data(m.breq.current))
<1>1. /\ m \in MscState /\ h \in HostState /\ c \in Command
      /\ Reading(m, h) /\ ReadBooks(m, h, m.inq) /\ Active(m, c)
  BY DEF InRead, Always, Served, Reading
<1>2. m.breq.current # << >>
  BY <1>1 DEF Active, Paged
<1>3. /\ q \in Seq(UsbRequest) /\ AllData(q) /\ q # << >>
      /\ InFlight(q) = InFlight(m.inq) + 1
      /\ Blocks(q) = Blocks(m.inq) + Len(m.breq.current)
      /\ h.moved + Blocks(q) = Taken(m, c)
      /\ Carries(q, c.lba + h.moved, c.lba + Taken(m, c))
  BY <1>2, MoreOnTheWay
<1>4. /\ Kept(m, e) /\ e.csw = m.csw /\ e.inq = q /\ e.outq = m.outq /\ e.halted = m.halted
      /\ e.queued = m.queued /\ e.free = m.free /\ e.usb_pending = m.usb_pending + 1
  BY DEF ReadGaveBack, AllButRequest, Kept, SameEnds
<1> HIDE DEF q
<1>5. x = (IF e.csw.residue = 0 THEN SubmitIn(e, Csw) ELSE e)
  BY DEF ReqDone, msc_request_done
<1>6. Csw \in UsbRequest
  BY DEF Csw, UsbRequest
<1>7. x \in MscState /\ Kept(e, x) /\ SameBooks(e, x) /\ x.csw = e.csw /\ x.outq = e.outq
      /\ x.halted = e.halted /\ x.inq = q \o StatusBehind(e)
  <2>1. CASE e.csw.residue = 0
    <3>1. x = SubmitIn(e, Csw)
      BY <1>5, <2>1
    <3>2. x \in MscState /\ Kept(e, x) /\ SameBooks(e, x) /\ QueuedIn(e, x, Csw)
      BY <1>6, <3>1, SubmitInDoes
    <3>3. Append(q, Csw) = q \o <<Csw>>
      BY <1>3, <1>6
    <3>4. x.inq = q \o StatusBehind(e)
      BY <1>4, <2>1, <3>2, <3>3 DEF QueuedIn, StatusBehind
    <3>5. QED
      BY <3>2, <3>4 DEF QueuedIn
  <2>2. CASE e.csw.residue # 0
    <3>1. x = e
      BY <1>5, <2>2
    <3>2. q \o << >> = q
      BY <1>3
    <3>3. x.inq = q \o StatusBehind(e)
      BY <1>4, <2>2, <3>1, <3>2 DEF StatusBehind
    <3>4. Kept(e, x) /\ SameBooks(e, x)
      BY <3>1 DEF Kept, SameBooks
    <3>5. QED
      BY <3>1, <3>3, <3>4
  <2>3. QED
    BY <2>1, <2>2
<1>8. f \in MscState /\ AllButRequest(x, f) /\ f.breq = NoBlockRequest
  BY <1>7, NoRequestDoes
<1>9. /\ Kept(m, f) /\ f.csw = m.csw /\ f.outq = m.outq /\ f.halted = m.halted
      /\ f.queued = m.queued /\ f.free = m.free /\ f.usb_pending = m.usb_pending + 1
      /\ f.inq = q \o StatusBehind(m)
  <2>1. StatusBehind(e) = StatusBehind(m)
    BY <1>4 DEF StatusBehind
  <2>2. QED
    BY <1>4, <1>7, <1>8, <2>1 DEF AllButRequest, Kept, SameBooks, SameEnds
<1>10. Taken(m, c) = c.count
  BY <1>1, AllTaken
<1> DEFINE b == Blocks(m.inq)  u == Len(m.breq.current)  l == Len(m.breq.list)
<1>11. /\ b \in Nat /\ u \in Nat /\ l \in Nat /\ InFlight(m.inq) \in Nat /\ m.free \in Nat
       /\ m.queued \in Nat
  BY <1>1, QueuesAndLists
<1>12. c.count \in Nat
  BY <1>1, CommandFields
<1>13. l = 0 /\ m.queued = c.count
  <2>1. c.count + l = m.queued /\ m.queued <= c.count
    BY <1>1, <1>10 DEF Reading, Active
  <2> HIDE DEF l
  <2>2. QED
    BY <1>11, <1>12, <2>1
<1>14. f.free + Blocks(q) + Len(f.breq.list) + Len(f.breq.current) = NrLargeObjs
  <2>1. PICK y \in Nat : y = m.free
    BY <1>11
  <2>2. y + b + l + u = NrLargeObjs
    BY <1>1, <2>1 DEF ReadBooks
  <2>3. f.free = y /\ Blocks(q) = b + u /\ Len(f.breq.list) = 0 /\ Len(f.breq.current) = 0
    BY <1>3, <1>8, <1>9, <2>1 DEF NoBlockRequest, BlockRequest
  <2> HIDE DEF b, u, l
  <2>4. y + (b + u) + 0 + 0 = NrLargeObjs
    BY <1>11, <1>13, <2>2, Constants
  <2>5. QED
    BY <2>3, <2>4
<1>15. f.usb_pending = InFlight(q)
  BY <1>1, <1>3, <1>9 DEF ReadBooks
<1>16. f.total = m.total /\ m.total = c.count
  BY <1>1, <1>9 DEF Kept, Active
<1>17. ReadBooks(f, h, q)
  BY <1>1, <1>3, <1>9, <1>14, <1>15, <1>16 DEF ReadBooks
<1>18. Draining(f, h)
  <2>1. f.queued = f.total
    BY <1>9, <1>13, <1>16
  <2>2. f.inq = q \o StatusBehind(f)
    BY <1>9 DEF StatusBehind
  <2>3. Carries(q, c.lba + h.moved, c.lba + c.count) /\ h.moved + Blocks(q) = c.count
    BY <1>3, <1>10
  <2>4. QED
    BY <1>3, <1>8, <1>17, <2>1, <2>2, <2>3 DEF Draining
<1>19. OneRequest(f, h)
  <2> SUFFICES ASSUME c.count < c.len
               PROVE  h.moved = 0 /\ f.queued = f.total /\ f.breq.st = "idle" /\ Len(f.inq) = 1
    BY DEF OneRequest
  <2>1. h.moved = 0 /\ m.inq = << >>
    <3>1. m.breq.st # "idle"
      BY <1>1 DEF Active, Paged
    <3>2. QED
      BY <3>1 DEF InRead, OneRequest
  <2>2. f.queued = f.total
    BY <1>9, <1>13, <1>16
  <2>3. f.breq.st = "idle"
    BY <1>8 DEF NoBlockRequest, BlockRequest
  <2>4. m.csw.residue # 0
    <3>1. c.len \in Nat /\ m.csw.residue = c.len - c.count
      BY <1>1, CommandFields DEF ReadBooks
    <3>2. QED
      BY <1>12, <3>1
  <2>5. f.inq = q
    <3>1. q \o << >> = q
      BY <1>3
    <3>2. QED
      BY <1>9, <2>4, <3>1 DEF StatusBehind
  <2>6. Len(q) = 1
    BY <2>1 DEF q
  <2>7. QED
    BY <2>1, <2>2, <2>3, <2>5, <2>6
<1>20. Always(f, h) /\ Served(f, h)
  <2>1. m.breq # NoBlockRequest
    BY <1>1 DEF Active, Paged, NoBlockRequest, BlockRequest
  <2>2. Always(f, h)
    BY <1>1, <1>8, <1>9, <2>1 DEF InRead, Always, Kept
  <2>3. Served(f, h)
    BY <1>9 DEF InRead, Served, Kept
  <2>4. QED
    BY <2>2, <2>3
<1>21. QED
  BY <1>18, <1>19, <1>20 DEF Inv, Serving

-----------------------------------------------------------------------------
(* What dataflash_transfer does, once it has given back what it had filled. *)

LEMMA RoomFits ==
    ASSUME NEW d \in MscState, NEW c \in Command, Active(d, c), d.breq.st = "transfer",
           d.breq.list # << >>, NEW k, k = Room(d.breq)
    PROVE  /\ k \in Nat /\ k >= 1 /\ k <= Len(d.breq.list) /\ d.breq.pos + k <= EndOf(d.breq)
           /\ k = Len(d.breq.list) \/ d.breq.pos + k = EndOf(d.breq)
<1>1. PICK p \in Nat : p = d.breq.pos
  BY PageHasRoom
<1>2. PICK n \in Nat : n = EndOf(d.breq) /\ p < n
  BY <1>1, PageHasRoom
<1>3. PICK l \in Nat : l = Len(d.breq.list) /\ l >= 1
  <2>1. d.breq.list \in Seq(Nat) /\ Len(d.breq.list) \in Nat
    BY QueuesAndLists
  <2>2. Len(d.breq.list) # 0
    BY <2>1, EmptySeq
  <2>3. QED
    BY <2>1, <2>2
<1>4. PICK r \in Nat : r = n - p /\ r >= 1
  BY <1>2
<1>5. k = Min({l, r})
  BY <1>1, <1>2, <1>3, <1>4 DEF Room
<1>6. k \in Nat /\ k <= l /\ k <= r /\ k \in {l, r}
  BY <1>5, LeastOfTwo
<1>7. k >= 1 /\ p + k <= n /\ (k = l \/ p + k = n)
  BY <1>2, <1>3, <1>4, <1>6
<1>8. QED
  BY <1>1, <1>2, <1>3, <1>6, <1>7

\* The buffers are in order, and what is taken and what is left fit together.
LEMMA BatchTaken ==
    ASSUME NEW d \in MscState, NEW c \in Command, Active(d, c), d.breq.st = "transfer",
           d.breq.list # << >>, NEW e, e = NextBuffers(d), d.queued <= c.count
    PROVE  /\ e \in MscState /\ AllButRequest(d, e)
           /\ Active(e, c) /\ Taken(e, c) = Taken(d, c) + Room(d.breq)
           /\ e.breq.list = SubSeq(d.breq.list, Room(d.breq) + 1, Len(d.breq.list))
           /\ Len(e.breq.list) = Len(d.breq.list) - Room(d.breq)
           /\ e.breq.current = Batch(d.breq) /\ Len(e.breq.current) = Room(d.breq)
           /\ e.breq.remaining = d.breq.remaining /\ e.breq.lba = d.breq.lba
           /\ e.breq.pos = d.breq.pos + Room(d.breq)
<1>1. PICK k \in Nat : /\ k = Room(d.breq) /\ k >= 1 /\ k <= Len(d.breq.list)
                       /\ d.breq.pos + k <= EndOf(d.breq)
  BY RoomFits
<1>2. PICK s \in Seq(Nat) : s = d.breq.list
  BY QueuesAndLists
<1>3. PICK p \in Nat : p = d.breq.pos + k
  BY <1>1, PageHasRoom
<1>4. PICK a \in Nat : a = d.breq.lba + d.breq.pos
  BY PageHasRoom
<1>5. PICK rest \in Seq(Nat) : rest = SubSeq(s, k + 1, Len(s)) /\ Len(rest) = Len(s) - k
  <2>1. PICK n \in Nat : n = Len(s)
    OBVIOUS
  <2>2. PICK j \in Nat : j = k + 1
    BY <1>1
  <2>3. j \in 1 .. Len(s) + 1 /\ n \in j - 1 .. Len(s)
    BY <1>1, <1>2, <2>1, <2>2
  <2>4. SubSeq(s, j, n) \in Seq(Nat) /\ Len(SubSeq(s, j, n)) = n - j + 1
    BY <2>3, SubSeqProperties
  <2>5. n - j + 1 = Len(s) - k
    BY <1>1, <2>1, <2>2
  <2>6. QED
    BY <2>1, <2>2, <2>4, <2>5
<1>6. PICK taken \in Seq(Nat) : taken = Batch(d.breq) /\ Len(taken) = k
  <2>1. SubSeq(s, 1, k) \in Seq(Nat) /\ Len(SubSeq(s, 1, k)) = k
    BY SMTT(60), <1>1, <1>2
  <2>2. Run(a, k) \in Seq(Nat) /\ Len(Run(a, k)) = k
    BY RunIsSequence
  <2>3. Batch(d.breq) = IF d.breq.op = "write" THEN SubSeq(s, 1, k) ELSE Run(a, k)
    BY <1>1, <1>2, <1>4 DEF Batch, Run
  <2>4. QED
    BY <2>1, <2>2, <2>3
<1>7. taken # << >>
  BY <1>1, <1>6
<1> DEFINE st == IF p = EndOf(d.breq) THEN "page" ELSE "transfer"
<1>8. e = BuffersTaken(d, rest, taken, p, st)
  BY <1>1, <1>2, <1>3, <1>5, <1>6 DEF NextBuffers, BuffersTaken
<1>9. st \in {"idle", "transfer", "sleep", "page"}
  OBVIOUS
<1>10. e \in MscState /\ AllButRequest(d, e) /\ Takes(d, e, rest, taken, p, st)
  <2> HIDE DEF st
  <2>1. QED
    BY <1>8, <1>9, BuffersTakenDoes
<1>11. Active(e, c) /\ Taken(e, c) = Taken(d, c) + k
  <2>1. SameCommand(d, e, c)
    BY <1>10 DEF SameCommand, AllButRequest, Kept
  <2>2. QED
    <3>1. MovesOn(d, k, p, st)
      BY <1>1, <1>3 DEF MovesOn
    <3> HIDE DEF st
    <3>2. Active(e, c) /\ TakenPlus(d, e, c, k)
      BY <1>7, <1>10, <2>1, <3>1, ActiveWhenTaking
    <3>3. QED
      BY <3>2 DEF TakenPlus
<1>12. /\ e.breq.list = rest /\ e.breq.current = taken /\ e.breq.pos = p
       /\ e.breq.remaining = d.breq.remaining /\ e.breq.lba = d.breq.lba
  BY <1>10 DEF Takes
<1>13. QED
  BY <1>1, <1>2, <1>3, <1>5, <1>6, <1>10, <1>11, <1>12

LEMMA NothingToTake ==
    ASSUME NEW d \in MscState, NEW c \in Command, Active(d, c), d.breq.st = "transfer",
           d.breq.list = << >>, d.breq.current = << >>, NEW e, e = NextBuffers(d),
           d.queued <= c.count
    PROVE  /\ e \in MscState /\ AllButRequest(d, e)
           /\ Active(e, c) /\ Taken(e, c) = Taken(d, c)
           /\ e.breq.list = << >> /\ e.breq.current = << >>
<1>1. e = [d EXCEPT !.breq.st = "sleep"]
  BY DEF NextBuffers
<1>2. /\ e \in MscState /\ AllButRequest(d, e) /\ SameBlockRequest(d, e)
      /\ e.breq.list = d.breq.list /\ e.breq.st = "sleep"
  BY <1>1, RequestStateDoes
<1>3. SameCommand(d, e, c)
  BY <1>2 DEF SameCommand, AllButRequest, Kept
<1>4. Active(e, c) /\ Taken(e, c) = Taken(d, c)
  BY <1>2, <1>3, ActiveWhenAsleep
<1>5. QED
  BY <1>2, <1>4 DEF SameBlockRequest

\* All of what a read that moves less than the host asks for is in one page.
LEMMA OneRequestIsOnePage ==
    ASSUME NEW m, NEW h, InRead(m, h), m.breq.st = "transfer", h.cmd.count < h.cmd.len
    PROVE  /\ h.moved = 0 /\ m.inq = << >> /\ m.breq.current = << >>
           /\ Len(m.breq.list) = h.cmd.count /\ h.cmd.count # 0
           /\ m.breq.pos = 0 /\ EndOf(m.breq) = h.cmd.count /\ m.breq.remaining = h.cmd.count
           /\ m.queued = m.total
<1> DEFINE c == h.cmd
<1>1. /\ m \in MscState /\ c \in Command /\ Reading(m, h) /\ Active(m, c)
  BY DEF InRead, Always, Served, Reading
<1>2. /\ h.moved = 0 /\ m.inq = << >> /\ m.breq.pos = 0 /\ EndOf(m.breq) = c.count
      /\ m.breq.remaining = c.count /\ m.queued = m.total
  BY DEF InRead, OneRequest
<1>3. PICK n \in Nat : n = c.count
  BY <1>1, CommandFields
<1>4. n # 0
  BY <1>1, <1>2, <1>3, PageHasRoom
<1>5. Taken(m, c) = 0
  <2>1. Taken(m, c) = n - n + 0
    BY <1>2, <1>3 DEF Taken
  <2>2. QED
    BY <2>1
<1>6. m.queued = n
  BY <1>1, <1>2, <1>3 DEF Active
<1>7. PICK l \in Nat : l = Len(m.breq.list)
  BY <1>1, QueuesAndLists
<1>8. PICK u \in Nat : u = Len(m.breq.current)
  BY <1>1, QueuesAndLists
<1>9. 0 + l = n
  BY <1>1, <1>5, <1>6, <1>7 DEF Reading
<1>10. u = 0
  <2>1. Blocks(m.inq) = 0
    BY <1>2, EmptyQueue
  <2>2. 0 + 0 + u = 0
    BY <1>1, <1>2, <1>5, <1>8, <2>1 DEF Reading
  <2>3. QED
    BY <2>2
<1>11. m.breq.current = << >>
  <2>1. m.breq.current \in Seq(Nat)
    BY <1>1, QueuesAndLists
  <2>2. QED
    BY <1>8, <1>10, <2>1, EmptySeq
<1>12. QED
  BY <1>2, <1>3, <1>4, <1>7, <1>9, <1>11

\* Buffers are taken from the list, or the request sleeps.
LEMMA ReadNext ==
    ASSUME NEW m, NEW h, InRead(m, h), m.breq.st = "transfer", m.breq.current = << >>,
           NEW e, e = NextBuffers(m)
    PROVE  InRead(e, h)
<1> DEFINE c == h.cmd
<1>1. /\ m \in MscState /\ h \in HostState /\ c \in Command
      /\ Reading(m, h) /\ ReadBooks(m, h, m.inq) /\ Active(m, c)
  BY DEF InRead, Always, Served, Reading
<1>2. /\ m.queued <= c.count /\ m.breq # NoBlockRequest /\ m.breq.op = "read"
  BY <1>1 DEF Active, Paged, NoBlockRequest, BlockRequest, ReadBooks
<1>3. ASSUME e \in MscState, AllButRequest(m, e), e.breq # NoBlockRequest
      PROVE  Always(e, h) /\ Served(e, h)
  <2>1. Always(e, h)
    BY <1>1, <1>2, <1>3 DEF InRead, Always, AllButRequest, Kept
  <2>2. Served(e, h)
    BY <1>3 DEF InRead, Served, AllButRequest, Kept
  <2>3. QED
    BY <2>1, <2>2
<1> DEFINE b == Blocks(m.inq)  l == Len(m.breq.list)  t == Taken(m, c)
<1>4. b \in Nat /\ l \in Nat /\ h.moved \in Nat /\ c.lba \in Nat /\ c.count \in Nat /\ t \in Nat /\ m.free \in Nat
  BY <1>1, QueuesAndLists, CommandFields, TakenSoFar DEF HostState
<1>5. Len(m.breq.current) = 0
  OBVIOUS
<1>6. /\ h.moved + b + 0 = t /\ t + l = m.queued /\ m.blk_pending = l + 0
      /\ m.free + b + l + 0 = NrLargeObjs
  BY <1>1, <1>5 DEF Reading, ReadBooks
<1>7. CASE m.breq.list = << >>
  <2>1. /\ e \in MscState /\ AllButRequest(m, e)
        /\ Active(e, c) /\ Taken(e, c) = Taken(m, c)
        /\ e.breq.list = << >> /\ e.breq.current = << >>
    BY <1>1, <1>2, <1>7, NothingToTake
  <2>2. ~ (c.count < c.len)
    <3> SUFFICES ASSUME c.count < c.len PROVE FALSE
      OBVIOUS
    <3>1. Len(m.breq.list) = c.count /\ c.count # 0
      BY OneRequestIsOnePage
    <3>2. QED
      BY <1>7, <3>1
  <2>3. e.breq # NoBlockRequest
    BY <2>1 DEF Active, Paged, NoBlockRequest, BlockRequest
  <2>4. e.inq = m.inq /\ e.breq.list = m.breq.list /\ e.breq.current = m.breq.current
    BY <1>7, <2>1 DEF AllButRequest, SameEnds
  <2>5. ReadBooks(e, h, e.inq)
    BY <1>1, <2>1, <2>4 DEF ReadBooks, AllButRequest, SameEnds, Kept
  <2>6. e.queued = m.queued /\ e.blk_pending = m.blk_pending
    BY <2>1 DEF AllButRequest
  <2>7. Reading(e, h)
    BY <1>1, <2>1, <2>4, <2>5, <2>6 DEF Reading
  <2>8. OneRequest(e, h)
    BY <2>2 DEF OneRequest
  <2>9. QED
    BY <1>3, <2>1, <2>3, <2>7, <2>8 DEF InRead
<1>8. CASE m.breq.list # << >>
  <2>1. PICK k \in Nat : /\ k = Room(m.breq) /\ k >= 1 /\ k <= Len(m.breq.list)
                         /\ m.breq.pos + k <= EndOf(m.breq)
                         /\ k = Len(m.breq.list) \/ m.breq.pos + k = EndOf(m.breq)
    BY <1>1, <1>8, RoomFits
  <2>2. /\ e \in MscState /\ AllButRequest(m, e)
        /\ Active(e, c) /\ Taken(e, c) = t + k
        /\ Len(e.breq.list) = l - k
        /\ e.breq.current = Batch(m.breq) /\ Len(e.breq.current) = k
        /\ e.breq.remaining = m.breq.remaining /\ e.breq.lba = m.breq.lba
        /\ e.breq.pos = m.breq.pos + k
    BY <1>1, <1>2, <1>8, <2>1, BatchTaken
  <2>3. /\ e.inq = m.inq /\ e.free = m.free /\ e.queued = m.queued /\ e.blk_pending = m.blk_pending
    BY <2>2 DEF AllButRequest, SameEnds
  <2>4. e.breq # NoBlockRequest
    BY <2>2 DEF Active, Paged, NoBlockRequest, BlockRequest
  <2>5. k <= l
    BY <2>1
  <2>6. e.breq.current = Run(c.lba + (h.moved + b), k)
    <3>1. PICK a \in Nat : a = m.breq.lba + m.breq.pos
      BY <1>1, PageHasRoom
    <3>2. Batch(m.breq) = Run(a, k)
      BY <1>2, <2>1, <3>1 DEF Batch, Run
    <3>3. a = c.lba + t
      BY <1>1, <3>1, PageHasRoom
    <3>4. h.moved + b = t
      BY <1>4, <1>6
    <3>5. QED
      BY <2>2, <3>2, <3>3, <3>4
  <2> HIDE DEF b, l, t
  <2>7. e.free + b + (l - k) + k = NrLargeObjs
    <3>1. PICK f \in Nat : f = m.free
      BY <1>4
    <3>2. f + b + l + 0 = NrLargeObjs
      BY <1>6, <3>1
    <3>3. f + b + (l - k) + k = NrLargeObjs
      BY <1>4, <2>5, <3>2, Constants
    <3>4. QED
      BY <2>3, <3>1, <3>3
  <2>8. e.free + Blocks(e.inq) + Len(e.breq.list) + Len(e.breq.current) = NrLargeObjs
    BY <2>2, <2>3, <2>7 DEF b
  <2>9. ReadBooks(e, h, e.inq)
    BY <1>1, <2>2, <2>3, <2>8 DEF ReadBooks, AllButRequest, SameEnds, Kept
  <2>10. e.blk_pending = Len(e.breq.list) + Len(e.breq.current)
    <3>1. l + 0 = (l - k) + k
      BY <1>4, <2>5
    <3>2. QED
      BY <1>6, <2>2, <2>3, <3>1
  <2>11. Taken(e, c) + Len(e.breq.list) = e.queued
    <3>1. t + l = (t + k) + (l - k)
      BY <1>4, <2>5
    <3>2. QED
      BY <1>6, <2>2, <2>3, <3>1
  <2>12. h.moved + Blocks(e.inq) + Len(e.breq.current) = Taken(e, c)
    <3>1. PICK w \in Nat : w = h.moved
      BY <1>4
    <3>2. w + b + k = t + k
      BY <1>4, <1>6, <3>1
    <3>3. QED
      BY <2>2, <2>3, <3>1, <3>2 DEF b
  <2>13. Carries(e.inq, c.lba + h.moved, c.lba + (h.moved + Blocks(e.inq)))
    BY <1>1, <2>3 DEF Reading
  <2>14. e.breq.current = Run(c.lba + (h.moved + Blocks(e.inq)), Len(e.breq.current))
    BY <2>2, <2>3, <2>6 DEF b
  <2>15. Reading(e, h)
    BY <2>2, <2>9, <2>10, <2>11, <2>12, <2>13, <2>14 DEF Reading
  <2>16. OneRequest(e, h)
    <3> SUFFICES ASSUME c.count < c.len
                 PROVE  /\ h.moved = 0 /\ e.queued = e.total /\ e.breq.st # "idle"
                        /\ e.breq.remaining = c.count /\ e.inq = << >> /\ EndOf(e.breq) = c.count
                        /\ e.breq.st = "page"
      BY DEF OneRequest
    <3>1. /\ h.moved = 0 /\ m.inq = << >> /\ Len(m.breq.list) = c.count
          /\ m.breq.pos = 0 /\ EndOf(m.breq) = c.count /\ m.breq.remaining = c.count
          /\ m.queued = m.total
      BY OneRequestIsOnePage
    <3>2. k = c.count /\ e.breq.pos = c.count
      BY <1>4, <2>1, <2>2, <3>1
    <3>3. EndOf(e.breq) = c.count
      BY <2>2, <3>1 DEF EndOf
    <3>4. e.breq.st = "page"
      BY <2>2, <3>2, <3>3 DEF Active, Paged
    <3>5. e.queued = e.total
      BY <2>2, <2>3, <3>1 DEF AllButRequest, Kept
    <3>6. QED
      BY <2>2, <2>3, <3>1, <3>3, <3>4, <3>5
  <2>17. QED
    BY <1>3, <2>2, <2>4, <2>15, <2>16 DEF InRead
<1>9. QED
  BY <1>7, <1>8

\* Nothing of the host changes but what the flash has stored.
LEMMA StoredDoes ==
    ASSUME NEW h \in HostState, NEW k, k = [h EXCEPT !.stored = @ \cup {}]
    PROVE  k = h
BY DEF HostState

LEMMA ReadTransferKeeps ==
    ASSUME MscInv, BdTransfer, InRead(msc, initiator)
    PROVE  MscInv'
<1> DEFINE h == initiator
           c == h.cmd
           d == GaveBack(msc)
<1>1. /\ msc \in MscState /\ h \in HostState /\ c \in Command
      /\ Reading(msc, h) /\ ReadBooks(msc, h, msc.inq) /\ Active(msc, c)
  BY DEF InRead, Always, Served, Reading
<1>2. /\ msc.breq.st = "transfer" /\ msc' = NextBuffers(d)
      /\ initiator' = [initiator EXCEPT !.stored = @ \cup Written(d.breq)]
  BY DEF BdTransfer
<1>3. msc.breq.op = "read"
  BY <1>1 DEF Active, ReadBooks
<1>4. InRead(d, h) /\ d.breq.st = "transfer" /\ d.breq.current = << >> /\ d.breq.op = "read"
  <2>1. CASE msc.breq.current = << >>
    BY <1>2, <1>3, <2>1 DEF GaveBack
  <2>2. CASE msc.breq.current # << >>
    <3> DEFINE g == BufListDone(msc, msc.breq.current)
    <3>1. ~ (c.count < c.len)
      BY <1>2, <2>2, OneRequestIsOnePage
    <3>2. Len(msc.breq.current) <= msc.blk_pending
      <4>1. PICK l \in Nat : l = Len(msc.breq.list)
        BY <1>1, QueuesAndLists
      <4>2. PICK u \in Nat : u = Len(msc.breq.current)
        BY <1>1, QueuesAndLists
      <4>3. msc.blk_pending = l + u
        BY <1>1, <4>1, <4>2 DEF Reading
      <4>4. QED
        BY <4>2, <4>3
    <3>3. g \in MscState /\ ReadGaveBack(msc, g)
      BY <1>1, <1>3, <3>2, ReadGivesBack
    <3>4. d = [g EXCEPT !.breq.current = << >>]
      BY <2>2 DEF GaveBack
    <3> HIDE DEF g, d
    <3>5. d \in MscState /\ AllButRequest(g, d) /\ Clears(g, d)
      BY <3>3, <3>4, ClearDoes
    <3>6. Clears(msc, d) /\ d.breq.list = g.breq.list /\ d.breq.current = << >>
      BY <3>3, <3>5 DEF Clears, ReadGaveBack
    <3>7. SameCommand(msc, d, c)
      BY <1>1, <3>3, <3>5 DEF SameCommand, AllButRequest, Kept, ReadGaveBack, Active
    <3>8. Active(d, c) /\ Taken(d, c) = Taken(msc, c)
      BY <1>1, <1>2, <3>6, <3>7, ActiveWhenCleared
    <3>9. InRead(d, h)
      BY <2>2, <3>1, <3>3, <3>5, <3>6, <3>8, ReadGoesOn
    <3>10. QED
      BY <1>2, <1>3, <3>6, <3>9 DEF Clears
  <2>3. QED
    BY <2>1, <2>2
<1> HIDE DEF d
<1>5. InRead(msc', h)
  BY <1>2, <1>4, ReadNext
<1>6. initiator' = h
  <2>1. Written(d.breq) = {}
    BY <1>4 DEF Written
  <2>2. QED
    BY <1>1, <1>2, <2>1, StoredDoes
<1>7. QED
  BY <1>5, <1>6 DEF InRead, Always, MscInv, Inv, Serving

-----------------------------------------------------------------------------
(* What dataflash_page_done does, once it has given back the page.         *)

\* There are more pages.
PageFollows(m, g, e, c) ==
    /\ e \in MscState /\ AllButRequest(g, e) /\ e.breq.list = g.breq.list
    /\ e.breq.current = << >> /\ Active(e, c) /\ Taken(e, c) = Taken(m, c)

\* This was the last one.
PagesDone(m, g, e, f) ==
    /\ ~ (m.breq.remaining - m.breq.pos > 0)
    /\ e \in MscState /\ AllButRequest(g, e) /\ e.breq.op = m.breq.op
    /\ f = [ReqDone(e) EXCEPT !.breq = NoBlockRequest]

LEMMA PageDoneDoes ==
    ASSUME msc \in MscState, BdPageDone, NEW c \in Command, Active(msc, c),
           NEW g \in MscState, g = BufListDone(msc, msc.breq.current),
           SameBlockRequest(msc, g), g.breq.st = msc.breq.st, SameCommand(msc, g, c)
    PROVE  /\ PageFollows(msc, g, msc', c) \/ \E e : PagesDone(msc, g, e, msc')
           /\ msc.breq.st = "page" /\ initiator' = initiator
<1>1. msc.breq.st = "page" /\ initiator' = initiator
  BY DEF BdPageDone
<1>2. /\ msc.breq.pos \in Nat /\ msc.breq.remaining \in Nat /\ msc.breq.lba \in Nat
      /\ msc.breq.pos <= msc.breq.remaining
  BY PageHasRoom
<1>3. PICK x \in Nat : x = msc.breq.remaining - msc.breq.pos
  BY <1>2
<1>4. PICK y \in Nat : y = msc.breq.lba + msc.breq.pos
  BY <1>2
<1> DEFINE e == PageTurned(g, x, y)
<1>5. msc' = IF e.breq.remaining > 0 THEN [e EXCEPT !.breq.st = "transfer"]
             ELSE [ReqDone(e) EXCEPT !.breq = NoBlockRequest]
  <2> DEFINE z == [g EXCEPT !.breq.current = << >>, !.breq.pos = 0,
                            !.breq.remaining = @ - msc.breq.pos, !.breq.lba = @ + msc.breq.pos]
  <2>1. msc' = IF z.breq.remaining > 0 THEN [z EXCEPT !.breq.st = "transfer"]
               ELSE [ReqDone(z) EXCEPT !.breq = NoBlockRequest]
    BY DEF BdPageDone
  <2>2. z = e
    BY <1>3, <1>4 DEF PageTurned, SameBlockRequest
  <2> HIDE DEF z, e
  <2>3. QED
    BY <2>1, <2>2
<1>6. e \in MscState /\ AllButRequest(g, e) /\ Turns(g, e, x, y)
  <2>1. e = PageTurned(g, x, y)
    OBVIOUS
  <2> HIDE DEF e
  <2>2. QED
    BY <2>1, TurnDoes
<1> HIDE DEF e
<1>7. CASE x > 0
  <2>1. msc' = [e EXCEPT !.breq.st = "transfer"]
    BY <1>5, <1>6, <1>7 DEF Turns
  <2>2. /\ msc' \in MscState /\ AllButRequest(e, msc') /\ SameBlockRequest(e, msc')
        /\ msc'.breq.list = e.breq.list /\ msc'.breq.st = "transfer"
    BY <1>6, <2>1, RequestStateDoes
  <2>3. AllButRequest(g, msc') /\ msc'.breq.list = g.breq.list /\ msc'.breq.current = << >>
    BY <1>6, <2>2 DEF AllButRequest, Kept, SameEnds, SameBlockRequest, Turns
  <2>4. /\ msc'.breq.op = msc.breq.op /\ msc'.breq.lba = y /\ msc'.breq.remaining = x
        /\ msc'.breq.pos = 0
    BY <1>6, <2>2 DEF SameBlockRequest, Turns
  <2>5. msc'.breq \in BlockReq
    BY <2>2 DEF MscState
  <2>6. SameCommand(msc, msc', c)
    BY <2>3 DEF SameCommand, AllButRequest, Kept
  <2>7. Active(msc', c) /\ Taken(msc', c) = Taken(msc, c)
    BY <1>1, <1>3, <1>4, <1>7, <2>2, <2>4, <2>5, <2>6, ActiveWhenTurned
  <2>8. QED
    BY <1>1, <2>2, <2>3, <2>7 DEF PageFollows
<1>8. CASE ~ (x > 0)
  <2>1. msc' = [ReqDone(e) EXCEPT !.breq = NoBlockRequest]
    BY <1>5, <1>6, <1>8 DEF Turns
  <2>2. e.breq.op = msc.breq.op
    BY <1>6 DEF Turns, SameBlockRequest
  <2>3. ~ (msc.breq.remaining - msc.breq.pos > 0)
    BY <1>3, <1>8
  <2>4. PagesDone(msc, g, e, msc')
    BY <1>6, <2>1, <2>2, <2>3 DEF PagesDone
  <2>5. QED
    BY <1>1, <2>4
<1>9. QED
  BY <1>7, <1>8

LEMMA ReadPageKeeps ==
    ASSUME MscInv, BdPageDone, InRead(msc, initiator)
    PROVE  MscInv'
<1> DEFINE h == initiator
           c == h.cmd
           g == BufListDone(msc, msc.breq.current)
<1>1. /\ msc \in MscState /\ h \in HostState /\ c \in Command
      /\ Reading(msc, h) /\ ReadBooks(msc, h, msc.inq) /\ Active(msc, c)
  BY DEF InRead, Always, Served, Reading
<1>2. msc.breq.op = "read" /\ msc.breq.st = "page" /\ msc.breq.current # << >>
  BY <1>1 DEF Active, ReadBooks, Paged, BdPageDone
<1>3. Len(msc.breq.current) <= msc.blk_pending
  <2>1. PICK l \in Nat : l = Len(msc.breq.list)
    BY <1>1, QueuesAndLists
  <2>2. PICK u \in Nat : u = Len(msc.breq.current)
    BY <1>1, QueuesAndLists
  <2>3. msc.blk_pending = l + u
    BY <1>1, <2>1, <2>2 DEF Reading
  <2>4. QED
    BY <2>2, <2>3
<1>4. g \in MscState /\ ReadGaveBack(msc, g)
  BY <1>1, <1>2, <1>3, ReadGivesBack
<1>5. g = BufListDone(msc, msc.breq.current)
  OBVIOUS
<1> HIDE DEF g
<1>6. SameBlockRequest(msc, g) /\ g.breq.st = msc.breq.st /\ SameCommand(msc, g, c)
  BY <1>1, <1>4 DEF ReadGaveBack, SameBlockRequest, SameCommand, Kept, Active
<1>7. /\ PageFollows(msc, g, msc', c) \/ \E e : PagesDone(msc, g, e, msc')
      /\ initiator' = h
  BY <1>1, <1>4, <1>5, <1>6, PageDoneDoes
<1>8. CASE PageFollows(msc, g, msc', c)
  <2>1. /\ msc' \in MscState /\ AllButRequest(g, msc') /\ msc'.breq.list = g.breq.list
        /\ msc'.breq.current = << >> /\ Active(msc', c) /\ Taken(msc', c) = Taken(msc, c)
    BY <1>8 DEF PageFollows
  <2>2. ~ (c.count < c.len)
    <3> SUFFICES ASSUME c.count < c.len PROVE FALSE
      OBVIOUS
    <3>1. EndOf(msc.breq) = c.count /\ msc.breq.remaining = c.count
      BY <1>2 DEF InRead, OneRequest
    <3>2. msc.breq.pos = EndOf(msc.breq)
      BY <1>1, <1>2 DEF Active, Paged
    <3>3. ~ (msc.breq.remaining - msc.breq.pos > 0)
      <4>1. PICK n \in Nat : n = c.count
        BY <1>1, CommandFields
      <4>2. ~ (n - n > 0)
        OBVIOUS
      <4>3. QED
        BY <3>1, <3>2, <4>1, <4>2
    <3>4. Taken(msc', c) = c.count
      BY <1>1, <2>1, <3>3, AllTaken
    <3>5. msc'.breq.st # "page"
      BY <2>1 DEF Active, Paged
    <3>6. Taken(msc', c) < c.count
      BY <1>1, <2>1, <3>5, TakenSoFar
    <3>7. QED
      BY <1>1, <3>4, <3>6, CommandFields
  <2>3. InRead(msc', h)
    BY <1>2, <1>4, <2>1, <2>2, ReadGoesOn
  <2>4. QED
    BY <1>7, <2>3 DEF InRead, Always, MscInv, Inv, Serving
<1>9. CASE \E e : PagesDone(msc, g, e, msc')
  <2>1. PICK e : PagesDone(msc, g, e, msc')
    BY <1>9
  <2>2. /\ ~ (msc.breq.remaining - msc.breq.pos > 0)
        /\ e \in MscState /\ AllButRequest(g, e) /\ e.breq.op = "read"
        /\ msc' = [ReqDone(e) EXCEPT !.breq = NoBlockRequest]
    BY <1>2, <2>1 DEF PagesDone
  <2>3. Inv(msc', h)
    BY <1>2, <1>4, <2>2, ReadEnds
  <2>4. QED
    BY <1>7, <2>3 DEF MscInv
<1>10. QED
  BY <1>7, <1>8, <1>9

-----------------------------------------------------------------------------
(* The dataflash writes.                                                   *)

\* The books of the requests that wait for data.
OutBooks(m) == AllData(m.outq) /\ m.usb_pending = InFlight(m.outq) /\ m.queued <= m.total

\* Buffers have gone from the pool to the OUT endpoint.
WorkedOn(m, e) ==
    /\ Kept(m, e) /\ e.inq = m.inq /\ e.halted = m.halted /\ e.csw = m.csw /\ e.breq = m.breq
    /\ e.free + Blocks(e.outq) = m.free + Blocks(m.outq)
    /\ e.queued + Blocks(m.outq) = m.queued + Blocks(e.outq)

LEMMA WriteRoundDoes ==
    ASSUME NEW m \in MscState, OutBooks(m), NEW e, e = WriteWorkerRound(m)
    PROVE  e \in MscState /\ OutBooks(e) /\ WorkedOn(m, e)
<1>1. CASE e = m
  BY <1>1 DEF WorkedOn, Kept
<1>2. CASE e = msc_submit_write_data_req(m)
  <2>1. m.queued <= m.total
    BY DEF OutBooks
  <2>2. e \in MscState
    BY <1>2, <2>1, WriteRequestDoes
  <2>3. PICK k \in Nat : Fills(m, m.total - m.queued, k) /\ IF k = 0 THEN e = m ELSE TakesToWrite(m, e, k)
    BY <1>2, <2>1, WriteRequestDoes
  <2>4. CASE k = 0
    BY <1>1, <2>3, <2>4
  <2>5. CASE k # 0
    <3>1. /\ TakesToWrite(m, e, k) /\ k <= m.total - m.queued /\ k <= m.free
          /\ k <= MSC_MAX_NR_BUFFERS
      BY <2>3, <2>5 DEF Fills
    <3>2. /\ Kept(m, e) /\ e.breq = m.breq /\ e.csw = m.csw
          /\ e.inq = m.inq /\ e.outq = Append(m.outq, Data(Empties(k))) /\ e.halted = m.halted
          /\ e.queued = m.queued + k /\ e.free = m.free - k /\ e.usb_pending = m.usb_pending + 1
      BY <3>1 DEF TakesToWrite
    <3>3. k \in 1 .. NrLargeObjs
      BY <2>5, <3>1, Constants
    <3>4. Empties(k) \in Seq(Nat) /\ Len(Empties(k)) = k
      BY EmptiesAreBlocks
    <3>5. m.outq \in Seq(UsbRequest) /\ AllData(m.outq)
      BY QueuesAndLists DEF OutBooks
    <3> DEFINE o == Append(m.outq, Data(Empties(k)))
    <3>6. /\ AllData(o) /\ InFlight(o) = InFlight(m.outq) + 1 /\ Blocks(o) = Blocks(m.outq) + k
      <4>1. Len(Empties(k)) \in 1 .. NrLargeObjs
        BY <3>3, <3>4
      <4>2. /\ AllData(o) /\ InFlight(o) = InFlight(m.outq) + 1
            /\ Blocks(o) = Blocks(m.outq) + Len(Empties(k))
        BY <3>4, <3>5, <4>1, OneMoreData
      <4>3. QED
        BY <3>4, <4>2
    <3> HIDE DEF o
    <3>7. PICK b \in Nat : b = Blocks(m.outq)
      BY QueuesAndLists
    <3>8. PICK n \in Nat : n = m.queued
      BY QueuesAndLists
    <3>9. PICK f \in Nat : f = m.free
      BY QueuesAndLists
    <3>10. PICK u \in Nat : u = m.total
      BY QueuesAndLists
    <3>11. e.outq = o /\ Blocks(o) = b + k
      BY <3>2, <3>6, <3>7 DEF o
    <3>12. n <= u /\ k <= u - n
      BY <2>1, <3>1, <3>8, <3>10
    <3>13. n + k <= u
      BY <3>12
    <3>14. OutBooks(e)
      <4>1. e.queued <= e.total
        BY <3>2, <3>8, <3>10, <3>13 DEF Kept
      <4>2. e.usb_pending = InFlight(e.outq)
        BY <3>2, <3>6, <3>11 DEF OutBooks
      <4>3. QED
        BY <3>6, <3>11, <4>1, <4>2 DEF OutBooks
    <3>15. (f - k) + (b + k) = f + b /\ (n + k) + b = n + (b + k)
      OBVIOUS
    <3>16. WorkedOn(m, e)
      BY <3>2, <3>7, <3>8, <3>9, <3>11, <3>15 DEF WorkedOn
    <3>17. QED
      BY <2>2, <3>14, <3>16
  <2>6. QED
    BY <2>4, <2>5
<1>3. QED
  BY <1>1, <1>2 DEF WriteWorkerRound

LEMMA WriteWorkerDoes ==
    ASSUME NEW m \in MscState, OutBooks(m), NEW e, e = msc_write_worker(m)
    PROVE  e \in MscState /\ OutBooks(e) /\ WorkedOn(m, e)
<1> DEFINE d == WriteWorkerRound(m)
<1>1. d \in MscState /\ OutBooks(d) /\ WorkedOn(m, d)
  BY WriteRoundDoes
<1>2. e = WriteWorkerRound(d)
  BY DEF msc_write_worker
<1> HIDE DEF d
<1>3. e \in MscState /\ OutBooks(e) /\ WorkedOn(d, e)
  BY <1>1, <1>2, WriteRoundDoes
<1>4. e.free + Blocks(e.outq) = m.free + Blocks(m.outq)
  BY <1>1, <1>3 DEF WorkedOn
<1>5. e.queued + Blocks(m.outq) = m.queued + Blocks(e.outq)
  <2>1. PICK a \in Nat : a = Blocks(m.outq)
    BY QueuesAndLists
  <2>2. PICK b \in Nat : b = Blocks(d.outq)
    BY <1>1, QueuesAndLists
  <2>3. PICK c \in Nat : c = Blocks(e.outq)
    BY <1>3, QueuesAndLists
  <2>4. PICK x \in Nat : x = m.queued
    BY QueuesAndLists
  <2>5. PICK y \in Nat : y = d.queued
    BY <1>1, QueuesAndLists
  <2>6. PICK z \in Nat : z = e.queued
    BY <1>3, QueuesAndLists
  <2>7. y + a = x + b /\ z + b = y + c
    BY <1>1, <1>3, <2>1, <2>2, <2>3, <2>4, <2>5, <2>6 DEF WorkedOn
  <2>8. z + a = x + c
    BY <2>7
  <2>9. QED
    BY <2>1, <2>3, <2>4, <2>6, <2>8
<1>6. /\ Kept(m, e) /\ e.inq = m.inq /\ e.halted = m.halted /\ e.csw = m.csw /\ e.breq = m.breq
  BY <1>1, <1>3 DEF WorkedOn, Kept
<1>7. QED
  BY <1>3, <1>4, <1>5, <1>6 DEF WorkedOn

\* Buffers that were written are in the pool, or wait for data again.
WroteBack(m, g) ==
    /\ Kept(m, g) /\ g.inq = m.inq /\ g.halted = m.halted /\ g.csw = m.csw /\ g.breq = m.breq
    /\ g.free + Blocks(g.outq) = m.free + Len(m.breq.current) + Blocks(m.outq)
    /\ g.queued + Blocks(m.outq) = m.queued + Blocks(g.outq)

LEMMA WriteGivesBack ==
    ASSUME NEW m \in MscState, m.breq.op = "write", OutBooks(m),
           NEW g, g = BufListDone(m, m.breq.current)
    PROVE  g \in MscState /\ OutBooks(g) /\ WroteBack(m, g)
<1>1. PICK x \in Nat : x = m.free + Len(m.breq.current)
  BY QueuesAndLists
<1> DEFINE f == [m EXCEPT !.free = x]
<1>2. g = msc_write_worker(f)
  BY <1>1 DEF BufListDone, msc_block_write_buffers_done
<1>3. f \in MscState
  BY DEF MscState
<1>4. /\ Kept(m, f) /\ f.inq = m.inq /\ f.outq = m.outq /\ f.halted = m.halted /\ f.csw = m.csw
      /\ f.breq = m.breq /\ f.queued = m.queued /\ f.usb_pending = m.usb_pending /\ f.free = x
  BY DEF MscState, Kept
<1> HIDE DEF f
<1>5. OutBooks(f)
  BY <1>4 DEF OutBooks, Kept
<1>6. g \in MscState /\ OutBooks(g) /\ WorkedOn(f, g)
  BY <1>2, <1>3, <1>5, WriteWorkerDoes
<1>7. /\ Kept(m, g) /\ g.inq = m.inq /\ g.halted = m.halted /\ g.csw = m.csw /\ g.breq = m.breq
      /\ g.free + Blocks(g.outq) = x + Blocks(m.outq)
      /\ g.queued + Blocks(m.outq) = m.queued + Blocks(g.outq)
  BY <1>4, <1>6 DEF WorkedOn, Kept
<1>8. QED
  BY <1>1, <1>6, <1>7 DEF WroteBack

\* A write in progress, of a command that is served.
InWrite(m, h) == Always(m, h) /\ Served(m, h) /\ Writing(m, h)

LEMMA WriteGoesOn ==
    ASSUME NEW m, NEW h, InWrite(m, h), NEW g \in MscState, OutBooks(g), WroteBack(m, g),
           NEW e \in MscState, AllButRequest(g, e), e.breq.list = g.breq.list,
           e.breq.current = << >>, Active(e, h.cmd), Taken(e, h.cmd) = Taken(m, h.cmd)
    PROVE  InWrite(e, h)
<1> DEFINE c == h.cmd
<1>1. m \in MscState /\ h \in HostState /\ c \in Command /\ Writing(m, h)
  BY DEF InWrite, Always, Served
<1>2. /\ h.moved \in Nat /\ Active(m, c) /\ m.breq # NoBlockRequest
  BY <1>1, WritingFields
<1>3. /\ Kept(m, e) /\ e.csw = m.csw /\ e.inq = m.inq /\ e.outq = g.outq /\ e.halted = m.halted
      /\ e.queued = g.queued /\ e.free = g.free /\ e.usb_pending = g.usb_pending
      /\ e.breq.list = m.breq.list
  BY DEF WroteBack, AllButRequest, Kept, SameEnds
<1> DEFINE b == Blocks(m.outq)  o == Blocks(g.outq)
           u == Len(m.breq.current)  l == Len(m.breq.list)
<1>4. /\ b \in Nat /\ o \in Nat /\ u \in Nat /\ l \in Nat
  BY <1>1, QueuesAndLists
<1>5. Len(e.breq.current) = 0
  OBVIOUS
<1>6. e.free + Blocks(e.outq) + Len(e.breq.list) + Len(e.breq.current) = NrLargeObjs
  <2>1. PICK f \in Nat : f = m.free
    BY <1>1, QueuesAndLists
  <2>2. PICK x \in Nat : x = g.free
    BY QueuesAndLists
  <2>3. f + b + l + u = NrLargeObjs
    BY <1>1, <2>1 DEF Writing
  <2>4. x + o = f + u + b
    BY <2>1, <2>2 DEF WroteBack
  <2>5. e.free = x /\ Blocks(e.outq) = o /\ Len(e.breq.list) = l
    BY <1>3, <2>2
  <2> HIDE DEF b, o, u, l
  <2>6. x + o + l + 0 = NrLargeObjs
    BY <1>4, <2>3, <2>4, Constants
  <2>7. QED
    BY <1>5, <2>5, <2>6
<1>7. h.moved + Blocks(e.outq) = e.queued
  <2>1. PICK x \in Nat : x = m.queued
    BY <1>1, QueuesAndLists
  <2>2. PICK y \in Nat : y = g.queued
    BY QueuesAndLists
  <2>3. PICK w \in Nat : w = h.moved
    BY <1>2
  <2>4. w + b = x /\ y + b = x + o
    BY <1>1, <2>1, <2>2, <2>3 DEF Writing, WroteBack
  <2>5. e.queued = y /\ Blocks(e.outq) = o
    BY <1>3, <2>2
  <2> HIDE DEF b, o
  <2>6. w + o = y
    BY <1>4, <2>4
  <2>7. QED
    BY <2>3, <2>5, <2>6
<1>8. AllData(e.outq) /\ e.usb_pending = InFlight(e.outq)
  BY <1>3 DEF OutBooks
<1>9. Writing(e, h)
  BY <1>1, <1>3, <1>6, <1>7, <1>8 DEF Writing
<1>10. Always(e, h)
  BY <1>1, <1>2, <1>3 DEF InWrite, Always, Kept
<1>11. Served(e, h)
  BY <1>3 DEF InWrite, Served, Kept
<1>12. QED
  BY <1>9, <1>10, <1>11 DEF InWrite

\* Blocks are stored behind those that already are.
LEMMA StoredMore ==
    ASSUME NEW a \in Nat, NEW t \in Nat, NEW k \in Nat
    PROVE  {<<a + i - 1, i>> : i \in 1 .. t}
             \cup {<<(a + t) + i - 1, (t + 1) + i - 1>> : i \in 1 .. k}
           = {<<a + i - 1, i>> : i \in 1 .. t + k}
<1> DEFINE S == {<<a + i - 1, i>> : i \in 1 .. t}
           T == {<<(a + t) + i - 1, (t + 1) + i - 1>> : i \in 1 .. k}
           U == {<<a + i - 1, i>> : i \in 1 .. t + k}
<1>1. ASSUME NEW x \in S PROVE x \in U
  <2>1. PICK i \in 1 .. t : x = <<a + i - 1, i>>
    BY <1>1
  <2>2. i \in 1 .. t + k
    BY <2>1
  <2>3. QED
    BY <2>1, <2>2
<1>2. ASSUME NEW x \in T PROVE x \in U
  <2>1. PICK i \in 1 .. k : x = <<(a + t) + i - 1, (t + 1) + i - 1>>
    BY <1>2
  <2>2. PICK j \in 1 .. t + k : j = t + i
    BY <2>1
  <2>3. (a + t) + i - 1 = a + j - 1 /\ (t + 1) + i - 1 = j
    BY <2>1, <2>2
  <2>4. QED
    BY <2>1, <2>2, <2>3
<1>3. ASSUME NEW x \in U PROVE x \in S \cup T
  <2>1. PICK i \in 1 .. t + k : x = <<a + i - 1, i>>
    BY <1>3
  <2>2. CASE i <= t
    <3>1. i \in 1 .. t
      BY <2>1, <2>2
    <3>2. QED
      BY <2>1, <3>1
  <2>3. CASE i > t
    <3>1. PICK j \in 1 .. k : i = t + j
      <4>1. i - t \in 1 .. k /\ i = t + (i - t)
        BY <2>1, <2>3
      <4>2. QED
        BY <4>1
    <3>2. (a + t) + j - 1 = a + i - 1 /\ (t + 1) + j - 1 = i
      BY <3>1
    <3>3. x = <<(a + t) + j - 1, (t + 1) + j - 1>>
      BY <2>1, <3>2
    <3>4. QED
      BY <3>3
  <2>4. QED
    BY <2>1, <2>2, <2>3
<1>4. S \cup T \subseteq U
  <2> HIDE DEF S, T, U
  <2>1. QED
    BY <1>1, <1>2
<1>5. U \subseteq S \cup T
  <2> HIDE DEF S, T, U
  <2>1. QED
    BY <1>3
<1>6. QED
  BY <1>4, <1>5

LEMMA StoredIsSet ==
    ASSUME NEW a \in Nat, NEW t \in Nat
    PROVE  {<<a + i - 1, i>> : i \in 1 .. t} \in SUBSET (Nat \X Nat)
<1>1. ASSUME NEW i \in 1 .. t PROVE <<a + i - 1, i>> \in Nat \X Nat
  <2>1. a + i - 1 \in Nat /\ i \in Nat
    OBVIOUS
  <2>2. QED
    BY <2>1
<1>2. QED
  BY <1>1

\* Only what the flash has stored changes.
StoresOnly(h, k, s) ==
    /\ k.phase = h.phase /\ k.cmd = h.cmd /\ k.tag = h.tag /\ k.moved = h.moved
    /\ k.got = h.got /\ k.stored = s

LEMMA StoreDoes ==
    ASSUME NEW h \in HostState, NEW s \in SUBSET (Nat \X Nat), NEW k, k = [h EXCEPT !.stored = s]
    PROVE  k \in HostState /\ StoresOnly(h, k, s)
<1>1. k \in HostState
  BY DEF HostState
<1>2. StoresOnly(h, k, s)
  BY DEF HostState, StoresOnly
<1>3. QED
  BY <1>1, <1>2

\* Full buffers are taken from the list, or the request sleeps.
LEMMA WriteNext ==
    ASSUME NEW m, NEW h, InWrite(m, h), m.breq.st = "transfer", m.breq.current = << >>,
           NEW e, e = NextBuffers(m), NEW k, k = [h EXCEPT !.stored = @ \cup Written(m.breq)]
    PROVE  InWrite(e, k)
<1> DEFINE c == h.cmd
           t == Taken(m, c)
<1>1. m \in MscState /\ h \in HostState /\ c \in Command /\ Writing(m, h)
  BY DEF InWrite, Always, Served
<1>2. /\ c.len \in Nat /\ c.count \in Nat /\ c.lba \in Nat /\ h.moved \in Nat
      /\ m.queued <= c.count /\ t \in Nat /\ Active(m, c) /\ m.breq # NoBlockRequest
  BY <1>1, WritingFields
<1>3. m.breq.op = "write"
  BY <1>1, <1>2 DEF Active, Writing
<1>4. Len(m.breq.current) = 0
  OBVIOUS
<1>5. CASE m.breq.list = << >>
  <2>1. /\ e \in MscState /\ AllButRequest(m, e)
        /\ Active(e, c) /\ Taken(e, c) = Taken(m, c)
        /\ e.breq.list = << >> /\ e.breq.current = << >>
    BY <1>1, <1>2, <1>5, NothingToTake
  <2>2. Written(m.breq) = {}
    <3>1. PICK p \in Nat : p = m.breq.pos
      BY <1>1, <1>2, PageHasRoom
    <3>2. PICK n \in Nat : n = EndOf(m.breq) /\ p <= n
      BY <1>1, <1>2, <3>1, PageHasRoom
    <3>3. PICK r \in Nat : r = n - p
      BY <3>2
    <3>4. Len(m.breq.list) = 0
      BY <1>5
    <3>5. Room(m.breq) = Min({0, r})
      BY <3>1, <3>2, <3>3, <3>4 DEF Room
    <3>6. Min({0, r}) \in Nat /\ Min({0, r}) <= 0
      BY LeastOfTwo
    <3>7. Room(m.breq) = 0
      BY <3>5, <3>6
    <3>8. 1 .. Room(m.breq) = {}
      BY <3>7
    <3>9. QED
      BY <1>3, <3>8 DEF Written
  <2>3. k = h
    BY <1>1, <2>2, StoredDoes
  <2>4. /\ e.inq = m.inq /\ e.outq = m.outq /\ e.halted = m.halted /\ e.csw = m.csw
        /\ e.breq.list = m.breq.list /\ e.breq.current = m.breq.current
        /\ e.queued = m.queued /\ e.usb_pending = m.usb_pending /\ e.free = m.free
    BY <1>5, <2>1 DEF AllButRequest, SameEnds
  <2>5. Writing(e, h)
    BY <1>1, <2>1, <2>4 DEF Writing
  <2>6. Always(e, h)
    BY <1>1, <1>2, <2>1 DEF InWrite, Always, AllButRequest, Kept
  <2>7. Served(e, h)
    BY <2>1 DEF InWrite, Served, AllButRequest, Kept, SameEnds
  <2>8. QED
    BY <2>3, <2>5, <2>6, <2>7 DEF InWrite
<1>6. CASE m.breq.list # << >>
  <2>1. PICK n \in Nat : /\ n = Room(m.breq) /\ n >= 1 /\ n <= Len(m.breq.list)
    BY <1>1, <1>2, <1>6, RoomFits
  <2>2. /\ e \in MscState /\ AllButRequest(m, e)
        /\ Active(e, c) /\ Taken(e, c) = t + n
        /\ e.breq.list = SubSeq(m.breq.list, n + 1, Len(m.breq.list))
        /\ Len(e.breq.list) = Len(m.breq.list) - n
        /\ Len(e.breq.current) = n
    BY <1>1, <1>2, <1>6, <2>1, BatchTaken
  <2>3. /\ e.inq = m.inq /\ e.outq = m.outq /\ e.halted = m.halted /\ e.csw = m.csw
        /\ e.queued = m.queued /\ e.usb_pending = m.usb_pending /\ e.free = m.free
    BY <2>2 DEF AllButRequest, SameEnds
  <2>4. PICK x \in Nat : x = t
    BY <1>2
  <2>5. PICK l \in Nat : l = Len(m.breq.list)
    BY <1>1, QueuesAndLists
  <2>6. PICK v \in Nat : v = x + 1
    OBVIOUS
  <2>7. m.breq.list = Run(v, l)
    BY <1>1, <2>4, <2>5, <2>6 DEF Writing
  <2>8. e.breq.list = Run(v + n, l - n)
    <3>1. n \in 0 .. l
      BY <2>1, <2>5
    <3>2. SubSeq(Run(v, l), n + 1, Len(Run(v, l))) = Run(v + n, l - n)
      BY <3>1, RunCut
    <3>3. QED
      BY <2>2, <2>7, <3>2
  <2>9. PICK a \in Nat : a = c.lba
    BY <1>2
  <2>10. h.stored \cup Written(m.breq) = {<<a + i - 1, i>> : i \in 1 .. x + n}
    <3>1. h.stored = {<<a + i - 1, i>> : i \in 1 .. x}
      BY <1>1, <2>4, <2>9 DEF Writing
    <3>2. Written(m.breq) = {<<m.breq.lba + m.breq.pos + i - 1, m.breq.list[i]>> : i \in 1 .. n}
      BY <1>3, <2>1 DEF Written
    <3>3. m.breq.lba + m.breq.pos = a + x
      BY <1>1, <1>2, <2>4, <2>9, PageHasRoom
    <3>4. ASSUME NEW i \in 1 .. n
          PROVE  m.breq.list[i] = (x + 1) + i - 1
      <4>1. i \in 1 .. l
        BY <2>1, <2>5
      <4>2. Run(v, l)[i] = v + i - 1
        BY <4>1, RunIsSequence
      <4>3. QED
        BY <2>6, <2>7, <4>2
    <3>5. Written(m.breq) = {<<(a + x) + i - 1, (x + 1) + i - 1>> : i \in 1 .. n}
      BY <3>2, <3>3, <3>4
    <3>6. {<<a + i - 1, i>> : i \in 1 .. x}
             \cup {<<(a + x) + i - 1, (x + 1) + i - 1>> : i \in 1 .. n}
           = {<<a + i - 1, i>> : i \in 1 .. x + n}
      BY StoredMore
    <3>7. QED
      BY <3>1, <3>5, <3>6
  <2> DEFINE s == {<<a + i - 1, i>> : i \in 1 .. x + n}
  <2>11. s \in SUBSET (Nat \X Nat)
    <3>1. PICK y \in Nat : y = x + n
      OBVIOUS
    <3>2. {<<a + i - 1, i>> : i \in 1 .. y} \in SUBSET (Nat \X Nat)
      BY StoredIsSet
    <3>3. QED
      BY <3>1, <3>2
  <2>12. k = [h EXCEPT !.stored = s]
    BY <2>10
  <2>13. s = {<<c.lba + i - 1, i>> : i \in 1 .. Taken(e, c)}
    BY <2>2, <2>4, <2>9
  <2> HIDE DEF s
  <2>14. k \in HostState /\ StoresOnly(h, k, s)
    BY <1>1, <2>11, <2>12, StoreDoes
  <2>15. /\ k.phase = h.phase /\ k.cmd = c /\ k.tag = h.tag /\ k.moved = h.moved /\ k.stored = s
    BY <2>14 DEF StoresOnly
  <2>16. e.free + Blocks(e.outq) + Len(e.breq.list) + Len(e.breq.current) = NrLargeObjs
    <3>1. PICK f \in Nat : f = m.free
      BY <1>1, QueuesAndLists
    <3>2. PICK b \in Nat : b = Blocks(m.outq)
      BY <1>1, QueuesAndLists
    <3>3. f + b + l + 0 = NrLargeObjs
      BY <1>1, <1>4, <2>5, <3>1, <3>2 DEF Writing
    <3>4. n <= l
      BY <2>1, <2>5
    <3>5. f + b + (l - n) + n = NrLargeObjs
      BY <3>3, <3>4, Constants
    <3>6. QED
      BY <2>2, <2>3, <2>5, <3>1, <3>2, <3>5
  <2>17. Taken(e, c) + Len(e.breq.list) = k.moved
    <3>1. x + l = h.moved
      BY <1>1, <2>4, <2>5 DEF Writing
    <3>2. (x + n) + (l - n) = x + l
      OBVIOUS
    <3>3. QED
      BY <2>2, <2>4, <2>5, <2>15, <3>1, <3>2
  <2>18. e.breq.list = Run(Taken(e, c) + 1, Len(e.breq.list))
    <3>1. v + n = (x + n) + 1
      BY <2>6
    <3>2. QED
      BY <2>2, <2>4, <2>5, <2>8, <3>1
  <2>19. Writing(e, k)
    <3>1. k.phase = (IF k.moved = c.len THEN "status" ELSE "data")
      BY <1>1, <2>15 DEF Writing
    <3>2. k.moved + Blocks(e.outq) = e.queued
      BY <1>1, <2>3, <2>15 DEF Writing
    <3>3. k.stored = {<<c.lba + i - 1, i>> : i \in 1 .. Taken(e, c)}
      BY <2>13, <2>15
    <3>4. /\ c.op = "write" /\ ~ c.in /\ c.count <= c.len
          /\ e.halted = {} /\ e.inq = << >> /\ AllData(e.outq) /\ Active(e, c)
          /\ e.usb_pending = InFlight(e.outq) /\ e.csw.residue = c.len - c.count
          /\ e.csw.status = "pass"
      BY <1>1, <2>2, <2>3 DEF Writing
    <3>5. QED
      BY <2>15, <2>16, <2>17, <2>18, <3>1, <3>2, <3>3, <3>4 DEF Writing
  <2>20. Always(e, k)
    BY <1>1, <1>2, <2>2, <2>14 DEF InWrite, Always, AllButRequest, Kept
  <2>21. Served(e, k)
    BY <2>2, <2>15 DEF InWrite, Served, AllButRequest, Kept, SameEnds
  <2>22. QED
    BY <2>19, <2>20, <2>21 DEF InWrite
<1>7. QED
  BY <1>5, <1>6

LEMMA WriteTransferKeeps ==
    ASSUME MscInv, BdTransfer, InWrite(msc, initiator)
    PROVE  MscInv'
<1> DEFINE h == initiator
           c == h.cmd
           d == GaveBack(msc)
<1>1. /\ msc \in MscState /\ h \in HostState /\ c \in Command /\ Writing(msc, h)
  BY DEF InWrite, Always, Served
<1>2. /\ msc.breq.st = "transfer" /\ msc' = NextBuffers(d)
      /\ initiator' = [h EXCEPT !.stored = @ \cup Written(d.breq)]
  BY DEF BdTransfer
<1>3. /\ Active(msc, c) /\ msc.breq.op = "write" /\ msc.total = c.count /\ msc.queued <= c.count
  BY <1>1, WritingFields DEF Active, Writing
<1>4. InWrite(d, h) /\ d.breq.st = "transfer" /\ d.breq.current = << >>
  <2>1. CASE msc.breq.current = << >>
    BY <1>2, <2>1 DEF GaveBack
  <2>2. CASE msc.breq.current # << >>
    <3> DEFINE g == BufListDone(msc, msc.breq.current)
    <3>1. OutBooks(msc)
      BY <1>1, <1>3 DEF OutBooks, Writing
    <3>2. g \in MscState /\ OutBooks(g) /\ WroteBack(msc, g)
      BY <1>1, <1>3, <3>1, WriteGivesBack
    <3>3. d = [g EXCEPT !.breq.current = << >>]
      BY <2>2 DEF GaveBack
    <3> HIDE DEF g, d
    <3>4. d \in MscState /\ AllButRequest(g, d) /\ Clears(g, d)
      BY <3>2, <3>3, ClearDoes
    <3>5. Clears(msc, d) /\ d.breq.list = g.breq.list /\ d.breq.current = << >>
      BY <3>2, <3>4 DEF Clears, WroteBack
    <3>6. SameCommand(msc, d, c)
      BY <1>3, <3>2, <3>4 DEF SameCommand, AllButRequest, Kept, WroteBack, OutBooks
    <3>7. Active(d, c) /\ Taken(d, c) = Taken(msc, c)
      BY <1>1, <1>2, <1>3, <3>5, <3>6, ActiveWhenCleared
    <3>8. InWrite(d, h)
      BY <3>2, <3>4, <3>5, <3>7, WriteGoesOn
    <3>9. QED
      BY <1>2, <3>5, <3>8 DEF Clears
  <2>3. QED
    BY <2>1, <2>2
<1> HIDE DEF d
<1>5. InWrite(msc', initiator')
  BY <1>2, <1>4, WriteNext
<1>6. QED
  BY <1>5 DEF InWrite, Always, MscInv, Inv, Serving

\* The status of a write, whose blocks all have moved, and the data that is left.
LEMMA WriteDoneDoes ==
    ASSUME NEW e \in MscState, e.breq.op = "write", e.inq = << >>, e.halted = {},
           NEW x, x = ReqDone(e)
    PROVE  /\ x \in MscState /\ Kept(e, x) /\ SameBooks(e, x) /\ x.csw = e.csw
           /\ x.outq = e.outq /\ x.inq = <<Csw>>
           /\ x.halted = IF e.csw.residue = 0 THEN {} ELSE {EndpointOf(e.cbw)}
<1>1. Csw \in UsbRequest
  BY DEF Csw, UsbRequest
<1>2. Append(<< >>, Csw) = <<Csw>>
  OBVIOUS
<1> DEFINE y == msc_request_done(e, e.csw.residue)
<1>3. x = msc_request_data_done(y)
  BY DEF ReqDone
<1>4. CASE e.csw.residue = 0
  <2>1. y = SubmitIn(e, Csw)
    BY <1>4 DEF msc_request_done
  <2> HIDE DEF y
  <2>2. y \in MscState /\ Kept(e, y) /\ SameBooks(e, y) /\ QueuedIn(e, y, Csw)
    BY <1>1, <2>1, SubmitInDoes
  <2>3. x = y
    BY <1>3, <1>4, <2>2 DEF msc_request_data_done, QueuedIn
  <2>4. QED
    BY <1>2, <1>4, <2>2, <2>3 DEF QueuedIn
<1>5. CASE e.csw.residue # 0
  <2>1. y = e
    BY <1>5 DEF msc_request_done
  <2>2. x = msc_request_data_done(e)
    BY <1>3, <2>1
  <2> HIDE DEF y
  <2>3. /\ x \in MscState /\ Kept(e, x) /\ SameBooks(e, x)
        /\ x.outq = e.outq /\ x.csw = e.csw
        /\ x.inq = (IF e.csw.residue = 0 THEN e.inq ELSE Append(e.inq, Csw))
        /\ x.halted = (IF e.csw.residue = 0 THEN e.halted ELSE e.halted \cup {EndpointOf(e.cbw)})
    BY <2>2, DataDoneDoes
  <2>4. QED
    BY <1>2, <1>5, <2>3
<1>6. QED
  BY <1>4, <1>5

\* All blocks of a write are stored, and nothing is left of it.
LEMMA WriteEnds ==
    ASSUME NEW m, NEW h, InWrite(m, h), ~ (m.breq.remaining - m.breq.pos > 0),
           NEW g \in MscState, OutBooks(g), WroteBack(m, g),
           NEW e \in MscState, AllButRequest(g, e), e.breq.op = "write",
           NEW x, x = ReqDone(e), NEW f, f = [x EXCEPT !.breq = NoBlockRequest]
    PROVE  Inv(f, h)
<1> DEFINE c == h.cmd
<1>1. m \in MscState /\ h \in HostState /\ c \in Command /\ Writing(m, h) /\ Served(m, h)
  BY DEF InWrite, Always, Served
<1>2. /\ c.len \in Nat /\ c.count \in Nat /\ h.moved \in Nat /\ c.count <= c.len
      /\ h.moved <= c.count /\ Active(m, c) /\ m.total = c.count /\ m.breq # NoBlockRequest
  BY <1>1, WritingFields
<1>3. Taken(m, c) = c.count
  BY <1>1, <1>2, AllTaken
<1>4. /\ Kept(m, e) /\ e.csw = m.csw /\ e.inq = << >> /\ e.outq = g.outq /\ e.halted = {}
      /\ e.free = g.free /\ e.usb_pending = g.usb_pending
  BY <1>1 DEF WroteBack, AllButRequest, Kept, SameEnds, Writing
<1>5. PICK l \in Nat : l = Len(m.breq.list)
  BY <1>1, QueuesAndLists
<1>6. PICK u \in Nat : u = Len(m.breq.current)
  BY <1>1, QueuesAndLists
<1>7. PICK n \in Nat : n = c.count
  BY <1>2
<1>8. PICK w \in Nat : w = h.moved
  BY <1>2
<1>9. w = n /\ l = 0
  <2>1. n + l = w /\ w <= n
    BY <1>1, <1>2, <1>3, <1>5, <1>7, <1>8 DEF Writing
  <2>2. QED
    BY <2>1
<1>10. PICK b \in Nat : b = Blocks(m.outq)
  BY <1>1, QueuesAndLists
<1>11. PICK o \in Nat : o = Blocks(g.outq)
  BY QueuesAndLists
<1>12. o = 0
  <2>1. PICK p \in Nat : p = m.queued
    BY <1>1, QueuesAndLists
  <2>2. PICK r \in Nat : r = g.queued
    BY QueuesAndLists
  <2>3. r <= n
    <3>1. g.total = c.count
      BY <1>2 DEF WroteBack, Kept
    <3>2. QED
      BY <1>7, <2>2, <3>1 DEF OutBooks
  <2>4. w + b = p /\ r + b = p + o
    BY <1>1, <1>8, <1>10, <1>11, <2>1, <2>2 DEF Writing, WroteBack
  <2>5. QED
    BY <1>9, <2>3, <2>4
<1>13. g.outq = << >>
  <2>1. g.outq \in Seq(UsbRequest) /\ AllData(g.outq) /\ Blocks(g.outq) = 0
    BY <1>11, <1>12, QueuesAndLists DEF OutBooks
  <2>2. QED
    BY <2>1, DataOfNothing
<1>14. g.usb_pending = 0
  BY <1>13, EmptyQueue DEF OutBooks
<1>15. g.free = NrLargeObjs
  <2>1. PICK y \in Nat : y = m.free
    BY <1>1, QueuesAndLists
  <2>2. PICK z \in Nat : z = g.free
    BY QueuesAndLists
  <2>3. y + b + l + u = NrLargeObjs
    BY <1>1, <1>5, <1>6, <1>10, <2>1 DEF Writing
  <2>4. z + o = y + u + b
    BY <1>6, <1>10, <1>11, <2>1, <2>2 DEF WroteBack
  <2>5. z = NrLargeObjs
    BY <1>9, <1>12, <2>3, <2>4, Constants
  <2>6. QED
    BY <2>2, <2>5
<1>16. /\ x \in MscState /\ Kept(e, x) /\ SameBooks(e, x) /\ x.csw = e.csw
       /\ x.outq = e.outq /\ x.inq = <<Csw>>
       /\ x.halted = IF e.csw.residue = 0 THEN {} ELSE {EndpointOf(e.cbw)}
  BY <1>4, WriteDoneDoes
<1>17. f \in MscState /\ AllButRequest(x, f) /\ f.breq = NoBlockRequest
  BY <1>16, NoRequestDoes
<1>18. /\ Kept(m, f) /\ f.csw = m.csw /\ f.outq = << >> /\ f.inq = <<Csw>>
       /\ f.free = NrLargeObjs /\ f.usb_pending = 0 /\ f.breq = NoBlockRequest
  BY <1>4, <1>13, <1>14, <1>15, <1>16, <1>17 DEF AllButRequest, Kept, SameBooks, SameEnds
<1>19. f.halted = IF m.csw.residue = 0 THEN {} ELSE {EndpointOf(c)}
  BY <1>1, <1>4, <1>16, <1>17 DEF AllButRequest, Kept, SameEnds, Served
<1>20. PICK k \in Nat : k = c.len
  BY <1>2
<1>21. n <= k /\ m.csw.residue = k - n
  BY <1>1, <1>2, <1>7, <1>20 DEF Writing
<1>22. h.phase = (IF m.csw.residue = 0 THEN "status" ELSE "data")
  <2>1. h.phase = (IF w = k THEN "status" ELSE "data")
    BY <1>1, <1>8, <1>20 DEF Writing
  <2>2. k - n = 0 <=> w = k
    BY <1>9, <1>21
  <2>3. QED
    BY <1>21, <2>1, <2>2
<1>23. Passed(f, h)
  <2>1. m.csw.residue + h.moved = c.len
    <3>1. (k - n) + n = k
      OBVIOUS
    <3>2. QED
      BY <1>8, <1>9, <1>20, <1>21, <3>1
  <2>2. c.op = "write"
    BY <1>1 DEF Writing
  <2>3. h.stored = {<<c.lba + i - 1, i>> : i \in 1 .. c.count}
    BY <1>1, <1>3 DEF Writing
  <2>4. QED
    BY <1>18, <2>1, <2>2, <2>3 DEF Passed
<1>24. Ending(f, h)
  BY <1>18, <1>19, <1>22, <1>23 DEF Ending, Quiet
<1>25. Always(f, h)
  BY <1>1, <1>2, <1>17, <1>18 DEF InWrite, Always, Kept
<1>26. Served(f, h)
  BY <1>1, <1>18 DEF Served, Kept
<1>27. QED
  BY <1>24, <1>25, <1>26 DEF Inv, Serving

LEMMA WritePageKeeps ==
    ASSUME MscInv, BdPageDone, InWrite(msc, initiator)
    PROVE  MscInv'
<1> DEFINE h == initiator
           c == h.cmd
           g == BufListDone(msc, msc.breq.current)
<1>1. /\ msc \in MscState /\ h \in HostState /\ c \in Command /\ Writing(msc, h)
  BY DEF InWrite, Always, Served
<1>2. /\ Active(msc, c) /\ msc.breq.op = "write" /\ msc.total = c.count /\ msc.queued <= c.count
  BY <1>1, WritingFields DEF Active, Writing
<1>3. OutBooks(msc)
  BY <1>1, <1>2 DEF OutBooks, Writing
<1>4. g \in MscState /\ OutBooks(g) /\ WroteBack(msc, g)
  BY <1>1, <1>2, <1>3, WriteGivesBack
<1>5. g = BufListDone(msc, msc.breq.current)
  OBVIOUS
<1> HIDE DEF g
<1>6. SameBlockRequest(msc, g) /\ g.breq.st = msc.breq.st /\ SameCommand(msc, g, c)
  BY <1>2, <1>4 DEF WroteBack, SameBlockRequest, SameCommand, Kept, OutBooks
<1>7. /\ PageFollows(msc, g, msc', c) \/ \E e : PagesDone(msc, g, e, msc')
      /\ initiator' = h
  BY <1>1, <1>2, <1>4, <1>5, <1>6, PageDoneDoes
<1>8. CASE PageFollows(msc, g, msc', c)
  <2>1. /\ msc' \in MscState /\ AllButRequest(g, msc') /\ msc'.breq.list = g.breq.list
        /\ msc'.breq.current = << >> /\ Active(msc', c) /\ Taken(msc', c) = Taken(msc, c)
    BY <1>8 DEF PageFollows
  <2>2. InWrite(msc', h)
    BY <1>4, <2>1, WriteGoesOn
  <2>3. QED
    BY <1>7, <2>2 DEF InWrite, Always, MscInv, Inv, Serving
<1>9. CASE \E e : PagesDone(msc, g, e, msc')
  <2>1. PICK e : PagesDone(msc, g, e, msc')
    BY <1>9
  <2>2. /\ ~ (msc.breq.remaining - msc.breq.pos > 0)
        /\ e \in MscState /\ AllButRequest(g, e) /\ e.breq.op = "write"
        /\ msc' = [ReqDone(e) EXCEPT !.breq = NoBlockRequest]
    BY <1>2, <2>1 DEF PagesDone
  <2>3. Inv(msc', h)
    BY <1>4, <2>2, WriteEnds
  <2>4. QED
    BY <1>7, <2>3 DEF MscInv
<1>10. QED
  BY <1>7, <1>8, <1>9

-----------------------------------------------------------------------------
(* The dataflash verifies.                                                 *)

\* A verification in progress, of a command that is served.
InVerify(m, h) == Always(m, h) /\ Served(m, h) /\ Verifying(m, h)

\* Buffers that were read are on the list again, or in the pool.
UsedAgain(m, g) ==
    /\ Kept(m, g) /\ SameBlockRequest(m, g) /\ SameEnds(m, g) /\ g.csw = m.csw
    /\ g.usb_pending = m.usb_pending
    /\ g.breq.st = (IF m.breq.st = "sleep" THEN "transfer" ELSE m.breq.st)
    /\ g.free + Len(g.breq.list) = m.free + Len(m.breq.list) + Len(m.breq.current)
    /\ g.queued + Len(m.breq.list) = m.queued + Len(g.breq.list)
    /\ g.queued <= g.total

LEMMA VerifyGivesBack ==
    ASSUME NEW m \in MscState, m.breq.op = "verify", m.queued <= m.total, m.breq.st # "sleep",
           NEW g, g = BufListDone(m, m.breq.current)
    PROVE  g \in MscState /\ UsedAgain(m, g)
<1>1. PICK s \in Seq(Nat) : s = m.breq.current
  BY QueuesAndLists
<1>2. PICK u \in Nat : u = Len(s)
  OBVIOUS
<1>3. PICK n \in Nat : n = m.queued
  BY QueuesAndLists
<1>4. PICK t \in Nat : t = m.total
  BY QueuesAndLists
<1>5. PICK f \in Nat : f = m.free
  BY QueuesAndLists
<1>6. PICK l \in Nat : l = Len(m.breq.list)
  BY QueuesAndLists
<1>7. PICK r \in Nat : r = t - n
  BY <1>3, <1>4
<1>8. PICK k \in Nat : k = Min({u, r}) /\ k <= u /\ k <= r
  BY LeastOfTwo
<1>9. PICK x \in Nat : x = f + (u - k)
  BY <1>8
<1>10. PICK y \in Nat : y = n + k
  OBVIOUS
<1> DEFINE e == [m EXCEPT !.free = x, !.queued = y]
<1>11. g = IF k > 0 THEN SubmitBufList(e, SubSeq(s, 1, k)) ELSE e
  <2>1. g = msc_verify_read_buffers_done(m, s)
    BY <1>1 DEF BufListDone
  <2>2. k = Min({Len(s), m.total - m.queued})
    BY <1>2, <1>3, <1>4, <1>7, <1>8
  <2>3. [m EXCEPT !.free = @ + (Len(s) - k), !.queued = @ + k] = e
    BY <1>2, <1>3, <1>5, <1>9, <1>10
  <2>4. QED
    BY <2>1, <2>2, <2>3 DEF msc_verify_read_buffers_done
<1>12. e \in MscState
  BY DEF MscState
<1>13. /\ Kept(m, e) /\ SameEnds(m, e) /\ e.csw = m.csw /\ e.breq = m.breq
       /\ e.usb_pending = m.usb_pending /\ e.free = x /\ e.queued = y
  BY DEF MscState, Kept, SameEnds
<1> HIDE DEF e
<1>14. y <= t
  BY <1>7, <1>8, <1>10
<1>15. e.total = t
  BY <1>4, <1>13 DEF Kept
<1>16. CASE k = 0
  <2>1. g = e
    BY <1>11, <1>16
  <2>2. x + l = f + l + u /\ y + l = n + l
    BY <1>9, <1>10, <1>16
  <2>3. g.free + Len(g.breq.list) = m.free + Len(m.breq.list) + Len(m.breq.current)
    BY <1>1, <1>2, <1>5, <1>6, <1>13, <2>1, <2>2
  <2>4. g.queued + Len(m.breq.list) = m.queued + Len(g.breq.list)
    BY <1>3, <1>6, <1>13, <2>1, <2>2
  <2>5. g.queued <= g.total
    BY <1>13, <1>14, <1>15, <2>1
  <2>6. SameBlockRequest(m, g)
    BY <1>13, <2>1 DEF SameBlockRequest
  <2>7. QED
    BY <1>12, <1>13, <2>1, <2>3, <2>4, <2>5, <2>6 DEF UsedAgain
<1>17. CASE k # 0
  <2>1. PICK p \in Seq(Nat) : p = SubSeq(s, 1, k) /\ Len(p) = k
    <3>1. k >= 1 /\ k <= Len(s)
      BY <1>2, <1>8, <1>17
    <3>2. SubSeq(s, 1, k) \in Seq(Nat) /\ Len(SubSeq(s, 1, k)) = k
      BY <3>1
    <3>3. QED
      BY <3>2
  <2>2. g = SubmitBufList(e, p)
    BY <1>11, <1>17, <2>1
  <2>3. g \in MscState /\ Kept(e, g) /\ GivesBlocks(e, g, p)
    BY <1>12, <2>2, SubmitBufListDoes
  <2>4. Len(g.breq.list) = l + k
    <3>1. m.breq.list \in Seq(Nat) /\ g.breq.list = m.breq.list \o p
      BY <1>13, <2>3, QueuesAndLists DEF GivesBlocks
    <3>2. QED
      BY <1>6, <2>1, <3>1, LengthOfBoth
  <2>5. g.free = x /\ g.queued = y /\ g.usb_pending = m.usb_pending /\ g.csw = m.csw
    BY <1>13, <2>3 DEF GivesBlocks
  <2>6. x + (l + k) = f + l + u /\ y + l = n + (l + k)
    BY SMTT(60), <1>8, <1>9, <1>10
  <2>7. g.free + Len(g.breq.list) = m.free + Len(m.breq.list) + Len(m.breq.current)
    BY <1>1, <1>2, <1>5, <1>6, <2>4, <2>5, <2>6
  <2>8. g.queued + Len(m.breq.list) = m.queued + Len(g.breq.list)
    BY <1>3, <1>6, <2>4, <2>5, <2>6
  <2>9. g.queued <= g.total
    BY SMTT(60), <1>14, <1>15, <2>3, <2>5 DEF Kept
  <2>10. Kept(m, g) /\ SameEnds(m, g)
    BY SMTT(60), <1>13, <2>3 DEF Kept, SameEnds, GivesBlocks
  <2>11. SameBlockRequest(m, g) /\ g.breq.st = (IF m.breq.st = "sleep" THEN "transfer" ELSE m.breq.st)
    BY <1>13, <2>3 DEF SameBlockRequest, GivesBlocks
  <2>12. QED
    BY <2>3, <2>5, <2>7, <2>8, <2>9, <2>10, <2>11 DEF UsedAgain
<1>18. QED
  BY <1>16, <1>17

\* The books of a verification, and where it is.
LEMMA VerifyingFields ==
    ASSUME NEW m \in MscState, NEW h \in HostState, h.cmd \in Command, Verifying(m, h)
    PROVE  /\ h.cmd.len \in Nat /\ h.cmd.count \in Nat /\ m.queued <= h.cmd.count
           /\ Taken(m, h.cmd) \in Nat /\ m.total = h.cmd.count /\ m.breq.op = "verify"
           /\ Active(m, h.cmd) /\ m.breq # NoBlockRequest
<1>1. Active(m, h.cmd) /\ h.cmd.op = "verify"
  BY DEF Verifying
<1>2. /\ m.queued <= h.cmd.count /\ m.total = h.cmd.count /\ m.breq.op = "verify"
      /\ m.breq # NoBlockRequest
  BY <1>1 DEF Active, Paged, NoBlockRequest, BlockRequest
<1>3. QED
  BY <1>1, <1>2, CommandFields, TakenSoFar

\* The request goes on after it has given its buffers back.
LEMMA VerifyGoesOn ==
    ASSUME NEW m, NEW h, InVerify(m, h), NEW g \in MscState, UsedAgain(m, g),
           NEW e \in MscState, AllButRequest(g, e), e.breq.list = g.breq.list,
           e.breq.current = << >>, Active(e, h.cmd), Taken(e, h.cmd) = Taken(m, h.cmd)
    PROVE  InVerify(e, h)
<1> DEFINE c == h.cmd
<1>1. m \in MscState /\ h \in HostState /\ c \in Command /\ Verifying(m, h)
  BY DEF InVerify, Always, Served
<1>2. Active(m, c) /\ m.breq # NoBlockRequest /\ Taken(m, c) \in Nat
  BY <1>1, VerifyingFields
<1>3. /\ Kept(m, e) /\ e.csw = m.csw /\ SameEnds(m, e)
      /\ e.queued = g.queued /\ e.free = g.free /\ e.usb_pending = m.usb_pending
      /\ e.breq.list = g.breq.list
  BY DEF UsedAgain, AllButRequest, Kept, SameEnds
<1>4. PICK l \in Nat : l = Len(m.breq.list)
  BY <1>1, QueuesAndLists
<1>5. PICK u \in Nat : u = Len(m.breq.current)
  BY <1>1, QueuesAndLists
<1>6. PICK j \in Nat : j = Len(g.breq.list)
  BY QueuesAndLists
<1>7. e.free + Len(e.breq.list) + Len(e.breq.current) = NrLargeObjs
  <2>1. PICK f \in Nat : f = m.free
    BY <1>1, QueuesAndLists
  <2>2. PICK x \in Nat : x = g.free
    BY QueuesAndLists
  <2>3. f + l + u = NrLargeObjs
    BY <1>1, <1>4, <1>5, <2>1 DEF Verifying
  <2>4. x + j = f + l + u
    BY <1>4, <1>5, <1>6, <2>1, <2>2 DEF UsedAgain
  <2>5. x + j + 0 = NrLargeObjs
    BY <2>3, <2>4, Constants
  <2>6. Len(e.breq.current) = 0
    OBVIOUS
  <2>7. QED
    BY <1>3, <1>6, <2>2, <2>5, <2>6
<1>8. Taken(e, c) + Len(e.breq.list) = e.queued
  <2>1. PICK n \in Nat : n = m.queued
    BY <1>1, QueuesAndLists
  <2>2. PICK p \in Nat : p = g.queued
    BY QueuesAndLists
  <2>3. PICK t \in Nat : t = Taken(m, c)
    BY <1>2
  <2>4. t + l = n
    BY <1>1, <1>4, <2>1, <2>3 DEF Verifying
  <2>5. p + l = n + j
    BY <1>4, <1>6, <2>1, <2>2 DEF UsedAgain
  <2>6. t + j = p
    BY <2>4, <2>5
  <2>7. QED
    BY <1>3, <1>6, <2>2, <2>3, <2>6
<1>9. Verifying(e, h)
  BY <1>1, <1>3, <1>7, <1>8 DEF Verifying, SameEnds
<1>10. Always(e, h)
  BY <1>1, <1>2, <1>3 DEF InVerify, Always, Kept
<1>11. Served(e, h)
  BY <1>3 DEF InVerify, Served, Kept
<1>12. QED
  BY <1>9, <1>10, <1>11 DEF InVerify

\* Buffers are taken from the list, or the request sleeps.
LEMMA VerifyNext ==
    ASSUME NEW m, NEW h, InVerify(m, h), m.breq.st = "transfer", m.breq.current = << >>,
           NEW e, e = NextBuffers(m)
    PROVE  InVerify(e, h)
<1> DEFINE c == h.cmd
<1>1. m \in MscState /\ h \in HostState /\ c \in Command /\ Verifying(m, h)
  BY DEF InVerify, Always, Served
<1>2. /\ m.queued <= c.count /\ Taken(m, c) \in Nat /\ Active(m, c) /\ m.breq # NoBlockRequest
  BY <1>1, VerifyingFields
<1>3. ASSUME e \in MscState, AllButRequest(m, e), Active(e, c),
             Taken(e, c) + Len(e.breq.list) = e.queued,
             e.free + Len(e.breq.list) + Len(e.breq.current) = NrLargeObjs
      PROVE  InVerify(e, h)
  <2>1. Verifying(e, h)
    BY <1>1, <1>3 DEF Verifying, AllButRequest, SameEnds
  <2>2. Always(e, h)
    BY <1>1, <1>2, <1>3 DEF InVerify, Always, AllButRequest, Kept
  <2>3. Served(e, h)
    BY <1>3 DEF InVerify, Served, AllButRequest, Kept
  <2>4. QED
    BY <2>1, <2>2, <2>3 DEF InVerify
<1>4. PICK l \in Nat : l = Len(m.breq.list)
  BY <1>1, QueuesAndLists
<1>5. PICK t \in Nat : t = Taken(m, c)
  BY <1>2
<1>6. PICK f \in Nat : f = m.free
  BY <1>1, QueuesAndLists
<1>7. Len(m.breq.current) = 0
  OBVIOUS
<1>8. f + l + 0 = NrLargeObjs /\ t + l = m.queued
  BY <1>1, <1>4, <1>5, <1>6, <1>7 DEF Verifying
<1>9. CASE m.breq.list = << >>
  <2>1. /\ e \in MscState /\ AllButRequest(m, e)
        /\ Active(e, c) /\ Taken(e, c) = Taken(m, c)
        /\ e.breq.list = << >> /\ e.breq.current = << >>
    BY <1>1, <1>2, <1>9, NothingToTake
  <2>2. e.free = f /\ e.queued = m.queued /\ Len(e.breq.list) = l /\ Len(e.breq.current) = 0
    BY <1>4, <1>6, <1>9, <2>1 DEF AllButRequest
  <2>3. QED
    BY <1>3, <1>5, <1>8, <2>1, <2>2
<1>10. CASE m.breq.list # << >>
  <2>1. PICK k \in Nat : k = Room(m.breq) /\ k >= 1 /\ k <= Len(m.breq.list)
    BY <1>1, <1>2, <1>10, RoomFits
  <2>2. /\ e \in MscState /\ AllButRequest(m, e)
        /\ Active(e, c) /\ Taken(e, c) = t + k
        /\ Len(e.breq.list) = l - k /\ Len(e.breq.current) = k
    BY <1>1, <1>2, <1>4, <1>5, <1>10, <2>1, BatchTaken
  <2>3. e.free = f /\ e.queued = m.queued
    BY <1>6, <2>2 DEF AllButRequest
  <2>4. k <= l
    BY <1>4, <2>1
  <2>5. f + (l - k) + k = NrLargeObjs
    BY <1>8, <2>4, Constants
  <2>6. (t + k) + (l - k) = t + l
    OBVIOUS
  <2>7. QED
    BY <1>3, <1>8, <2>2, <2>3, <2>5, <2>6
<1>11. QED
  BY <1>9, <1>10

LEMMA VerifyTransferKeeps ==
    ASSUME MscInv, BdTransfer, InVerify(msc, initiator)
    PROVE  MscInv'
<1> DEFINE h == initiator
           c == h.cmd
           d == GaveBack(msc)
<1>1. /\ msc \in MscState /\ h \in HostState /\ c \in Command /\ Verifying(msc, h)
  BY DEF InVerify, Always, Served
<1>2. /\ msc.breq.st = "transfer" /\ msc' = NextBuffers(d)
      /\ initiator' = [h EXCEPT !.stored = @ \cup Written(d.breq)]
  BY DEF BdTransfer
<1>3. /\ Active(msc, c) /\ msc.breq.op = "verify" /\ msc.total = c.count /\ msc.queued <= c.count
  BY <1>1, VerifyingFields
<1>4. InVerify(d, h) /\ d.breq.st = "transfer" /\ d.breq.current = << >> /\ d.breq.op = "verify"
  <2>1. CASE msc.breq.current = << >>
    BY <1>2, <1>3, <2>1 DEF GaveBack
  <2>2. CASE msc.breq.current # << >>
    <3> DEFINE g == BufListDone(msc, msc.breq.current)
    <3>1. msc.queued <= msc.total /\ msc.breq.st # "sleep"
      BY <1>2, <1>3
    <3>2. g \in MscState /\ UsedAgain(msc, g)
      BY <1>1, <1>3, <3>1, VerifyGivesBack
    <3>3. d = [g EXCEPT !.breq.current = << >>]
      BY <2>2 DEF GaveBack
    <3> HIDE DEF g, d
    <3>4. d \in MscState /\ AllButRequest(g, d) /\ Clears(g, d)
      BY <3>2, <3>3, ClearDoes
    <3>5. Active(g, c) /\ Taken(g, c) = Taken(msc, c) /\ g.breq.st = "transfer"
      <4>1. /\ SameBlockRequest(msc, g)
            /\ g.breq.st = (IF msc.breq.st = "sleep" THEN "transfer" ELSE msc.breq.st)
            /\ g.xfer_in_progress = msc.xfer_in_progress /\ g.total = msc.total
            /\ g.queued <= c.count
        BY <1>3, <3>2 DEF UsedAgain, Kept
      <4>2. Active(g, c) /\ Taken(g, c) = Taken(msc, c)
        BY <1>1, <1>3, <4>1, ActiveWithMore
      <4>3. QED
        BY <1>2, <4>1, <4>2
    <3>6. SameCommand(g, d, c)
      BY <3>4, <3>5 DEF SameCommand, AllButRequest, Kept, Active
    <3>7. Active(d, c) /\ Taken(d, c) = Taken(g, c)
      BY <1>1, <3>4, <3>5, <3>6, ActiveWhenCleared
    <3>8. d.breq.list = g.breq.list /\ d.breq.current = << >> /\ d.breq.st = g.breq.st
          /\ d.breq.op = msc.breq.op
      BY <3>2, <3>4 DEF Clears, UsedAgain, SameBlockRequest
    <3>9. InVerify(d, h)
      BY <3>2, <3>4, <3>5, <3>7, <3>8, VerifyGoesOn
    <3>10. QED
      BY <1>3, <3>5, <3>8, <3>9
  <2>3. QED
    BY <2>1, <2>2
<1> HIDE DEF d
<1>5. InVerify(msc', h)
  BY <1>2, <1>4, VerifyNext
<1>6. initiator' = h
  <2>1. Written(d.breq) = {}
    BY <1>4 DEF Written
  <2>2. QED
    BY <1>1, <1>2, <2>1, StoredDoes
<1>7. QED
  BY <1>5, <1>6 DEF InVerify, Always, MscInv, Inv, Serving

\* A status without data, and a stall when the host asked for data.
LEMMA NoDataDoneDoes ==
    ASSUME NEW e \in MscState, e.inq = << >>, e.halted = {},
           NEW x, x = msc_request_done_nodata(e, e.csw.residue)
    PROVE  /\ x \in MscState /\ Kept(e, x) /\ SameBooks(e, x) /\ x.csw = e.csw
           /\ x.outq = e.outq /\ x.inq = <<Csw>>
           /\ x.halted = IF e.csw.residue = 0 THEN {} ELSE {EndpointOf(e.cbw)}
<1>1. Csw \in UsbRequest
  BY DEF Csw, UsbRequest
<1>2. Append(<< >>, Csw) = <<Csw>>
  OBVIOUS
<1> DEFINE y == IF e.csw.residue # 0 THEN HaltDataEp(e) ELSE e
<1>3. x = SubmitIn(y, Csw)
  BY DEF msc_request_done_nodata
<1>4. /\ y \in MscState /\ Kept(e, y) /\ SameBooks(e, y) /\ y.inq = e.inq /\ y.outq = e.outq
      /\ y.csw = e.csw /\ y.halted = IF e.csw.residue = 0 THEN {} ELSE {EndpointOf(e.cbw)}
  <2>1. CASE e.csw.residue = 0
    <3>1. y = e
      BY <2>1
    <3>2. Kept(e, e) /\ SameBooks(e, e)
      BY DEF Kept, SameBooks
    <3>3. QED
      BY <2>1, <3>1, <3>2
  <2>2. CASE e.csw.residue # 0
    <3>1. y = HaltDataEp(e)
      BY <2>2
    <3> HIDE DEF y
    <3>2. /\ y \in MscState /\ Kept(e, y) /\ SameBooks(e, y)
          /\ HaltsAre(e, y, e.halted \cup {EndpointOf(e.cbw)})
      BY <3>1, HaltDataEpDoes
    <3>3. QED
      BY <2>2, <3>2 DEF HaltsAre
  <2>3. QED
    BY <2>1, <2>2
<1> HIDE DEF y
<1>5. x \in MscState /\ Kept(y, x) /\ SameBooks(y, x) /\ QueuedIn(y, x, Csw)
  BY <1>1, <1>3, <1>4, SubmitInDoes
<1>6. Kept(e, x) /\ SameBooks(e, x)
  BY <1>4, <1>5 DEF Kept, SameBooks
<1>7. QED
  BY <1>2, <1>4, <1>5, <1>6 DEF QueuedIn

\* All blocks are verified, and nothing is left of the command.
LEMMA VerifyEnds ==
    ASSUME NEW m, NEW h, InVerify(m, h), ~ (m.breq.remaining - m.breq.pos > 0),
           NEW g \in MscState, UsedAgain(m, g),
           NEW e \in MscState, AllButRequest(g, e), e.breq.op = "verify",
           NEW x, x = ReqDone(e), NEW f, f = [x EXCEPT !.breq = NoBlockRequest]
    PROVE  Inv(f, h)
<1> DEFINE c == h.cmd
<1>1. m \in MscState /\ h \in HostState /\ c \in Command /\ Verifying(m, h) /\ Served(m, h)
  BY DEF InVerify, Always, Served
<1>2. /\ c.len \in Nat /\ c.count \in Nat /\ Active(m, c) /\ m.total = c.count
      /\ m.breq # NoBlockRequest
  BY <1>1, VerifyingFields
<1>3. Taken(m, c) = c.count
  BY <1>1, <1>2, AllTaken
<1>4. /\ Kept(m, e) /\ e.csw = m.csw /\ e.inq = << >> /\ e.outq = << >> /\ e.halted = {}
      /\ e.free = g.free /\ e.usb_pending = 0
  BY <1>1 DEF UsedAgain, AllButRequest, Kept, SameEnds, Verifying
<1>5. PICK l \in Nat : l = Len(m.breq.list)
  BY <1>1, QueuesAndLists
<1>6. PICK u \in Nat : u = Len(m.breq.current)
  BY <1>1, QueuesAndLists
<1>7. PICK n \in Nat : n = c.count
  BY <1>2
<1>8. PICK j \in Nat : j = Len(g.breq.list)
  BY QueuesAndLists
<1>9. j = 0
  <2>1. PICK p \in Nat : p = m.queued
    BY <1>1, QueuesAndLists
  <2>2. PICK r \in Nat : r = g.queued
    BY QueuesAndLists
  <2>3. r <= n
    <3>1. g.total = c.count
      BY <1>2 DEF UsedAgain, Kept
    <3>2. QED
      BY <1>7, <2>2, <3>1 DEF UsedAgain
  <2>4. n + l = p /\ r + l = p + j
    BY <1>1, <1>3, <1>5, <1>7, <1>8, <2>1, <2>2 DEF Verifying, UsedAgain
  <2>5. QED
    BY <2>3, <2>4
<1>10. g.free = NrLargeObjs
  <2>1. PICK y \in Nat : y = m.free
    BY <1>1, QueuesAndLists
  <2>2. PICK z \in Nat : z = g.free
    BY QueuesAndLists
  <2>3. y + l + u = NrLargeObjs
    BY <1>1, <1>5, <1>6, <2>1 DEF Verifying
  <2>4. z + j = y + l + u
    BY <1>5, <1>6, <1>8, <2>1, <2>2 DEF UsedAgain
  <2>5. z = NrLargeObjs
    BY <1>9, <2>3, <2>4, Constants
  <2>6. QED
    BY <2>2, <2>5
<1>11. /\ x \in MscState /\ Kept(e, x) /\ SameBooks(e, x) /\ x.csw = e.csw
       /\ x.outq = e.outq /\ x.inq = <<Csw>>
       /\ x.halted = IF e.csw.residue = 0 THEN {} ELSE {EndpointOf(e.cbw)}
  <2>1. x = msc_request_done_nodata(e, e.csw.residue)
    BY DEF ReqDone
  <2>2. QED
    BY <1>4, <2>1, NoDataDoneDoes
<1>12. f \in MscState /\ AllButRequest(x, f) /\ f.breq = NoBlockRequest
  BY <1>11, NoRequestDoes
<1>13. /\ Kept(m, f) /\ f.csw = m.csw /\ f.outq = << >> /\ f.inq = <<Csw>>
       /\ f.free = NrLargeObjs /\ f.usb_pending = 0 /\ f.breq = NoBlockRequest
  BY <1>4, <1>10, <1>11, <1>12 DEF AllButRequest, Kept, SameBooks, SameEnds
<1>14. f.halted = IF m.csw.residue = 0 THEN {} ELSE {EndpointOf(c)}
  BY <1>1, <1>4, <1>11, <1>12 DEF AllButRequest, Kept, SameEnds, Served
<1>15. /\ m.csw.residue = c.len /\ h.moved = 0 /\ c.op = "verify"
       /\ h.phase = (IF c.len = 0 THEN "status" ELSE "data")
  BY <1>1 DEF Verifying
<1>16. Passed(f, h)
  <2>1. m.csw.residue + h.moved = c.len
    BY <1>2, <1>15
  <2>2. QED
    BY <1>13, <1>15, <2>1 DEF Passed
<1>17. Ending(f, h)
  BY <1>13, <1>14, <1>15, <1>16 DEF Ending, Quiet
<1>18. Always(f, h)
  BY <1>1, <1>2, <1>12, <1>13 DEF InVerify, Always, Kept
<1>19. Served(f, h)
  BY <1>1, <1>13 DEF Served, Kept
<1>20. QED
  BY <1>17, <1>18, <1>19 DEF Inv, Serving

LEMMA VerifyPageKeeps ==
    ASSUME MscInv, BdPageDone, InVerify(msc, initiator)
    PROVE  MscInv'
<1> DEFINE h == initiator
           c == h.cmd
           g == BufListDone(msc, msc.breq.current)
<1>1. /\ msc \in MscState /\ h \in HostState /\ c \in Command /\ Verifying(msc, h)
  BY DEF InVerify, Always, Served
<1>2. /\ Active(msc, c) /\ msc.breq.op = "verify" /\ msc.total = c.count /\ msc.queued <= c.count
  BY <1>1, VerifyingFields
<1>3. msc.queued <= msc.total /\ msc.breq.st = "page"
  BY <1>2 DEF BdPageDone
<1>4. g \in MscState /\ UsedAgain(msc, g)
  BY <1>1, <1>2, <1>3, VerifyGivesBack
<1>5. g = BufListDone(msc, msc.breq.current)
  OBVIOUS
<1> HIDE DEF g
<1>6. SameBlockRequest(msc, g) /\ g.breq.st = msc.breq.st /\ SameCommand(msc, g, c)
  BY <1>2, <1>3, <1>4 DEF UsedAgain, SameCommand, Kept
<1>7. /\ PageFollows(msc, g, msc', c) \/ \E e : PagesDone(msc, g, e, msc')
      /\ initiator' = h
  BY <1>1, <1>2, <1>4, <1>5, <1>6, PageDoneDoes
<1>8. CASE PageFollows(msc, g, msc', c)
  <2>1. /\ msc' \in MscState /\ AllButRequest(g, msc') /\ msc'.breq.list = g.breq.list
        /\ msc'.breq.current = << >> /\ Active(msc', c) /\ Taken(msc', c) = Taken(msc, c)
    BY <1>8 DEF PageFollows
  <2>2. InVerify(msc', h)
    BY <1>4, <2>1, VerifyGoesOn
  <2>3. QED
    BY <1>7, <2>2 DEF InVerify, Always, MscInv, Inv, Serving
<1>9. CASE \E e : PagesDone(msc, g, e, msc')
  <2>1. PICK e : PagesDone(msc, g, e, msc')
    BY <1>9
  <2>2. /\ ~ (msc.breq.remaining - msc.breq.pos > 0)
        /\ e \in MscState /\ AllButRequest(g, e) /\ e.breq.op = "verify"
        /\ msc' = [ReqDone(e) EXCEPT !.breq = NoBlockRequest]
    BY <1>2, <2>1 DEF PagesDone
  <2>3. Inv(msc', h)
    BY <1>4, <2>2, VerifyEnds
  <2>4. QED
    BY <1>7, <2>3 DEF MscInv
<1>10. QED
  BY <1>7, <1>8, <1>9

-----------------------------------------------------------------------------
(* Every step keeps the invariant.                                         *)

\* A block request in progress belongs to the command that is served.
LEMMA RequestOfCommand ==
    ASSUME NEW m, NEW h, Inv(m, h), m.breq.st \in {"transfer", "page"}
    PROVE  InRead(m, h) \/ InWrite(m, h) \/ InVerify(m, h)
<1>1. m.breq # NoBlockRequest
  BY DEF NoBlockRequest, BlockRequest
<1>2. ~ Quiet(m)
  BY <1>1 DEF Quiet
<1>3. Always(m, h) /\ Serving(m, h)
  BY <1>2 DEF Inv, AtRest, Recovering
<1>4. ~ Ending(m, h) /\ ~ Answering(m, h) /\ ~ Draining(m, h)
  BY <1>1, <1>2 DEF Ending, Answering, Draining
<1>5. QED
  BY <1>3, <1>4 DEF Serving, InRead, InWrite, InVerify

LEMMA BlockDeviceKeeps ==
    ASSUME MscInv, BlockDevice
    PROVE  MscInv'
<1>1. CASE BdTransfer
  <2>1. msc.breq.st = "transfer"
    BY <1>1 DEF BdTransfer
  <2>2. \/ InRead(msc, initiator) \/ InWrite(msc, initiator) \/ InVerify(msc, initiator)
    BY <2>1, RequestOfCommand DEF MscInv
  <2>3. QED
    BY <1>1, <2>2, ReadTransferKeeps, WriteTransferKeeps, VerifyTransferKeeps
<1>2. CASE BdPageDone
  <2>1. msc.breq.st = "page"
    BY <1>2 DEF BdPageDone
  <2>2. \/ InRead(msc, initiator) \/ InWrite(msc, initiator) \/ InVerify(msc, initiator)
    BY <2>1, RequestOfCommand DEF MscInv
  <2>3. QED
    BY <1>2, <2>2, ReadPageKeeps, WritePageKeeps, VerifyPageKeeps
<1>3. QED
  BY <1>1, <1>2 DEF BlockDevice

LEMMA MscInvInit ==
    ASSUME MscInit
    PROVE  MscInv
<1>1. NoBlockRequest \in BlockReq
  BY EmptySeq DEF NoBlockRequest, BlockRequest, BlockReq
<1>2. << >> \in Seq(UsbRequest) /\ << >> \in Seq(Nat)
  BY EmptySeq
<1>3. msc \in MscState
  BY <1>1, <1>2, Constants DEF MscInit, MscState, Status
<1>4. initiator \in HostState
  BY <1>2 DEF MscInit, HostState
<1>5. Always(msc, initiator)
  BY <1>3, <1>4 DEF MscInit, Always
<1>6. AtRest(msc, initiator)
  BY DEF MscInit, AtRest, Quiet
<1>7. QED
  BY <1>5, <1>6 DEF MscInv, Inv

LEMMA MscInvKept ==
    ASSUME CommandsFit, MscInv, [MscNext]_mscVars
    PROVE  MscInv'
<1>1. ASSUME NEW c \in Command, NEW tag \in {1, 2}, HostCommand(c, tag) PROVE MscInv'
  BY <1>1, HostCommandKeeps
<1>2. CASE HostInvalidCommand
  BY <1>2, HostInvalidCommandKeeps
<1>3. CASE CommandGoesOn
  BY <1>3, InTransferKeeps, OutTransferKeeps, DataStalledKeeps, StatusStalledKeeps
     DEF CommandGoesOn
<1>4. CASE BulkReset
  BY <1>4, BulkResetKeeps
<1>5. CASE udi_msc_disable \/ udi_msc_enable
  BY <1>5, DisableKeeps, EnableKeeps
<1>6. CASE udi_msc_set_busy \/ udi_msc_set_ready
  BY <1>6, SetBusyKeeps, SetReadyKeeps
<1>7. CASE BlockDevice
  BY <1>7, BlockDeviceKeeps
<1>8. CASE UNCHANGED mscVars
  BY <1>8 DEF MscInv, mscVars
<1>9. QED
  BY <1>1, <1>2, <1>3, <1>4, <1>5, <1>6, <1>7, <1>8 DEF MscNext

\* The device and the host agree on where they are, and the books are right, in every
\* state that is reached.
THEOREM MscSafe ==
    ASSUME CommandsFit
    PROVE  MscSpec => []MscInv
<1>1. MscInit => MscInv
  BY MscInvInit
<1>2. MscInv /\ [MscNext]_mscVars => MscInv'
  BY MscInvKept
<1>3. QED
  BY <1>1, <1>2, PTL DEF MscSpec

\* The status is never taken for data, nor data for the status.
THEOREM StatusIsInItsPhase ==
    ASSUME CommandsFit
    PROVE  MscSpec => []StatusInItsPhase
<1>1. MscInv => StatusInItsPhase
  BY DEF MscInv, Inv, Always, HostState, StatusInItsPhase
<1>2. QED
  BY <1>1, MscSafe, PTL

\* No blocks are moved once the application has been told that the queue is empty.
THEOREM BusyIsQuiet ==
    ASSUME CommandsFit
    PROVE  MscSpec => []BusyMeansQuiet
<1>1. MscInv => BusyMeansQuiet
  BY DEF MscInv, Inv, Always, BusyMeansQuiet, Resting, NoBlockRequest, BlockRequest
<1>2. QED
  BY <1>1, MscSafe, PTL

-----------------------------------------------------------------------------
(* Nothing is lost.                                                        *)

\* How often the request for commands and status is on a queue.
CommandUses(q) == Cardinality({i \in DOMAIN q : q[i] \in {Cbw, Csw}})

\* The queue carries data, or an answer.
OnlyData(q) == \A i \in DOMAIN q : q[i].kind \in {"data", "short"}

LEMMA UsesOfQueue ==
    ASSUME NEW q \in Seq(UsbRequest), OnlyData(q)
    PROVE  /\ CommandUses(q) = 0
           /\ \A r \in {Cbw, Csw} : CommandUses(q \o <<r>>) = 1
<1>1. \A i \in DOMAIN q : q[i] \notin {Cbw, Csw}
  BY DEF OnlyData, Cbw, Csw
<1>2. CommandUses(q) = 0
  <2>1. {i \in DOMAIN q : q[i] \in {Cbw, Csw}} = {}
    BY <1>1
  <2>2. QED
    BY <2>1, FS_EmptySet DEF CommandUses
<1>3. ASSUME NEW r \in {Cbw, Csw} PROVE CommandUses(q \o <<r>>) = 1
  <2>1. PICK n \in Nat : n = Len(q)
    OBVIOUS
  <2>2. /\ DOMAIN (q \o <<r>>) = 1 .. n + 1 /\ (q \o <<r>>)[n + 1] = r
        /\ \A i \in 1 .. n : (q \o <<r>>)[i] = q[i]
    <3>1. << >> \in Seq(Nat)
      BY EmptySeq
    <3>2. Cbw \in UsbRequest /\ Csw \in UsbRequest
      BY <3>1 DEF Cbw, Csw, UsbRequest
    <3>3. r \in UsbRequest
      BY <3>2
    <3>4. QED
      BY <2>1, <3>3
  <2>3. ASSUME NEW i \in 1 .. n + 1 PROVE (q \o <<r>>)[i] \in {Cbw, Csw} <=> i = n + 1
    <3>1. CASE i = n + 1
      BY <2>2, <3>1
    <3>2. CASE i # n + 1
      <4>1. i \in 1 .. n /\ i \in DOMAIN q
        BY <2>1, <3>2
      <4>2. QED
        BY <1>1, <2>2, <3>2, <4>1
    <3>3. QED
      BY <3>1, <3>2
  <2>4. {i \in DOMAIN (q \o <<r>>) : (q \o <<r>>)[i] \in {Cbw, Csw}} = {n + 1}
    BY <2>2, <2>3
  <2>5. Cardinality({n + 1}) = 1
    BY FS_Singleton
  <2>6. QED
    BY <2>4, <2>5 DEF CommandUses
<1>4. QED
  BY <1>2, <1>3

\* The queues of a device that moves nothing, and of one that moves data.
LEMMA UsesOfOne ==
    /\ CommandUses(<< >>) = 0 /\ CommandUses(<<Cbw>>) = 1 /\ CommandUses(<<Csw>>) = 1
<1>1. << >> \in Seq(UsbRequest) /\ OnlyData(<< >>)
  BY EmptySeq DEF OnlyData
<1>2. << >> \o <<Cbw>> = <<Cbw>> /\ << >> \o <<Csw>> = <<Csw>>
  OBVIOUS
<1>3. CommandUses(<< >>) = 0 /\ \A r \in {Cbw, Csw} : CommandUses(<< >> \o <<r>>) = 1
  BY <1>1, UsesOfQueue
<1>4. QED
  BY <1>2, <1>3

LEMMA UsesWithStatus ==
    ASSUME NEW q \in Seq(UsbRequest), OnlyData(q), NEW m
    PROVE  CommandUses(q \o StatusBehind(m)) \in 0 .. 1
<1>1. CASE StatusBehind(m) = <<Csw>>
  BY <1>1, UsesOfQueue
<1>2. CASE StatusBehind(m) = << >>
  <2>1. q \o << >> = q
    OBVIOUS
  <2>2. QED
    BY <1>2, <2>1, UsesOfQueue
<1>3. QED
  BY <1>1, <1>2 DEF StatusBehind

LEMMA UsesAreOne ==
    ASSUME MscInv
    PROVE  CommandUses(msc.inq) \in 0 .. 1 /\ CommandUses(msc.outq) \in 0 .. 1
           /\ (CommandUses(msc.inq) = 0 \/ CommandUses(msc.outq) = 0)
<1>1. msc \in MscState /\ initiator \in HostState
  BY DEF MscInv, Inv, Always
<1>2. CASE AtRest(msc, initiator) \/ Recovering(msc, initiator)
  BY <1>2, UsesOfOne DEF AtRest, Recovering
<1>3. CASE Ending(msc, initiator)
  BY <1>3, UsesOfOne DEF Ending
<1>4. CASE Answering(msc, initiator)
  <2>1. PICK n \in 1 .. initiator.cmd.len : msc.inq = <<Answer(n)>> \o StatusBehind(msc)
    BY <1>4 DEF Answering
  <2>2. n \in Nat
    OBVIOUS
  <2>3. Answer(n) \in UsbRequest /\ Answer(n).kind = "short"
    BY <2>2, AnswerIsNoData
  <2>4. <<Answer(n)>> \in Seq(UsbRequest) /\ OnlyData(<<Answer(n)>>)
    BY <2>3 DEF OnlyData
  <2>5. CommandUses(msc.inq) \in 0 .. 1
    BY <2>1, <2>4, UsesWithStatus
  <2>6. QED
    BY <1>4, <2>5, UsesOfOne DEF Answering
<1>5. CASE Writing(msc, initiator)
  <2>1. msc.outq \in Seq(UsbRequest) /\ OnlyData(msc.outq)
    BY <1>1, <1>5, QueuesAndLists DEF Writing, AllData, OnlyData
  <2>2. CommandUses(msc.outq) = 0
    BY <2>1, UsesOfQueue
  <2>3. QED
    BY <1>5, <2>2, UsesOfOne DEF Writing
<1>6. CASE Verifying(msc, initiator)
  BY <1>6, UsesOfOne DEF Verifying
<1>7. CASE Reading(msc, initiator)
  <2>1. msc.inq \in Seq(UsbRequest) /\ OnlyData(msc.inq) /\ msc.outq = << >>
    BY <1>1, <1>7, QueuesAndLists DEF Reading, ReadBooks, AllData, OnlyData
  <2>2. CommandUses(msc.inq) = 0
    BY <2>1, UsesOfQueue
  <2>3. QED
    BY <2>1, <2>2, UsesOfOne
<1>8. CASE Draining(msc, initiator)
  <2>1. PICK q \in Seq(UsbRequest) : /\ msc.inq = q \o StatusBehind(msc)
                                     /\ ReadBooks(msc, initiator, q)
    BY <1>8 DEF Draining
  <2>2. OnlyData(q) /\ msc.outq = << >>
    BY <2>1 DEF ReadBooks, AllData, OnlyData
  <2>3. CommandUses(msc.inq) \in 0 .. 1
    BY <2>1, <2>2, UsesWithStatus
  <2>4. QED
    BY <2>2, <2>3, UsesOfOne
<1>9. QED
  BY <1>2, <1>3, <1>4, <1>5, <1>6, <1>7, <1>8 DEF MscInv, Inv, Serving

\* The request for commands and status is on one endpoint at a time, and a command that
\* is over leaves nothing behind.
THEOREM NothingIsLeftBehind ==
    ASSUME CommandsFit
    PROVE  MscSpec => []NothingLeftBehind
<1>1. MscInv => NothingLeftBehind
  <2> SUFFICES ASSUME MscInv PROVE NothingLeftBehind
    OBVIOUS
  <2>1. CommandUses(msc.inq) + CommandUses(msc.outq) <= 1
    <3>1. PICK i \in 0 .. 1 : i = CommandUses(msc.inq)
      BY UsesAreOne
    <3>2. PICK o \in 0 .. 1 : o = CommandUses(msc.outq)
      BY UsesAreOne
    <3>3. i = 0 \/ o = 0
      BY <3>1, <3>2, UsesAreOne
    <3>4. i + o <= 1
      BY <3>3
    <3>5. QED
      BY <3>1, <3>2, <3>4
  <2>2. initiator.phase = "idle" => Resting(msc) /\ msc.inq = << >>
    BY PhaseTells DEF MscInv, AtRest, Quiet, Resting, NoBlockRequest, BlockRequest
  <2>3. QED
    BY <2>1, <2>2 DEF NothingLeftBehind, CommandUses
<1>2. QED
  BY <1>1, MscSafe, PTL

-----------------------------------------------------------------------------
(* The buffers are accounted for.                                          *)

\* No request of the queue holds a buffer.
NoData(q) == \A i \in DOMAIN q : q[i].kind # "data"

LEMMA NoDataNoBlocks ==
    ASSUME NEW q, NoData(q)
    PROVE  InFlight(q) = 0 /\ Blocks(q) = 0
<1>1. DataRequests(q) = {}
  BY DEF NoData, DataRequests
<1>2. Slots(q) = {}
  BY <1>1 DEF Slots
<1>3. QED
  BY <1>1, <1>2, FS_EmptySet DEF InFlight, Blocks

\* What is said of the buffers, of any state of the device.
BooksOf(m) ==
    LET bd == Len(m.breq.list) + Len(m.breq.current)
    IN  /\ m.free + bd + Blocks(m.inq) + Blocks(m.outq) = NrLargeObjs
        /\ m.breq.op = "read" /\ ~ Resting(m) => m.blk_pending = bd
        /\ m.xfer_in_progress /\ m.cbw.op \in {"read", "write"} =>
              m.usb_pending = InFlight(m.inq) + InFlight(m.outq)

LEMMA BooksWhenQuiet ==
    ASSUME NEW m, Quiet(m), NoData(m.inq), NoData(m.outq)
    PROVE  BooksOf(m)
<1>1. InFlight(m.inq) = 0 /\ Blocks(m.inq) = 0 /\ InFlight(m.outq) = 0 /\ Blocks(m.outq) = 0
  BY NoDataNoBlocks
<1>2. /\ m.breq = NoBlockRequest /\ m.free = NrLargeObjs /\ m.usb_pending = 0
  BY DEF Quiet
<1>3. Len(m.breq.list) = 0 /\ Len(m.breq.current) = 0 /\ Resting(m)
  BY <1>2 DEF NoBlockRequest, BlockRequest, Resting
<1>4. NrLargeObjs + (0 + 0) + 0 + 0 = NrLargeObjs
  BY Constants
<1>5. QED
  BY <1>1, <1>2, <1>3, <1>4 DEF BooksOf

LEMMA BooksAreRight ==
    ASSUME MscInv
    PROVE  BooksOf(msc)
<1> DEFINE m == msc  h == initiator
<1>1. m \in MscState /\ h \in HostState
  BY DEF MscInv, Inv, Always
<1>2. NoData(<< >>) /\ NoData(<<Cbw>>) /\ NoData(<<Csw>>)
  BY DEF NoData, Cbw, Csw
<1>3. CASE AtRest(m, h) \/ Recovering(m, h)
  BY <1>2, <1>3, BooksWhenQuiet DEF AtRest, Recovering
<1>4. CASE Ending(m, h)
  BY <1>2, <1>4, BooksWhenQuiet DEF Ending
<1>5. CASE Answering(m, h)
  <2>1. PICK n \in 1 .. h.cmd.len : m.inq = <<Answer(n)>> \o StatusBehind(m)
    BY <1>5 DEF Answering
  <2>2. NoData(m.inq)
    <3>1. StatusBehind(m) = << >> \/ StatusBehind(m) = <<Csw>>
      BY DEF StatusBehind
    <3>2. PICK q \in Seq(UsbRequest) : q = <<Answer(n)>>
      <4>1. n \in Nat
        OBVIOUS
      <4>2. Answer(n) \in UsbRequest
        BY <4>1, AnswerIsNoData
      <4>3. <<Answer(n)>> \in Seq(UsbRequest)
        BY <4>2
      <4>4. QED
        BY <4>3
    <3>3. Len(q) = 1 /\ q[1].kind = "short"
      BY <3>2 DEF Answer
    <3>4. Csw \in UsbRequest /\ Csw.kind = "csw"
      BY EmptySeq DEF Csw, UsbRequest
    <3>5. q \o << >> = q
      OBVIOUS
    <3>6. DOMAIN (q \o <<Csw>>) = 1 .. 2 /\ (q \o <<Csw>>)[1] = q[1] /\ (q \o <<Csw>>)[2] = Csw
      <4>1. PICK r \in UsbRequest : r = Csw
        BY <3>4
      <4>2. PICK k \in Nat : k = Len(q)
        OBVIOUS
      <4>3. DOMAIN (q \o <<r>>) = 1 .. k + 1
        BY <4>2
      <4>4. (q \o <<r>>)[k + 1] = r
        BY <4>2
      <4>5. \A j \in 1 .. k : (q \o <<r>>)[j] = q[j]
        BY <4>2
      <4>6. k = 1 /\ k + 1 = 2 /\ 1 \in 1 .. k
        BY <3>3, <4>2
      <4>7. QED
        BY <4>1, <4>3, <4>4, <4>5, <4>6
    <3>7. NoData(q)
      BY <3>3 DEF NoData
    <3>8. NoData(q \o <<Csw>>)
      BY <3>3, <3>4, <3>6 DEF NoData
    <3>9. QED
      BY <2>1, <3>1, <3>2, <3>5, <3>7, <3>8
  <2>3. QED
    BY <1>2, <1>5, <2>2, BooksWhenQuiet DEF Answering
<1> DEFINE bd == Len(m.breq.list) + Len(m.breq.current)
<1>6. PICK l \in Nat : l = Len(m.breq.list)
  BY <1>1, QueuesAndLists
<1>7. PICK u \in Nat : u = Len(m.breq.current)
  BY <1>1, QueuesAndLists
<1>8. PICK f \in Nat : f = m.free
  BY <1>1, QueuesAndLists
<1>9. PICK i \in Nat : i = Blocks(m.inq)
  BY <1>1, QueuesAndLists
<1>10. PICK o \in Nat : o = Blocks(m.outq)
  BY <1>1, QueuesAndLists
<1>11. PICK x \in Nat : x = InFlight(m.inq)
  BY <1>1, QueuesAndLists
<1>12. PICK y \in Nat : y = InFlight(m.outq)
  BY <1>1, QueuesAndLists
<1>13. ASSUME f + (l + u) + i + o = NrLargeObjs, m.breq.op = "read" /\ ~ Resting(m) => m.blk_pending = l + u,
              m.cbw.op \in {"read", "write"} => m.usb_pending = x + y
       PROVE  BooksOf(m)
  BY <1>6, <1>7, <1>8, <1>9, <1>10, <1>11, <1>12, <1>13 DEF BooksOf
<1>14. CASE Writing(m, h)
  <2>1. i = 0 /\ x = 0
    BY <1>9, <1>11, <1>14, EmptyQueue DEF Writing
  <2>2. f + o + l + u = NrLargeObjs /\ m.usb_pending = y
    BY <1>6, <1>7, <1>8, <1>10, <1>12, <1>14 DEF Writing
  <2>3. f + (l + u) + i + o = NrLargeObjs /\ x + y = y
    BY <2>1, <2>2, Constants
  <2>4. m.breq.op # "read"
    BY <1>14 DEF Writing, Active
  <2>5. QED
    BY <1>13, <2>2, <2>3, <2>4
<1>15. CASE Verifying(m, h)
  <2>1. i = 0 /\ x = 0 /\ o = 0 /\ y = 0
    BY <1>9, <1>10, <1>11, <1>12, <1>15, EmptyQueue DEF Verifying
  <2>2. f + l + u = NrLargeObjs /\ m.usb_pending = 0
    BY <1>6, <1>7, <1>8, <1>15 DEF Verifying
  <2>3. f + (l + u) + i + o = NrLargeObjs /\ x + y = 0
    BY <2>1, <2>2, Constants
  <2>4. m.breq.op # "read"
    BY <1>15 DEF Verifying, Active
  <2>5. QED
    BY <1>13, <2>2, <2>3, <2>4
<1>16. CASE Reading(m, h)
  <2>1. o = 0 /\ y = 0
    BY <1>10, <1>12, <1>16, EmptyQueue DEF Reading, ReadBooks
  <2>2. f + i + l + u = NrLargeObjs /\ m.usb_pending = x
    BY <1>6, <1>7, <1>8, <1>9, <1>11, <1>16 DEF Reading, ReadBooks
  <2>3. f + (l + u) + i + o = NrLargeObjs /\ x + y = x
    BY <2>1, <2>2, Constants
  <2>4. m.blk_pending = l + u
    BY <1>6, <1>7, <1>16 DEF Reading
  <2>5. QED
    BY <1>13, <2>2, <2>3, <2>4
<1>17. CASE Draining(m, h)
  <2>1. m.breq.st = "idle" /\ l = 0 /\ u = 0
    BY <1>6, <1>7, <1>17 DEF Draining, NoBlockRequest, BlockRequest
  <2>2. f + i = NrLargeObjs /\ m.usb_pending = x
    BY <1>8, <1>9, <1>11, <2>1, BuffersAtRest DEF MscInv
  <2>3. o = 0 /\ y = 0
    BY <1>10, <1>12, <1>17, EmptyQueue DEF Draining, ReadBooks
  <2>4. f + (l + u) + i + o = NrLargeObjs /\ x + y = x
    BY <2>1, <2>2, <2>3, Constants
  <2>5. Resting(m)
    BY <2>1 DEF Resting
  <2>6. QED
    BY <1>13, <2>2, <2>4, <2>5
<1>18. QED
  BY <1>3, <1>4, <1>5, <1>14, <1>15, <1>16, <1>17 DEF MscInv, Inv, Serving

\* Every large buffer is in the pool, with the block device or on one endpoint, and what
\* is pending agrees with the queues.
THEOREM BuffersAreAccounted ==
    ASSUME CommandsFit
    PROVE  MscSpec => []BuffersAccounted
<1>1. MscInv => BuffersAccounted
  BY BooksAreRight DEF BooksOf, BuffersAccounted
<1>2. QED
  BY <1>1, MscSafe, PTL

-----------------------------------------------------------------------------
(* What the status says is true.                                           *)

LEMMA StatusFollowsData ==
    ASSUME CommandsFit, NoLongAnswers, MscInv, [MscNext]_mscVars,
           initiator.phase = "status", initiator'.phase = "idle", msc'.enabled
    PROVE  Passed(msc, initiator) /\ initiator.cmd \in Command
<1>1. msc \in MscState /\ initiator \in HostState /\ Serving(msc, initiator)
  BY PhaseTells DEF MscInv, Inv, Always
<1>2. msc.inq # << >>
  <2>1. CASE InTransfer
    BY <2>1 DEF InTransfer
  <2>2. CASE StatusStalled
    BY <1>1, <2>2 DEF StatusStalled, HostState
  <2>3. CASE udi_msc_disable
    <3>1. msc' = [Flushed(msc_queue_empty(msc)) EXCEPT !.enabled = FALSE, !.halted = {},
                                                       !.wedged = FALSE]
      BY <2>3 DEF udi_msc_disable
    <3>2. ~ msc'.enabled
      BY <1>1, <3>1 DEF Flushed, msc_queue_empty, MscState
    <3>3. QED
      BY <3>2
  <2>4. CASE BdTransfer
    BY <1>1, <2>4 DEF BdTransfer, HostState
  <2>5. ~ OutTransfer /\ ~ DataStalled /\ ~ HostInvalidCommand
    BY DEF OutTransfer, DataStalled, HostInvalidCommand
  <2>6. ~ \E c \in Command, tag \in {1, 2} : HostCommand(c, tag)
    BY DEF HostCommand
  <2>7. ~ BulkReset
    BY DEF BulkReset, CommandsFit
  <2>8. ~ udi_msc_enable /\ ~ udi_msc_set_busy /\ ~ udi_msc_set_ready /\ ~ BdPageDone
    BY DEF udi_msc_enable, udi_msc_set_busy, udi_msc_set_ready, BdPageDone
  <2>9. ~ UNCHANGED mscVars
    BY DEF mscVars
  <2>10. QED
    BY <2>1, <2>2, <2>3, <2>4, <2>5, <2>6, <2>7, <2>8, <2>9
       DEF MscNext, CommandGoesOn, BlockDevice
<1>3. Served(msc, initiator)
  BY <1>1 DEF Serving
<1>4. Ending(msc, initiator)
  <2>1. ~ Answering(msc, initiator)
    BY DEF Answering
  <2>2. ~ Writing(msc, initiator) /\ ~ Verifying(msc, initiator)
    BY <1>2 DEF Writing, Verifying
  <2>3. ~ Reading(msc, initiator) /\ ~ Draining(msc, initiator)
    BY DEF Reading, Draining, ReadBooks
  <2>4. QED
    BY <1>1, <2>1, <2>2, <2>3 DEF Serving
<1>5. QED
  BY <1>3, <1>4 DEF Ending, Served

\* A command that passes has moved the blocks it names, each once and in order, and the
\* residue is what the host asked for and did not move.
THEOREM StatusIsTrue ==
    ASSUME CommandsFit, NoLongAnswers
    PROVE  MscSpec => DataIsWhatWasAsked
<1> DEFINE c == initiator.cmd
<1>1. ASSUME MscInv, [MscNext]_mscVars, initiator.phase = "status", initiator'.phase = "idle",
             msc'.enabled, msc.csw.status = "pass"
      PROVE  /\ msc.csw.residue = c.len - initiator.moved
             /\ c.op = "read" => initiator.got = [i \in 1 .. c.count |-> c.lba + i - 1]
             /\ c.op = "write" => initiator.stored = {<<c.lba + i - 1, i>> : i \in 1 .. c.count}
  <2>1. Passed(msc, initiator) /\ c \in Command
    BY <1>1, StatusFollowsData
  <2>2. ~ LongAnswer(c)
    BY <2>1 DEF NoLongAnswers
  <2>3. /\ msc.csw.residue + initiator.moved = c.len
        /\ c.op = "read" => initiator.got = Run(c.lba, c.count)
        /\ c.op = "write" => initiator.stored = {<<c.lba + i - 1, i>> : i \in 1 .. c.count}
    BY <1>1, <2>1, <2>2 DEF Passed
  <2>4. msc.csw.residue = c.len - initiator.moved
    <3>1. PICK r \in Nat : r = msc.csw.residue
      BY <1>1 DEF MscInv, Inv, Always, MscState, Status
    <3>2. PICK w \in Nat : w = initiator.moved
      BY <1>1 DEF MscInv, Inv, Always, HostState
    <3>3. (r + w) - w = r
      OBVIOUS
    <3>4. QED
      BY <2>3, <3>1, <3>2, <3>3
  <2>5. QED
    BY <2>3, <2>4 DEF Run
<1>2. MscInv /\ [MscNext]_mscVars =>
        [/\ initiator.phase = "status" /\ initiator'.phase = "idle" /\ msc'.enabled
         /\ msc.csw.status = "pass"
         => /\ msc.csw.residue = c.len - initiator.moved
            /\ c.op = "read" => initiator.got = [i \in 1 .. c.count |-> c.lba + i - 1]
            /\ c.op = "write" => initiator.stored = {<<c.lba + i - 1, i>> : i \in 1 .. c.count}]_mscVars
  BY <1>1
<1>3. QED
  BY <1>2, MscSafe, PTL DEF MscSpec, DataIsWhatWasAsked
=============================================================================
