---------------------------- MODULE MCUsbControl ----------------------------
(* Descriptors of no packet and of one to three, ended by a short packet or *)
(* by an empty one, and one of each other request.                         *)
EXTENDS UsbControl

R(req, value) == [req |-> req, value |-> value, short |-> FALSE]

MCRequest ==
    {R("get_descriptor", 0), R("get_descriptor", 1), R("get_descriptor", 2),
     R("get_descriptor", 3),
     [req |-> "get_descriptor", value |-> 2, short |-> TRUE],
     R("get_status", 0), R("clear_feature", 0), R("class", 0), R("bad", 0),
     R("set_configuration", 0), R("set_configuration", 1), R("set_configuration", 2),
     R("set_interface", 0)}
    \cup {R("set_address", a) : a \in 1 .. MaxAddress}
=============================================================================
