--------------------------- MODULE MCMassStorage ---------------------------
(* A few commands of each kind: transfers that need more buffers than there *)
(* are, that begin in the middle of a page, that move less than the host   *)
(* asks for, that go the wrong way.                                        *)
EXTENDS MassStorage

Cmd(op, in, len, lba, count) ==
    [op |-> op, in |-> in, len |-> len, lba |-> lba, count |-> count, resp |-> 2]

\* Reads that move less than the host asks for have their data in one request.
MCCommand ==
    {Cmd("read", TRUE, n, a, n) : n \in {1, 2, 5, 6}, a \in {0, 1}} \cup
    {Cmd("write", FALSE, n, a, n) : n \in {1, 2, 5, 6}, a \in {0, 1}} \cup
    {Cmd("read", TRUE, 3, 1, 1), Cmd("read", TRUE, 3, 0, 2), Cmd("read", TRUE, 2, 0, 0),
     Cmd("read", TRUE, 0, 0, 0), Cmd("read", FALSE, 1, 0, 1), Cmd("read", TRUE, 1, 0, 2),
     Cmd("write", FALSE, 5, 1, 3), Cmd("write", FALSE, 2, 0, 0),
     Cmd("write", TRUE, 1, 0, 1), Cmd("write", FALSE, 1, 0, 2), Cmd("write", FALSE, 0, 0, 1),
     Cmd("verify", FALSE, 0, 0, 0), Cmd("verify", FALSE, 0, 1, 5), Cmd("verify", FALSE, 1, 0, 3),
     Cmd("verify", TRUE, 1, 0, 1),
     Cmd("info", TRUE, 2, 0, 2), Cmd("info", TRUE, 4, 0, 3), Cmd("info", TRUE, 1, 0, 1),
     Cmd("info", TRUE, 2, 0, 0), Cmd("info", FALSE, 2, 0, 2),
     Cmd("mode", TRUE, 3, 0, 3), Cmd("mode", TRUE, 2, 0, 2), Cmd("mode", TRUE, 1, 0, 0),
     Cmd("ready", FALSE, 0, 0, 0), Cmd("ready", TRUE, 1, 0, 0),
     Cmd("bad", FALSE, 0, 0, 0), Cmd("bad", FALSE, 2, 0, 0)}

ASSUME MCCommandsFit == CommandsFit /\ NoLongAnswers
=============================================================================
