---------------------------- MODULE MCDataflash ----------------------------
(* Two requests on a chip of two pages.                                    *)
EXTENDS Dataflash

CONSTANTS r1, r2

MCReq == {r1, r2}
MCClient == MCReq \cup {"detect"}
MCOtherTask == {"event"}
MCBuffer == MCReq \X (1 .. MaxLen)
\* Whole pages, parts of pages, both in one request, overlapping the other's.
MCRanges == [r \in MCReq |-> IF r = r1 THEN {<<0, 3>>, <<1, 3>>, <<0, 1>>, <<3, 1>>}
                                     ELSE {<<0, 2>>, <<1, 2>>}]
MCValue == (MCReq \X (1 .. MaxLen)) \cup ({NULL} \X (0 .. Pages * PageBlocks))
=============================================================================
