--------------------------- MODULE MCWorkqueueIrq ---------------------------
(* Interrupted work queue calls: two tasks, one nested queue.              *)
EXTENDS WorkqueueIrq

CONSTANTS t1, t2, main, spi

MCTask == {t1, t2}
MCList == {main, spi}
=============================================================================
