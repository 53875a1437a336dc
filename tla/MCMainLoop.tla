----------------------------- MODULE MCMainLoop -----------------------------
(* The main loop on a small instance: two tasks, a nested queue.           *)
EXTENDS MainLoop

CONSTANTS t1, t2, main, spi

MCTask == {t1, t2}
MCList == {main, spi}
MCSoftirqId == {0, 1}
=============================================================================
