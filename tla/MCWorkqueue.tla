---------------------------- MODULE MCWorkqueue ----------------------------
(* Work queues on a small instance: three tasks, two nested queues.        *)
EXTENDS Workqueue

CONSTANTS t1, t2, t3, main, spi, twi

MCTask == {t1, t2, t3}
MCList == {main, spi, twi}
=============================================================================
