------------------------------ MODULE MCTouch ------------------------------
(* The panel of the boards, with samples of four bits in place of twelve   *)
(* and ints of 16 bits in place of 32.  In some orders of three of these   *)
(* places a constant of the matrix overflows; of <<15, 11>>, <<2, 2>> and  *)
(* <<2, 15>> what is divided in the end does.                              *)
EXTENDS Touch

MCSize == <<320, 240>>
MCPlaces == {<<15, 11>>, <<2, 11>>, <<2, 2>>, <<2, 15>>}
=============================================================================
