--------------------------- MODULE MCCircularBuffer ---------------------------
(***************************************************************************)
(* An instance of CircularBuffer for TLC.  The deployed buffers have 256   *)
(* slots of bytes, packets of up to 255 elements and cursors modulo 2^32   *)
(* (FreeRTOS-Demo/ccf-config.cpp:7-11); the run keeps the ratios -- a      *)
(* packet of the largest size fills the buffer with its length slot, and a *)
(* byte just holds the largest length -- on a handful of slots, and lets   *)
(* the cursors wrap after two turns of the buffer.                         *)
(***************************************************************************)
EXTENDS CircularBuffer

TwoValues == {0, 3}
=============================================================================
