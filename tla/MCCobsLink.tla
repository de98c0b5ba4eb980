------------------------------ MODULE MCCobsLink ------------------------------
(***************************************************************************)
(* Runs of at most two bytes in place of 254, over packets long enough for *)
(* two full runs and a rest; a byte is then 0..3, of which packets use the *)
(* zero, a byte that is also a header of a full run, and one that is not.  *)
(***************************************************************************)
EXTENDS CobsLink

Bits == {0, 3}
=============================================================================
