---------------------------- MODULE MCFreeRtosDemo ----------------------------
(***************************************************************************)
(* Instances of FreeRtosDemo for TLC: messages of two bytes, of which      *)
(* txBuf holds two and part of a third, so that it overflows; rxBuf holds  *)
(* one request and part of a second.                                       *)
(***************************************************************************)
EXTENDS FreeRtosDemo

Requested == [ok |-> 2, fails |-> 2, corrupt |-> 2, short |-> 1]
Sent == [response |-> 2, error |-> 2, log |-> 2]
=============================================================================
