-------------------------------- MODULE MCCcf --------------------------------
(***************************************************************************)
(* Instances of Ccf for TLC.  Lengths are scaled so that rxBuf holds one   *)
(* request and part of a second, txBuf two messages and part of a third:   *)
(* both overflow.  Messages as Sent has them never fill txBuf exactly (3   *)
(* slots each, of 8); as in Filling, two responses or log messages do.     *)
(***************************************************************************)
EXTENDS Ccf

Requested == [ok |-> 2, fails |-> 2, corrupt |-> 2, short |-> 1]
Sent == [response |-> 2, error |-> 2, log |-> 2]
Filling == [response |-> 3, error |-> 2, log |-> 3]
=============================================================================
