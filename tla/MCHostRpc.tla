------------------------------- MODULE MCHostRpc -------------------------------
(***************************************************************************)
(* Two sequence numbers for three calls by two callers, so that a number   *)
(* is used again.  Packets of two bytes and a delimiter, which can be torn *)
(* and run together, and a buffer that two of them overfill.               *)
(***************************************************************************)
EXTENDS HostRpc
=============================================================================
