----------------------------- MODULE MCSdkClient -----------------------------
(* A small instance of SdkClient for TLC. *)
EXTENDS SdkClient

CONSTANTS note, tail

MCConnections == 1..4
=============================================================================
