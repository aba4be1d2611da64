----------------------------- MODULE MCRegistry -----------------------------
(* A small instance of Registry for TLC. *)
EXTENDS Registry, TLC

CONSTANTS archive, c1, c2

Consumer(selection, retries) ==
  [kind |-> "consumer", selection |-> selection, enabled |-> TRUE, once |-> FALSE,
   retries |-> retries]
Source == [kind |-> "source", selection |-> None, enabled |-> TRUE, once |-> TRUE, retries |-> TRUE]

\* A consumer whose selection is edited, and that becomes a source.
MCSnapshots ==
  { archive :> Consumer("notes", TRUE), archive :> Consumer("tasks", FALSE), archive :> Source }
=============================================================================
