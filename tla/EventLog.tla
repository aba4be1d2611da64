------------------------------ MODULE EventLog ------------------------------
(***************************************************************************)
(* What the daemon's event store promises to everything built on it        *)
(* (durable siphons, live subscriptions, mesh synchronization): a          *)
(* daemon-local, append-only log of immutable envelopes in which every     *)
(* network/event ID arrives at most once, numbered 1, 2, 3, ... without a  *)
(* gap, and which a crash never shortens.                                  *)
(*                                                                         *)
(* EventStore implements this module; DurableSiphon consumes such a log.   *)
(***************************************************************************)
EXTENDS Naturals, Sequences

CONSTANTS Keys,       \* network/event ID pairs
          Envelopes   \* immutable event envelopes

VARIABLE log          \* log[s] is the event with arrival sequence number s

Entries == [key : Keys, envelope : Envelopes]

Init == log = <<>>

\* An event whose ID is not stored yet takes the next arrival number.
Arrive(e) ==
  /\ \A s \in 1..Len(log) : log[s].key # e.key
  /\ log' = Append(log, e)

Next == \E e \in Entries : Arrive(e)

Spec == Init /\ [][Next]_log
=============================================================================
