--------------------------- MODULE MCDurableSiphon ---------------------------
(* A small instance of DurableSiphon for TLC. *)
EXTENDS DurableSiphon, TLC

CONSTANTS k1, k2, k3, k4, c1, c2

Entry(k, network, stream, resolves) ==
  [key |-> k, envelope |-> [network |-> network, stream |-> stream, resolves |-> resolves]]

\* Two wanted events, one of another network, and the resolution of a conflict
\* about the first, which is of no wanted stream.
MCArrivals ==
  { Entry(k1, "home", "notes", NoKey), Entry(k2, "home", "notes", NoKey),
    Entry(k3, "work", "notes", NoKey), Entry(k4, "home", "resolutions", k1) }

MCSymmetry == Permutations(Consumers)
=============================================================================
