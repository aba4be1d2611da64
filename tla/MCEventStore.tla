---------------------------- MODULE MCEventStore ----------------------------
(* A small instance of EventStore for TLC. *)
EXTENDS EventStore, TLC

CONSTANTS k1, k2, k3, b1, b2, self, peer, w1, w2

Remote(k, b, device, phys, logical) ==
  [key |-> k, envelope |-> [body |-> b, occurred |-> 1, origin |-> device,
                            at |-> [phys |-> phys, log |-> logical]]]

\* k1 from a clock ahead of ours and at its last counter; k1 with another
\* counter, so that its retry is refused; k2 from a clock level with ours; k3 as a
\* recovered copy of an event of this very device.
MCRemoteEvents ==
  { Remote(k1, b1, peer, 2, MaxLogical), Remote(k1, b1, peer, 2, 0),
    Remote(k2, b1, peer, 1, 1), Remote(k3, b1, self, 1, 0) }

Request(k, b, given) == [key |-> k, body |-> b, given |-> given]

\* Retries that match, that differ in body and in occurredAt.
MCRequests ==
  { Request(k1, b1, NotGiven), Request(k1, b2, NotGiven), Request(k1, b1, 2),
    Request(k2, b1, NotGiven), Request(k3, b1, 2) }

MCSymmetry == Permutations(Workers)
=============================================================================
