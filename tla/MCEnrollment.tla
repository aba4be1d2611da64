---------------------------- MODULE MCEnrollment ----------------------------
(* A small instance of Enrollment for TLC: two devices and two users of the first. *)
EXTENDS Enrollment

CONSTANTS d1, d2, u1, u2

MCHome == [u \in Operators |-> d1]
=============================================================================
