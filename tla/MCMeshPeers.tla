----------------------------- MODULE MCMeshPeers -----------------------------
(* A small instance of MeshPeers for TLC. *)
EXTENDS MeshPeers

CONSTANTS p1, c1, h1
=============================================================================
