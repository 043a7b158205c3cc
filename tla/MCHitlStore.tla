------------------------------ MODULE MCHitlStore ------------------------------
(* A small instance of HitlStore for TLC. *)
EXTENDS HitlStore

CONSTANTS a1, c1, c2
=============================================================================
