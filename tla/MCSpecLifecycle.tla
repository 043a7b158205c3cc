---------------------------- MODULE MCSpecLifecycle ----------------------------
(* A small instance of SpecLifecycle for TLC. *)
EXTENDS SpecLifecycle

CONSTANTS s1, c1

MCItem == {"conflict", "completion", "test_failure"} \X {s1}
=============================================================================
