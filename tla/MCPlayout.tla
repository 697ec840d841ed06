------------------------------ MODULE MCPlayout ------------------------------
(* Instances of PlayoutStream for TLC. *)
EXTENDS PlayoutStream
=============================================================================
