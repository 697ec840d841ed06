----------------------------- MODULE MCReception -----------------------------
(* Instances of Reception for TLC. *)
EXTENDS Reception
=============================================================================
