------------------------------ MODULE MCLaunches ------------------------------
(* Launches over a few launches, for TLC. *)
EXTENDS Launches
=============================================================================
