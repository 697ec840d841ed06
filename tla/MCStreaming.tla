------------------------------ MODULE MCStreaming ------------------------------
(* The instance of Streaming that TLC checks: the two devices are alike. *)
EXTENDS Streaming, TLC

Alike == Permutations(Devices)
=============================================================================
