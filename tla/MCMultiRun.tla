----------------------------- MODULE MCMultiRun -----------------------------
(* Small instances of MultiRun for TLC. *)
EXTENDS MultiRun

TwoClusters == 1..2

=============================================================================
