--------------------------- MODULE MCHostChannel ----------------------------
(* Small instances of HostChannel for TLC. *)
EXTENDS HostChannel

=============================================================================
