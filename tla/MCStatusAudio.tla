---------------------------- MODULE MCStatusAudio ---------------------------
(* Small instances of StatusAudio for TLC. *)
EXTENDS StatusAudio

TwoChats == {"s1", "s2"}
OneCue == {"done"}

=============================================================================
