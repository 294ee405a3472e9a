--------------------------- MODULE MCHostSurface ---------------------------
(* Small instances of HostSurface for TLC. *)
EXTENDS HostSurface

\* Two chats: both read, one of them unread, one without a lamp.
TwoChats == {<<"white", "white">>, <<"green", "white">>, <<"green", "dark">>}

\* A value in colours of its own, and one in those of the chats.
TwoValues == {<<"foreign", "dark">>, <<"green", "white">>}

=============================================================================
