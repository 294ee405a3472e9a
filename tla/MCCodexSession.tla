--------------------------- MODULE MCCodexSession ---------------------------
(* Small instances of CodexSession for TLC. *)
EXTENDS CodexSession

\* USB connects, is lost and connects again; BLE connects once.
LongUsb == [s \in Transports |-> IF s = Usb THEN 4 ELSE 2]

\* USB connects, or is turned off; BLE connects and is lost, or its bonds are
\* forgotten, or both.
ShortUsb == [s \in Transports |-> IF s = Usb THEN 2 ELSE 3]

=============================================================================
