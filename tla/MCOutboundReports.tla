-------------------------- MODULE MCOutboundReports -------------------------
(* Small instances of OutboundReports for TLC. *)
EXTENDS OutboundReports

\* What the device sends: keys, which are kept for a retry when refused, single
\* reports that are not, and responses of two reports.
AllOutput == {"key", "direct", "response"}

\* USB alone or BLE alone, which is lost and comes back once.
Quota(u, b) == [t \in Transports |-> IF t = "usb" THEN u ELSE b]
OnePlug == {Quota(2, 0), Quota(0, 2)}

=============================================================================
