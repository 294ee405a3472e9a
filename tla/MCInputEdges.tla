---------------------------- MODULE MCInputEdges ----------------------------
(* Small instances of InputEdges for TLC. *)
EXTENDS InputEdges

UsbThenBle == <<"usb", "ble">>
TwoRows == <<<<"digit", "enter", "settings">>, <<"arrow", "esc", "space">>>>
=============================================================================
