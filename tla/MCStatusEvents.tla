--------------------------- MODULE MCStatusEvents ---------------------------
(* Small instances of StatusEvents for TLC. *)
EXTENDS StatusEvents

CONSTANTS s1, s2

Lamp(color, lit) == [color |-> color, lit |-> lit]

\* Work and its completion, with and without a dark lamp, and the lamps that
\* tell read states apart.
DoneLamps == {Lamp("blue", TRUE), Lamp("green", TRUE)}
WorkLamps == DoneLamps \cup {Lamp("white", FALSE)}
ReadLamps == WorkLamps \cup {Lamp("white", TRUE), Lamp("foreign", TRUE)}

\* Frames that mention one slot, or the first slot only.
OneSlot == {{s} : s \in Slots}
FirstSlot == {{s1}}

SlotSymmetry == Permutations(Slots)

=============================================================================
