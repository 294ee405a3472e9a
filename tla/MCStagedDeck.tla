---------------------------- MODULE MCStagedDeck ----------------------------
(* Small instances of StagedDeck for TLC. *)
EXTENDS StagedDeck

CONSTANTS t1, t2

Item(id, status) == [id |-> id, status |-> status]

\* Both orders of two threads at work or done, one thread alone, and none.
SomeDecks ==
  {<<>>, <<Item(t1, "done")>>}
    \cup {<<Item(t1, a), Item(t2, b)>> : a, b \in {"running", "done"}}
    \cup {<<Item(t2, a), Item(t1, b)>> : a, b \in {"running", "done"}}

=============================================================================
