------------------------------ MODULE EdgeQueue ------------------------------
(***************************************************************************)
(* What a queue of key edges promises (the comment of                      *)
(* input_event_queue.h: "a release always evicts a droppable down event    *)
(* instead"), told of the edges that may not be dropped. It is offered     *)
(* them one by one and hands them on in the order they came. A press is    *)
(* refused only when there is no room; a release never is. An edge that is *)
(* queued is sacrificed, the oldest first, only to a release, and only     *)
(* when nothing droppable could make room.                                 *)
(***************************************************************************)
EXTENDS Sequences

CONSTANT Keys

VARIABLES
  kept,    \* edges that wait and may not be dropped, oldest first
  coming,  \* such edges that a scan has found and the queue has not been offered
  room     \* "some", "droppable": a droppable edge could make it, or "none"

Rooms == {"some", "droppable", "none"}

Down(k) == [key |-> k, down |-> TRUE]
Up(k) == [key |-> k, down |-> FALSE]

Init == kept = <<>> /\ coming = <<>> /\ room = "some"

\* A scan, when the edges of the last one have been dealt with.
Found ==
  /\ coming = <<>>
  /\ coming' \in Seq([key : Keys, down : BOOLEAN])
  /\ UNCHANGED <<kept, room>>

Offered(e) ==
  /\ coming # <<>> /\ Head(coming) = e
  /\ coming' = Tail(coming)
  /\ room' \in Rooms

Press(k) ==
  /\ Offered(Down(k))
  /\ \/ room = "some" /\ kept' = Append(kept, Down(k))
     \/ room # "some" /\ kept' = kept

Release(k) ==
  /\ Offered(Up(k))
  /\ \/ room # "none" /\ kept' = Append(kept, Up(k))
     \/ room = "none" /\ kept' = Append(Tail(kept), Up(k))

Take ==
  /\ kept # <<>> /\ kept' = Tail(kept)
  /\ room' = "some"
  /\ UNCHANGED coming

\* A droppable edge comes or goes.
Droppable ==
  /\ room # "none" /\ room' # "none"
  /\ UNCHANGED <<kept, coming>>

Next ==
  \/ Found
  \/ \E k \in Keys : Press(k) \/ Release(k)
  \/ Take
  \/ Droppable

vars == <<kept, coming, room>>
Spec == Init /\ [][Next]_vars
=============================================================================
