------------------------------- MODULE EventFifo -------------------------------
(***************************************************************************)
(* What a caller of s2_EventAwait may expect of the event queue: every key *)
(* event, once, in the order of the key strokes.  Events are numbered.     *)
(***************************************************************************)
EXTENDS Naturals, Sequences

CONSTANT MaxEvents   \* bound: events put

VARIABLES waiting, taken

vars == <<waiting, taken>>

Init == waiting = <<>> /\ taken = <<>>

Put ==
  /\ Len(taken) + Len(waiting) < MaxEvents
  /\ waiting' = Append(waiting, Len(taken) + Len(waiting) + 1)
  /\ UNCHANGED taken

Take ==
  /\ waiting # <<>>
  /\ taken' = Append(taken, Head(waiting))
  /\ waiting' = Tail(waiting)

Next == Put \/ Take

Spec == Init /\ [][Next]_vars /\ WF_vars(Take)
=============================================================================
