--------------------------- MODULE SlidingWindow ---------------------------
(***************************************************************************)
(* What the DCC expects of its measurement buffers: the Size most recent   *)
(* measurements, oldest first, and nothing older.  DCC::updateState takes  *)
(* the minimum and the maximum of such a window as the channel load of the *)
(* last NDL_timeUp and NDL_timeDown seconds.                               *)
(***************************************************************************)
EXTENDS Integers, Sequences

CONSTANTS Value,  \* the measurements
          Size    \* how many measurements the window spans

VARIABLE window

Init == window = << >>

Record(o) ==
  window' = Append(IF Len(window) < Size THEN window ELSE Tail(window), o)

Next == \E o \in Value : Record(o)

Spec == Init /\ [][Next]_window

=============================================================================
