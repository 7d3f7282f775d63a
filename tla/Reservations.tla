---------------------------- MODULE Reservations ----------------------------
(***************************************************************************)
(* What a resource manager promises its displays: the blocks of a display  *)
(* that is on change only when that display itself is switched, and no     *)
(* switch takes a block from another display.  A display that is off may   *)
(* take blocks ahead of time and give them back.                           *)
(***************************************************************************)
CONSTANTS Displays, Blocks, None

VARIABLES holder, \* the display that holds each block, if any
          on      \* the displays that are on

vars == <<holder, on>>

Init ==
    /\ holder \in [Blocks -> Displays \cup {None}]
    /\ on \in [Displays -> BOOLEAN]

\* blocks change hands only between the display and nobody
Moves(d) ==
    \A b \in Blocks : holder'[b] # holder[b] => {holder[b], holder'[b]} = {d, None}

\* the display is off: it takes blocks, or gives some back
Prepare(d) == ~on[d] /\ UNCHANGED on /\ Moves(d)

\* the display is switched on, or to another mode
SwitchOn(d) == on' = [on EXCEPT ![d] = TRUE] /\ Moves(d)

\* the display is switched off; it gives all its blocks back or keeps all
SwitchOff(d) ==
    /\ on' = [on EXCEPT ![d] = FALSE]
    /\ holder' \in {holder, [b \in Blocks |-> IF holder[b] = d THEN None ELSE holder[b]]}

Next == \E d \in Displays : Prepare(d) \/ SwitchOn(d) \/ SwitchOff(d)
Spec == Init /\ [][Next]_vars
=============================================================================
