-------------------------------- MODULE Gate --------------------------------
(***************************************************************************)
(* What threads.ThreadWaiter promises while reset() is not used: a gate    *)
(* that opens once.  Threads that arrive at a closed gate are held; nobody *)
(* who is held gets through before the gate is open, and only those who    *)
(* came with a time limit give up; an open gate stays open.                *)
(***************************************************************************)
CONSTANT Threads

VARIABLES
  open,     \* release() has been called
  place     \* where each thread is, or how its last visit ended

vars == <<open, place>>

Held == {"held", "heldForTime"}

Init == open = FALSE /\ place = [t \in Threads |-> "away"]

Move(t, to) == place' = [place EXCEPT ![t] = to]

Arrive(t) ==
  /\ ~open
  /\ place[t] \notin Held
  /\ \E h \in Held : Move(t, h)
  /\ UNCHANGED open

Pass(t) ==
  /\ open
  /\ Move(t, "passed")
  /\ UNCHANGED open

GiveUp(t) ==
  /\ place[t] = "heldForTime"
  /\ Move(t, "gaveUp")
  /\ UNCHANGED open

Leave(t) ==
  /\ place[t] \notin Held
  /\ Move(t, "away")
  /\ UNCHANGED open

Open ==
  /\ open' = TRUE
  /\ UNCHANGED place

Next == Open \/ \E t \in Threads : Arrive(t) \/ Pass(t) \/ GiveUp(t) \/ Leave(t)

Spec == Init /\ [][Next]_vars
=============================================================================
