---------------------------- MODULE FrameChannel ----------------------------
(***************************************************************************)
(* What a protocol.ProtocolConnection promises to the code above it: the   *)
(* frames the peer sent are handled one at a time, each once, in order and *)
(* along its own path, and the close listeners hear of the end of the      *)
(* connection once, with a cause.  A frame whose handling had begun when   *)
(* another thread closed the connection is still handled; no second one    *)
(* is.                                                                     *)
(***************************************************************************)
EXTENDS Naturals, Sequences

CONSTANTS
  Paths,    \* Paths[f]: the way the f-th frame of the stream takes
  Causes    \* the causes a connection can be closed with

VARIABLES
  handled,    \* what has been handled, as <<frame, path>>
  closed,
  late,       \* frames handled since the connection was closed
  notified    \* the causes the close listeners were told

vars == <<handled, closed, late, notified>>

Init ==
  /\ handled = <<>>
  /\ late = 0
  /\ \/ closed = FALSE /\ notified = <<>>
     \/ closed = TRUE /\ \E c \in Causes : notified = <<c>>

Handle ==
  /\ closed => late = 0
  /\ late' = IF closed THEN late + 1 ELSE late
  /\ LET f == Len(handled) + 1 IN
       /\ f \in DOMAIN Paths
       /\ handled' = Append(handled, <<f, Paths[f]>>)
  /\ UNCHANGED <<closed, notified>>

Close ==
  /\ ~closed
  /\ closed' = TRUE
  /\ UNCHANGED <<handled, late, notified>>

Notify ==
  /\ closed
  /\ notified = <<>>
  /\ \E c \in Causes : notified' = <<c>>
  /\ UNCHANGED <<handled, closed, late>>

Next == Handle \/ Close \/ Notify

Spec == Init /\ [][Next]_vars
=============================================================================
