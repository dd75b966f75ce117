------------------------ MODULE MCProtocolConnection ------------------------
(* A stream with a frame of each kind, one of them cut in the middle by    *)
(* recv() (an "inner" frame goes the way of a "data" frame and is left     *)
(* out), an application thread that makes two calls of sendData() or       *)
(* close(), and a receiver whose callbacks may do the same.                *)
EXTENDS ProtocolConnection

F(k, n) == [kind |-> k, end |-> n]
MixedFrames == <<F("data", 2), F("stop", 3), F("bad", 4)>>
=============================================================================
