--------------------------- MODULE MCThreadWaiter ---------------------------
(* Model values and sets for TLC: three threads, any of which may call any *)
(* method, so that two can wait while a third releases or resets, and two  *)
(* can release while a third waits.                                        *)
EXTENDS ThreadWaiter

(* A count that makes release() raise takes two calls and no lock. *)
CallsWithAndWithout == [lock \in BOOLEAN |-> IF lock THEN 4 ELSE 2]

AllOps == {"wait", "timedWait", "release", "reset"}
=============================================================================
