---------------------------- MODULE MCProgressBar ----------------------------
(* Two bars, one of which is kept, or is empty, and two threads.            *)
EXTENDS ProgressBar

CONSTANTS kept, erased, p, q

MCEmpties == {{}, {erased}}
=============================================================================
