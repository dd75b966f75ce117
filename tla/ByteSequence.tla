---------------------------- MODULE ByteSequence ----------------------------
(* What a buffer is to its user: a sequence of bytes and a pointer into    *)
(* it.  Every operation is a function of the two; the kind of buffer only  *)
(* decides which of them it supports.  A view is [bytes, pointer].         *)
EXTENDS Integers, Sequences

Left(v) == Len(v.bytes) - v.pointer
Has(v, n) == IF n < 0 THEN -n <= v.pointer ELSE n <= Left(v)
Move(v, n) == [v EXCEPT !.pointer = @ + n]
Ahead(v, n) == SubSeq(v.bytes, v.pointer + 1, v.pointer + n)

\* Where seq begins, counted from the pointer.
Places(v, seq) == {i \in 0 .. Left(v) - Len(seq) : Ahead(Move(v, i), Len(seq)) = seq}
IsFirst(i, v, seq) == i \in Places(v, seq) /\ \A j \in Places(v, seq) : i <= j

Appended(v, data) == [v EXCEPT !.bytes = @ \o data]
Inserted(v, data, i) ==
  LET at == IF i <= Len(v.bytes) THEN i ELSE Len(v.bytes)
  IN [v EXCEPT !.bytes = SubSeq(@, 1, at) \o data \o SubSeq(@, at + 1, Len(@))]
Overwritten(v, data, i) ==
  [v EXCEPT !.bytes = SubSeq(@, 1, i) \o data \o SubSeq(@, i + Len(data) + 1, Len(@))]
Replaced(data) == [bytes |-> data, pointer |-> 0]
Rest(v) == [bytes |-> Ahead(v, Left(v)), pointer |-> 0]
=============================================================================
