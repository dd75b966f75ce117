----------------------------- MODULE WSMessages -----------------------------
(***************************************************************************)
(* protocol.WS.WSMessage: the frame of a WebSocket message.  The payload   *)
(* is its length and whether its bytes are as they were meant, "clear", or *)
(* combined with the masking key, which applied twice does nothing; the    *)
(* frame is its head, byte by byte, and as many bytes as the payload has.  *)
(***************************************************************************)
EXTENDS Integers, Sequences, BonStorage

Opcodes == {0, 1, 2, 8, 9, 10}   \* WSOpcode

Message(isFin, opcode, isMasked, length, payload) ==
  [isFin |-> isFin, opcode |-> opcode, isMasked |-> isMasked, length |-> length,
   payload |-> payload]

(* The code asserts that the length is one of eight bytes. *)
IsMessage(m) ==
  /\ m \in [isFin : BOOLEAN, opcode : Opcodes, isMasked : BOOLEAN, length : Nat,
            payload : {"clear", "masked"}]
  /\ (m.length \div 2 ^ 30) \div 2 ^ 30 < 16

mask(payload) == IF payload = "clear" THEN "masked" ELSE "clear"

(* As if seven bits held every length below 127. *)
lenBytes126(length) ==
  IF length <= 126 THEN 1 ELSE IF length <= 65535 THEN 2 ELSE 8

lenBytes(length) ==
  IF length <= 125 THEN 1 ELSE IF length <= 65535 THEN 2 ELSE 8

maskingKey == <<7, 7, 7, 7>>

(* write() takes the payload as it is: who masks it is the caller. *)
writeMessage(m) ==
  LET size == lenBytes(m.length) IN
  <<(IF m.isFin THEN 128 ELSE 0) + m.opcode,
    (IF m.isMasked THEN 128 ELSE 0)
      + CASE size = 1 -> m.length [] size = 2 -> 126 [] OTHER -> 127>>
  \o (IF size > 1 THEN Big(m.length, size) ELSE <<>>)
  \o (IF m.isMasked THEN maskingKey ELSE <<>>)

NoMessage == [read |-> 0]

(* Of a stream of which the first `arrived` bytes are there: the message   *)
(* and the number of bytes it took, or none if it needs more.              *)
readMessage(head, payload, arrived) ==
  LET buff == SubSeq(head, 1, Min({arrived, Len(head)}))
      first == Take(buff, 1, 1)
      second == Take(buff, first.p, 1)
      isMasked == second.v[1] >= 128
      short == second.v[1] % 128
      more == Take(buff, second.p, CASE short = 126 -> 2 [] short = 127 -> 8 [] OTHER -> 0)
      length == IF short < 126 THEN short ELSE FromBig(more.v)
      key == Take(buff, more.p, IF isMasked THEN 4 ELSE 0)
      end == key.p - 1 + length
  IN  IF second.p = 0 \/ key.p = 0 \/ end > arrived THEN NoMessage
      ELSE [read |-> end,
            message |-> Message(first.v[1] >= 128, first.v[1] % 16, isMasked, length,
                                IF isMasked THEN mask(payload) ELSE payload)]
=============================================================================
