--------------------------- MODULE MCByteBuffers ---------------------------
(* A memory buffer and a file, and buffers made of them.                    *)
EXTENDS ByteBuffers

MCBuffers == 1 .. 5
MCByte == {0, 1}
MCNewLine == <<0, 1>>
MCStart == << <<0, 1>>, <<1, 0>> >>
MCData == {<<1>>}
=============================================================================
