------------------------------- MODULE Formats ------------------------------
(***************************************************************************)
(* What KUtil writes to be read again, by itself or by a peer: a file of   *)
(* storage.bon, and a WebSocket frame in a stream.  The writer may end or  *)
(* the network pause after any byte, and in a stream other bytes follow:   *)
(* the reader has what has arrived, and tries.                             *)
(***************************************************************************)
EXTENDS BonStorage, WSMessages

CONSTANTS
  Heaps,      \* the data that is stored
  Messages,   \* the frames that are sent
  Behind      \* how many bytes of a next frame may have arrived, too

ASSUME InputsAssumption ==
  /\ \A h \in Heaps : IsHeap(h) /\ IsShallow(h)
  /\ \A m \in Messages : IsMessage(m)
  /\ Behind \in Nat

VARIABLES
  subject,    \* what is written
  wire,       \* the bytes of a file, or the head of a frame
  arrived,    \* how many of all its bytes are there
  back,       \* what is read of them
  at          \* "write", "raised", "transfer", "read" or "end"

formatsVars == <<subject, wire, arrived, back, at>>

Stored(h) == [kind |-> "bon", data |-> h]
Sent(m) == [kind |-> "frame", data |-> m]

FormatsInit ==
  /\ \/ \E h \in Heaps : subject = Stored(h)
     \/ \E m \in Messages : subject = Sent(m)
  /\ wire = <<>> /\ arrived = 0 /\ back = <<>>
  /\ at = "write"

Step(from, to) == at = from /\ at' = to

(* dump_binary.  The data it raises for is not written. *)
Dump ==
  /\ subject.kind = "bon"
  /\ IF Unencodable(subject.data)
     THEN Step("write", "raised") /\ wire' = <<>>
     ELSE Step("write", "transfer") /\ wire' = encode(subject.data)
  /\ UNCHANGED <<subject, arrived, back>>

WriteFrame ==
  /\ subject.kind = "frame"
  /\ Step("write", "transfer")
  /\ wire' = writeMessage(subject.data)
  /\ UNCHANGED <<subject, arrived, back>>

(* A file may end anywhere; of a payload only the ends are of interest. *)
Total == Len(wire) + IF subject.kind = "frame" THEN subject.data.length ELSE 0
Transfer ==
  /\ Step("transfer", "read")
  /\ arrived' \in 0..Len(wire) \cup {Total - 1, Total}
                  \cup (IF subject.kind = "frame" THEN {Total + Behind} ELSE {})
  /\ UNCHANGED <<subject, wire, back>>

(* load_binary *)
Load ==
  /\ subject.kind = "bon"
  /\ Step("read", "end")
  /\ back' = decode(SubSeq(wire, 1, arrived))
  /\ UNCHANGED <<subject, wire, arrived>>

ReadFrame ==
  /\ subject.kind = "frame"
  /\ Step("read", "end")
  /\ back' = readMessage(wire, subject.data.payload, arrived)
  /\ UNCHANGED <<subject, wire, arrived>>

FormatsNext == Dump \/ WriteFrame \/ Transfer \/ Load \/ ReadFrame

FormatsSpec == FormatsInit /\ [][FormatsNext]_formatsVars

-----------------------------------------------------------------------------
(* Properties *)

Done(kind) == at = "end" /\ subject.kind = kind
Items == UNION {{n.items[j] : j \in DOMAIN n.items} : n \in Range(subject.data)}
Strings == {v.v : v \in {i \in Items : i.t = "str"}}
             \cup UNION {Range(n.keys) : n \in Range(subject.data)}

(* A file that is whole is read as what was written, as Python compares    *)
(* data: whatever is shared, contains itself or is equal to something else *)
(* in it.  Strings are of characters of one byte, and nan, which equals    *)
(* nothing, is left out.                                                   *)
Joined(h, g) ==
  LET Shift(n) == [n EXCEPT !.items =
                     [j \in DOMAIN n.items |-> IF n.items[j].t = "ref" THEN Ref(n.items[j].v[1] + Len(h))
                                               ELSE n.items[j]]]
  IN  h \o [k \in DOMAIN g |-> Shift(g[k])]

ReadsBackEqual ==
  /\ Done("bon") /\ arrived = Len(wire)
  /\ \A s \in Strings : \A i \in DOMAIN s : s[i] < 128
  /\ ~\E v \in Items : v.t = "float" /\ v.v = <<Nan>>
  => /\ back # Raised
     /\ PyEq(Joined(subject.data, back), Len(subject.data) * Len(back), Ref(1), Ref(Len(subject.data) + 1)) # "different"

(* A file or a frame of which a part is missing is never taken for another *)
(* one: the reader fails, or it did not need that part.                    *)
CutIsNoticed ==
  /\ Done("bon") /\ back # Raised => back = decode(wire)
  /\ Done("frame") /\ arrived < Total => back = NoMessage

(* Every length of a payload, at each of the boundaries of its three       *)
(* encodings, and every mask, is read as it was written, and the frame     *)
(* that follows is left where it begins.                                   *)
FrameReadsBack ==
  Done("frame") /\ arrived >= Total =>
    LET m == subject.data IN
    back = [read |-> Total,
            message |-> [m EXCEPT !.payload = IF m.isMasked THEN mask(@) ELSE @]]

(* Storing fails for nothing but an integer whose magnitude leaves no bit  *)
(* for its sign, 128..255 and so on, and for data that holds itself in two *)
(* ways that no comparison can tell apart.                                 *)
Reachable ==
  UNION {Range(subject.data[k].items) : k \in Range(gen_pool(subject.data))}
NoRoomForSign(n) == n # 0 /\ bit_length(n) % 8 = 0 /\ n \notin {-(2 ^ 7), -(2 ^ 15), -(2 ^ 23)}

FailsOnlyForSigns ==
  subject.kind = "bon" /\ at # "write" /\ gen_pool(subject.data) # Endless =>
    (at = "raised" <=> \E v \in Reachable : v.t = "int" /\ NoRoomForSign(v.v[1]))
=============================================================================
