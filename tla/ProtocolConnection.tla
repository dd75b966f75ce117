------------------------- MODULE ProtocolConnection -------------------------
(***************************************************************************)
(* protocol.ProtocolConnection: one socket, the receiver thread that the   *)
(* connection creates, and threads of the application that call sendData() *)
(* and close().  The peer sends a stream of frames that reaches recv() cut *)
(* at any place; the receiver puts it in a buffer and takes the frames out *)
(* of it through the protocol layers.                                      *)
(*                                                                         *)
(* A frame's kind says what the layers do with it: a "data" frame reaches  *)
(* onData, an "inner" frame is kept by onDataInner, a "stop" frame raises  *)
(* StopUnpacking below the last layer, and a "bad" frame makes an unpacker *)
(* raise an exception that tryReceivedData does not catch.                 *)
(*                                                                         *)
(* An action runs from one call the thread makes to the next: there the    *)
(* interpreter may switch threads.  The socket, the peer and the network   *)
(* are external.                                                           *)
(***************************************************************************)
EXTENDS Integers, Sequences

CONSTANTS
  Users,      \* application threads
  Receiver,   \* the connection's own thread
  Frames,     \* the peer's stream, a sequence of [kind, end]: the f-th frame
              \* is the units after the end of the one before, up to its own
  Chunks,     \* the number of chunks a message is sent in
  MaxCalls    \* bound: calls of sendData and close that a thread makes

Kinds == {"data", "inner", "stop", "bad"}

NoThread == "none"
Threads == Users \cup {Receiver}

ASSUME ReceiverAssumption == Receiver \notin Users /\ NoThread \notin Threads
ASSUME FramesAssumption ==
  /\ Frames \in Seq([kind : Kinds, end : Nat \ {0}])
  /\ \A f, g \in DOMAIN Frames : f < g => Frames[f].end < Frames[g].end
ASSUME BoundsAssumption == Chunks \in Nat \ {0} /\ MaxCalls \in Nat

VARIABLES
  \* the world outside
  sent,       \* units of the stream the peer has sent
  peer,       \* "open", "fin": it ended its stream, "rst": it reset the connection
  blocked,    \* the threads that wait in sendall for the peer to read
  sockOpen,
  outbound,   \* the chunks written to the socket, as <<message, chunk>>
  \* the receiver
  rpc,
  received,   \* units of the stream read from the socket
  buff,       \* the buffer: the places in the stream of the units it holds
  pointer,
  cur,        \* the frame being handled
  handled,    \* history: what was handled, as <<frame, path>>
  late,       \* history: how many of them since closed was set
  \* close() and sendData()
  closed,
  notified,   \* history: causes passed to the close listeners
  sendingLock,
  pc, cause, chunk, calls

net == <<sent, peer, blocked>>
input == <<received, buff, pointer, cur>>
output == <<sendingLock, outbound, chunk>>
ending == <<closed, sockOpen, notified>>
history == <<handled, late>>
local == <<pc, cause, calls>>
vars == <<net, input, output, ending, history, local, rpc>>

Causes == {"user", "eof", "error", "timeout"}

End(f) == IF f = 0 THEN 0 ELSE Frames[f].end
StreamSize == End(Len(Frames))
Paths == [f \in DOMAIN Frames |-> Frames[f].kind]

(* The constructor of a client whose connect() timed out has closed the    *)
(* connection; it starts the receiver all the same.                        *)
Init ==
  /\ sent = 0 /\ peer = "open" /\ blocked = {}
  /\ received = 0 /\ buff = <<>> /\ pointer = 0 /\ cur = 0
  /\ sendingLock = NoThread /\ outbound = <<>>
  /\ handled = <<>> /\ late = 0
  /\ rpc = "off"
  /\ pc = [t \in Threads |-> "idle"]
  /\ cause = [t \in Threads |-> "user"]
  /\ chunk = [t \in Threads |-> 0]
  /\ calls = [t \in Threads |-> 0]
  /\ \/ closed = FALSE /\ sockOpen = TRUE /\ notified = <<>>
     \/ closed = TRUE /\ sockOpen = FALSE /\ notified = <<"timeout">>

-----------------------------------------------------------------------------
(* The peer *)

PeerSend ==
  /\ peer = "open"
  /\ sent < StreamSize
  /\ sent' = sent + 1
  /\ UNCHANGED <<peer, blocked, input, output, ending, history, local, rpc>>

PeerEnd ==
  /\ peer # "rst"
  /\ peer' \in {"fin", "rst"} \ {peer}
  /\ UNCHANGED <<sent, blocked, input, output, ending, history, local, rpc>>

(* It reads what was sent to it, so that sendall has room again. *)
PeerReads ==
  /\ blocked # {}
  /\ blocked' = {}
  /\ UNCHANGED <<sent, peer, input, output, ending, history, local, rpc>>

-----------------------------------------------------------------------------
(* close(cause): the check and the assignment have no call between them. *)

BeginClose(t, c) ==
  /\ pc' = [pc EXCEPT ![t] = "c_check"]
  /\ cause' = [cause EXCEPT ![t] = c]

CloseUnchecked(t) ==
  /\ pc[t] = "c_check"
  /\ closed' = TRUE
  /\ pc' = [pc EXCEPT ![t] = "c_sock"]
  /\ UNCHANGED <<net, input, output, sockOpen, notified, history, cause, calls, rpc>>

CheckClosed(t) ==
  /\ pc[t] = "c_check"
  /\ closed' = TRUE
  /\ pc' = [pc EXCEPT ![t] = IF closed THEN "idle" ELSE "c_sock"]
  /\ UNCHANGED <<net, input, output, sockOpen, notified, history, cause, calls, rpc>>

CloseSocket(t) ==
  /\ pc[t] = "c_sock"
  /\ sockOpen' = FALSE
  /\ pc' = [pc EXCEPT ![t] = "c_notify"]
  /\ UNCHANGED <<net, input, output, closed, notified, history, cause, calls, rpc>>

(* A listener may call sendData(). *)
NotifyListeners(t) ==
  /\ pc[t] = "c_notify"
  /\ notified' = Append(notified, cause[t])
  /\ \/ pc' = [pc EXCEPT ![t] = "idle"] /\ UNCHANGED calls
     \/ /\ calls[t] < MaxCalls
        /\ calls' = [calls EXCEPT ![t] = @ + 1]
        /\ pc' = [pc EXCEPT ![t] = "s_lock"]
  /\ UNCHANGED <<net, input, output, closed, sockOpen, history, cause, rpc>>

-----------------------------------------------------------------------------
(* sendData(data): the chunks go out under sendingLock. *)

LockIgnored(t) ==
  /\ pc[t] = "s_lock"
  /\ sendingLock' = t
  /\ pc' = [pc EXCEPT ![t] = "s_chunk"]
  /\ UNCHANGED <<net, input, outbound, chunk, ending, history, cause, calls, rpc>>

LockSending(t) ==
  /\ pc[t] = "s_lock"
  /\ sendingLock = NoThread
  /\ sendingLock' = t
  /\ pc' = [pc EXCEPT ![t] = "s_chunk"]
  /\ UNCHANGED <<net, input, outbound, chunk, ending, history, cause, calls, rpc>>

(* sendall has no time-out: it waits for as long as the peer does not read *)
(* what was sent before.                                                   *)
SendBlocks(t) ==
  /\ pc[t] = "s_chunk" /\ t \notin blocked
  /\ chunk[t] < Chunks
  /\ sockOpen /\ peer # "rst"
  /\ blocked' = blocked \cup {t}
  /\ UNCHANGED <<sent, peer, input, output, ending, history, local, rpc>>

Unblock(t) ==
  /\ t \in blocked
  /\ blocked' = blocked \ {t}
  /\ UNCHANGED <<sent, peer, input, output, ending, history, local, rpc>>

SendReset(t) == peer = "rst" /\ Unblock(t)

(* On some systems closing the socket wakes the thread blocked in sendall. *)
SendAborted(t) == ~sockOpen /\ Unblock(t)

SendChunk(t) ==
  /\ pc[t] = "s_chunk" /\ t \notin blocked
  /\ chunk[t] < Chunks
  /\ sockOpen /\ peer # "rst"
  /\ chunk' = [chunk EXCEPT ![t] = @ + 1]
  /\ outbound' = Append(outbound, <<t, calls[t], chunk[t] + 1>>)
  /\ UNCHANGED <<net, input, sendingLock, ending, history, local, rpc>>

SendReturns(t) ==
  /\ pc[t] = "s_chunk"
  /\ chunk[t] = Chunks
  /\ sendingLock' = NoThread
  /\ chunk' = [chunk EXCEPT ![t] = 0]
  /\ pc' = [pc EXCEPT ![t] = "idle"]
  /\ UNCHANGED <<net, input, outbound, ending, history, cause, calls, rpc>>

(* As if the lock were released after the loop and not by the with block. *)
SendFailsLocked(t) ==
  /\ pc[t] = "s_chunk" /\ t \notin blocked
  /\ chunk[t] < Chunks
  /\ ~sockOpen \/ peer # "open"
  /\ peer' = IF sockOpen THEN "rst" ELSE peer
  /\ chunk' = [chunk EXCEPT ![t] = 0]
  /\ BeginClose(t, "error")
  /\ UNCHANGED <<sent, blocked, input, sendingLock, outbound, ending, history, calls, rpc>>

(* sendall raises OSError: the lock is released, then the handler closes.  *)
(* An open socket that fails once has lost its connection.                 *)
SendFails(t) ==
  /\ pc[t] = "s_chunk" /\ t \notin blocked
  /\ chunk[t] < Chunks
  /\ ~sockOpen \/ peer # "open"
  /\ sendingLock' = NoThread
  /\ peer' = IF sockOpen THEN "rst" ELSE peer
  /\ chunk' = [chunk EXCEPT ![t] = 0]
  /\ BeginClose(t, "error")
  /\ UNCHANGED <<sent, blocked, input, outbound, ending, history, calls, rpc>>

-----------------------------------------------------------------------------
(* The application *)

CallClose(u) ==
  /\ pc[u] = "idle" /\ calls[u] < MaxCalls
  /\ calls' = [calls EXCEPT ![u] = @ + 1]
  /\ BeginClose(u, "user")
  /\ UNCHANGED <<net, input, output, ending, history, rpc>>

CallSend(u) ==
  /\ pc[u] = "idle" /\ calls[u] < MaxCalls
  /\ calls' = [calls EXCEPT ![u] = @ + 1]
  /\ pc' = [pc EXCEPT ![u] = "s_lock"]
  /\ UNCHANGED <<net, input, output, ending, history, cause, rpc>>

StartRecv ==
  /\ rpc = "off"
  /\ rpc' = "loop"
  /\ UNCHANGED <<net, input, output, ending, history, local>>

-----------------------------------------------------------------------------
(* receive() *)

CheckLoop ==
  /\ rpc = "loop"
  /\ rpc' = IF closed THEN "done" ELSE "recv"
  /\ UNCHANGED <<net, input, output, ending, history, local>>

CloseThenStop(c) ==
  /\ BeginClose(Receiver, c)
  /\ rpc' = "closing"
  /\ UNCHANGED <<net, input, output, ending, history, calls>>

EnterRecv ==
  /\ rpc = "recv"
  /\ \/ /\ sockOpen
        /\ rpc' = "blocked"
        /\ UNCHANGED <<net, input, output, ending, history, local>>
     \/ ~sockOpen /\ CloseThenStop("error")

(* Data that arrives in the call is returned even if the socket was closed *)
(* meanwhile.                                                              *)
ReceiveData(n) ==
  /\ rpc = "blocked"
  /\ peer # "rst"
  /\ received + n <= sent
  /\ buff' = buff \o [i \in 1..n |-> received + i]
  /\ received' = received + n
  /\ pointer' = 0
  /\ rpc' = "scan"
  /\ UNCHANGED <<net, cur, output, ending, history, local>>

(* As if an empty result of recv() were just no data. *)
ReceiveEmptyIgnored ==
  /\ rpc = "blocked"
  /\ peer = "fin" /\ received = sent
  /\ rpc' = "recv"
  /\ UNCHANGED <<net, input, output, ending, history, local>>

ReceiveEmpty ==
  /\ rpc = "blocked"
  /\ peer = "fin" /\ received = sent
  /\ CloseThenStop("eof")

ReceiveReset ==
  /\ rpc = "blocked"
  /\ peer = "rst"
  /\ CloseThenStop("error")

(* On some systems closing the socket wakes the thread blocked in recv().  *)
ReceiveAborted ==
  /\ rpc = "blocked"
  /\ ~sockOpen
  /\ CloseThenStop("error")

CheckBuffer ==
  /\ rpc = "scan"
  /\ rpc' = IF pointer < Len(buff) /\ ~closed THEN "try" ELSE "loop"
  /\ UNCHANGED <<net, input, output, ending, history, local>>

-----------------------------------------------------------------------------
(* tryReceivedData(buff) *)

CheckTry ==
  /\ rpc = "try"
  /\ rpc' = IF closed THEN "reset" ELSE "unpack"
  /\ UNCHANGED <<net, input, output, ending, history, local>>

(* The frame the layers see at the pointer: 0 when it is not at the first  *)
(* unit of one, and a unit is then taken for a frame.                      *)
StartsHere(f) == buff[pointer + 1] = End(f - 1) + 1
FrameHere == IF \E f \in DOMAIN Frames : StartsHere(f)
             THEN CHOOSE f \in DOMAIN Frames : StartsHere(f)
             ELSE 0
Kind(f) == IF f = 0 THEN "data" ELSE Frames[f].kind
Size(f) == IF f = 0 THEN 1 ELSE End(f) - End(f - 1)

NeedMoreData ==
  /\ rpc = "unpack"
  /\ Len(buff) - pointer < Size(FrameHere)
  /\ pointer' \in pointer..Len(buff)
  /\ rpc' = "loop"
  /\ UNCHANGED <<net, received, buff, cur, output, ending, history, local>>

Unpack ==
  /\ rpc = "unpack"
  /\ Len(buff) - pointer >= Size(FrameHere)
  /\ Kind(FrameHere) # "bad"
  /\ cur' = FrameHere
  /\ pointer' = pointer + Size(FrameHere)
  /\ rpc' = IF Kind(FrameHere) = "stop" THEN "handle" ELSE "unpacked"
  /\ UNCHANGED <<net, received, buff, output, ending, history, local>>

(* The exception ends the receiver; nothing closes the connection. *)
UnpackRaises ==
  /\ rpc = "unpack"
  /\ Len(buff) - pointer >= Size(FrameHere)
  /\ Kind(FrameHere) = "bad"
  /\ rpc' = "dead"
  /\ UNCHANGED <<net, input, output, ending, history, local>>

CheckUnpacked ==
  /\ rpc = "unpacked"
  /\ rpc' = IF closed THEN "reset" ELSE "handle"
  /\ UNCHANGED <<net, input, output, ending, history, local>>

(* onDataInner and onData; either may call close() or sendData(). *)
Handle ==
  /\ rpc = "handle"
  /\ handled' = Append(handled, <<cur, Kind(cur)>>)
  /\ late' = IF closed THEN late + 1 ELSE late
  /\ rpc' = "callback"
  /\ \/ UNCHANGED local
     \/ BeginClose(Receiver, "user") /\ UNCHANGED calls
     \/ /\ calls[Receiver] < MaxCalls
        /\ calls' = [calls EXCEPT ![Receiver] = @ + 1]
        /\ pc' = [pc EXCEPT ![Receiver] = "s_lock"]
        /\ UNCHANGED cause
  /\ UNCHANGED <<net, input, output, ending>>

ReceiverReturns ==
  /\ pc[Receiver] = "idle"
  /\ \/ rpc = "callback" /\ rpc' = "reset"
     \/ rpc = "closing" /\ rpc' = "done"
  /\ UNCHANGED <<net, input, output, ending, history, local>>

(* As if one frame were taken out of the buffer for each recv(). *)
DropAndReceive ==
  /\ rpc = "reset"
  /\ buff' = SubSeq(buff, pointer + 1, Len(buff))
  /\ pointer' = 0
  /\ rpc' = "loop"
  /\ UNCHANGED <<net, received, cur, output, ending, history, local>>

ResetBeforePointer ==
  /\ rpc = "reset"
  /\ buff' = SubSeq(buff, pointer + 1, Len(buff))
  /\ pointer' = 0
  /\ rpc' = "scan"
  /\ UNCHANGED <<net, received, cur, output, ending, history, local>>

-----------------------------------------------------------------------------
Receive ==
  \/ CheckLoop \/ EnterRecv \/ CheckBuffer
  \/ ReceiveEmpty \/ ReceiveReset \/ \E n \in 1..StreamSize : ReceiveData(n)
  \/ CheckTry \/ NeedMoreData \/ Unpack \/ UnpackRaises \/ CheckUnpacked
  \/ Handle \/ ReceiverReturns \/ ResetBeforePointer

RunCall(t) ==
  \/ CheckClosed(t) \/ CloseSocket(t) \/ NotifyListeners(t)
  \/ LockSending(t) \/ SendChunk(t) \/ SendReturns(t) \/ SendFails(t)
  \/ SendBlocks(t) \/ SendReset(t)

Next ==
  \/ PeerSend \/ PeerEnd \/ PeerReads \/ StartRecv \/ ReceiveAborted \/ Receive
  \/ \E t \in Threads : RunCall(t) \/ SendAborted(t)
  \/ \E u \in Users : CallClose(u) \/ CallSend(u)

Spec == Init /\ [][Next]_vars

(* Threads that can run are run.  Nothing makes the peer send, read or     *)
(* end, the application call, or a close wake a thread blocked in the      *)
(* socket.                                                                 *)
FairSpec ==
  /\ Spec
  /\ WF_vars(Receive)
  /\ \A t \in Threads : WF_vars(RunCall(t))

-----------------------------------------------------------------------------
(* Properties *)

(* Every variable has its type; the pointer is inside the buffer.          *)
TypeOK ==
  /\ sent \in 0..StreamSize /\ received \in 0..sent
  /\ peer \in {"open", "fin", "rst"} /\ blocked \subseteq Threads
  /\ sockOpen \in BOOLEAN /\ closed \in BOOLEAN
  /\ buff \in Seq(1..StreamSize) /\ pointer \in 0..Len(buff)
  /\ cur \in 0..Len(Frames)
  /\ rpc \in {"off", "loop", "recv", "blocked", "scan", "try", "unpack", "unpacked",
              "handle", "callback", "reset", "closing", "done", "dead"}
  /\ pc \in [Threads -> {"idle", "c_check", "c_sock", "c_notify", "s_lock", "s_chunk"}]
  /\ cause \in [Threads -> Causes]
  /\ chunk \in [Threads -> 0..Chunks]
  /\ calls \in [Threads -> 0..MaxCalls]
  /\ sendingLock \in Threads \cup {NoThread}
  /\ notified \in Seq(Causes)
  /\ outbound \in Seq(Threads \X (0..MaxCalls) \X (1..Chunks))
  /\ handled \in Seq((0..Len(Frames)) \X Kinds) /\ late \in Nat

(* Two sendData() calls never mix their chunks on the socket: a chunk that *)
(* is not the first of its message follows its predecessor, and a message  *)
(* that is cut short is the last thing written.                            *)
MessagesAreContiguous ==
  \A i \in DOMAIN outbound :
    LET m == outbound[i] IN
      /\ m[3] > 1 => i > 1 /\ outbound[i - 1] = <<m[1], m[2], m[3] - 1>>
      /\ m[3] < Chunks => \/ i = Len(outbound)
                          \/ outbound[i + 1] = <<m[1], m[2], m[3] + 1>>

Channel == INSTANCE FrameChannel

(* However the stream is cut and whoever closes the connection when, its   *)
(* frames are handled in order, once each and whole, at most one of them   *)
(* after the connection is closed, and the listeners are told once.        *)
ImplementsChannel == Channel!Spec

(* A thread waits in sendall, with the lock, for a peer that does not      *)
(* read: whoever sends after it waits too, and only the peer can end this. *)
Stalled == blocked # {} /\ peer # "rst"

(* A frame that has arrived whole is handled without waiting for more data *)
(* to arrive, unless the connection ends first, or a listener sends to a   *)
(* peer that does not read.                                                *)
ArrivedFramesAreHandled ==
  \A f \in DOMAIN Frames :
    (sent >= End(f))
      ~> (Len(handled) >= f \/ closed \/ peer = "rst" \/ Stalled \/ rpc \in {"off", "dead"})

(* sendData() returns, whoever closes the connection and whatever fails,   *)
(* and though a close listener sends: no way out of it leaves the lock     *)
(* taken.  What can hold it is a peer that has stopped to read; while it   *)
(* does not, closing the connection need not help.                         *)
SendEnds ==
  \A t \in Threads : (pc[t] \in {"s_lock", "s_chunk"}) ~> (pc[t] = "idle" \/ Stalled)

(* When the peer ends the connection, the receiver ends and the listeners  *)
(* are told, unless an unpacker raised or a listener of the receiver sends *)
(* to a peer that has ended its stream and does not read.                  *)
PeerEndClosesConnection ==
  (peer # "open" /\ rpc # "off")
    ~> (rpc = "dead" \/ (rpc = "done" /\ notified # <<>>) \/ Stalled)
=============================================================================
